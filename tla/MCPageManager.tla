--------------------------- MODULE MCPageManager ---------------------------
(***************************************************************************)
(* The instances of PageManager that TLC checks.                           *)
(***************************************************************************)
EXTENDS PageManager, TLC

CONSTANTS a1, a2    \* two application threads

OneThread  == {a1}
TwoThreads == {a1, a2}

\* The threads of the application are interchangeable.
AppSymmetry == Permutations(App)

=============================================================================
