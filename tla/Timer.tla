------------------------------- MODULE Timer -------------------------------
(***************************************************************************)
(* The arithmetic of timer.c on struct timeval and struct timespec, which  *)
(* the recorder and the measured migration times rest on.  Seconds are     *)
(* integers: the clock is nowhere near 2^63.                               *)
(***************************************************************************)
EXTENDS Integers

\* Microseconds in a second.
Million == 100 * 100 * 100

\* What gettimeofday returns: the microseconds are below a second.
Timeval == [tv_sec : Int, tv_usec : 0 .. Million - 1]

timeDiff(a, b) ==
  LET sec  == a.tv_sec - b.tv_sec
      usec == a.tv_usec - b.tv_usec
  IN IF usec < 0 THEN [tv_sec |-> sec - 1, tv_usec |-> usec + Million]
                 ELSE [tv_sec |-> sec, tv_usec |-> usec]

cal_tv(t) == t.tv_sec * Million + t.tv_usec

\* In microseconds; elapsed returns the same number of seconds as a double.
elapsed_long(start, end) == cal_tv(timeDiff(end, start))

=============================================================================
