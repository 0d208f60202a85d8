------------------------------ MODULE TimedWait ------------------------------
(***************************************************************************)
(* Condition::wait(milliseconds) on unix: its deadline, what it takes for  *)
(* an error, and the time it returns.  A time is <<seconds, nanoseconds>>  *)
(* of CLOCK_MONOTONIC; the condition variable measures with                *)
(* CLOCK_REALTIME, of which the deadline is long past.                     *)
(***************************************************************************)
EXTENDS Integers

CONSTANTS Clocks, Delays

VARIABLES start, endTime, milliseconds, errno, outcome, ret

\* The nanoseconds of the start are left out.
waitTillTime(from, ms) ==
    LET nsec == (ms % 1000) * 1000000
        over == nsec > 1000000000
    IN <<from[1] + ms \div 1000 + (IF over THEN 1 ELSE 0),
         IF over THEN nsec - 1000000000 ELSE nsec>>

\* The difference of two times: a division of C rounds towards zero.
Toward0(n, d) == IF n < 0 THEN -((-n) \div d) ELSE n \div d
difference(to, from) == (to[1] - from[1]) * 1000 + Toward0(to[2] - from[2], 1000000)

Init ==
    /\ start \in Clocks /\ endTime = start /\ milliseconds \in Delays
    /\ errno \in {"ETIMEDOUT", "other"}
    /\ outcome = "waits" /\ ret = 0

\* pthread_cond_timedwait() comes back at once with ETIMEDOUT, and sets no
\* errno: the program aborts unless an earlier call left the right one.
wait ==
    /\ outcome = "waits"
    /\ IF errno # "ETIMEDOUT" THEN outcome' = "aborted" /\ UNCHANGED <<endTime, ret>>
       ELSE /\ outcome' = "returned"
            /\ endTime' \in {c \in Clocks : c[1] > start[1] \/ (c[1] = start[1] /\ c[2] >= start[2])}
            /\ ret' = difference(endTime', start)
    /\ UNCHANGED <<start, milliseconds, errno>>

Next == wait

-----------------------------------------------------------------------------

\* The outcome is one of three.
TypeOK == outcome \in {"waits", "returned", "aborted"} /\ ret \in Int

\* The time that was waited is told with an error of less than a
\* millisecond, though the seconds and the nanoseconds are taken apart.
Guarded ==
    outcome = "returned" =>
        LET error == (ret - (endTime[1] - start[1]) * 1000) * 1000000 - (endTime[2] - start[2])
        IN -1000000 < error /\ error < 1000000

\* "a time that is the current time plus the passed milliseconds": a time of
\* the clock, and that far from the start.  The nanoseconds of the start are
\* left out, by which the deadline is early: only a start on the second is
\* not exempt.
Accounted ==
    LET till == waitTillTime(start, milliseconds)
    IN /\ 0 <= till[2] /\ till[2] <= 999999999
       /\ start[2] = 0 => difference(till, start) = milliseconds
=============================================================================
