------------------------------ MODULE MCOSAlarm ------------------------------
(***************************************************************************)
(* Three alarms, one of them the DVD's, set once or periodic, over a       *)
(* decrementer of two ticks.                                               *)
(***************************************************************************)
EXTENDS OSAlarm, TLC

CONSTANTS a1, a2, a3

Delays == {0, 3}
Periods == {1}

\* The fields of an alarm that is not set are written before they are read.
Live == [now |-> now, head |-> queue.head, tail |-> queue.tail, dec |-> queue.dec,
         alarm |-> [a \in armed |-> <<queue.next[a], queue.prev[a], end[a], period[a],
                                     IF period[a] > 0 THEN start[a] ELSE 0>>],
         pending |-> pending, handling |-> handling, up |-> up]
=============================================================================
