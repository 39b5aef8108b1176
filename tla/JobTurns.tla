------------------------------- MODULE JobTurns -------------------------------
(***************************************************************************)
(* JobProcessor with a history: how often the other refs of its level were *)
(* taken while a ref had a job ready.  It says what the frequencies, the   *)
(* turns left and the next indexes of NextQueue are for.                   *)
(***************************************************************************)
EXTENDS JobProcessor, FiniteSetsExt

VARIABLE overtaken

turnVars == <<vars, overtaken>>

Rivals(r) == {s \in Ref \ {r} : Level[s] = Level[r]}
Taken(r) == jobNumber'[r] = jobNumber[r] + 1

Overtake ==
  overtaken' = [r \in Ref |->
    IF ~Ready(r) \/ Taken(r) THEN 0
    ELSE overtaken[r] + Cardinality({s \in Rivals(r) : Taken(s)})]

TurnsInit == Init /\ overtaken = [r \in Ref |-> 0]
TurnsNext == Next /\ Overtake

TurnsSpec == TurnsInit /\ [][TurnsNext]_turnVars /\ Fairness

-----------------------------------------------------------------------------
(* Properties *)

\* No ref starves beside the others of its level: one that has a job ready is
\* passed by each of them at most as often as that one has turns in a row,
\* however their queues run empty and fill again and wherever the search was.  A
\* negative frequency gives up passes; the bound is for those that are not.
NoneStarved ==
  (\A r \in Ref : Frequency[r] >= 0) =>
    \A r \in Ref : overtaken[r] <= MapThenSumSet(LAMBDA s : Frequency[s] + 1, Rivals(r))
=============================================================================
