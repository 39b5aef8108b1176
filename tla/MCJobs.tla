-------------------------------- MODULE MCJobs --------------------------------
(* An instance of JobTurns: two refs of one level, the first with two turns   *)
(* in a row, the second with one.                                             *)
EXTENDS JobTurns, TLC

CONSTANTS c1, q1, q2, j1, j2, f1, b1

LevelsLevel == (q1 :> 0 @@ q2 :> 0)
LevelsIndex == (q1 :> 0 @@ q2 :> 1)
LevelsBound == (q1 :> 3 @@ q2 :> 1)
LevelsFrequency == (q1 :> 1 @@ q2 :> 0)

KindOf == [j \in Job |->
             IF j = f1 THEN "fence"
             ELSE IF j = b1 THEN "barrier" ELSE "executable"]
=============================================================================
