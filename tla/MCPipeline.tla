----------------------------- MODULE MCPipeline -----------------------------
(* Instances of the pipeline for TLC: the values the .cfg files choose from. *)
EXTENDS PipelineProperties, TLC

CONSTANTS w1, w2

TwoWorkers == {w1, w2}
OneWorker == {w1}
WorkerSymmetry == Permutations(Workers)

\* Tables
AllMatch == {[e \in Entities |-> "match"]}
MiddleOther == {[e \in Entities |-> IF e = 2 THEN "other" ELSE "match"]}
MiddleDeleted == {[e \in Entities |-> IF e = 2 THEN "deleted" ELSE "match"]}

\* Requests
ByFilter == <<>>
ByIds == <<3, 1, 3, 2>>

\* Dedup keys: the first and the last entity share one.
SharedKey == [e \in Entities |-> IF e \in {1, N} THEN "k" ELSE "none"]
NoKeys == [e \in Entities |-> "none"]
=============================================================================
