--------------------------- MODULE FeedPipelineMC ---------------------------
(* Instances of the pipeline for TLC. *)
EXTENDS FeedPipelineProperties, TLC

(* Budgets of failing calls. *)
NoErrors == [k \in ErrorKind |-> 0]
OneError == [k \in ErrorKind |-> 1]
OneDbError == [k \in ErrorKind |-> IF k = "db" THEN 1 ELSE 0]

(* The messages from outside, and an intent message that is sent once more. *)
OffsetsOnce == [p \in Partition |-> IF p \in LocationPartition THEN 1 ELSE 2]

(* The processes are interchangeable, and so are the payload ids. *)
ConsumerSymmetry == Permutations(Consumer)
DocSymmetry == Permutations(DocId)
=============================================================================
