--------------------- MODULE MCReplicateResultProcessor ---------------------
(* Instances of ReplicateResultProcessor for TLC. *)
EXTENDS ReplicateResultProcessor

CONSTANTS a, b

\* Deletions, and removals, among the revisions of a, so that both kinds meet in
\* the queue and older and newer revisions meet the removal.
SecondOfA == {<<a, 2>>}
NoDeletion == {}

\* Revisions per document.
TwoOfEach == [d \in {a, b} |-> 2]
ThreeAndOne == [d \in {a, b} |-> IF d = a THEN 3 ELSE 1]
OneOfEach == [d \in {a, b} |-> 1]
ThreeOfA  == [d \in {a} |-> 3]
TwoOfA    == [d \in {a} |-> 2]
=============================================================================
