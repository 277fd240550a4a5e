-------------------------- MODULE ReflectionLedger --------------------------
(***************************************************************************)
(* What the reflection of replicated documents promises, without its       *)
(* queue, its jobs and its snapshots: revisions arrive in the database,    *)
(* are handed to the vault in the order of the history, except past the    *)
(* removal of a document and for documents with branches, and are recorded *)
(* in a durable ledger from which a change disappears only when it is      *)
(* settled, that is reflected, superseded, not to be reflected, or given   *)
(* up after a failure.                                                     *)
(***************************************************************************)
EXTENDS Naturals

CONSTANTS
    Docs,
    Excluded,   \* the documents that are not to be reflected
    Branching,  \* the documents that may have several branches
    Removed,    \* the <<document, revision>> pairs that remove their document
    MayFail     \* whether a reflection may fail and be given up

VARIABLES latest, handed, reached, settled, ledger

vars == <<latest, handed, reached, settled, ledger>>

Init ==
    /\ latest = [d \in Docs |-> 0]
    /\ handed = [d \in Docs |-> 0]
    /\ reached = [d \in Docs |-> 0]
    /\ settled = [d \in Docs |-> 0]
    /\ ledger = {}

Arrive(d) ==
    /\ latest' = [latest EXCEPT ![d] = @ + 1]
    /\ UNCHANGED <<handed, reached, settled, ledger>>

\* A revision is reflected: one at least as new as the last, unless the
\* document was removed since that one, or has branches.
Reflect(d, rev) ==
    /\ \/ handed[d] <= rev
       \/ d \in Branching
       \/ \E r \in handed[d]..latest[d] : <<d, r>> \in Removed
    /\ rev <= latest[d]
    /\ handed' = [handed EXCEPT ![d] = rev]
    /\ reached' = [reached EXCEPT ![d] = IF @ < rev THEN rev ELSE @]
    /\ UNCHANGED <<latest, settled, ledger>>

\* A revision is settled: it was reflected, has been superseded in the
\* database, its document is not to be reflected, or its reflection failed.
Settle(d, rev) ==
    /\ settled[d] < rev
    /\ reached[d] >= rev \/ latest[d] > rev \/ d \in Excluded \/ MayFail
    /\ settled' = [settled EXCEPT ![d] = rev]
    /\ UNCHANGED <<latest, handed, reached, ledger>>

\* The ledger is rewritten without forgetting what is not settled.
Record ==
    /\ \A c \in ledger :
          \/ settled[c.id] >= c.rev
          \/ \E e \in ledger' : e.id = c.id /\ e.rev >= c.rev
    /\ \A e \in ledger' : e.rev <= latest[e.id]
    /\ UNCHANGED <<latest, handed, reached, settled>>

Next ==
    \/ \E d \in Docs : Arrive(d)
    \/ \E d \in Docs : \E rev \in 1..latest[d] : Reflect(d, rev) \/ Settle(d, rev)
    \/ Record

Spec == Init /\ [][Next]_vars
=============================================================================
