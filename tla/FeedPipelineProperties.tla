----------------------- MODULE FeedPipelineProperties -----------------------
(***************************************************************************)
(* What the consumers promise about the messages they are given, about the *)
(* rows they write and about the index they keep beside the rows.          *)
(***************************************************************************)
EXTENDS FeedPipeline

CONSTANT MaxLog  \* MaxLog[p]: bound on the offsets of p the liveness properties speak of

Task == [stage: Stage, entry: Nat, reason: Reason]

LogTypeOK == log \in [Partition -> Seq(Messages)]
WorkTypeOK == work \in [Consumer -> [Partition -> Task]]
HistoryTypeOK ==
    /\ finished \in [Partition -> SUBSET Nat]
    /\ acked \in [Partition -> SUBSET Nat]
OffsetTypeOK ==
    /\ committed \in [Partition -> Nat \union {NoOffset}]
    /\ base \in [Partition -> Nat]
    /\ position \in [Consumer -> [Partition -> Nat]]
    /\ marked \in [Consumer -> [Partition -> Nat \union {NoOffset}]]
MemberTypeOK ==
    /\ rebalancing \in BOOLEAN
    /\ phase \in [Consumer -> Phase]
    /\ claims \in [Consumer -> SUBSET Partition]
BudgetTypeOK ==
    /\ disruptions \in 0..MaxDisruptions
    /\ published \in 0..MaxPublished
    /\ errors \in [ErrorKind -> Nat]

(***************************************************************************)
(* The values the variables range over.                                    *)
(***************************************************************************)
TypeOK ==
    /\ LogTypeOK
    /\ WorkTypeOK
    /\ HistoryTypeOK
    /\ OffsetTypeOK
    /\ MemberTypeOK
    /\ StoreTypeOK
    /\ BudgetTypeOK

-----------------------------------------------------------------------------
(* Delivery. *)

(* The offsets of p that the group has left behind: none is delivered again. *)
LeftBehind(p) == base[p] + 1 .. committed[p]

(***************************************************************************)
(* Whatever crashes, is evicted or fails, the group never leaves a message *)
(* behind that no handler has returned from.  It holds although a commit   *)
(* of one goroutine carries the marks of every goroutine of its session,   *)
(* and although a mark covers all the offsets below it.                    *)
(***************************************************************************)
CommittedWasFinished ==
    \A p \in Partition : \A i \in LeftBehind(p) : i \in finished[p]

(***************************************************************************)
(* CommittedWasFinished is not inductive.  What makes it so: every mark,   *)
(* also one not committed yet, and every received message but the one in   *)
(* work lies over finished messages; and no offset runs past its log.      *)
(***************************************************************************)
Working(c, p) == work[c][p].stage \notin {"off", "waiting", "commit"}
Handled(c, p) == IF Working(c, p) THEN position[c][p] - 1 ELSE position[c][p]

OffsetsInLog ==
    \A p \in Partition :
        /\ committed[p] <= Len(log[p])
        /\ base[p] <= Len(log[p])
        /\ \A c \in Consumer : /\ marked[c][p] <= Len(log[p])
                               /\ position[c][p] <= Len(log[p])
                               /\ Working(c, p) => position[c][p] >= 1

MarkedWasFinished ==
    \A c \in Consumer, p \in Partition :
        /\ \A i \in base[p] + 1 .. marked[c][p] : i \in finished[p]
        /\ \A i \in base[p] + 1 .. Handled(c, p) : i \in finished[p]

(***************************************************************************)
(* Only one member may commit for a partition, and what it has marked is   *)
(* never below what is committed.                                          *)
(***************************************************************************)
SoleOwner ==
    /\ \A c1, c2 \in Members : c1 # c2 => claims[c1] \intersect claims[c2] = {}
    /\ \A c \in Members : \A p \in claims[c] : committed[p] <= marked[c][p]

(***************************************************************************)
(* Together they are inductive: however sessions, commits and failures     *)
(* interleave, what is or may still be committed was finished.             *)
(***************************************************************************)
DeliveryInv == OffsetsInLog /\ CommittedWasFinished /\ MarkedWasFinished /\ SoleOwner

(***************************************************************************)
(* The group keeps the contract of DeliveryContract, a message being       *)
(* handled when some handler has returned from it.                         *)
(***************************************************************************)
Contract == INSTANCE DeliveryContract WITH
    sent    <- [p \in Partition |-> Len(log[p])],
    handled <- finished,
    start   <- base

DeliveryContractKept == Contract!Spec

(***************************************************************************)
(* A valid location message left behind without a row was given up after a *)
(* database error, the only failure addressResolveHandle returns from      *)
(* without marking: a later message of the partition has covered it.       *)
(***************************************************************************)
Stored(p, i) == {id \in 1..Len(entries) : entries[id].src = <<p, i>>}

LossNeedsDbError ==
    errors["db"] = 0 =>
        \A p \in LocationPartition : \A i \in LeftBehind(p) :
            log[p][i].kind \in LocationKind => Stored(p, i) # {}

(***************************************************************************)
(* A location message that was marked has its row, whatever failed, and an *)
(* intent message for that row unless the producer has failed.             *)
(***************************************************************************)
Intended(id) ==
    \E q \in IntentPartition : \E j \in 1..Len(log[q]) :
        log[q][j].kind = "intent" /\ log[q][j].entry = id

AckedFeedForwarded ==
    \A p \in LocationPartition : \A i \in acked[p] :
        log[p][i].kind \in LocationKind =>
            \E id \in Stored(p, i) : Intended(id) \/ errors["send"] > 0

(***************************************************************************)
(* Without a crash, an eviction or a rebalance a message gets at most one  *)
(* row, even if a call on its way fails: no handler retries.               *)
(***************************************************************************)
DuplicateEntryNeedsDisruption ==
    disruptions = 0 =>
        \A p \in Partition : \A i \in 1..Len(log[p]) :
            \A id1, id2 \in Stored(p, i) : id1 = id2

(***************************************************************************)
(* A row that no intent message names, and that will stay with the reason  *)
(* of its payload, is about to be forwarded or is the trace of a fault.    *)
(***************************************************************************)
OrphanNeedsFault ==
    \A id \in 1..Len(entries) :
        \/ Intended(id)
        \/ \E c \in Consumer, p \in Partition : At(c, p, "produce") /\ work[c][p].entry = id
        \/ disruptions > 0
        \/ errors["send"] > 0
        \/ errors["db"] > 0

(***************************************************************************)
(* An intent message is never visible before the row it names is           *)
(* committed, and it brings the payload that row was made from.            *)
(***************************************************************************)
IntentNamesEntry ==
    \A q \in IntentPartition : \A j \in 1..Len(log[q]) :
        log[q][j].kind = "intent" =>
            LET id == log[q][j].entry
            IN  /\ id \in 1..Len(entries)
                /\ LET src == entries[id].src
                   IN log[src[1]][src[2]].doc = log[q][j].doc

(***************************************************************************)
(* An intent message that was marked has been applied to its row (resolved *)
(* or deleted) unless a call has failed.                                   *)
(***************************************************************************)
Applied(row) == ~row.placed \/ row.deleted \/ row.reason # "payload"

AckedIntentApplied ==
    errors["db"] = 0 /\ errors["api"] = 0 =>
        \A q \in IntentPartition : \A j \in acked[q] :
            log[q][j].kind = "intent" => Applied(entries[log[q][j].entry])

-----------------------------------------------------------------------------
(* The index. *)

(***************************************************************************)
(* The index is written only for a row that has been resolved in the table *)
(* before: a search never sees intents the table has not got.              *)
(***************************************************************************)
IndexFollowsUpdate ==
    \A d \in DocId :
        LET e == index[d].entry
        IN  e # 0 /\ entries[e].placed => entries[e].reason # "payload"

(***************************************************************************)
(* While every message is handled once, the document agrees with its row:  *)
(* the same intents, and a row that is not soft deleted.  (A second        *)
(* delivery may get other answers from the services, and a deletion is     *)
(* never passed on to the index.)                                          *)
(***************************************************************************)
IndexMatchesRow ==
    disruptions = 0 /\ errors["send"] = 0 =>
        \A d \in DocId :
            LET e == index[d].entry
            IN  e # 0 /\ entries[e].placed =>
                    entries[e].reason = index[d].reason /\ ~entries[e].deleted

-----------------------------------------------------------------------------
(* Steps and progress. *)

(***************************************************************************)
(* No step, and no commit of a member the group has given up, moves the    *)
(* offset of a partition back.                                             *)
(***************************************************************************)
OffsetsNeverRewind ==
    [][\A p \in Partition : committed'[p] >= committed[p]]_vars

(***************************************************************************)
(* Every message is in the end returned from by some handler, unless the   *)
(* group starts at the newest offset behind it.                            *)
(***************************************************************************)
EveryMessageFinished ==
    \A p \in Partition : \A i \in 1..MaxLog[p] :
        Len(log[p]) >= i ~> i \in finished[p] \/ i <= base[p]

(***************************************************************************)
(* If no database call ever fails, every message is in the end left behind *)
(* by the group: nothing is delivered for ever.                            *)
(***************************************************************************)
EveryMessageCommitted ==
    \A p \in Partition : \A i \in 1..MaxLog[p] :
        Len(log[p]) >= i ~> committed[p] >= i \/ i <= base[p] \/ errors["db"] > 0
=============================================================================
