---------------------------- MODULE FeedPipeline ----------------------------
(***************************************************************************)
(* The two message handlers of the consumer, run by the goroutines of      *)
(* ConsumerGroup over the tables and the index of FeedStore.               *)
(*                                                                         *)
(*   topic.feeds.location --> addressResolveHandle --> feeds_entry and     *)
(*        feeds_location, and one message to topic.feeds.intent            *)
(*   topic.feeds.intent --> intentResolveHandle --> three HTTP services,   *)
(*        then the location is updated and indexed, or soft deleted        *)
(*                                                                         *)
(* Each call a handler makes is an action; between two of them any other   *)
(* goroutine, the coordinator or a crash may step.  Every call that can    *)
(* fail may fail, as often as its budget MaxErrors allows.                 *)
(***************************************************************************)
EXTENDS ConsumerGroup

CONSTANTS LocationPartition,  \* the partitions of topic.feeds.location
          IntentPartition,    \* the partitions of topic.feeds.intent
          DocId,              \* the values of location.ID in the payloads
          Outside,            \* the kinds of message that come from outside
          Intents,            \* the answers of the intent service
          MaxPublished,       \* bound on the messages from outside
          MaxErrors           \* MaxErrors[k]: bound on the failures of kind k

(* db: PostgreSQL.  send: the Kafka producer.  api: an undecodable HTTP answer. *)
ErrorKind == {"db", "send", "api"}

ASSUME FeedPipelineAssumption ==
    /\ Partition = LocationPartition \union IntentPartition
    /\ LocationPartition \intersect IntentPartition = {}
    /\ Outside \subseteq {"located", "unlocated", "garbage"}
    /\ Intents \subseteq {"empty", "labels"}
    /\ MaxPublished \in Nat
    /\ MaxErrors \in [ErrorKind -> Nat]

VARIABLES entries,    \* the tables, see FeedStore
          index,      \* the elastic index, see FeedStore
          published,  \* how many messages came from outside
          errors      \* errors[k]: how many calls of kind k have failed

(* An entry comes from the message at an offset of a partition. *)
Source == Partition \X Nat
INSTANCE FeedStore

storeVars == <<entries, index>>
vars == <<log, groupVars, historyVars, work, storeVars, published, errors>>

Fail(kind) ==
    /\ errors[kind] < MaxErrors[kind]
    /\ errors' = [errors EXCEPT ![kind] = @ + 1]

(***************************************************************************)
(* A message.  garbage does not decode.  located has an address and both   *)
(* coordinates, unlocated lacks one of them.  intent names the entry it is *)
(* about.  doc is the location.ID of the payload.                          *)
(***************************************************************************)
LocationKind == {"located", "unlocated"}
Kind == LocationKind \union {"garbage", "intent"}
Messages == [kind: Kind, entry: Nat, doc: DocId]

-----------------------------------------------------------------------------
(* Another program (the address resolver) writes a message. *)
Publish(p) ==
    /\ published < MaxPublished
    /\ published' = published + 1
    /\ \E kind \in Outside, d \in DocId :
          /\ kind = "garbage" \/ p \in LocationPartition
          /\ log' = [log EXCEPT ![p] = Append(@, [kind |-> kind, entry |-> 0, doc |-> d])]
    /\ UNCHANGED <<groupVars, historyVars, work, storeVars, errors>>

(* ConsumeClaim picks the handler by topic; what does not decode is marked. *)
FirstStage(p, m) ==
    IF m.kind = "garbage" THEN "mark"
    ELSE IF p \in IntentPartition THEN "intents" ELSE "store"

Receive(c, p) ==
    /\ position[c][p] < Len(log[p])
    /\ TakeMessage(c, p, FirstStage(p, log[p][position[c][p] + 1]))
    /\ UNCHANGED <<storeVars, published, errors>>

-----------------------------------------------------------------------------
(* addressResolveHandle *)

(* Mutant: a message that could not be stored is marked. *)
StoreFeedMarksFailure(c, p) ==
    /\ At(c, p, "store")
    /\ Fail("db")
    /\ Goto(c, p, "mark")
    /\ UNCHANGED <<log, groupVars, historyVars, storeVars, published>>

(* Mutant: CreateFeed is tried again after a failure. *)
StoreFeedRetries(c, p) ==
    LET Create == CreateFeed(<<p, position[c][p]>>, Message(c, p).kind = "located")
    IN  /\ At(c, p, "store")
        /\ Create
        /\ \/ /\ work' = [work EXCEPT ![c][p].stage = "produce",
                                      ![c][p].entry = NextEntryID]
              /\ UNCHANGED errors
           \/ Fail("db") /\ UNCHANGED work
        /\ UNCHANGED <<log, groupVars, historyVars, index, published>>

(* Mutant: the transaction is never committed. *)
StoreFeedRollsBack(c, p) ==
    /\ At(c, p, "store")
    /\ work' = [work EXCEPT ![c][p].stage = "produce", ![c][p].entry = NextEntryID]
    /\ UNCHANGED <<log, groupVars, historyVars, storeVars, published, errors>>

(* Mutant: the handler returns after it has stored the feed. *)
StoreFeedForwardsNothing(c, p) ==
    /\ At(c, p, "store")
    /\ CreateFeed(<<p, position[c][p]>>, Message(c, p).kind = "located")
    /\ Goto(c, p, "mark")
    /\ UNCHANGED <<log, groupVars, historyVars, index, published, errors>>

(***************************************************************************)
(* CreateFeed commits and returns the new id; or it fails, and then the    *)
(* transaction may have been committed all the same.  After a failure the  *)
(* handler returns without marking the message.                            *)
(***************************************************************************)
StoreFeed(c, p) ==
    LET Create == CreateFeed(<<p, position[c][p]>>, Message(c, p).kind = "located")
    IN  /\ At(c, p, "store")
        /\ \/ /\ Create
              /\ work' = [work EXCEPT ![c][p].stage = "produce",
                                      ![c][p].entry = NextEntryID]
              /\ UNCHANGED <<historyVars, errors>>
           \/ /\ Fail("db")
              /\ Create \/ UNCHANGED entries
              /\ ReturnUnmarked(c, p)
        /\ UNCHANGED <<log, groupVars, index, published>>

(***************************************************************************)
(* The intent message goes to the partition of its key, the entry id.  The *)
(* producer may fail, or write twice while it retries; in each case the    *)
(* handler goes on to mark its message.                                    *)
(***************************************************************************)
SendIntent(c, p) ==
    LET m == [kind |-> "intent", entry |-> work[c][p].entry, doc |-> Message(c, p).doc]
    IN  /\ At(c, p, "produce")
        /\ \E q \in IntentPartition :
              \/ /\ log' = [log EXCEPT ![q] = Append(@, m)]
                 /\ UNCHANGED errors
              \/ /\ Fail("send")
                 /\ \/ log' = [log EXCEPT ![q] = Append(Append(@, m), m)]
                    \/ UNCHANGED log
        /\ work' = [work EXCEPT ![c][p] = Worker("mark")]
        /\ UNCHANGED <<groupVars, historyVars, storeVars, published>>

-----------------------------------------------------------------------------
(* intentResolveHandle *)

FeedID(c, p) == Message(c, p).entry

(* A call of a service returns: the handler goes on to stage, with intents. *)
Answer(c, p, stage, intents) ==
    /\ work' = [work EXCEPT ![c][p].stage = stage, ![c][p].reason = intents]
    /\ UNCHANGED <<log, groupVars, historyVars, storeVars, published>>

(***************************************************************************)
(* sendIntentResolveRequest.  A status other than 200 returns "" and a nil *)
(* error, and so does an empty answer; Alakasiz with a score of 0.7 or     *)
(* more is the error "alakasiz veri", on which the location is deleted; on *)
(* any other error the message is only marked.                             *)
(***************************************************************************)
ResolveIntents(c, p) ==
    /\ At(c, p, "intents")
    /\ \/ /\ \/ \E intents \in Intents : Answer(c, p, "needs", intents)
             \/ Answer(c, p, "delete", "payload")
          /\ UNCHANGED errors
       \/ /\ Fail("api")
          /\ Answer(c, p, "mark", "payload")

(* sendNeedsResolveRequest: only an answer that does not decode is an error. *)
ResolveNeeds(c, p) ==
    /\ At(c, p, "needs")
    /\ \/ /\ Answer(c, p, "duplicates", work[c][p].reason)
          /\ UNCHANGED errors
       \/ /\ Fail("api")
          /\ Answer(c, p, "mark", "payload")

(* Mutant: a failure of the service ends the handler. *)
CheckDuplicationGivesUp(c, p) ==
    /\ At(c, p, "duplicates")
    /\ \/ Answer(c, p, "mark", "payload")
       \/ Answer(c, p, "update", work[c][p].reason)
    /\ UNCHANGED errors

(* checkDuplication: any failure counts as "not a duplicate". *)
CheckDuplication(c, p) ==
    /\ At(c, p, "duplicates")
    /\ \/ Answer(c, p, "delete", "payload")
       \/ Answer(c, p, "update", work[c][p].reason)
    /\ UNCHANGED errors

(***************************************************************************)
(* A service cannot be reached: resp is nil and its StatusCode is read.    *)
(* The panic ends the process.                                             *)
(***************************************************************************)
UnreachableService(c, p) ==
    /\ work[c][p].stage \in {"intents", "needs", "duplicates"}
    /\ Stop(c)
    /\ UNCHANGED <<storeVars, published, errors>>

(***************************************************************************)
(* The soft delete of an irrelevant or duplicate feed.  A failure (the ten *)
(* seconds of ctx also run during the HTTP calls) is only logged.          *)
(***************************************************************************)
DeleteLocation(c, p) ==
    /\ At(c, p, "delete")
    /\ \/ /\ DeleteFeedLocation(FeedID(c, p))
          /\ UNCHANGED errors
       \/ /\ Fail("db")
          /\ DeleteFeedLocation(FeedID(c, p)) \/ UNCHANGED entries
    /\ Goto(c, p, "mark")
    /\ UNCHANGED <<log, groupVars, historyVars, index, published>>

(* Mutant: the document is written even if the update has failed. *)
UpdateLocationIndexesAnyway(c, p) ==
    LET Update == UpdateLocationIntentAndNeeds(FeedID(c, p), work[c][p].reason)
    IN  /\ At(c, p, "update")
        /\ \/ Update /\ UNCHANGED errors
           \/ Fail("db") /\ UNCHANGED entries
        /\ Goto(c, p, "index")
        /\ UNCHANGED <<log, groupVars, historyVars, index, published>>

(* The update of reason and needs; after a failure the message is not marked. *)
UpdateLocation(c, p) ==
    LET Update == UpdateLocationIntentAndNeeds(FeedID(c, p), work[c][p].reason)
    IN  /\ At(c, p, "update")
        /\ \/ /\ Update
              /\ Goto(c, p, "index")
              /\ UNCHANGED <<historyVars, errors>>
           \/ /\ Fail("db")
              /\ Update \/ UNCHANGED entries
              /\ ReturnUnmarked(c, p)
        /\ UNCHANGED <<log, groupVars, index, published>>

(* The document is written, or is not and the error is only logged. *)
IndexLocation(c, p) ==
    /\ At(c, p, "index")
    /\ \/ CreateFeedLocation(Message(c, p).doc, FeedID(c, p), work[c][p].reason)
       \/ UNCHANGED index
    /\ work' = [work EXCEPT ![c][p] = Worker("mark")]
    /\ UNCHANGED <<log, groupVars, historyVars, entries, published, errors>>

-----------------------------------------------------------------------------
Init ==
    /\ log = [p \in Partition |-> <<>>]
    /\ GroupInit
    /\ StoreInit
    /\ published = 0
    /\ errors = [k \in ErrorKind |-> 0]

AddressResolveHandle(c, p) == StoreFeed(c, p) \/ SendIntent(c, p)

IntentResolveHandle(c, p) ==
    \/ ResolveIntents(c, p)
    \/ ResolveNeeds(c, p)
    \/ CheckDuplication(c, p)
    \/ DeleteLocation(c, p)
    \/ UpdateLocation(c, p)
    \/ IndexLocation(c, p)

Acknowledge(c, p) ==
    /\ MarkMessage(c, p) \/ Commit(c, p)
    /\ UNCHANGED <<storeVars, published, errors>>

(* What the goroutine of a claim does as long as its process lives. *)
ClaimStep(c, p) ==
    \/ Receive(c, p)
    \/ AddressResolveHandle(c, p)
    \/ IntentResolveHandle(c, p)
    \/ Acknowledge(c, p)

(* What sarama, the coordinator and the host do by themselves. *)
SessionStep(c) ==
    /\ \/ CancelSession(c)
       \/ Release(c)
       \/ Restart(c)
       \/ \E p \in Partition : StopClaim(c, p)
    /\ UNCHANGED <<storeVars, published, errors>>

Disruption ==
    /\ \/ Rebalance
       \/ \E c \in Consumer : \/ Evict(c)
                              \/ Stop(c)
                              \/ \E p \in Partition : NilMessage(c, p)
    /\ UNCHANGED <<storeVars, published, errors>>

Next ==
    \/ \E p \in Partition : Publish(p)
    \/ \E c \in Consumer, p \in Partition : ClaimStep(c, p) \/ UnreachableService(c, p)
    \/ \E c \in Consumer : SessionStep(c)
    \/ \E c \in Consumer : AutoCommit(c) /\ UNCHANGED <<storeVars, published, errors>>
    \/ CompleteRebalance /\ UNCHANGED <<storeVars, published, errors>>
    \/ Disruption

Spec == Init /\ [][Next]_vars

(***************************************************************************)
(* Fairness: goroutines are scheduled and their calls return; heartbeats,  *)
(* the commit ticker and the coordinator run; ECS restarts a stopped task. *)
(* Nothing from outside has to happen: no message, error or disruption.    *)
(*                                                                         *)
(* A member the group has given up may be one that hangs in a call without *)
(* a timeout or is cut off from Kafka for good.  Unless givenUpReturn, its *)
(* goroutines and sarama owe nothing any more; they still may go on.       *)
(***************************************************************************)
Fairness(givenUpReturn) ==
    LET Owes(c) == givenUpReturn \/ phase[c] # "evicted"
    IN  /\ \A c \in Consumer :
              /\ \A p \in Partition :
                    /\ WF_vars(Owes(c) /\ ClaimStep(c, p))
                    /\ WF_vars(/\ Owes(c)
                               /\ StopClaim(c, p)
                               /\ UNCHANGED <<storeVars, published, errors>>)
              /\ WF_vars(Owes(c) /\ SessionStep(c))
              /\ WF_vars(AutoCommit(c) /\ UNCHANGED <<storeVars, published, errors>>)
        /\ WF_vars(CompleteRebalance /\ UNCHANGED <<storeVars, published, errors>>)

(* Every process, also the only one there is, returns from its session. *)
FairSpec == Spec /\ Fairness(TRUE)

(* A member that was given up is owed by nobody to come back. *)
TakeoverSpec == Spec /\ Fairness(FALSE)
=============================================================================
