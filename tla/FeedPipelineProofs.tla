------------------------- MODULE FeedPipelineProofs -------------------------
(* Proofs about the pipeline, for every number of processes, partitions and  *)
(* messages and for every budget of failures.                                *)
EXTENDS FeedPipelineProperties, TLAPS

-----------------------------------------------------------------------------
(* What the operators the actions are made of do to the types. *)

(* Moving a goroutine to another stage keeps the type of work. *)
LEMMA GotoType ==
    ASSUME WorkTypeOK, NEW c \in Consumer, NEW p \in Partition, NEW stage \in Stage,
           Goto(c, p, stage)
    PROVE  WorkTypeOK'
BY SMTT(30) DEF WorkTypeOK, Task, Goto

(* So does clearing it. *)
LEMMA WorkerType ==
    ASSUME WorkTypeOK, NEW c \in Consumer, NEW p \in Partition, NEW stage \in Stage,
           work' = [work EXCEPT ![c][p] = Worker(stage)]
    PROVE  WorkTypeOK'
BY DEF WorkTypeOK, Task, Worker, Reason

(* So does noting the entry it has created. *)
LEMMA EntryType ==
    ASSUME WorkTypeOK, NEW c \in Consumer, NEW p \in Partition, NEW stage \in Stage,
           NEW id \in Nat,
           work' = [work EXCEPT ![c][p].stage = stage, ![c][p].entry = id]
    PROVE  WorkTypeOK'
BY SMTT(60) DEF WorkTypeOK, Task

(* So does noting the intents it was given. *)
LEMMA AnswerType ==
    ASSUME WorkTypeOK, NEW c \in Consumer, NEW p \in Partition, NEW stage \in Stage,
           NEW intents \in Reason, Answer(c, p, stage, intents)
    PROVE  WorkTypeOK'
BY SMTT(60) DEF WorkTypeOK, Task, Answer

(* A failing call stays within the types of the budgets. *)
LEMMA FailType ==
    ASSUME BudgetTypeOK, NEW kind \in ErrorKind, Fail(kind), UNCHANGED <<disruptions, published>>
    PROVE  BudgetTypeOK'
BY DEF BudgetTypeOK, Fail

(* A new row keeps the type of the tables. *)
LEMMA CreateFeedType ==
    ASSUME StoreTypeOK, NEW src \in Source, NEW placed \in BOOLEAN,
           CreateFeed(src, placed), UNCHANGED index
    PROVE  StoreTypeOK'
BY DEF StoreTypeOK, CreateFeed, Row, Reason

(* Updating the reason of a row, if there is one, keeps the type of the tables. *)
LEMMA UpdateType ==
    ASSUME StoreTypeOK, NEW id \in Nat, NEW intents \in Reason,
           UpdateLocationIntentAndNeeds(id, intents), UNCHANGED index
    PROVE  StoreTypeOK'
<1> DEFINE new == [entries EXCEPT ![id].reason = intents]
<1>1. entries \in [1..Len(entries) -> Row] /\ Len(entries) \in Nat
  BY DEF StoreTypeOK
<1>2. new \in [1..Len(entries) -> Row]
  BY <1>1 DEF Row
<1>3. new \in Seq(Row)
  BY <1>1, <1>2
<1> QED
  BY <1>3 DEF StoreTypeOK, UpdateLocationIntentAndNeeds

(* So does the soft delete. *)
LEMMA DeleteType ==
    ASSUME StoreTypeOK, NEW id \in Nat, DeleteFeedLocation(id), UNCHANGED index
    PROVE  StoreTypeOK'
<1> DEFINE new == [entries EXCEPT ![id].deleted = TRUE]
<1>1. entries \in [1..Len(entries) -> Row] /\ Len(entries) \in Nat
  BY DEF StoreTypeOK
<1>2. new \in [1..Len(entries) -> Row]
  BY <1>1 DEF Row
<1>3. new \in Seq(Row)
  BY <1>1, <1>2
<1> QED
  BY <1>3 DEF StoreTypeOK, DeleteFeedLocation

(* Writing a document keeps the type of the index. *)
LEMMA IndexType ==
    ASSUME StoreTypeOK, NEW doc \in DocId, NEW id \in Nat, NEW intents \in Reason,
           CreateFeedLocation(doc, id, intents), UNCHANGED entries
    PROVE  StoreTypeOK'
BY DEF StoreTypeOK, CreateFeedLocation, Document

(* A message in work is in the log, so that its fields have their types. *)
LEMMA MessageType ==
    ASSUME TypeOK, OffsetsInLog, NEW c \in Consumer, NEW p \in Partition, Working(c, p)
    PROVE  /\ Message(c, p) \in Messages
           /\ position[c][p] \in 1..Len(log[p])
<1>1. log[p] \in Seq(Messages) /\ position[c][p] \in Nat
  BY DEF TypeOK, LogTypeOK, OffsetTypeOK
<1>2. position[c][p] >= 1 /\ position[c][p] <= Len(log[p])
  BY DEF OffsetsInLog
<1> QED
  BY <1>1, <1>2 DEF Message

-----------------------------------------------------------------------------
(* Type correctness, one lemma per action. *)

(* The actions of a handler leave the group alone. *)
LEMMA UnchangedType ==
    ASSUME TypeOK
    PROVE  /\ UNCHANGED log => LogTypeOK'
           /\ UNCHANGED work => WorkTypeOK'
           /\ UNCHANGED historyVars => HistoryTypeOK'
           /\ UNCHANGED <<committed, base, position, marked>> => OffsetTypeOK'
           /\ UNCHANGED <<rebalancing, phase, claims>> => MemberTypeOK'
           /\ UNCHANGED storeVars => StoreTypeOK'
           /\ UNCHANGED <<disruptions, published, errors>> => BudgetTypeOK'
BY DEF TypeOK, LogTypeOK, WorkTypeOK, HistoryTypeOK, OffsetTypeOK, MemberTypeOK,
       StoreTypeOK, BudgetTypeOK, historyVars, storeVars

(* A message from outside keeps the types. *)
LEMMA PublishType ==
    ASSUME TypeOK, NEW p \in Partition, Publish(p)
    PROVE  TypeOK'
<1>1. PICK kind \in Outside, d \in DocId :
          log' = [log EXCEPT ![p] = Append(@, [kind |-> kind, entry |-> 0, doc |-> d])]
  BY DEF Publish
<1>2. [kind |-> kind, entry |-> 0, doc |-> d] \in Messages
  BY FeedPipelineAssumption DEF Messages, Kind, LocationKind
<1>3. LogTypeOK'
  BY <1>1, <1>2 DEF TypeOK, LogTypeOK
<1>4. BudgetTypeOK'
  BY FeedPipelineAssumption DEF TypeOK, BudgetTypeOK, Publish, groupVars
<1>5. UNCHANGED <<work, historyVars, committed, base, position, marked,
                  rebalancing, phase, claims, storeVars>>
  BY DEF Publish, groupVars
<1> QED
  BY <1>3, <1>4, <1>5, UnchangedType DEF TypeOK

(* Receiving a message keeps the types. *)
LEMMA ReceiveType ==
    ASSUME TypeOK, NEW c \in Consumer, NEW p \in Partition, Receive(c, p)
    PROVE  TypeOK'
<1>1. PICK stage \in Stage : TakeMessage(c, p, stage)
  BY DEF Receive, FirstStage, Stage
<1>2. WorkTypeOK'
  BY <1>1, GotoType DEF TypeOK, TakeMessage
<1>3. OffsetTypeOK'
  BY <1>1 DEF TypeOK, OffsetTypeOK, TakeMessage
<1>4. UNCHANGED <<log, historyVars, rebalancing, phase, claims, storeVars,
                  disruptions, published, errors>>
  BY <1>1 DEF TakeMessage, Receive
<1> QED
  BY <1>2, <1>3, <1>4, UnchangedType DEF TypeOK

(* A handler that gives up leaves types alone. *)
LEMMA ReturnUnmarkedType ==
    ASSUME TypeOK, NEW c \in Consumer, NEW p \in Partition, ReturnUnmarked(c, p)
    PROVE  WorkTypeOK' /\ HistoryTypeOK'
<1>1. WorkTypeOK'
  BY WorkerType DEF ReturnUnmarked, TypeOK, Stage
<1>2. HistoryTypeOK'
  BY DEF ReturnUnmarked, TypeOK, HistoryTypeOK, OffsetTypeOK
<1> QED
  BY <1>1, <1>2

(* CreateFeed, committed or failed, keeps the types. *)
LEMMA StoreFeedType ==
    ASSUME TypeOK, OffsetsInLog, NEW c \in Consumer, NEW p \in Partition, StoreFeed(c, p)
    PROVE  TypeOK'
<1> DEFINE Create == CreateFeed(<<p, position[c][p]>>, Message(c, p).kind = "located")
<1>1. Create => StoreTypeOK' \/ ~UNCHANGED index
  <2>1. <<p, position[c][p]>> \in Source
    BY DEF Source, TypeOK, OffsetTypeOK
  <2> QED
    BY <2>1, CreateFeedType DEF TypeOK
<1>2. UNCHANGED <<log, groupVars, index, published>>
  BY DEF StoreFeed
<1>3. UNCHANGED <<committed, base, position, marked, rebalancing, phase, claims, disruptions>>
  BY <1>2 DEF groupVars
<1>4. CASE /\ Create
           /\ work' = [work EXCEPT ![c][p].stage = "produce", ![c][p].entry = NextEntryID]
           /\ UNCHANGED <<historyVars, errors>>
  <2>1. "produce" \in Stage /\ NextEntryID \in Nat
    BY DEF Stage, NextEntryID, TypeOK, StoreTypeOK
  <2>2. WorkTypeOK'
    BY <1>4, <2>1, EntryType DEF TypeOK
  <2> QED
    BY <1>1, <1>2, <1>3, <1>4, <2>2, UnchangedType DEF TypeOK
<1>5. CASE Fail("db") /\ (Create \/ UNCHANGED entries) /\ ReturnUnmarked(c, p)
  <2>1. BudgetTypeOK'
    BY <1>2, <1>3, <1>5, FailType DEF ErrorKind, TypeOK
  <2>2. StoreTypeOK'
    BY <1>1, <1>2, <1>5, UnchangedType DEF storeVars
  <2> QED
    BY <1>2, <1>3, <1>5, <2>1, <2>2, ReturnUnmarkedType, UnchangedType DEF TypeOK
<1> QED
  BY <1>4, <1>5 DEF StoreFeed

(* Sending the intent message, once, twice or not at all, keeps the types. *)
LEMMA SendIntentType ==
    ASSUME TypeOK, OffsetsInLog, NEW c \in Consumer, NEW p \in Partition, SendIntent(c, p)
    PROVE  TypeOK'
<1> DEFINE m == [kind |-> "intent", entry |-> work[c][p].entry, doc |-> Message(c, p).doc]
<1>1. m \in Messages
  <2>1. Working(c, p)
    BY DEF SendIntent, At, Working
  <2>2. work[c][p].entry \in Nat /\ Message(c, p).doc \in DocId
    BY <2>1, MessageType DEF TypeOK, WorkTypeOK, Task, Messages
  <2> QED
    BY <2>2 DEF Messages, Kind
<1>2. PICK q \in IntentPartition :
          \/ log' = [log EXCEPT ![q] = Append(@, m)] /\ UNCHANGED errors
          \/ /\ Fail("send")
             /\ \/ log' = [log EXCEPT ![q] = Append(Append(@, m), m)]
                \/ UNCHANGED log
  BY DEF SendIntent
<1>3. LogTypeOK'
  <2>1. log[q] \in Seq(Messages)
    BY FeedPipelineAssumption DEF TypeOK, LogTypeOK
  <2>2. Append(log[q], m) \in Seq(Messages)
    BY <1>1, <2>1
  <2>3. Append(Append(log[q], m), m) \in Seq(Messages)
    BY <1>1, <2>2
  <2> HIDE DEF m
  <2> QED
    BY <1>2, <2>2, <2>3 DEF TypeOK, LogTypeOK
<1>4. UNCHANGED <<groupVars, historyVars, storeVars, published>>
  BY DEF SendIntent
<1>5. UNCHANGED <<committed, base, position, marked, rebalancing, phase, claims, disruptions>>
  BY <1>4 DEF groupVars
<1>6. BudgetTypeOK'
  BY <1>2, <1>4, <1>5, FailType, UnchangedType DEF ErrorKind, TypeOK
<1>7. WorkTypeOK'
  BY WorkerType DEF SendIntent, TypeOK, Stage
<1> QED
  BY <1>3, <1>4, <1>5, <1>6, <1>7, UnchangedType DEF TypeOK

(* The entry an intent message names is a number. *)
LEMMA FeedIDType ==
    ASSUME TypeOK, OffsetsInLog, NEW c \in Consumer, NEW p \in Partition, Working(c, p)
    PROVE  FeedID(c, p) \in Nat /\ Message(c, p).doc \in DocId /\ work[c][p].reason \in Reason
BY MessageType DEF FeedID, Messages, TypeOK, WorkTypeOK, Task

(* The answers of the services change the goroutine and the budgets only. *)
LEMMA ServiceType ==
    ASSUME TypeOK, OffsetsInLog, NEW c \in Consumer, NEW p \in Partition,
           ResolveIntents(c, p) \/ ResolveNeeds(c, p) \/ CheckDuplication(c, p)
    PROVE  TypeOK'
<1>1. work[c][p].reason \in Reason
  BY DEF TypeOK, WorkTypeOK, Task
<1>2. PICK stage \in {"needs", "delete", "mark", "duplicates", "update"}, intents \in Reason :
          Answer(c, p, stage, intents)
  BY <1>1, FeedPipelineAssumption DEF ResolveIntents, ResolveNeeds, CheckDuplication, Reason
<1>3. UNCHANGED errors \/ Fail("api")
  BY DEF ResolveIntents, ResolveNeeds, CheckDuplication
<1>4. UNCHANGED <<log, groupVars, historyVars, storeVars, published>>
  BY <1>2 DEF Answer
<1>5. UNCHANGED <<committed, base, position, marked, rebalancing, phase, claims, disruptions>>
  BY <1>4 DEF groupVars
<1>6. stage \in Stage
  BY DEF Stage
<1>7. WorkTypeOK'
  BY <1>2, <1>6, AnswerType DEF TypeOK
<1>8. BudgetTypeOK'
  BY <1>3, <1>4, <1>5, FailType, UnchangedType DEF TypeOK, ErrorKind
<1> QED
  BY <1>4, <1>5, <1>7, <1>8, UnchangedType DEF TypeOK

(* The soft delete by the handler keeps the types. *)
LEMMA DeleteLocationType ==
    ASSUME TypeOK, OffsetsInLog, NEW c \in Consumer, NEW p \in Partition, DeleteLocation(c, p)
    PROVE  TypeOK'
<1>1. UNCHANGED <<log, groupVars, historyVars, index, published>>
  BY DEF DeleteLocation
<1>2. UNCHANGED <<committed, base, position, marked, rebalancing, phase, claims, disruptions>>
  BY <1>1 DEF groupVars
<1>3. FeedID(c, p) \in Nat
  BY FeedIDType DEF DeleteLocation, At, Working
<1>4. StoreTypeOK'
  BY <1>1, <1>3, DeleteType, UnchangedType DEF DeleteLocation, TypeOK, storeVars
<1>5. BudgetTypeOK'
  BY <1>1, <1>2, FailType, UnchangedType DEF DeleteLocation, TypeOK, ErrorKind
<1>6. WorkTypeOK'
  BY GotoType DEF DeleteLocation, TypeOK, Stage
<1> QED
  BY <1>1, <1>2, <1>4, <1>5, <1>6, UnchangedType DEF TypeOK

(* The update by the handler, and its early return, keep the types. *)
LEMMA UpdateLocationType ==
    ASSUME TypeOK, OffsetsInLog, NEW c \in Consumer, NEW p \in Partition, UpdateLocation(c, p)
    PROVE  TypeOK'
<1> DEFINE Update == UpdateLocationIntentAndNeeds(FeedID(c, p), work[c][p].reason)
<1>1. UNCHANGED <<log, groupVars, index, published>>
  BY DEF UpdateLocation
<1>2. UNCHANGED <<committed, base, position, marked, rebalancing, phase, claims, disruptions>>
  BY <1>1 DEF groupVars
<1>3. FeedID(c, p) \in Nat /\ work[c][p].reason \in Reason
  BY FeedIDType DEF UpdateLocation, At, Working
<1>4. Update \/ UNCHANGED entries => StoreTypeOK'
  BY <1>1, <1>3, UpdateType, UnchangedType DEF TypeOK, storeVars
<1>5. CASE Update /\ Goto(c, p, "index") /\ UNCHANGED <<historyVars, errors>>
  <2>1. WorkTypeOK'
    BY <1>5, GotoType DEF TypeOK, Stage
  <2> QED
    BY <1>1, <1>2, <1>4, <1>5, <2>1, UnchangedType DEF TypeOK
<1>6. CASE Fail("db") /\ (Update \/ UNCHANGED entries) /\ ReturnUnmarked(c, p)
  <2>1. BudgetTypeOK'
    BY <1>1, <1>2, <1>6, FailType DEF TypeOK, ErrorKind
  <2> QED
    BY <1>1, <1>2, <1>4, <1>6, <2>1, ReturnUnmarkedType, UnchangedType DEF TypeOK
<1> QED
  BY <1>5, <1>6 DEF UpdateLocation

(* Writing or missing the document keeps the types. *)
LEMMA IndexLocationType ==
    ASSUME TypeOK, OffsetsInLog, NEW c \in Consumer, NEW p \in Partition, IndexLocation(c, p)
    PROVE  TypeOK'
<1>1. UNCHANGED <<log, groupVars, historyVars, entries, published, errors>>
  BY DEF IndexLocation
<1>2. UNCHANGED <<committed, base, position, marked, rebalancing, phase, claims, disruptions>>
  BY <1>1 DEF groupVars
<1>3. FeedID(c, p) \in Nat /\ Message(c, p).doc \in DocId /\ work[c][p].reason \in Reason
  BY FeedIDType DEF IndexLocation, At, Working
<1>4. StoreTypeOK'
  BY <1>1, <1>3, IndexType, UnchangedType DEF IndexLocation, TypeOK, storeVars
<1>5. WorkTypeOK'
  BY WorkerType DEF IndexLocation, TypeOK, Stage
<1> QED
  BY <1>1, <1>2, <1>4, <1>5, UnchangedType DEF TypeOK

(* The offsets a session has marked are offsets of the coordinator's type. *)
LEMMA FlushType ==
    ASSUME TypeOK, NEW c \in Consumer, Flush(c) \/ UNCHANGED committed,
           UNCHANGED <<base, position, marked>>
    PROVE  OffsetTypeOK'
BY DEF TypeOK, OffsetTypeOK, Flush

(* Marking and committing keep the types. *)
LEMMA AcknowledgeType ==
    ASSUME TypeOK, NEW c \in Consumer, NEW p \in Partition, Acknowledge(c, p)
    PROVE  TypeOK'
<1>1. UNCHANGED <<log, rebalancing, phase, claims, storeVars, disruptions, published, errors>>
  BY DEF Acknowledge, MarkMessage, Commit
<1>2. CASE MarkMessage(c, p)
  <2>1. WorkTypeOK'
    BY <1>2, GotoType DEF MarkMessage, TypeOK, Stage
  <2>2. HistoryTypeOK'
    BY <1>2 DEF MarkMessage, TypeOK, HistoryTypeOK, OffsetTypeOK
  <2>3. OffsetTypeOK'
    BY <1>2 DEF MarkMessage, TypeOK, OffsetTypeOK
  <2> QED
    BY <1>1, <2>1, <2>2, <2>3, UnchangedType DEF TypeOK
<1>3. CASE Commit(c, p)
  <2>1. WorkTypeOK'
    BY <1>3, WorkerType DEF Commit, TypeOK, Stage
  <2>2. OffsetTypeOK'
    BY <1>3, FlushType DEF Commit
  <2> QED
    BY <1>1, <1>3, <2>1, <2>2, UnchangedType DEF TypeOK, Commit
<1> QED
  BY <1>2, <1>3 DEF Acknowledge

(* The end of a session and a rejoin keep the types. *)
LEMMA SessionStepType ==
    ASSUME TypeOK, NEW c \in Consumer, SessionStep(c)
    PROVE  TypeOK'
<1>1. UNCHANGED <<log, historyVars, storeVars, disruptions, published, errors>>
  BY DEF SessionStep, CancelSession, Release, Restart, StopClaim, groupVars
<1>2. CASE CancelSession(c) \/ Restart(c)
  <2>1. MemberTypeOK'
    BY <1>2 DEF CancelSession, Restart, TypeOK, MemberTypeOK, Phase
  <2>2. UNCHANGED <<work, committed, base, position, marked>>
    BY <1>2 DEF CancelSession, Restart
  <2> QED
    BY <1>1, <2>1, <2>2, UnchangedType DEF TypeOK
<1>3. CASE Release(c)
  <2>1. MemberTypeOK'
    BY <1>3 DEF Release, TypeOK, MemberTypeOK, Phase
  <2>2. OffsetTypeOK'
    BY <1>3 DEF Release, Flush, TypeOK, OffsetTypeOK
  <2>3. UNCHANGED work
    BY <1>3 DEF Release
  <2> QED
    BY <1>1, <2>1, <2>2, <2>3, UnchangedType DEF TypeOK
<1>4. CASE \E p \in Partition : StopClaim(c, p)
  <2>1. WorkTypeOK'
    BY <1>4, GotoType DEF StopClaim, TypeOK, Stage
  <2>2. UNCHANGED <<committed, base, position, marked, rebalancing, phase, claims>>
    BY <1>4 DEF StopClaim, groupVars
  <2> QED
    BY <1>1, <2>1, <2>2, UnchangedType DEF TypeOK
<1> QED
  BY <1>2, <1>3, <1>4 DEF SessionStep

(* The commit of the ticker keeps the types. *)
LEMMA AutoCommitType ==
    ASSUME TypeOK, NEW c \in Consumer, AutoCommit(c), UNCHANGED <<storeVars, published, errors>>
    PROVE  TypeOK'
<1>1. OffsetTypeOK'
  BY FlushType DEF AutoCommit
<1> QED
  BY <1>1, UnchangedType DEF TypeOK, AutoCommit

(* The start of new sessions keeps the types. *)
LEMMA CompleteRebalanceType ==
    ASSUME TypeOK, CompleteRebalance, UNCHANGED <<storeVars, published, errors>>
    PROVE  TypeOK'
<1> DEFINE joined == {c \in Consumer : phase[c] = "joining"}
<1>1. PICK owner \in [Partition -> joined] :
          /\ claims' = [c \in Consumer |->
                           IF c \in joined THEN {p \in Partition : owner[p] = c}
                                           ELSE claims[c]]
          /\ work' = [c \in Consumer |-> [p \in Partition |->
                           IF owner[p] = c THEN Worker("waiting") ELSE work[c][p]]]
          /\ position' = [c \in Consumer |-> [p \in Partition |->
                           IF owner[p] = c THEN StartOffset(p) ELSE position[c][p]]]
          /\ marked' = [c \in Consumer |-> [p \in Partition |->
                           IF owner[p] = c THEN committed[p] ELSE marked[c][p]]]
  BY DEF CompleteRebalance
<1>2. UNCHANGED <<log, committed, disruptions, historyVars>>
  BY DEF CompleteRebalance
<1>3. WorkTypeOK'
  BY <1>1 DEF TypeOK, WorkTypeOK, Task, Worker, Stage, Reason
<1>4. \A p \in Partition : StartOffset(p) \in Nat /\ Len(log[p]) \in Nat
  BY DEF StartOffset, TypeOK, OffsetTypeOK, LogTypeOK, NoOffset
<1>5. OffsetTypeOK'
  <2>1. base' \in [Partition -> Nat]
    BY <1>4 DEF CompleteRebalance, TypeOK, OffsetTypeOK
  <2>2. position' \in [Consumer -> [Partition -> Nat]]
    BY <1>1, <1>4 DEF TypeOK, OffsetTypeOK
  <2>3. marked' \in [Consumer -> [Partition -> Nat \union {NoOffset}]]
    BY <1>1 DEF TypeOK, OffsetTypeOK
  <2> QED
    BY <1>2, <2>1, <2>2, <2>3 DEF TypeOK, OffsetTypeOK
<1>6. MemberTypeOK'
  BY <1>1 DEF CompleteRebalance, TypeOK, MemberTypeOK, Phase
<1> QED
  BY <1>2, <1>3, <1>5, <1>6, UnchangedType DEF TypeOK

(* The end of a process keeps the types. *)
LEMMA StopType ==
    ASSUME TypeOK, NEW c \in Consumer, Stop(c), UNCHANGED <<storeVars, published, errors>>
    PROVE  TypeOK'
<1>1. WorkTypeOK'
  BY DEF Stop, TypeOK, WorkTypeOK, Task, NoWorkers, Worker, Stage, Reason
<1>2. OffsetTypeOK'
  BY DEF Stop, TypeOK, OffsetTypeOK
<1>3. MemberTypeOK'
  BY DEF Stop, TypeOK, MemberTypeOK, Phase
<1>4. BudgetTypeOK'
  BY ConsumerGroupAssumption DEF Stop, Disrupt, TypeOK, BudgetTypeOK
<1> QED
  BY <1>1, <1>2, <1>3, <1>4, UnchangedType DEF TypeOK, Stop

(* Whatever disrupts the group keeps the types. *)
LEMMA DisruptionType ==
    ASSUME TypeOK, Disruption
    PROVE  TypeOK'
<1>1. UNCHANGED <<storeVars, published, errors>>
  BY DEF Disruption
<1>2. CASE \E c \in Consumer : Stop(c) \/ \E p \in Partition : NilMessage(c, p)
  BY <1>1, <1>2, StopType DEF NilMessage
<1>3. CASE Rebalance \/ \E c \in Consumer : Evict(c)
  <2>1. MemberTypeOK'
    BY <1>3 DEF Rebalance, Evict, TypeOK, MemberTypeOK, Phase
  <2>2. BudgetTypeOK'
    BY <1>1, <1>3, ConsumerGroupAssumption DEF Rebalance, Evict, Disrupt, TypeOK, BudgetTypeOK
  <2>3. UNCHANGED <<log, committed, work, position, marked, historyVars, base>>
    BY <1>3 DEF Rebalance, Evict
  <2> QED
    BY <1>1, <2>1, <2>2, <2>3, UnchangedType DEF TypeOK
<1> QED
  BY <1>2, <1>3 DEF Disruption

-----------------------------------------------------------------------------
(* The inductive invariant of delivery, one lemma per action. *)

(***************************************************************************)
(* A step inside a handler disturbs nothing the invariant speaks of: a log *)
(* may grow, and the goroutine stays at work.                              *)
(***************************************************************************)
LEMMA HandlerStep ==
    ASSUME DeliveryInv, UNCHANGED groupVars, UNCHANGED finished,
           \A p \in Partition : Len(log[p]) \in Nat /\ Len(log'[p]) \in Nat /\ Len(log'[p]) >= Len(log[p]),
           \A c \in Consumer, p \in Partition : Working(c, p)' <=> Working(c, p),
           TypeOK
    PROVE  DeliveryInv'
<1>1. OffsetsInLog'
  <2>1. \A p \in Partition : /\ committed[p] \in Int /\ base[p] \in Int
                             /\ \A c \in Consumer : /\ marked[c][p] \in Int
                                                    /\ position[c][p] \in Int
    BY DEF TypeOK, OffsetTypeOK, NoOffset
  <2>2. UNCHANGED <<committed, base, marked, position>>
    BY DEF groupVars
  <2> QED
    BY <2>1, <2>2 DEF DeliveryInv, OffsetsInLog
<1>2. CommittedWasFinished'
  BY DEF DeliveryInv, CommittedWasFinished, LeftBehind, groupVars
<1>3. MarkedWasFinished'
  BY DEF DeliveryInv, MarkedWasFinished, Handled, groupVars
<1>4. SoleOwner'
  BY DEF DeliveryInv, SoleOwner, Members, groupVars
<1> QED
  BY <1>1, <1>2, <1>3, <1>4 DEF DeliveryInv

(* Logs only grow. *)
LEMMA PublishGrows ==
    ASSUME TypeOK, NEW p \in Partition, Publish(p)
    PROVE  \A q \in Partition : Len(log[q]) \in Nat /\ Len(log'[q]) \in Nat /\ Len(log'[q]) >= Len(log[q])
BY DEF Publish, TypeOK, LogTypeOK

(* A message from outside keeps DeliveryInv: logs only grow. *)
LEMMA PublishInv ==
    ASSUME TypeOK, DeliveryInv, NEW p \in Partition, Publish(p)
    PROVE  DeliveryInv'
<1>1. UNCHANGED <<groupVars, finished, work>>
  BY DEF Publish, historyVars
<1> QED
  BY <1>1, PublishGrows, HandlerStep DEF Working

(* The producer only lengthens logs. *)
LEMMA SendIntentGrows ==
    ASSUME TypeOK, OffsetsInLog, NEW c \in Consumer, NEW p \in Partition, SendIntent(c, p)
    PROVE  \A q \in Partition : Len(log[q]) \in Nat /\ Len(log'[q]) \in Nat /\ Len(log'[q]) >= Len(log[q])
<1> DEFINE m == [kind |-> "intent", entry |-> work[c][p].entry, doc |-> Message(c, p).doc]
<1>1. PICK q \in IntentPartition :
          \/ log' = [log EXCEPT ![q] = Append(@, m)]
          \/ log' = [log EXCEPT ![q] = Append(Append(@, m), m)]
          \/ UNCHANGED log
  BY DEF SendIntent
<1>2. LogTypeOK /\ LogTypeOK'
  BY SendIntentType DEF TypeOK
<1>3. \A r \in Partition : Len(log[r]) \in Nat /\ Len(log'[r]) \in Nat
  BY <1>2 DEF LogTypeOK
<1>4. /\ Len(Append(log[q], m)) >= Len(log[q])
      /\ Len(Append(Append(log[q], m), m)) >= Len(log[q])
  <2> HIDE DEF m
  <2>1. log[q] \in Seq(Messages \union {m})
    BY <1>2, FeedPipelineAssumption DEF LogTypeOK
  <2> QED
    BY <2>1
<1> HIDE DEF m
<1>5. ASSUME NEW r \in Partition PROVE Len(log'[r]) >= Len(log[r])
  <2>1. \/ log'[r] = log[r]
        \/ r = q /\ log'[r] = Append(log[q], m)
        \/ r = q /\ log'[r] = Append(Append(log[q], m), m)
    BY <1>1, <1>2 DEF LogTypeOK
  <2> QED
    BY <1>3, <1>4, <2>1
<1> QED
  BY <1>3, <1>5

(* Sending the intent message keeps DeliveryInv. *)
LEMMA SendIntentInv ==
    ASSUME TypeOK, DeliveryInv, NEW c \in Consumer, NEW p \in Partition, SendIntent(c, p)
    PROVE  DeliveryInv'
<1>1. UNCHANGED <<groupVars, finished>>
  BY DEF SendIntent, historyVars
<1>2. OffsetsInLog
  BY DEF DeliveryInv
<1>3. \A d \in Consumer, q \in Partition : Working(d, q)' <=> Working(d, q)
  BY DEF SendIntent, At, Working, Worker, TypeOK, WorkTypeOK, Task
<1> QED
  BY <1>1, <1>2, <1>3, SendIntentGrows, HandlerStep

(* A handler returns without a mark: its message is finished, its offset not marked. *)
LEMMA ReturnUnmarkedInv ==
    ASSUME TypeOK, DeliveryInv, NEW c \in Consumer, NEW p \in Partition,
           UNCHANGED <<log, groupVars>>, ReturnUnmarked(c, p)
    PROVE  DeliveryInv'
<1>1. \A q \in Partition : /\ finished[q] \subseteq finished'[q]
                           /\ q = p => position[c][p] \in finished'[q]
  BY DEF ReturnUnmarked, TypeOK, HistoryTypeOK
<1>2. \A d \in Consumer, q \in Partition :
          IF d = c /\ q = p THEN ~Working(d, q)' ELSE Working(d, q)' <=> Working(d, q)
  BY DEF ReturnUnmarked, Working, Worker, TypeOK, WorkTypeOK, Task
<1>3. OffsetsInLog'
  BY <1>2 DEF DeliveryInv, OffsetsInLog, groupVars
<1>4. CommittedWasFinished'
  BY <1>1 DEF DeliveryInv, CommittedWasFinished, LeftBehind, groupVars
<1>5. MarkedWasFinished'
  BY <1>1, <1>2 DEF DeliveryInv, MarkedWasFinished, Handled, groupVars, TypeOK, OffsetTypeOK
<1>6. SoleOwner'
  BY DEF DeliveryInv, SoleOwner, Members, groupVars
<1> QED
  BY <1>3, <1>4, <1>5, <1>6 DEF DeliveryInv

(* CreateFeed keeps DeliveryInv, also when its handler returns unmarked. *)
LEMMA StoreFeedInv ==
    ASSUME TypeOK, DeliveryInv, NEW c \in Consumer, NEW p \in Partition, StoreFeed(c, p)
    PROVE  DeliveryInv'
<1>1. UNCHANGED <<log, groupVars>> /\ At(c, p, "store")
  BY DEF StoreFeed
<1>2. CASE ReturnUnmarked(c, p)
  BY <1>1, <1>2, ReturnUnmarkedInv
<1>3. CASE /\ work' = [work EXCEPT ![c][p].stage = "produce", ![c][p].entry = NextEntryID]
           /\ UNCHANGED <<historyVars, errors>>
  <2>1. \A d \in Consumer, q \in Partition : Working(d, q)' <=> Working(d, q)
    BY <1>1, <1>3 DEF At, Working, TypeOK, WorkTypeOK, Task
  <2>2. \A q \in Partition : Len(log[q]) \in Nat
    BY DEF TypeOK, LogTypeOK
  <2> QED
    BY <1>1, <1>3, <2>1, <2>2, HandlerStep DEF historyVars
<1> QED
  BY <1>2, <1>3 DEF StoreFeed

(* The steps of intentResolveHandle, but for its one return without a mark. *)
LEMMA IntentResolveInv ==
    ASSUME TypeOK, DeliveryInv, NEW c \in Consumer, NEW p \in Partition,
           IntentResolveHandle(c, p)
    PROVE  DeliveryInv'
<1>1. UNCHANGED <<log, groupVars>>
  BY DEF IntentResolveHandle, ResolveIntents, ResolveNeeds, CheckDuplication, Answer,
         DeleteLocation, UpdateLocation, IndexLocation
<1>2. CASE ReturnUnmarked(c, p)
  BY <1>1, <1>2, ReturnUnmarkedInv
<1>3. CASE ~ReturnUnmarked(c, p)
  <2>1. UNCHANGED finished
    BY <1>3 DEF IntentResolveHandle, ResolveIntents, ResolveNeeds, CheckDuplication, Answer,
                DeleteLocation, UpdateLocation, IndexLocation, historyVars
  <2>2. Working(c, p)
    BY DEF IntentResolveHandle, ResolveIntents, ResolveNeeds, CheckDuplication,
           DeleteLocation, UpdateLocation, IndexLocation, At, Working
  <2>3. PICK stage \in {"needs", "delete", "mark", "duplicates", "update", "index"} :
            \/ \E intents \in Reason : Answer(c, p, stage, intents)
            \/ Goto(c, p, stage)
            \/ work' = [work EXCEPT ![c][p] = Worker(stage)]
    <3>1. work[c][p].reason \in Reason
      BY DEF TypeOK, WorkTypeOK, Task
    <3>2. CASE ResolveIntents(c, p) \/ ResolveNeeds(c, p) \/ CheckDuplication(c, p)
      BY <3>1, <3>2, FeedPipelineAssumption
      DEF ResolveIntents, ResolveNeeds, CheckDuplication, Reason
    <3>3. CASE DeleteLocation(c, p) \/ UpdateLocation(c, p) \/ IndexLocation(c, p)
      BY <1>3, <3>3 DEF DeleteLocation, UpdateLocation, IndexLocation
    <3> QED
      BY <3>2, <3>3 DEF IntentResolveHandle
  <2>4. work'[c][p].stage = stage /\ \A d \in Consumer, q \in Partition :
            d # c \/ q # p => work'[d][q] = work[d][q]
    BY <2>3 DEF Answer, Goto, Worker, TypeOK, WorkTypeOK, Task
  <2>5. \A d \in Consumer, q \in Partition : Working(d, q)' <=> Working(d, q)
    BY <2>2, <2>4 DEF Working
  <2>6. \A q \in Partition : Len(log[q]) \in Nat
    BY DEF TypeOK, LogTypeOK
  <2> QED
    BY SMTT(30), <1>1, <2>1, <2>5, <2>6, HandlerStep
<1> QED
  BY SMTT(30), <1>2, <1>3

(* A received message is in work: what lies below it was finished. *)
LEMMA ReceiveInv ==
    ASSUME TypeOK, DeliveryInv, NEW c \in Consumer, NEW p \in Partition, Receive(c, p)
    PROVE  DeliveryInv'
<1>1. PICK stage \in {"mark", "intents", "store"} : TakeMessage(c, p, stage)
  BY DEF Receive, FirstStage
<1>2. \A d \in Consumer, q \in Partition :
          IF d = c /\ q = p
          THEN /\ ~Working(d, q) /\ Working(d, q)'
               /\ position'[d][q] = position[d][q] + 1
               /\ position'[d][q] <= Len(log[q])
          ELSE (Working(d, q)' <=> Working(d, q)) /\ position'[d][q] = position[d][q]
  BY <1>1 DEF TakeMessage, Goto, At, Working, TypeOK, WorkTypeOK, Task, OffsetTypeOK, LogTypeOK
<1>3. UNCHANGED <<log, committed, base, marked, finished, phase, claims>>
  BY <1>1 DEF TakeMessage, historyVars
<1>4. OffsetsInLog'
  BY <1>2, <1>3 DEF DeliveryInv, OffsetsInLog, TypeOK, OffsetTypeOK
<1>5. CommittedWasFinished'
  BY <1>3 DEF DeliveryInv, CommittedWasFinished, LeftBehind
<1>6. \A d \in Consumer, q \in Partition : Handled(d, q)' = Handled(d, q)
  BY <1>2 DEF Handled, TypeOK, OffsetTypeOK
<1>7. MarkedWasFinished'
  BY <1>3, <1>6 DEF DeliveryInv, MarkedWasFinished
<1>8. SoleOwner'
  BY <1>3 DEF DeliveryInv, SoleOwner, Members
<1> QED
  BY <1>4, <1>5, <1>7, <1>8 DEF DeliveryInv

(* A mark covers only offsets that were finished. *)
LEMMA MarkMessageInv ==
    ASSUME TypeOK, DeliveryInv, NEW c \in Consumer, NEW p \in Partition, MarkMessage(c, p)
    PROVE  DeliveryInv'
<1>1. \A q \in Partition : /\ finished[q] \subseteq finished'[q]
                           /\ q = p => position[c][p] \in finished'[q]
  BY DEF MarkMessage, TypeOK, HistoryTypeOK
<1>2. \A d \in Consumer, q \in Partition :
          IF d = c /\ q = p
          THEN /\ Working(d, q) /\ ~Working(d, q)'
               /\ marked'[d][q] \in {position[d][q], marked[d][q]}
               /\ marked'[d][q] >= marked[d][q]
          ELSE (Working(d, q)' <=> Working(d, q)) /\ marked'[d][q] = marked[d][q]
  <2>1. \A d \in Consumer, q \in Partition :
            IF d = c /\ q = p THEN Working(d, q) /\ ~Working(d, q)'
                             ELSE Working(d, q)' <=> Working(d, q)
    BY DEF MarkMessage, Goto, At, Working, TypeOK, WorkTypeOK, Task
  <2>2. \A d \in Consumer, q \in Partition : d # c \/ q # p => marked'[d][q] = marked[d][q]
    BY DEF MarkMessage, TypeOK, OffsetTypeOK
  <2>3. marked'[c][p] = IF position[c][p] > marked[c][p] THEN position[c][p] ELSE marked[c][p]
    BY DEF MarkMessage, TypeOK, OffsetTypeOK
  <2>4. position[c][p] \in Int /\ marked[c][p] \in Int
    BY DEF TypeOK, OffsetTypeOK, NoOffset
  <2> QED
    BY <2>1, <2>2, <2>3, <2>4
<1>3. UNCHANGED <<log, committed, base, position, phase, claims>>
  BY DEF MarkMessage
<1>4. OffsetsInLog'
  BY <1>2, <1>3 DEF DeliveryInv, OffsetsInLog
<1>5. CommittedWasFinished'
  BY <1>1, <1>3 DEF DeliveryInv, CommittedWasFinished, LeftBehind
<1>6. MarkedWasFinished'
  <2>1. \A d \in Consumer, q \in Partition : \A i \in base[q] + 1 .. Handled(d, q)' : i \in finished'[q]
    BY <1>1, <1>2, <1>3 DEF DeliveryInv, MarkedWasFinished, Handled, TypeOK, OffsetTypeOK
  <2>2. \A i \in base[p] + 1 .. position[c][p] : i \in finished'[p]
    BY <1>2, <1>3, <2>1 DEF Handled
  <2>3. \A d \in Consumer, q \in Partition : \A i \in base[q] + 1 .. marked'[d][q] : i \in finished'[q]
    BY <1>1, <1>2, <2>2 DEF DeliveryInv, MarkedWasFinished
  <2> QED
    BY <1>3, <2>1, <2>3 DEF MarkedWasFinished
<1>7. SoleOwner'
  <2>1. \A q \in Partition : committed[q] \in Int /\ marked[c][q] \in Int /\ marked'[c][q] \in Int
    BY <1>2 DEF TypeOK, OffsetTypeOK, NoOffset
  <2>2. \A d \in Consumer : d \in Members => \A q \in claims[d] : q \in Partition
    BY DEF TypeOK, MemberTypeOK
  <2> QED
    BY <1>2, <1>3, <2>1, <2>2 DEF DeliveryInv, SoleOwner, Members
<1> QED
  BY <1>4, <1>5, <1>6, <1>7 DEF DeliveryInv

(***************************************************************************)
(* A commit moves offsets to what is marked.  The partitions it moves are  *)
(* claimed by no other member, whose marks stay above what is committed.   *)
(***************************************************************************)
LEMMA FlushInv ==
    ASSUME TypeOK, DeliveryInv, NEW c \in Consumer, Flush(c)
    PROVE  /\ \A p \in Partition : committed'[p] \in {committed[p], marked[c][p]}
           /\ \A p \in Partition : committed'[p] >= committed[p]
           /\ \A p \in Partition : committed'[p] # committed[p] => c \in Members /\ p \in claims[c]
           /\ \A p \in claims[c] : committed'[p] <= marked[c][p]
<1>1. c \in Members /\ claims[c] \subseteq Partition
  BY DEF Flush, TypeOK, MemberTypeOK
<1>2. \A p \in Partition : committed'[p] = IF p \in claims[c] /\ marked[c][p] # NoOffset
                                           THEN marked[c][p] ELSE committed[p]
  BY DEF Flush
<1>3. \A p \in Partition : committed[p] \in Int /\ marked[c][p] \in Int
  BY DEF TypeOK, OffsetTypeOK, NoOffset
<1>4. \A p \in claims[c] : committed[p] <= marked[c][p]
  BY <1>1 DEF DeliveryInv, SoleOwner
<1> QED
  BY <1>1, <1>2, <1>3, <1>4

(* What a commit alone preserves: the goroutine and the marks stay. *)
LEMMA CommitStep ==
    ASSUME TypeOK, DeliveryInv, NEW c \in Consumer, Flush(c) \/ UNCHANGED committed,
           UNCHANGED <<log, phase, claims, position, marked, base>>,
           \A p \in Partition : finished[p] \subseteq finished'[p],
           \A d \in Consumer, p \in Partition : Working(d, p)' <=> Working(d, p)
    PROVE  DeliveryInv'
<1>1. \A p \in Partition : committed'[p] \in {committed[p], marked[c][p]}
  BY FlushInv
<1>2. OffsetsInLog'
  BY <1>1 DEF DeliveryInv, OffsetsInLog
<1>3. CommittedWasFinished'
  BY <1>1 DEF DeliveryInv, CommittedWasFinished, LeftBehind, MarkedWasFinished
<1>4. MarkedWasFinished'
  BY DEF DeliveryInv, MarkedWasFinished, Handled
<1>5. SoleOwner'
  <2>1. \A d \in Members : \A p \in claims[d] : committed'[p] <= marked[d][p]
    <3>1. \A d \in Members : d \in Consumer /\ claims[d] \subseteq Partition
      BY DEF Members, TypeOK, MemberTypeOK
    <3> QED
      BY <3>1, FlushInv DEF DeliveryInv, SoleOwner
  <2> QED
    BY <2>1 DEF DeliveryInv, SoleOwner, Members
<1> QED
  BY <1>2, <1>3, <1>4, <1>5 DEF DeliveryInv

(* Marking and committing keep DeliveryInv. *)
LEMMA AcknowledgeInv ==
    ASSUME TypeOK, DeliveryInv, NEW c \in Consumer, NEW p \in Partition, Acknowledge(c, p)
    PROVE  DeliveryInv'
<1>1. CASE MarkMessage(c, p)
  BY <1>1, MarkMessageInv
<1>2. CASE Commit(c, p)
  <2>1. \A d \in Consumer, q \in Partition : Working(d, q)' <=> Working(d, q)
    BY <1>2 DEF Commit, At, Working, Worker, TypeOK, WorkTypeOK, Task
  <2> QED
    BY <1>2, <2>1, CommitStep DEF Commit, historyVars
<1> QED
  BY <1>1, <1>2 DEF Acknowledge

(* The commit of the ticker keeps DeliveryInv. *)
LEMMA AutoCommitInv ==
    ASSUME TypeOK, DeliveryInv, NEW c \in Consumer, AutoCommit(c)
    PROVE  DeliveryInv'
BY CommitStep DEF AutoCommit, historyVars, Working

(* The end of a session, with or without its last commit, keeps DeliveryInv. *)
LEMMA SessionStepInv ==
    ASSUME TypeOK, DeliveryInv, NEW c \in Consumer, SessionStep(c)
    PROVE  DeliveryInv'
<1>1. CASE CancelSession(c)
  <2>1. UNCHANGED <<log, committed, work, position, marked, base, finished, claims>>
    BY <1>1 DEF CancelSession, historyVars
  <2>2. Members' = Members
    BY <1>1 DEF CancelSession, Members, TypeOK, MemberTypeOK
  <2> QED
    BY <2>1, <2>2 DEF DeliveryInv, OffsetsInLog, CommittedWasFinished, LeftBehind,
                      MarkedWasFinished, Handled, Working, SoleOwner
<1>2. CASE Restart(c)
  <2>1. UNCHANGED <<log, committed, work, position, marked, base, finished, claims>>
    BY <1>2 DEF Restart, historyVars
  <2>2. Members' = Members
    BY <1>2 DEF Restart, Members, TypeOK, MemberTypeOK
  <2> QED
    BY <2>1, <2>2 DEF DeliveryInv, OffsetsInLog, CommittedWasFinished, LeftBehind,
                      MarkedWasFinished, Handled, Working, SoleOwner
<1>3. CASE \E p \in Partition : StopClaim(c, p)
  <2>1. PICK p \in Partition : StopClaim(c, p)
    BY <1>3
  <2>2. UNCHANGED <<log, committed, position, marked, base, finished, claims, phase>>
    BY <2>1 DEF StopClaim, groupVars, historyVars
  <2>3. \A d \in Consumer, q \in Partition : Working(d, q)' <=> Working(d, q)
    BY <2>1 DEF StopClaim, Goto, At, Working, TypeOK, WorkTypeOK, Task
  <2> QED
    BY <2>2, <2>3, CommitStep
<1>4. CASE Release(c)
  <2>1. /\ UNCHANGED <<log, work, base, finished>>
        /\ Flush(c) \/ UNCHANGED committed
    BY <1>4 DEF Release, historyVars
  <2>2. \A p \in Partition : ~Working(c, p)
    BY <1>4 DEF Release, At, Working
  <2>3. \A p \in Partition : committed'[p] \in {committed[p], marked[c][p]}
    BY <2>1, FlushInv
  <2>4. \A d \in Consumer, p \in Partition :
            IF d = c THEN position'[d][p] = 0 /\ marked'[d][p] = -1
            ELSE position'[d][p] = position[d][p] /\ marked'[d][p] = marked[d][p]
    BY <1>4 DEF Release, TypeOK, OffsetTypeOK, NoOffset
  <2>5. \A p \in Partition : Len(log[p]) \in Nat /\ base[p] \in Nat
    BY DEF TypeOK, LogTypeOK, OffsetTypeOK
  <2>6. OffsetsInLog'
    BY <2>1, <2>2, <2>3, <2>4, <2>5 DEF DeliveryInv, OffsetsInLog, Working
  <2>7. CommittedWasFinished'
    BY <2>1, <2>3 DEF DeliveryInv, CommittedWasFinished, LeftBehind, MarkedWasFinished
  <2>8. MarkedWasFinished'
    BY <2>1, <2>2, <2>4, <2>5 DEF DeliveryInv, MarkedWasFinished, Handled, Working
  <2>9. SoleOwner'
    <3>1. Members' = Members \ {c} /\ \A d \in Members' : claims'[d] = claims[d]
      BY <1>4 DEF Release, Members, TypeOK, MemberTypeOK
    <3>2. \A d \in Members : d \in Consumer /\ claims[d] \subseteq Partition
      BY DEF Members, TypeOK, MemberTypeOK
    <3>3. \A d \in Members' : \A p \in claims[d] : committed'[p] <= marked[d][p]
      BY <2>1, <3>1, <3>2, FlushInv DEF DeliveryInv, SoleOwner
    <3> QED
      BY <2>4, <3>1, <3>2, <3>3 DEF DeliveryInv, SoleOwner
  <2> QED
    BY <2>6, <2>7, <2>8, <2>9 DEF DeliveryInv
<1> QED
  BY <1>1, <1>2, <1>3, <1>4 DEF SessionStep

(***************************************************************************)
(* A new session: its members start from what is committed, over messages  *)
(* that were finished, or at the newest message where nothing is.          *)
(***************************************************************************)
LEMMA CompleteRebalanceInv ==
    ASSUME TypeOK, DeliveryInv, CompleteRebalance
    PROVE  DeliveryInv'
<1> DEFINE joined == {c \in Consumer : phase[c] = "joining"}
<1>1. PICK owner \in [Partition -> joined] :
          /\ claims' = [c \in Consumer |->
                           IF c \in joined THEN {p \in Partition : owner[p] = c}
                                           ELSE claims[c]]
          /\ work' = [c \in Consumer |-> [p \in Partition |->
                           IF owner[p] = c THEN Worker("waiting") ELSE work[c][p]]]
          /\ position' = [c \in Consumer |-> [p \in Partition |->
                           IF owner[p] = c THEN StartOffset(p) ELSE position[c][p]]]
          /\ marked' = [c \in Consumer |-> [p \in Partition |->
                           IF owner[p] = c THEN committed[p] ELSE marked[c][p]]]
  BY DEF CompleteRebalance
<1>2. /\ UNCHANGED <<log, committed, finished>>
      /\ Members = {}
      /\ phase' = [c \in Consumer |-> IF c \in joined THEN "active" ELSE phase[c]]
  BY DEF CompleteRebalance, historyVars
<1>3. \A p \in Partition : /\ Len(log[p]) \in Nat
                           /\ base[p] \in Nat
                           /\ base[p] <= base'[p]
                           /\ base'[p] <= Len(log[p])
                           /\ committed[p] = -1 => base'[p] = Len(log[p])
                           /\ committed[p] # -1 => base'[p] = base[p]
  BY DEF CompleteRebalance, DeliveryInv, OffsetsInLog, TypeOK, LogTypeOK, OffsetTypeOK, NoOffset
<1>4. \A c \in Consumer, p \in Partition :
          \/ /\ owner[p] = c
             /\ position'[c][p] = StartOffset(p)
             /\ marked'[c][p] = committed[p]
             /\ ~Working(c, p)'
          \/ /\ owner[p] # c
             /\ position'[c][p] = position[c][p]
             /\ marked'[c][p] = marked[c][p]
             /\ Working(c, p)' <=> Working(c, p)
  BY <1>1 DEF Working, Worker
<1>5. OffsetsInLog'
  BY <1>2, <1>3, <1>4 DEF DeliveryInv, OffsetsInLog, StartOffset
<1>6. CommittedWasFinished'
  <2>1. ASSUME NEW p \in Partition
        PROVE  \A i \in base'[p] + 1 .. committed[p] : i \in finished[p]
    <3>1. CASE committed[p] = -1
      BY <1>3, <3>1
    <3>2. CASE committed[p] # -1
      BY <1>3, <3>2 DEF DeliveryInv, CommittedWasFinished, LeftBehind
    <3> QED
      BY <3>1, <3>2
  <2> QED
    BY <1>2, <2>1 DEF CommittedWasFinished, LeftBehind
<1>7. MarkedWasFinished'
  <2>1. SUFFICES ASSUME NEW c \in Consumer, NEW p \in Partition
                 PROVE  /\ \A i \in base'[p] + 1 .. marked'[c][p] : i \in finished[p]
                        /\ \A i \in base'[p] + 1 .. Handled(c, p)' : i \in finished[p]
    BY <1>2 DEF MarkedWasFinished
  <2>2. CASE owner[p] # c
    <3>1. Handled(c, p)' = Handled(c, p) /\ marked'[c][p] = marked[c][p]
      BY <1>4, <2>2 DEF Handled
    <3>2. /\ \A i \in base[p] + 1 .. marked[c][p] : i \in finished[p]
          /\ \A i \in base[p] + 1 .. Handled(c, p) : i \in finished[p]
      BY DEF DeliveryInv, MarkedWasFinished
    <3>3. base[p] \in Int /\ base'[p] \in Int /\ base[p] <= base'[p]
      BY <1>3 DEF TypeOK, OffsetTypeOK
    <3>4. marked[c][p] \in Int /\ Handled(c, p) \in Int
      BY DEF Handled, TypeOK, OffsetTypeOK, NoOffset
    <3> QED
      BY <3>1, <3>2, <3>3, <3>4
  <2>3. CASE owner[p] = c /\ committed[p] = -1
    <3>1. Handled(c, p)' = Len(log[p]) /\ marked'[c][p] = -1
      BY <1>4, <2>3 DEF Handled, StartOffset, NoOffset
    <3> QED
      BY <1>3, <2>3, <3>1
  <2>4. CASE owner[p] = c /\ committed[p] # -1
    <3>1. Handled(c, p)' = committed[p] /\ marked'[c][p] = committed[p]
      BY <1>4, <2>4 DEF Handled, StartOffset, NoOffset
    <3> QED
      BY <1>3, <2>4, <3>1 DEF DeliveryInv, CommittedWasFinished, LeftBehind
  <2> QED
    BY <2>2, <2>3, <2>4
<1>8. SoleOwner'
  <2>1. \A c \in Members' : c \in joined /\ claims'[c] = {p \in Partition : owner[p] = c}
    BY <1>1, <1>2 DEF Members
  <2>2. \A p \in Partition : committed[p] \in Int
    BY DEF TypeOK, OffsetTypeOK, NoOffset
  <2> QED
    BY <1>2, <1>4, <2>1, <2>2 DEF SoleOwner
<1> QED
  BY <1>5, <1>6, <1>7, <1>8 DEF DeliveryInv

(* A process that ends takes no finished message with it. *)
LEMMA StopInv ==
    ASSUME TypeOK, DeliveryInv, NEW c \in Consumer, Stop(c)
    PROVE  DeliveryInv'
<1>1. UNCHANGED <<log, committed, base, finished>>
  BY DEF Stop, historyVars
<1>2. \A d \in Consumer, p \in Partition :
          IF d = c THEN position'[d][p] = 0 /\ marked'[d][p] = -1 /\ ~Working(d, p)'
          ELSE /\ position'[d][p] = position[d][p] /\ marked'[d][p] = marked[d][p]
               /\ Working(d, p)' <=> Working(d, p)
  BY DEF Stop, Working, NoWorkers, Worker, TypeOK, WorkTypeOK, OffsetTypeOK, NoOffset
<1>3. \A p \in Partition : Len(log[p]) \in Nat /\ base[p] \in Nat
  BY DEF TypeOK, LogTypeOK, OffsetTypeOK
<1>4. OffsetsInLog'
  BY <1>1, <1>2, <1>3 DEF DeliveryInv, OffsetsInLog
<1>5. CommittedWasFinished'
  BY <1>1 DEF DeliveryInv, CommittedWasFinished, LeftBehind
<1>6. MarkedWasFinished'
  BY <1>1, <1>2, <1>3 DEF DeliveryInv, MarkedWasFinished, Handled
<1>7. SoleOwner'
  <2>1. Members' = Members \ {c} /\ \A d \in Members' : claims'[d] = claims[d]
    BY DEF Stop, Members, TypeOK, MemberTypeOK
  <2>2. \A d \in Members : d \in Consumer /\ claims[d] \subseteq Partition
    BY DEF Members, TypeOK, MemberTypeOK
  <2> QED
    BY <1>1, <1>2, <2>1, <2>2 DEF DeliveryInv, SoleOwner
<1> QED
  BY <1>4, <1>5, <1>6, <1>7 DEF DeliveryInv

(* Whatever disrupts the group keeps DeliveryInv. *)
LEMMA DisruptionInv ==
    ASSUME TypeOK, DeliveryInv, Disruption
    PROVE  DeliveryInv'
<1>1. CASE \E c \in Consumer : Stop(c) \/ \E p \in Partition : NilMessage(c, p)
  BY <1>1, StopInv DEF NilMessage
<1>2. CASE Rebalance \/ \E c \in Consumer : Evict(c)
  <2>1. UNCHANGED <<log, committed, claims, work, position, marked, finished, base>>
    BY <1>2 DEF Rebalance, Evict, historyVars
  <2>2. Members' \subseteq Members
    BY <1>2 DEF Rebalance, Evict, Members, TypeOK, MemberTypeOK
  <2> QED
    BY <2>1, <2>2 DEF DeliveryInv, OffsetsInLog, CommittedWasFinished, LeftBehind,
                      MarkedWasFinished, Handled, Working, SoleOwner
<1> QED
  BY <1>1, <1>2 DEF Disruption

-----------------------------------------------------------------------------
(* The theorems. *)

IInv == TypeOK /\ DeliveryInv

(* The invariant holds initially. *)
LEMMA InitInv == Init => IInv
<1> SUFFICES ASSUME Init PROVE IInv
    OBVIOUS
<1>1. LogTypeOK /\ BudgetTypeOK
  BY FeedPipelineAssumption, ConsumerGroupAssumption
  DEF Init, GroupInit, LogTypeOK, BudgetTypeOK
<1>2. WorkTypeOK
  BY DEF Init, GroupInit, NoWorkers, Worker, WorkTypeOK, Task, Stage, Reason
<1>3. HistoryTypeOK /\ OffsetTypeOK /\ MemberTypeOK
  BY DEF Init, GroupInit, HistoryTypeOK, OffsetTypeOK, MemberTypeOK, Phase
<1>4. StoreTypeOK
  BY DEF Init, StoreInit, StoreTypeOK, NoDocument, Document, Reason
<1>5. \A p \in Partition : committed[p] \in {-1, 0} /\ base[p] = 0 /\ Len(log[p]) = 0
  BY DEF Init, GroupInit, NoOffset
<1>6. \A c \in Consumer, p \in Partition :
          marked[c][p] = -1 /\ position[c][p] = 0 /\ ~Working(c, p)
  BY DEF Init, GroupInit, NoOffset, Working, NoWorkers, Worker
<1>7. OffsetsInLog /\ CommittedWasFinished /\ MarkedWasFinished
  BY <1>5, <1>6 DEF OffsetsInLog, CommittedWasFinished, LeftBehind, MarkedWasFinished, Handled
<1>8. SoleOwner
  BY DEF Init, GroupInit, SoleOwner, Members
<1> QED
  BY <1>1, <1>2, <1>3, <1>4, <1>7, <1>8 DEF IInv, TypeOK, DeliveryInv

(* The invariant is inductive. *)
LEMMA NextInv == IInv /\ [Next]_vars => IInv'
<1> SUFFICES ASSUME TypeOK, DeliveryInv, [Next]_vars PROVE TypeOK' /\ DeliveryInv'
    BY DEF IInv
<1>1. OffsetsInLog
  BY DEF DeliveryInv
<1>2. CASE \E p \in Partition : Publish(p)
  BY <1>2, PublishType, PublishInv
<1>3. ASSUME NEW c \in Consumer, NEW p \in Partition, ClaimStep(c, p)
      PROVE  TypeOK' /\ DeliveryInv'
  <2>1. CASE Receive(c, p)
    BY <2>1, ReceiveType, ReceiveInv
  <2>2. CASE StoreFeed(c, p)
    BY <1>1, <2>2, StoreFeedType, StoreFeedInv
  <2>3. CASE SendIntent(c, p)
    BY <1>1, <2>3, SendIntentType, SendIntentInv
  <2>4. CASE IntentResolveHandle(c, p)
    BY <1>1, <2>4, ServiceType, DeleteLocationType, UpdateLocationType, IndexLocationType,
       IntentResolveInv DEF IntentResolveHandle
  <2>5. CASE Acknowledge(c, p)
    BY <2>5, AcknowledgeType, AcknowledgeInv
  <2> QED
    BY <1>3, <2>1, <2>2, <2>3, <2>4, <2>5 DEF ClaimStep, AddressResolveHandle
<1>4. CASE \E c \in Consumer, p \in Partition : UnreachableService(c, p)
  BY <1>4, StopType, StopInv DEF UnreachableService
<1>5. CASE \E c \in Consumer : SessionStep(c)
  BY <1>5, SessionStepType, SessionStepInv
<1>6. CASE \E c \in Consumer : AutoCommit(c) /\ UNCHANGED <<storeVars, published, errors>>
  BY <1>6, AutoCommitType, AutoCommitInv
<1>7. CASE CompleteRebalance /\ UNCHANGED <<storeVars, published, errors>>
  BY <1>7, CompleteRebalanceType, CompleteRebalanceInv
<1>8. CASE Disruption
  BY <1>8, DisruptionType, DisruptionInv
<1>9. CASE UNCHANGED vars
  <2>1. TypeOK'
    BY <1>9, UnchangedType DEF vars, groupVars, TypeOK
  <2>2. UNCHANGED <<log, groupVars, finished, work>>
    BY <1>9 DEF vars, historyVars
  <2>3. \A p \in Partition : Len(log[p]) \in Nat
    BY DEF TypeOK, LogTypeOK
  <2> QED
    BY <2>1, <2>2, <2>3, HandlerStep DEF Working
<1> QED
  BY <1>2, <1>3, <1>4, <1>5, <1>6, <1>7, <1>8, <1>9 DEF Next

(* The invariant holds in every reachable state. *)
LEMMA InvariantHolds == Spec => []IInv
BY InitInv, NextInv, PTL DEF Spec

(***************************************************************************)
(* Every variable keeps its type.                                          *)
(***************************************************************************)
THEOREM TypeCorrect == Spec => []TypeOK
BY InvariantHolds, PTL DEF IInv

(***************************************************************************)
(* Whatever the consumers, the coordinator and the host do, the group      *)
(* leaves no message behind that no handler has returned from.             *)
(***************************************************************************)
THEOREM DeliverySafe == Spec => []CommittedWasFinished
BY InvariantHolds, PTL DEF IInv, DeliveryInv

(***************************************************************************)
(* What any session of any member may still commit was finished too, and   *)
(* a partition never has two owners in the group.                          *)
(***************************************************************************)
THEOREM DeliveryHolds == Spec => []DeliveryInv
BY InvariantHolds, PTL DEF IInv

(***************************************************************************)
(* The offset of a partition never goes back: what is left behind is not   *)
(* delivered again.                                                        *)
(***************************************************************************)
THEOREM OffsetsMonotonic == Spec => OffsetsNeverRewind
<1>1. ASSUME IInv, [Next]_vars
      PROVE  \A p \in Partition : committed'[p] >= committed[p]
  <2>1. \A p \in Partition : committed[p] \in Int
    BY <1>1 DEF IInv, TypeOK, OffsetTypeOK, NoOffset
  <2>2. CASE UNCHANGED committed
    BY <2>1, <2>2
  <2>3. CASE \E c \in Consumer : Flush(c)
    BY <1>1, <2>3, FlushInv DEF IInv
  <2>4. UNCHANGED committed \/ \E c \in Consumer : Flush(c)
    <3>1. ASSUME NEW c \in Consumer, NEW p \in Partition, ClaimStep(c, p)
          PROVE  UNCHANGED committed \/ Flush(c)
      <4>1. CASE Receive(c, p) \/ Acknowledge(c, p)
        BY <4>1 DEF Receive, TakeMessage, Acknowledge, MarkMessage, Commit
      <4>2. CASE AddressResolveHandle(c, p)
        BY SMTT(30), <4>2 DEF AddressResolveHandle, StoreFeed, SendIntent, groupVars
      <4>3. CASE IntentResolveHandle(c, p)
        BY <4>3 DEF IntentResolveHandle, ResolveIntents, ResolveNeeds, CheckDuplication,
                    Answer, DeleteLocation, UpdateLocation, IndexLocation, groupVars
      <4> QED
        BY <3>1, <4>1, <4>2, <4>3 DEF ClaimStep
    <3>2. ASSUME NEW c \in Consumer, SessionStep(c)
          PROVE  UNCHANGED committed \/ Flush(c)
      BY <3>2 DEF SessionStep, CancelSession, Release, Restart, StopClaim, groupVars
    <3>3. CASE \E p \in Partition : Publish(p)
      BY <3>3 DEF Publish, groupVars
    <3>4. CASE \E c \in Consumer, p \in Partition : UnreachableService(c, p)
      BY <3>4 DEF UnreachableService, Stop
    <3>5. CASE \E c \in Consumer : AutoCommit(c)
      BY <3>5 DEF AutoCommit
    <3>6. CASE CompleteRebalance
      BY <3>6 DEF CompleteRebalance
    <3>7. CASE Disruption
      BY <3>7 DEF Disruption, Rebalance, Evict, Stop, NilMessage
    <3>8. CASE UNCHANGED vars
      BY <3>8 DEF vars, groupVars
    <3> QED
      BY <1>1, <3>1, <3>2, <3>3, <3>4, <3>5, <3>6, <3>7, <3>8 DEF Next
  <2> QED
    BY <2>2, <2>3, <2>4
<1>2. IInv /\ [Next]_vars => [\A p \in Partition : committed'[p] >= committed[p]]_vars
  BY <1>1
<1> QED
  BY <1>2, InvariantHolds, PTL DEF Spec, OffsetsNeverRewind

-----------------------------------------------------------------------------
(* The pipeline implements the contract of DeliveryContract. *)

(* Longer logs are a Send of the contract. *)
LEMMA SendRefines ==
    ASSUME \A p \in Partition : Len(log'[p]) >= Len(log[p]),
           UNCHANGED <<finished, committed, base>>
    PROVE  Contract!Send
BY DEF Contract!Send

(* A handler returns, with or without a mark. *)
LEMMA HandleRefines ==
    ASSUME TypeOK, DeliveryInv, NEW c \in Consumer, NEW p \in Partition, Working(c, p),
           finished' = [finished EXCEPT ![p] = @ \union {position[c][p]}],
           UNCHANGED <<log, committed, base>>
    PROVE  Contract!Handle
<1>1. position[c][p] \in 1..Len(log[p])
  BY MessageType DEF DeliveryInv
<1> QED
  BY <1>1 DEF Contract!Handle

(* A flush is a Commit of the contract. *)
LEMMA CommitRefines ==
    ASSUME TypeOK, DeliveryInv, DeliveryInv', NEW c \in Consumer, Flush(c),
           UNCHANGED <<log, finished, base>>
    PROVE  Contract!Commit
<1>1. \A p \in Partition : committed'[p] >= committed[p]
  BY FlushInv
<1>2. \A p \in Partition : \A i \in base[p] + 1 .. committed'[p] : i \in finished[p]
  BY DEF DeliveryInv, CommittedWasFinished, LeftBehind
<1> QED
  BY <1>1, <1>2 DEF Contract!Commit

(* New sessions are a StartAtNewest of the contract. *)
LEMMA StartRefines ==
    ASSUME CompleteRebalance
    PROVE  Contract!StartAtNewest
BY DEF CompleteRebalance, Contract!StartAtNewest, historyVars, NoOffset

(* What leaves the mapped variables alone is a stutter. *)
LEMMA StutterRefines ==
    ASSUME UNCHANGED <<log, finished, committed, base>>
    PROVE  UNCHANGED Contract!vars
BY DEF Contract!vars

(* Every step of a goroutine maps to a step of the contract or a stutter. *)
LEMMA ClaimStepRefines ==
    ASSUME TypeOK, DeliveryInv, DeliveryInv', NEW c \in Consumer, NEW p \in Partition,
           ClaimStep(c, p)
    PROVE  [Contract!Next]_(Contract!vars)
<1>1. CASE Receive(c, p)
  BY <1>1, StutterRefines DEF Receive, TakeMessage, historyVars
<1>2. CASE StoreFeed(c, p)
  <2>1. Working(c, p) /\ UNCHANGED <<log, committed, base>>
    BY <1>2 DEF StoreFeed, At, Working, groupVars
  <2>2. CASE ReturnUnmarked(c, p)
    BY <2>1, <2>2, HandleRefines DEF ReturnUnmarked, Contract!Next
  <2>3. CASE UNCHANGED finished
    BY <2>1, <2>3, StutterRefines
  <2> QED
    BY <1>2, <2>2, <2>3 DEF StoreFeed, historyVars
<1>3. CASE SendIntent(c, p)
  <2>1. \A q \in Partition : Len(log'[q]) >= Len(log[q])
    BY <1>3, SendIntentGrows DEF DeliveryInv
  <2>2. UNCHANGED <<finished, committed, base>>
    BY <1>3 DEF SendIntent, historyVars, groupVars
  <2> QED
    BY <2>1, <2>2, SendRefines DEF Contract!Next
<1>4. CASE IntentResolveHandle(c, p)
  <2>1. Working(c, p) /\ UNCHANGED <<log, committed, base>>
    BY SMTT(30), <1>4 DEF IntentResolveHandle, ResolveIntents, ResolveNeeds, CheckDuplication, Answer,
                DeleteLocation, UpdateLocation, IndexLocation, At, Working, groupVars
  <2>2. CASE ReturnUnmarked(c, p)
    BY <2>1, <2>2, HandleRefines DEF ReturnUnmarked, Contract!Next
  <2>3. CASE ~ReturnUnmarked(c, p)
    BY <1>4, <2>1, <2>3, StutterRefines
    DEF IntentResolveHandle, ResolveIntents, ResolveNeeds, CheckDuplication, Answer,
        DeleteLocation, UpdateLocation, IndexLocation, historyVars
  <2> QED
    BY SMTT(30), <2>2, <2>3
<1>5. CASE Acknowledge(c, p)
  <2>1. CASE MarkMessage(c, p)
    <3>1. Working(c, p)
      BY <2>1 DEF MarkMessage, At, Working
    <3> QED
      BY <2>1, <3>1, HandleRefines DEF MarkMessage, Contract!Next
  <2>2. CASE Commit(c, p)
    <3>1. UNCHANGED <<log, finished, base>>
      BY <2>2 DEF Commit, historyVars
    <3> QED
      BY <2>2, <3>1, CommitRefines, StutterRefines DEF Commit, Contract!Next
  <2> QED
    BY <1>5, <2>1, <2>2 DEF Acknowledge
<1> QED
  BY <1>1, <1>2, <1>3, <1>4, <1>5 DEF ClaimStep, AddressResolveHandle

(* What the group and the host do: commits, starts, and nothing else. *)
LEMMA GroupStepRefines ==
    ASSUME TypeOK, DeliveryInv, DeliveryInv',
           \/ \E c \in Consumer : SessionStep(c) \/ AutoCommit(c)
           \/ \E c \in Consumer, p \in Partition : UnreachableService(c, p)
           \/ CompleteRebalance
           \/ Disruption
    PROVE  [Contract!Next]_(Contract!vars)
<1>1. CASE \E c \in Consumer : SessionStep(c) \/ AutoCommit(c)
  <2>1. PICK c \in Consumer : SessionStep(c) \/ AutoCommit(c)
    BY <1>1
  <2>2. UNCHANGED <<log, finished, base>> /\ (Flush(c) \/ UNCHANGED committed)
    BY <2>1 DEF SessionStep, CancelSession, Release, Restart, StopClaim, AutoCommit,
                historyVars, groupVars
  <2> QED
    BY <2>2, CommitRefines, StutterRefines DEF Contract!Next
<1>2. CASE \E c \in Consumer, p \in Partition : UnreachableService(c, p)
  BY <1>2, StutterRefines DEF UnreachableService, Stop, historyVars
<1>3. CASE CompleteRebalance
  BY <1>3, StartRefines DEF Contract!Next
<1>4. CASE Disruption
  BY <1>4, StutterRefines DEF Disruption, Rebalance, Evict, Stop, NilMessage, historyVars
<1> QED
  BY <1>1, <1>2, <1>3, <1>4

(***************************************************************************)
(* The pipeline keeps the contract: every step sends, handles, commits or  *)
(* starts as the contract lets it, or is none of its business.             *)
(***************************************************************************)
THEOREM PipelineKeepsContract == Spec => DeliveryContractKept
<1>1. Init => Contract!Init
  BY DEF Init, GroupInit, NoOffset, Contract!Init
<1>2. ASSUME IInv, IInv', [Next]_vars
      PROVE  [Contract!Next]_(Contract!vars)
  <2>1. CASE \E p \in Partition : Publish(p)
    <3>1. \A q \in Partition : Len(log'[q]) >= Len(log[q])
      BY <1>2, <2>1, PublishGrows DEF IInv
    <3> QED
      BY <2>1, <3>1, SendRefines DEF Publish, groupVars, historyVars, Contract!Next
  <2>2. CASE \E c \in Consumer, p \in Partition : ClaimStep(c, p)
    BY <1>2, <2>2, ClaimStepRefines DEF IInv
  <2>3. CASE UNCHANGED vars
    BY <2>3, StutterRefines DEF vars, groupVars, historyVars
  <2> QED
    BY <1>2, <2>1, <2>2, <2>3, GroupStepRefines DEF Next, IInv
<1> QED
  BY <1>1, <1>2, InvariantHolds, PTL DEF Spec, DeliveryContractKept, Contract!Spec
=============================================================================
