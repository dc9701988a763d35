---------------------------- MODULE ApiServerProofs ----------------------------
(***************************************************************************)
(* The server behaves like each of its parts, so what was proved of the    *)
(* pool, of the batches and of the posts of events holds in the server,    *)
(* with any number of requests, connections, batches, posts and restarts.  *)
(***************************************************************************)
EXTENDS ApiServer, ConnPoolProofs, UpdateBatchProofs, EventIngestProofs

(* A step of the server is a step of its pool, or none. *)
LEMMA ServerStepsPool == [ServerNext]_serverVars => [Next]_vars
<1> SUFFICES ASSUME [ServerNext]_serverVars PROVE [Next]_vars  OBVIOUS
<1> USE DEF poolVars
<1>1. CASE UNCHANGED serverVars  BY <1>1 DEF serverVars
<1>2. ASSUME NEW r \in Request, Receive(r) \/ Patch(r) PROVE Next
  BY <1>2 DEF Receive, Patch, Timed, Method, Next
<1>3. ASSUME NEW r \in Request, RunBatch(r) \/ RunStatement(r) PROVE Next
  BY <1>3 DEF RunBatch, RunStatement, Next
<1>4. ASSUME NEW r \in Request, Proceed(r) \/ BreakPatch(r) PROVE Next
  BY <1>4
  DEF Proceed, AnswerPatch, BreakPatch, AnswerTimed, RefusePool, PanicOnRow, ExecBatch, Return, Next
<1>5. CASE Sigterm \/ ExitServer \/ CrashServer
  BY <1>5 DEF Sigterm, ExitServer, CrashServer, Next
<1>6. ASSUME NEW b \in Batch, Step(b) \/ Orphaned(b) PROVE UNCHANGED vars
  BY <1>6 DEF Step, Orphaned, BatchOnly
<1>7. ASSUME NEW p \in Post, ReceiveEvents(p) \/ PostEvents(p) PROVE UNCHANGED vars
  BY <1>7 DEF ReceiveEvents, PostEvents, EventOnly
<1>8. CASE LateEvent  BY <1>8 DEF LateEvent, EventOnly
<1> QED
  BY <1>1, <1>2, <1>3, <1>4, <1>5, <1>6, <1>7, <1>8 DEF ServerNext

(* A step of the server is a step of its batches, or none. *)
LEMMA ServerStepsBatches == [ServerNext]_serverVars => [BatchNext]_batchVars
<1> SUFFICES ASSUME [ServerNext]_serverVars PROVE [BatchNext]_batchVars  OBVIOUS
<1>1. CASE UNCHANGED serverVars  BY <1>1 DEF serverVars
<1>2. ASSUME NEW r \in Request,
             Receive(r) \/ Patch(r) \/ RunStatement(r) \/ AnswerTimed(r) \/ RefusePool(r)
      PROVE  UNCHANGED batchVars
  BY <1>2 DEF Receive, Patch, RunStatement, AnswerTimed, RefusePool, PoolOnly
<1>3. ASSUME NEW r \in Request, RunBatch(r) PROVE BatchNext
  BY <1>3 DEF RunBatch, BatchNext
<1>4. ASSUME NEW r \in Request, AnswerPatch(r) \/ BreakPatch(r) PROVE BatchNext
  BY <1>4 DEF AnswerPatch, BreakPatch, BatchNext
<1>5. CASE Sigterm  BY <1>5 DEF Sigterm, PoolOnly
<1>6. CASE ExitServer \/ CrashServer
  BY <1>6 DEF ExitServer, CrashServer, CutRequests, BatchNext
<1>7. ASSUME NEW b \in Batch, Step(b) \/ Orphaned(b) PROVE BatchNext
  BY <1>7 DEF Step, Orphaned, BatchNext
<1>8. ASSUME NEW p \in Post, ReceiveEvents(p) \/ PostEvents(p)
      PROVE  UNCHANGED batchVars
  BY <1>8 DEF ReceiveEvents, PostEvents, EventOnly
<1>9. CASE LateEvent  BY <1>9 DEF LateEvent, EventOnly
<1> QED
  BY <1>1, <1>2, <1>3, <1>4, <1>5, <1>6, <1>7, <1>8, <1>9 DEF ServerNext, Proceed

(* A step of the server is a step of its posts, or none. *)
LEMMA ServerStepsEvents == [ServerNext]_serverVars => [EventNext]_eventVars
<1> SUFFICES ASSUME [ServerNext]_serverVars PROVE [EventNext]_eventVars  OBVIOUS
<1>1. CASE UNCHANGED serverVars  BY <1>1 DEF serverVars
<1>2. ASSUME NEW r \in Request,
             \/ Receive(r) \/ Patch(r) \/ RunStatement(r) \/ AnswerTimed(r) \/ RefusePool(r)
             \/ RunBatch(r) \/ AnswerPatch(r) \/ BreakPatch(r)
      PROVE  UNCHANGED eventVars
  BY <1>2 DEF Receive, Patch, RunStatement, AnswerTimed, RefusePool, PoolOnly,
              RunBatch, AnswerPatch, BreakPatch
<1>3. CASE Sigterm  BY <1>3 DEF Sigterm, PoolOnly
<1>4. CASE ExitServer \/ CrashServer
  BY <1>4 DEF ExitServer, CrashServer, CutRequests, EventNext
<1>5. ASSUME NEW b \in Batch, Step(b) \/ Orphaned(b) PROVE UNCHANGED eventVars
  BY <1>5 DEF Step, Orphaned, BatchOnly
<1>6. ASSUME NEW p \in Post, ReceiveEvents(p) \/ PostEvents(p) PROVE EventNext
  BY <1>6 DEF ReceiveEvents, PostEvents, EventNext
<1>7. CASE LateEvent  BY <1>7 DEF LateEvent, EventNext
<1> QED
  BY <1>1, <1>2, <1>3, <1>4, <1>5, <1>6, <1>7 DEF ServerNext, Proceed

(***************************************************************************)
(* The server implements each of its parts.                                *)
(***************************************************************************)
THEOREM ServerImplementsParts == ServerSpec => Spec /\ BatchSpec /\ EventSpec
<1>1. ServerInit => Init /\ BatchInit /\ EventInit  BY DEF ServerInit
<1> QED
  BY <1>1, ServerStepsPool, ServerStepsBatches, ServerStepsEvents, PTL
  DEF ServerSpec, Spec, BatchSpec, EventSpec

(***************************************************************************)
(* The variables of the parts keep their types in the server.              *)
(***************************************************************************)
THEOREM ServerTypesCorrect == ServerSpec => [](TypeOK /\ BatchTypeOK /\ EventTypeOK)
BY ServerImplementsParts, PoolTypeCorrect, BatchTypeCorrect, EventsTypeCorrect, PTL

(***************************************************************************)
(* In the server, through crashes and restarts: only batches and panics    *)
(* shrink the pool, PATCHes are atomic, sorted lists never deadlock, the   *)
(* answers of PATCH and POST say what they say of the outcome, and events  *)
(* come in the order of their post.                                        *)
(***************************************************************************)
THEOREM ServerIsSafe ==
    ServerSpec => /\ []OnlyUnclosedResultsAreLost
                  /\ PatchesAtomic
                  /\ []SortedListsNeverDeadlock
                  /\ []ReplyTellsOutcome
                  /\ []CreatedMeansTried
                  /\ []BodyOrderKept
BY ServerImplementsParts, PoolAccounted, BatchIsAtomic, SortedListsAreSafe,
   RepliesAreTold, EveryFeedIsTried, BodyOrderHolds, PTL
=============================================================================
