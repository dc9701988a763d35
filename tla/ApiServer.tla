------------------------------- MODULE ApiServer -------------------------------
(***************************************************************************)
(* A process of the API server: its requests share the pool of connections *)
(* (ConnPool), a PATCH runs a batch in the database (UpdateBatch), a POST  *)
(* to /events sends to Kafka (EventIngest).  When the process ends, by a   *)
(* crash or a SIGTERM, its requests end with it; what it sent to the       *)
(* database and to Kafka goes on.                                          *)
(***************************************************************************)
EXTENDS ConnPool, UpdateBatch, EventIngest

CONSTANTS None,         \* no batch
          MaxRestarts   \* bound: how many processes follow the first one

ASSUME NoneAssumption == None \notin Batch

VARIABLES carries,      \* carries[r]: the batch the PATCH in slot r waits for, or None
          orphans,      \* batches whose connection or process is gone
          restarts      \* how many processes ended


poolVars == vars
serverVars == <<poolVars, batchVars, eventVars, carries, orphans, restarts>>

ServerInit ==
    /\ Init
    /\ BatchInit
    /\ EventInit
    /\ carries = [r \in Request |-> None]
    /\ orphans = {}
    /\ restarts = 0

PoolOnly == UNCHANGED <<batchVars, eventVars, carries, orphans, restarts>>
BatchOnly == UNCHANGED <<poolVars, eventVars, carries, restarts>>
EventOnly == UNCHANGED <<poolVars, batchVars, carries, orphans, restarts>>

(***************************************************************************)
(* Bounds: a PATCH comes in only while there is a batch for it, and POSTs  *)
(* of events come in while nobody calls the database, with which they      *)
(* share nothing but the process they end with.                            *)
(***************************************************************************)
Patch(r) ==
    /\ \A p \in Post : answer[p] = "none"
    /\ Cardinality({s \in Request : stage[s] = "acquiring" /\ call[s] = "UpdateFeedLocations"})
         < Cardinality({b \in Batch : state[b] = "none"})
    /\ Call(r, "UpdateFeedLocations")
    /\ PoolOnly

(* Bound: calls with a deadline come in until the first process ends. *)
Receive(r) ==
    /\ restarts = 0
    /\ \A p \in Post : answer[p] = "none"
    /\ \E m \in Timed : Call(r, m)
    /\ PoolOnly

(* The PATCH gets its connection, and its batch is sent on it. *)
RunBatch(r) ==
    /\ call[r] = "UpdateFeedLocations"
    /\ Acquire(r)
    /\ \E b \in Batch : /\ \E l \in Lists : SendBatch(b, l)
                        /\ carries' = [carries EXCEPT ![r] = b]
    /\ UNCHANGED <<eventVars, orphans, restarts>>

RunStatement(r) == call[r] \in Timed /\ Acquire(r) /\ PoolOnly

(* Exec returns the first result, and the rest of them stays unread. *)
AnswerPatch(r) ==
    /\ ExecBatch(r)
    /\ carries[r] \in Batch
    /\ ReadFirstResult(carries[r])
    /\ carries' = [carries EXCEPT ![r] = None]
    /\ UNCHANGED <<eventVars, orphans, restarts>>

(* Exec fails on the way back from the server, which has the batch by now. *)
(* Bound: once in a behaviour.                                             *)
BreakPatch(r) ==
    /\ \A b \in Batch : reply[b] # "broken"
    /\ ExecBatch(r)
    /\ carries[r] \in Batch
    /\ BreakOff(carries[r])
    /\ carries' = [carries EXCEPT ![r] = None]
    /\ orphans' = orphans \union {b \in {carries[r]} : state[b] = "running"}
    /\ UNCHANGED <<eventVars, restarts>>

AnswerTimed(r) == (Finish(r) \/ PanicOnRow(r) \/ GiveUp(r)) /\ PoolOnly

RefusePool(r) == Refuse(r) /\ PoolOnly

Step(b) == BatchOnly /\ UNCHANGED orphans /\ ServerStep(b)

(* The server notices that b is cancelled or that its connection is gone. *)
Orphaned(b) == b \in orphans /\ CutOff(b) /\ BatchOnly /\ UNCHANGED orphans

(* What keeps a request from waiting for ever. *)
Proceed(r) == AnswerPatch(r) \/ AnswerTimed(r) \/ RefusePool(r)

ReceiveEvents(p) ==
    /\ process = "up"
    /\ \A b \in Batch : state[b] = "none"
    /\ \A r \in Request : call[r] = "none"
    /\ Decode(p)
    /\ EventOnly

PostEvents(p) == PostStep(p) /\ EventOnly

LateEvent == (\E f \in late : WriteLate(f)) /\ EventOnly

(* Everything the process did not send before it ended stays undone. *)
CutRequests ==
    /\ restarts < MaxRestarts
    /\ restarts' = restarts + 1
    /\ orphans' = orphans \union {b \in Batch : state[b] = "running"}
    /\ LoseReplies
    /\ carries' = [r \in Request |-> None]
    /\ CutPosts

Sigterm == restarts < MaxRestarts /\ Terminate /\ PoolOnly
ExitServer == Exit /\ CutRequests
CrashServer == Crash /\ CutRequests

ServerNext ==
    \/ \E r \in Request :
          \/ Receive(r)
          \/ Patch(r)
          \/ RunBatch(r)
          \/ RunStatement(r)
          \/ Proceed(r)
          \/ BreakPatch(r)
    \/ \E b \in Batch : Step(b) \/ Orphaned(b)
    \/ \E p \in Post : ReceiveEvents(p) \/ PostEvents(p)
    \/ LateEvent
    \/ Sigterm
    \/ ExitServer
    \/ CrashServer

ServerSpec == ServerInit /\ [][ServerNext]_serverVars

(* The fairness of the three parts, for the actions that join them; weak   *)
(* fairness of Acquire is enough here.                                     *)
FairServer ==
    /\ ServerSpec
    /\ \A r \in Request : WF_serverVars(Proceed(r))
    /\ WF_serverVars(ExitServer)
    /\ BatchFairness
    /\ EventFairness
=============================================================================
