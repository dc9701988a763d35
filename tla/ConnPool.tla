------------------------------- MODULE ConnPool -------------------------------
(***************************************************************************)
(* The connections to PostgreSQL that the handlers of the API server       *)
(* share.  repository.New makes a pool of MaxConns; a method of Repository *)
(* acquires a connection for its statement and gives it back when the      *)
(* result has been read to its end or closed.  Two results never are: that *)
(* of the batch of UpdateFeedLocations, which is not closed, and that of   *)
(* GetLocations when it panics between two rows.                           *)
(*                                                                         *)
(* SIGTERM shuts the listener, on which main leaves Listen and closes the  *)
(* pool; Close waits for every connection that is out.                     *)
(***************************************************************************)
EXTENDS Integers, FiniteSets

CONSTANTS Request,      \* slots for concurrent requests
          MaxConns,     \* the size of the pool
          NullChannels  \* whether a row of feeds_location has no channel

ASSUME ConnPoolAssumption ==
    /\ IsFiniteSet(Request)
    /\ MaxConns \in Nat \ {0}
    /\ NullChannels \in BOOLEAN

VARIABLES process,   \* "up", or "closing" once it was told to end
          free,      \* how many connections no call holds
          call,      \* call[r]: the method the request in slot r calls, or "none"
          stage,     \* stage[r]: where it stands
          lost       \* history: lost[m], the connections calls of m never gave back

vars == <<process, free, call, stage, lost>>

(***************************************************************************)
(* GetLocations reads rows in a loop and dereferences their channel.  Any  *)
(* statement stands for GetFeed, GetNeeds and CreateNeed.  These have a    *)
(* deadline of 25 or 5 seconds; UpdateFeedLocations runs under the context *)
(* of the request, which has none.                                         *)
(***************************************************************************)
Method == {"GetLocations", "Statement", "UpdateFeedLocations"}
Timed == {"GetLocations", "Statement"}
Stage == {"answered", "acquiring", "running"}

Running == {r \in Request : stage[r] = "running"}

(* A request comes in, and its handler calls method m. *)
Call(r, m) ==
    /\ process = "up"
    /\ stage[r] = "answered"
    /\ stage' = [stage EXCEPT ![r] = "acquiring"]
    /\ call' = [call EXCEPT ![r] = m]
    /\ UNCHANGED <<process, free, lost>>

(* pgxpool.Acquire: an idle connection, or a new one below the maximum. *)
Acquire(r) ==
    /\ process = "up"
    /\ stage[r] = "acquiring"
    /\ free > 0
    /\ free' = free - 1
    /\ stage' = [stage EXCEPT ![r] = "running"]
    /\ UNCHANGED <<process, call, lost>>

Reply(r) ==
    /\ stage' = [stage EXCEPT ![r] = "answered"]
    /\ call' = [call EXCEPT ![r] = "none"]

(* Mutant: the pool is waited for without a deadline. *)
WaitForEver(r) == FALSE

(* The deadline passes while the pool is exhausted: "{}" with status 200. *)
GiveUp(r) ==
    /\ stage[r] = "acquiring"
    /\ call[r] \in Timed
    /\ Reply(r)
    /\ UNCHANGED <<process, free, lost>>

(* The process ends: who waits for a connection gets an error, of the      *)
(* closed pool or of a context the shutdown cancelled.                     *)
Refuse(r) ==
    /\ process = "closing"
    /\ stage[r] = "acquiring"
    /\ Reply(r)
    /\ UNCHANGED <<process, free, lost>>

Answer(r) ==
    /\ stage[r] = "running"
    /\ Reply(r)
    /\ UNCHANGED process

(* Mutant: a failed statement keeps its connection. *)
FinishLeaks(r) ==
    /\ call[r] \in Timed
    /\ Answer(r)
    /\ free' \in {free, free + 1}
    /\ UNCHANGED lost

(* Mutant: the result is closed twice, and its connection given back twice. *)
FinishTwice(r) ==
    /\ call[r] \in Timed
    /\ Answer(r)
    /\ free' = free + 2
    /\ UNCHANGED lost

(* Next or Scan reaches the end, or an error: the rows close themselves. *)
Finish(r) ==
    /\ call[r] \in Timed
    /\ Answer(r)
    /\ free' = free + 1
    /\ UNCHANGED lost

(* The call r makes ends and nobody closes its result. *)
Lose(r) ==
    /\ Answer(r)
    /\ lost' = [lost EXCEPT ![call[r]] = @ + 1]
    /\ UNCHANGED free

(* A row without a channel, with extraParams: recover.New answers 500. *)
PanicOnRow(r) == NullChannels /\ call[r] = "GetLocations" /\ Lose(r)

(* Exec reads the first result of the batch, or its error. *)
ExecBatch(r) == call[r] = "UpdateFeedLocations" /\ Lose(r)

(* SIGTERM: app.Shutdown, on which Listen returns, and then repo.Close. *)
Terminate ==
    /\ process = "up"
    /\ process' = "closing"
    /\ UNCHANGED <<free, call, stage, lost>>

(* The process is gone with its requests; the next one makes a new pool. *)
NewProcess ==
    /\ process' = "up"
    /\ free' = MaxConns
    /\ stage' = [r \in Request |-> "answered"]
    /\ call' = [r \in Request |-> "none"]
    /\ lost' = [m \in Method |-> 0]

(* Mutant: main keeps a connection of its own until after repo.Close. *)
ExitHoldingOne == process = "closing" /\ free > MaxConns /\ NewProcess

(* Close returns when every connection has come back, and main with it. *)
Exit == process = "closing" /\ free = MaxConns /\ NewProcess

(* A crash, or the kill that follows a SIGTERM which did not end it. *)
Crash == NewProcess

-----------------------------------------------------------------------------
Init ==
    /\ process = "up"
    /\ free = MaxConns
    /\ call = [r \in Request |-> "none"]
    /\ stage = [r \in Request |-> "answered"]
    /\ lost = [m \in Method |-> 0]

Return(r) == Finish(r) \/ PanicOnRow(r) \/ ExecBatch(r)

Next ==
    \/ \E r \in Request :
          \/ \E m \in Method : Call(r, m)
          \/ Acquire(r)
          \/ GiveUp(r)
          \/ Refuse(r)
          \/ Return(r)
    \/ Terminate
    \/ Exit
    \/ Crash

Spec == Init /\ [][Next]_vars

(***************************************************************************)
(* The database answers, deadlines pass, and a connection given back goes  *)
(* to the waiting calls in turn: strong fairness of Acquire.  Nothing says *)
(* that a process is ever told to end, or killed.                          *)
(***************************************************************************)
Fairness ==
    /\ \A r \in Request : /\ SF_vars(Acquire(r))
                          /\ WF_vars(GiveUp(r))
                          /\ WF_vars(Refuse(r))
                          /\ WF_vars(Return(r))
    /\ WF_vars(Exit)

FairSpec == Spec /\ Fairness

-----------------------------------------------------------------------------
(***************************************************************************)
(* The values the variables range over.                                    *)
(***************************************************************************)
TypeOK ==
    /\ process \in {"up", "closing"}
    /\ free \in 0..MaxConns
    /\ call \in [Request -> Method \union {"none"}]
    /\ stage \in [Request -> Stage]
    /\ \A r \in Request : call[r] = "none" <=> stage[r] = "answered"
    /\ lost \in [Method -> Nat]

(***************************************************************************)
(* A statement that fails, is given up or runs out of time gives its       *)
(* connection back: the pool shrinks by batches and by panics only.        *)
(***************************************************************************)
OnlyUnclosedResultsAreLost ==
    /\ lost["Statement"] = 0
    /\ free + Cardinality(Running) + lost["GetLocations"] + lost["UpdateFeedLocations"]
         = MaxConns

(***************************************************************************)
(* Whatever the pool has lost, a call with a deadline is answered.         *)
(***************************************************************************)
TimedCallsAnswered ==
    \A r \in Request : stage[r] # "answered" /\ call[r] \in Timed ~> stage[r] = "answered"

(***************************************************************************)
(* A process that is told to end does so by itself, unless a connection    *)
(* was lost: then repo.Close waits for it until the process is killed.     *)
(***************************************************************************)
ShutdownEnds == process = "closing" ~> process = "up" \/ \E m \in Method : lost[m] > 0

(***************************************************************************)
(* handler/update_feed_location_handler.go:18: "@Success 202".  A PATCH is *)
(* in the end answered.                                                    *)
(***************************************************************************)
PatchAnswered ==
    \A r \in Request :
        stage[r] # "answered" /\ call[r] = "UpdateFeedLocations" ~> stage[r] = "answered"
=============================================================================
