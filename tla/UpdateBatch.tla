------------------------------ MODULE UpdateBatch ------------------------------
(***************************************************************************)
(* UpdateFeedLocations on the side of PostgreSQL.  The updates of one      *)
(* request are queued in a pgx.Batch and sent in one go with a single      *)
(* Sync, so the server runs them in order in one implicit transaction.     *)
(* Each of them locks the row it touches until the transaction ends.  The  *)
(* client reads the result of the first and of no other.                   *)
(*                                                                         *)
(* The consumers' updates of single rows are left out: they hold nothing   *)
(* while they wait for a row, and write other columns.                     *)
(***************************************************************************)
EXTENDS Integers, Sequences, FiniteSets

CONSTANTS Batch,              \* the batches sent
          Entry,              \* the ids a request may name
          Row,                \* those of them that have a row in feeds_location
          Lists,              \* the lists of ids a request may hold
          MaxStatementErrors  \* bound: how many statements may fail

ASSUME UpdateBatchAssumption ==
    /\ Row \subseteq Entry
    /\ IsFiniteSet(Row)
    /\ Lists \subseteq Seq(Entry)
    /\ MaxStatementErrors \in Nat

VARIABLES place,     \* place[e]: the item whose latitude, longitude, address and
                     \* verified flag the row of e shows; Payload before any
          list,      \* list[b]: the ids of the FeedLocations of b
          state,     \* state[b]: where the transaction of b stands
          done,      \* done[b]: how many of its statements were executed
          pending,   \* pending[b][e]: the item b last wrote to e, 0 if none;
                     \* b holds the lock of e from then on
          reply,     \* reply[b]: what Exec returned to the handler: "refused" is the
                     \* error of the server, "broken" one of the client's own
          errors     \* how many statements failed

batchVars == <<place, list, state, done, pending, reply, errors>>

(* Where the promise of AtomicPatches stands for each batch. *)
Fate == [b \in Batch |-> CASE state[b] = "none" -> "none"
                           [] state[b] = "running" -> "submitted"
                           [] state[b] = "committed" -> "applied"
                           [] OTHER -> "dropped"]

Atomic == INSTANCE AtomicPatches WITH fate <- Fate

Payload == Atomic!Payload
State == {"none", "running", "committed", "failed", "victim", "cut"}
Aborted == {"failed", "victim", "cut"}
Nothing == [e \in Row |-> 0]

(* The row the next statement of b updates: UPDATE ... WHERE entry_id = $4. *)
NextEntry(b) == list[b][done[b] + 1]

HasNext(b) == state[b] = "running" /\ done[b] < Len(list[b])

Holds(b, e) == e \in Row /\ state[b] = "running" /\ pending[b][e] # 0

(* The next statement of b cannot go on before c ends. *)
WaitsFor(b, c) == b # c /\ HasNext(b) /\ Holds(c, NextEntry(b))

Blocked(b) == \E c \in Batch : WaitsFor(b, c)

-----------------------------------------------------------------------------
BatchInit ==
    /\ place = [e \in Row |-> Payload]
    /\ list = [b \in Batch |-> <<>>]
    /\ state = [b \in Batch |-> "none"]
    /\ done = [b \in Batch |-> 0]
    /\ pending = [b \in Batch |-> Nothing]
    /\ reply = [b \in Batch |-> "none"]
    /\ errors = 0

(* SendBatch: the statements of the list l and one Sync are on their way. *)
SendBatch(b, l) ==
    /\ state[b] = "none"
    /\ state' = [state EXCEPT ![b] = "running"]
    /\ list' = [list EXCEPT ![b] = l]
    /\ UNCHANGED <<place, done, pending, reply, errors>>

(* Mutant: the updates lock the rows of the list in no order. *)
ExecuteAnyOrder(b) ==
    /\ HasNext(b)
    /\ \E i \in 1..Len(list[b]) :
         /\ list[b][i] \in Row => pending[b][list[b][i]] = 0
         /\ \A c \in Batch \ {b} : ~Holds(c, list[b][i])
         /\ pending' = IF list[b][i] \in Row
                       THEN [pending EXCEPT ![b][list[b][i]] = i]
                       ELSE pending
    /\ done' = [done EXCEPT ![b] = @ + 1]
    /\ UNCHANGED <<place, list, state, reply, errors>>

(* Mutant: each location is updated by a statement of its own. *)
ExecuteAlone(b) ==
    /\ HasNext(b)
    /\ done' = [done EXCEPT ![b] = @ + 1]
    /\ place' = [e \in Row |-> IF e = NextEntry(b) THEN <<b, done[b] + 1>> ELSE place[e]]
    /\ UNCHANGED <<list, state, pending, reply, errors>>

(* The next statement writes its row, or none if the id has no row. *)
Execute(b) ==
    /\ HasNext(b)
    /\ ~Blocked(b)
    /\ done' = [done EXCEPT ![b] = @ + 1]
    /\ pending' = IF NextEntry(b) \in Row
                  THEN [pending EXCEPT ![b][NextEntry(b)] = done[b] + 1]
                  ELSE pending
    /\ UNCHANGED <<place, list, state, reply, errors>>

(* Mutant: the transaction stays open after an error. *)
RollbackForgotten(b, s) ==
    /\ state' = [state EXCEPT ![b] = s]
    /\ UNCHANGED <<place, list, done, pending, reply>>

(* The transaction of b ends as s, and its locks are gone. *)
Rollback(b, s) ==
    /\ state' = [state EXCEPT ![b] = s]
    /\ pending' = [pending EXCEPT ![b] = Nothing]
    /\ UNCHANGED <<place, list, done, reply>>

(* The next statement fails, and those behind it are skipped. *)
FailStatement(b) ==
    /\ HasNext(b)
    /\ errors < MaxStatementErrors
    /\ errors' = errors + 1
    /\ Rollback(b, "failed")

(* The server finds b on a cycle of transactions that wait for each other. *)
InDeadlock(b) ==
    \E C \in SUBSET Batch :
        /\ b \in C
        /\ \A c \in C : /\ \E d \in C : WaitsFor(c, d)
                        /\ \E d \in C : WaitsFor(d, c)

BreakDeadlock(b) ==
    /\ InDeadlock(b)
    /\ Rollback(b, "victim")
    /\ UNCHANGED errors

(* The client is gone, and the rest of the list or its Sync never comes; or  *)
(* the client still managed to have the batch cancelled.                    *)
CutOff(b) ==
    /\ state[b] = "running"
    /\ Rollback(b, "cut")
    /\ UNCHANGED errors

(* Mutant: the transaction is begun and never committed. *)
CommitForgotten(b) == FALSE

(* Sync: the implicit transaction commits. *)
CommitBatch(b) ==
    /\ state[b] = "running"
    /\ done[b] = Len(list[b])
    /\ state' = [state EXCEPT ![b] = "committed"]
    /\ place' = [e \in Row |-> IF pending[b][e] = 0 THEN place[e] ELSE <<b, pending[b][e]>>]
    /\ pending' = [pending EXCEPT ![b] = Nothing]
    /\ UNCHANGED <<list, done, reply, errors>>

(***************************************************************************)
(* Exec reads the first result.  It may be here before the commit, and is  *)
(* no error when a later statement was the one that failed.  For an empty  *)
(* list there is no result to read.                                        *)
(***************************************************************************)
ReadFirstResult(b) ==
    /\ reply[b] = "none"
    /\ state[b] # "none"
    /\ IF done[b] > 0 THEN reply' = [reply EXCEPT ![b] = "accepted"]
       ELSE /\ state[b] \in {"committed", "failed", "victim"}
            /\ reply' = [reply EXCEPT ![b] = "refused"]
    /\ UNCHANGED <<place, list, state, done, pending, errors>>

(* Mutant: any error is handed on as if the server had refused the batch. *)
BreakOffRefuses(b) ==
    /\ reply[b] = "none"
    /\ state[b] # "none"
    /\ reply' = [reply EXCEPT ![b] = "refused"]
    /\ UNCHANGED <<place, list, state, done, pending, errors>>

(***************************************************************************)
(* Exec returns an error of the client's own: the connection broke, or     *)
(* app.Shutdown cancelled the context of the request.  The batch was sent  *)
(* and the server may be anywhere in it, or through.                       *)
(***************************************************************************)
BreakOff(b) ==
    /\ reply[b] = "none"
    /\ state[b] # "none"
    /\ reply' = [reply EXCEPT ![b] = "broken"]
    /\ UNCHANGED <<place, list, state, done, pending, errors>>

(* The process ends, and with it the handlers that wait for a result. *)
LoseReplies ==
    /\ reply' = [b \in Batch |-> IF state[b] # "none" /\ reply[b] = "none"
                                 THEN "lost" ELSE reply[b]]
    /\ UNCHANGED <<place, list, state, done, pending, errors>>

(* What the server does with a batch until it ends. *)
Work(b) == Execute(b) \/ BreakDeadlock(b) \/ CommitBatch(b)

ServerStep(b) == Work(b) \/ FailStatement(b)

BatchNext ==
    \/ \E b \in Batch :
          \/ \E l \in Lists : SendBatch(b, l)
          \/ ServerStep(b)
          \/ CutOff(b)
          \/ ReadFirstResult(b)
          \/ BreakOff(b)
    \/ LoseReplies

BatchSpec == BatchInit /\ [][BatchNext]_batchVars

(* The server works through what it was sent, and looks for deadlocks. *)
BatchFairness == \A b \in Batch : WF_batchVars(Work(b))

-----------------------------------------------------------------------------
(***************************************************************************)
(* The values the variables range over; a transaction that is not running  *)
(* holds no row.                                                           *)
(***************************************************************************)
BatchTypeOK ==
    /\ place \in [Row -> {Payload} \union (Batch \X Nat)]
    /\ list \in [Batch -> Seq(Entry)]
    /\ state \in [Batch -> State]
    /\ done \in [Batch -> Nat]
    /\ \A b \in Batch : done[b] <= Len(list[b])
    /\ pending \in [Batch -> [Row -> Nat]]
    /\ \A b \in Batch : state[b] # "running" => pending[b] = Nothing
    /\ reply \in [Batch -> {"none", "accepted", "refused", "broken", "lost"}]
    /\ errors \in 0..MaxStatementErrors

(***************************************************************************)
(* A PATCH is applied as a whole or not at all, whatever other PATCHes do, *)
(* and a row named twice keeps the later correction.                       *)
(***************************************************************************)
PatchesAtomic == Atomic!APSpec

(***************************************************************************)
(* The rows the list of b locks, and whether it locks e before f.          *)
(***************************************************************************)
Named(b) == {list[b][i] : i \in 1..Len(list[b])} \intersect Row

LocksBefore(b, e, f) ==
    /\ {e, f} \subseteq Named(b)
    /\ e # f
    /\ \E i \in 1..Len(list[b]) : list[b][i] = e /\ \A j \in 1..i : list[b][j] # f

(* One order of the rows suits every list. *)
Sorted(rank) ==
    \A b \in Batch : \A e, f \in Row : LocksBefore(b, e, f) => rank[e] < rank[f]

(***************************************************************************)
(* A deadlock takes two lists that name two rows in opposite orders, or a  *)
(* longer circle of lists: where one order of the rows suits every list    *)
(* the server never has to choose a victim.                                *)
(***************************************************************************)
SortedListsNeverDeadlock ==
    (\E rank \in [Row -> 1..Cardinality(Row)] : Sorted(rank))
      => \A b \in Batch : state[b] # "victim" /\ ~InDeadlock(b)

(***************************************************************************)
(* A 202 is kept unless a statement behind the first failed, met another   *)
(* PATCH at two rows at least, or was cut off with the process; an error   *)
(* of the server means that nothing was written.  An error of the client's *)
(* own says nothing of the outcome.                                        *)
(***************************************************************************)
ReplyTellsOutcome ==
    \A b \in Batch :
        /\ reply[b] = "accepted" /\ state[b] = "failed" => done[b] > 0 /\ errors > 0
        /\ reply[b] = "accepted" /\ state[b] = "victim" =>
              \E e, f \in Named(b) : \E c, d \in Batch \ {b} :
                 e # f /\ e \in Named(c) /\ f \in Named(d)
        /\ reply[b] = "refused" => \A e \in Row : \A i \in 1..Len(list[b]) : place[e] # <<b, i>>

(***************************************************************************)
(* Whatever waits for whatever, a batch that was sent ends.                *)
(***************************************************************************)
BatchEnds == \A b \in Batch : state[b] = "running" ~> state[b] \in {"committed"} \union Aborted
=============================================================================
