--------------------------- MODULE UpdateBatchProofs ---------------------------
(***************************************************************************)
(* For any number of batches, rows and lists: a PATCH is applied as a      *)
(* whole, and lists that agree on an order of the rows never deadlock.     *)
(***************************************************************************)
EXTENDS UpdateBatch, TLAPS, WellFoundedInduction, FiniteSetTheorems

(* A row is locked by one transaction at most. *)
LocksExclusive ==
    \A b, c \in Batch : \A e \in Row :
        pending[b][e] # 0 /\ pending[c][e] # 0 => b = c

(* What a transaction has written to a row is the last item that names it. *)
PendingIsLast ==
    \A b \in Batch : state[b] = "running" =>
        \A e \in Row :
            /\ pending[b][e] \in 0..done[b]
            /\ pending[b][e] # 0 => list[b][pending[b][e]] = e
            /\ \A i \in 1..done[b] : list[b][i] = e => i <= pending[b][e]

(* A batch that was not sent has done nothing. *)
UnsentIsEmpty == \A b \in Batch : state[b] = "none" => list[b] = <<>> /\ done[b] = 0

(* A row shows items of committed batches only. *)
PlacesCommitted ==
    \A b \in Batch : \A e \in Row :
        place[e] \in {b} \X Nat => state[b] = "committed" /\ done[b] > 0

(* A refusal is final: the batch ended before its first statement did. *)
RefusedDidNothing ==
    \A b \in Batch :
        /\ reply[b] = "refused" => done[b] = 0 /\ state[b] \notin {"none", "running"}
        /\ reply[b] = "accepted" => done[b] > 0

Replies == {"none", "accepted", "refused", "broken", "lost"}

BatchInv ==
    /\ BatchTypeOK
    /\ LocksExclusive
    /\ PendingIsLast
    /\ UnsentIsEmpty
    /\ PlacesCommitted
    /\ RefusedDidNothing

-----------------------------------------------------------------------------
(* The conjuncts hold in the initial states. *)
LEMMA BatchInvInit == BatchInit => BatchInv
<1> SUFFICES ASSUME BatchInit PROVE BatchInv  OBVIOUS
<1> USE DEF BatchInit, Nothing
<1>1. BatchTypeOK
  <2>1. <<>> \in Seq(Entry) /\ Len(<<>>) = 0  OBVIOUS
  <2> QED  BY <2>1, UpdateBatchAssumption DEF BatchTypeOK, State
<1>2. LocksExclusive  BY DEF LocksExclusive
<1>3. PendingIsLast  BY DEF PendingIsLast
<1>4. UnsentIsEmpty  BY DEF UnsentIsEmpty
<1>5. PlacesCommitted  BY DEF PlacesCommitted, Payload, Atomic!Payload
<1>6. RefusedDidNothing  BY DEF RefusedDidNothing
<1> QED  BY <1>1, <1>2, <1>3, <1>4, <1>5, <1>6 DEF BatchInv

(* A batch that is sent has written nothing yet. *)
LEMMA SendKeepsInv ==
    ASSUME BatchInv, NEW b \in Batch, NEW l \in Lists, SendBatch(b, l)
    PROVE  BatchInv'
<1> USE DEF BatchInv, SendBatch
<1>1. l \in Seq(Entry)  BY UpdateBatchAssumption
<1>2. done[b] = 0 /\ pending[b] = Nothing  BY DEF UnsentIsEmpty, BatchTypeOK
<1>3. BatchTypeOK'
  <2>1. Len(l) \in Nat  BY <1>1
  <2> QED  BY <1>1, <1>2, <2>1 DEF BatchTypeOK, State
<1>4. LocksExclusive'  BY DEF LocksExclusive
<1>5. PendingIsLast'  BY <1>2 DEF PendingIsLast, BatchTypeOK, Nothing
<1>6. UnsentIsEmpty'  BY DEF UnsentIsEmpty, BatchTypeOK
<1>7. PlacesCommitted'  BY DEF PlacesCommitted, BatchTypeOK
<1>8. RefusedDidNothing'  BY DEF RefusedDidNothing, BatchTypeOK
<1> QED  BY <1>3, <1>4, <1>5, <1>6, <1>7, <1>8

(* A statement locks a row that nobody else holds. *)
LEMMA ExecuteKeepsInv ==
    ASSUME BatchInv, NEW b \in Batch, Execute(b)
    PROVE  BatchInv'
<1> USE DEF BatchInv, Execute, HasNext
<1>1. /\ done[b] \in Nat /\ Len(list[b]) \in Nat
      /\ done[b] + 1 \in 1..Len(list[b])
      /\ done' = [done EXCEPT ![b] = done[b] + 1]
  BY DEF BatchTypeOK
<1>2. BatchTypeOK'  BY <1>1 DEF BatchTypeOK
<1>3. ASSUME NEW c \in Batch, c # b, NextEntry(b) \in Row
      PROVE  pending[c][NextEntry(b)] = 0
  BY <1>3 DEF Blocked, WaitsFor, Holds, BatchTypeOK, Nothing
<1>4. LocksExclusive'
  BY <1>3 DEF LocksExclusive, BatchTypeOK
<1>5. PendingIsLast'
  <2> SUFFICES ASSUME NEW c \in Batch, state[c] = "running", NEW e \in Row
               PROVE  /\ pending'[c][e] \in 0..done'[c]
                      /\ pending'[c][e] # 0 => list[c][pending'[c][e]] = e
                      /\ \A i \in 1..done'[c] : list[c][i] = e => i <= pending'[c][e]
    BY DEF PendingIsLast
  <2>0. /\ pending[c][e] \in 0..done[c]
        /\ pending[c][e] # 0 => list[c][pending[c][e]] = e
        /\ \A i \in 1..done[c] : list[c][i] = e => i <= pending[c][e]
    BY DEF PendingIsLast
  <2>1. CASE c # b
    <3>1. pending'[c][e] = pending[c][e] /\ done'[c] = done[c]
      BY <2>1, <1>1 DEF BatchTypeOK
    <3> QED  BY <2>0, <3>1
  <2>2. CASE c = b /\ NextEntry(b) = e
    <3>1. pending'[c][e] = done[b] + 1 /\ done'[c] = done[b] + 1
      BY <2>2, <1>1 DEF BatchTypeOK
    <3> QED  BY <1>1, <2>2, <3>1 DEF NextEntry
  <2>3. CASE c = b /\ NextEntry(b) # e
    <3>1. pending'[c][e] = pending[b][e] /\ done'[c] = done[b] + 1
      BY <2>3, <1>1 DEF BatchTypeOK
    <3>2. list[b][done[b] + 1] # e  BY <2>3 DEF NextEntry
    <3> QED  BY <1>1, <2>0, <2>3, <3>1, <3>2
  <2> QED  BY <2>1, <2>2, <2>3
<1>6. UnsentIsEmpty'  BY <1>1 DEF UnsentIsEmpty, BatchTypeOK
<1>7. PlacesCommitted'  BY <1>1 DEF PlacesCommitted, BatchTypeOK
<1>8. RefusedDidNothing'  BY <1>1 DEF RefusedDidNothing, BatchTypeOK
<1> QED  BY <1>2, <1>4, <1>5, <1>6, <1>7, <1>8

(* A transaction that ends without a commit only gives its locks back. *)
LEMMA RollbackKeepsInv ==
    ASSUME BatchInv, NEW b \in Batch, NEW s \in Aborted, state[b] = "running",
           Rollback(b, s), errors' \in 0..MaxStatementErrors
    PROVE  BatchInv'
<1> USE DEF BatchInv, Rollback, Aborted
<1>1. BatchTypeOK'  BY DEF BatchTypeOK, State, Nothing
<1>2. LocksExclusive'  BY DEF LocksExclusive, BatchTypeOK, Nothing
<1>3. PendingIsLast'  BY DEF PendingIsLast, BatchTypeOK
<1>4. UnsentIsEmpty'  BY DEF UnsentIsEmpty, BatchTypeOK
<1>5. PlacesCommitted'  BY DEF PlacesCommitted, BatchTypeOK
<1>6. RefusedDidNothing'  BY DEF RefusedDidNothing, BatchTypeOK
<1> QED  BY <1>1, <1>2, <1>3, <1>4, <1>5, <1>6

(* A commit writes items of the batch that commits. *)
LEMMA CommitKeepsInv ==
    ASSUME BatchInv, NEW b \in Batch, CommitBatch(b)
    PROVE  BatchInv'
<1> USE DEF BatchInv, CommitBatch
<1>1. BatchTypeOK'  BY DEF BatchTypeOK, State, Nothing
<1>2. LocksExclusive'  BY DEF LocksExclusive, BatchTypeOK, Nothing
<1>3. PendingIsLast'  BY DEF PendingIsLast, BatchTypeOK
<1>4. UnsentIsEmpty'  BY DEF UnsentIsEmpty, BatchTypeOK
<1>5. PlacesCommitted'
  <2> SUFFICES ASSUME NEW c \in Batch, NEW e \in Row, place'[e] \in {c} \X Nat
               PROVE  state'[c] = "committed" /\ done[c] > 0
    BY DEF PlacesCommitted
  <2>1. CASE pending[b][e] = 0
    BY <2>1 DEF PlacesCommitted, BatchTypeOK
  <2>2. CASE pending[b][e] # 0
    <3>1. place'[e] = <<b, pending[b][e]>>  BY <2>2
    <3>2. c = b  BY <3>1
    <3> QED  BY <2>2, <3>2 DEF PendingIsLast, BatchTypeOK
  <2> QED  BY <2>1, <2>2
<1>6. RefusedDidNothing'  BY DEF RefusedDidNothing, BatchTypeOK
<1> QED  BY <1>1, <1>2, <1>3, <1>4, <1>5, <1>6

(* What the client reads or misses changes nothing in the database. *)
LEMMA ReplyKeepsInv ==
    ASSUME BatchInv, (\E b \in Batch : ReadFirstResult(b) \/ BreakOff(b)) \/ LoseReplies
    PROVE  BatchInv'
<1> USE DEF BatchInv
<1>0. UNCHANGED <<place, list, state, done, pending, errors>>
  BY DEF ReadFirstResult, BreakOff, LoseReplies
<1>1. /\ reply' \in [Batch -> Replies]
      /\ RefusedDidNothing'
  <2>1. CASE LoseReplies
    <3>1. ASSUME NEW b \in Batch PROVE reply'[b] \in {"lost", reply[b]}
      BY <2>1 DEF LoseReplies
    <3>2. reply' \in [Batch -> Replies]
      BY <2>1 DEF LoseReplies, BatchTypeOK, Replies
    <3>3. RefusedDidNothing'
      BY <1>0, <3>1, <3>2 DEF BatchTypeOK, RefusedDidNothing, Replies
    <3> QED  BY <3>2, <3>3
  <2>2. ASSUME NEW b \in Batch, ReadFirstResult(b)
        PROVE  /\ reply' \in [Batch -> Replies]
               /\ RefusedDidNothing'
    <3>1. CASE done[b] > 0
      <4>1. reply' = [reply EXCEPT ![b] = "accepted"]  BY <2>2, <3>1 DEF ReadFirstResult
      <4> QED  BY <1>0, <3>1, <4>1 DEF BatchTypeOK, RefusedDidNothing, Replies
    <3>2. CASE ~(done[b] > 0)
      <4>1. /\ reply' = [reply EXCEPT ![b] = "refused"]
            /\ state[b] \notin {"none", "running"}
        BY <2>2, <3>2 DEF ReadFirstResult
      <4>2. done[b] = 0  BY <3>2 DEF BatchTypeOK
      <4> QED  BY <1>0, <4>1, <4>2 DEF BatchTypeOK, RefusedDidNothing, Replies
    <3> QED  BY <3>1, <3>2
  <2>3. ASSUME NEW b \in Batch, BreakOff(b)
        PROVE  reply' \in [Batch -> Replies] /\ RefusedDidNothing'
    <3>1. reply' = [reply EXCEPT ![b] = "broken"]  BY <2>3 DEF BreakOff
    <3> QED  BY <1>0, <3>1 DEF BatchTypeOK, RefusedDidNothing, Replies
  <2> QED  BY <2>1, <2>2, <2>3
<1>2. BatchTypeOK'  BY <1>0, <1>1 DEF BatchTypeOK, Replies
<1>3. LocksExclusive' /\ PendingIsLast' /\ UnsentIsEmpty' /\ PlacesCommitted'
  BY <1>0 DEF LocksExclusive, PendingIsLast, UnsentIsEmpty, PlacesCommitted
<1> QED  BY <1>1, <1>2, <1>3

(* The steps that end a transaction without a commit are rollbacks. *)
LEMMA EndsByRollback ==
    ASSUME BatchTypeOK, NEW b \in Batch,
           FailStatement(b) \/ BreakDeadlock(b) \/ CutOff(b)
    PROVE  /\ state[b] = "running"
           /\ errors' \in 0..MaxStatementErrors
           /\ \E s \in Aborted : Rollback(b, s)
<1>1. state[b] = "running"
  BY DEF FailStatement, BreakDeadlock, CutOff, InDeadlock, WaitsFor, HasNext
<1>2. \E s \in Aborted : Rollback(b, s)
  BY DEF FailStatement, BreakDeadlock, CutOff, Aborted
<1>3. errors' \in 0..MaxStatementErrors
  BY UpdateBatchAssumption DEF FailStatement, BreakDeadlock, CutOff, BatchTypeOK
<1> QED  BY <1>1, <1>2, <1>3

(* Every step keeps the invariant. *)
LEMMA BatchInvNext == BatchInv /\ [BatchNext]_batchVars => BatchInv'
<1> SUFFICES ASSUME BatchInv, [BatchNext]_batchVars PROVE BatchInv'  OBVIOUS
<1>1. CASE UNCHANGED batchVars
  BY <1>1 DEF batchVars, BatchInv, BatchTypeOK, LocksExclusive, PendingIsLast,
              UnsentIsEmpty, PlacesCommitted, RefusedDidNothing
<1>2. ASSUME NEW b \in Batch, NEW l \in Lists, SendBatch(b, l) PROVE BatchInv'
  BY <1>2, SendKeepsInv
<1>3. ASSUME NEW b \in Batch, Execute(b) PROVE BatchInv'
  BY <1>3, ExecuteKeepsInv
<1>4. ASSUME NEW b \in Batch, FailStatement(b) \/ BreakDeadlock(b) \/ CutOff(b)
      PROVE BatchInv'
  BY <1>4, EndsByRollback, RollbackKeepsInv DEF BatchInv
<1>5. ASSUME NEW b \in Batch, CommitBatch(b) PROVE BatchInv'
  BY <1>5, CommitKeepsInv
<1>6. ASSUME NEW b \in Batch, ReadFirstResult(b) \/ BreakOff(b) PROVE BatchInv'
  BY <1>6, ReplyKeepsInv
<1>7. CASE LoseReplies
  BY <1>7, ReplyKeepsInv
<1> QED
  BY <1>1, <1>2, <1>3, <1>4, <1>5, <1>6, <1>7 DEF BatchNext, ServerStep, Work

(* The invariant holds in every state. *)
LEMMA BatchInvariant == BatchSpec => []BatchInv
BY BatchInvInit, BatchInvNext, PTL DEF BatchSpec

(***************************************************************************)
(* The variables of the batches keep their types, and a transaction that   *)
(* is over holds no row.                                                   *)
(***************************************************************************)
THEOREM BatchTypeCorrect == BatchSpec => []BatchTypeOK
<1>1. BatchInv => BatchTypeOK  BY DEF BatchInv
<1> QED  BY BatchInvariant, <1>1, PTL

-----------------------------------------------------------------------------
(* The initial states are initial states of the promise. *)
LEMMA AtomicInit == BatchInit => Atomic!APInit
BY DEF BatchInit, Atomic!APInit, Payload, Fate

(* The fate of a batch follows its state, and that of no other changes. *)
LEMMA FateFollows ==
    ASSUME BatchTypeOK, NEW b \in Batch, NEW s \in State,
           state' = [state EXCEPT ![b] = s]
    PROVE  Fate' = [Fate EXCEPT ![b] = CASE s = "none" -> "none"
                                         [] s = "running" -> "submitted"
                                         [] s = "committed" -> "applied"
                                         [] OTHER -> "dropped"]
BY DEF Fate, BatchTypeOK

(* At the commit a row gets the last item of the list that names it. *)
LEMMA PendingIsLastNamed ==
    ASSUME BatchInv, NEW b \in Batch, state[b] = "running",
           done[b] = Len(list[b]), NEW e \in Row
    PROVE  pending[b][e] = Atomic!LastNamed(list[b], Len(list[b]), e)
<1> DEFINE n == Len(list[b])
           p == pending[b][e]
           IsLast(i) == list[b][i] = e /\ \A j \in 1..n : list[b][j] = e => j <= i
<1>1. /\ n \in Nat
      /\ p \in 0..n
      /\ p # 0 => list[b][p] = e
      /\ \A i \in 1..n : list[b][i] = e => i <= p
  BY DEF BatchInv, PendingIsLast, BatchTypeOK
<1>2. CASE p = 0
  <2>1. ~ \E i \in 1..n : list[b][i] = e  BY <1>1, <1>2
  <2> QED  BY <1>2, <2>1 DEF Atomic!LastNamed
<1>3. CASE p # 0
  <2>1. p \in 1..n /\ IsLast(p)  BY <1>1, <1>3
  <2>2. \A i \in 1..n : IsLast(i) => i = p  BY <1>1, <2>1
  <2>3. (CHOOSE i \in 1..n : IsLast(i)) = p  BY <2>1, <2>2
  <2>4. \E i \in 1..n : list[b][i] = e  BY <2>1
  <2> QED  BY <2>3, <2>4 DEF Atomic!LastNamed
<1> QED  BY <1>2, <1>3

(* Every step of the batches is a step of the promise, or none. *)
LEMMA AtomicNext ==
    BatchInv /\ [BatchNext]_batchVars => [Atomic!APNext]_(Atomic!apVars)
<1> SUFFICES ASSUME BatchInv, [BatchNext]_batchVars
             PROVE  [Atomic!APNext]_(Atomic!apVars)
  OBVIOUS
<1> USE DEF Atomic!apVars
<1>0. BatchTypeOK  BY DEF BatchInv
<1>1. ASSUME UNCHANGED <<place, list, state>>
      PROVE  [Atomic!APNext]_(Atomic!apVars)
  BY <1>1 DEF Fate
<1>2. ASSUME NEW b \in Batch, NEW l \in Lists, SendBatch(b, l)
      PROVE  [Atomic!APNext]_(Atomic!apVars)
  <2>1. Fate[b] = "none"  BY <1>2 DEF SendBatch, Fate
  <2>2. Fate' = [Fate EXCEPT ![b] = "submitted"]
    BY <1>0, <1>2, FateFollows DEF SendBatch, State
  <2>3. Atomic!APSubmit(b, l)  BY <1>2, <2>1, <2>2 DEF SendBatch, Atomic!APSubmit
  <2> QED  BY <2>3 DEF Atomic!APNext
<1>3. ASSUME NEW b \in Batch, FailStatement(b) \/ BreakDeadlock(b) \/ CutOff(b)
      PROVE  [Atomic!APNext]_(Atomic!apVars)
  <2>1. Fate[b] = "submitted"  BY <1>0, <1>3, EndsByRollback DEF Fate
  <2>2. PICK s \in Aborted : Rollback(b, s)  BY <1>0, <1>3, EndsByRollback
  <2>3. Fate' = [Fate EXCEPT ![b] = "dropped"]
    BY <1>0, <2>2, FateFollows DEF Rollback, Aborted, State
  <2>4. Atomic!APDrop(b)  BY <2>1, <2>2, <2>3 DEF Rollback, Atomic!APDrop
  <2> QED  BY <2>4 DEF Atomic!APNext
<1>4. ASSUME NEW b \in Batch, CommitBatch(b)
      PROVE  [Atomic!APNext]_(Atomic!apVars)
  <2>1. Fate[b] = "submitted"  BY <1>4 DEF CommitBatch, Fate
  <2>2. Fate' = [Fate EXCEPT ![b] = "applied"]
    BY <1>0, <1>4, FateFollows DEF CommitBatch, State
  <2>3. place' = Atomic!Corrected(b, list[b])
    BY <1>4, PendingIsLastNamed DEF CommitBatch, Atomic!Corrected
  <2>4. Atomic!APApply(b)  BY <1>4, <2>1, <2>2, <2>3 DEF CommitBatch, Atomic!APApply
  <2> QED  BY <2>4 DEF Atomic!APNext
<1>5. CASE UNCHANGED batchVars  BY <1>1, <1>5 DEF batchVars
<1>6. CASE LoseReplies  BY <1>1, <1>6 DEF LoseReplies
<1>7. ASSUME NEW b \in Batch, Execute(b) \/ ReadFirstResult(b) \/ BreakOff(b)
      PROVE  [Atomic!APNext]_(Atomic!apVars)
  BY <1>1, <1>7 DEF Execute, ReadFirstResult, BreakOff
<1> QED
  BY <1>2, <1>3, <1>4, <1>5, <1>6, <1>7 DEF BatchNext, ServerStep, Work

(***************************************************************************)
(* However the PATCHes of any number of clients meet, fail or are cut off, *)
(* each is applied as a whole or not at all.                               *)
(***************************************************************************)
THEOREM BatchIsAtomic == BatchSpec => PatchesAtomic
<1>1. BatchInv /\ BatchInv' /\ [BatchNext]_batchVars
        => [Atomic!APNext]_(Atomic!apVars)
  BY AtomicNext
<1> QED
  BY AtomicInit, BatchInvariant, <1>1, PTL
  DEF BatchSpec, PatchesAtomic, Atomic!APSpec

-----------------------------------------------------------------------------
(* A set of numbers below a bound has a greatest element. *)
LEMMA BoundedHasMax ==
    ASSUME NEW N \in Nat, NEW S \in SUBSET (1..N), S # {}
    PROVE  \E m \in S : \A n \in S : n <= m
<1> DEFINE T == {N - n : n \in S}
<1>0. \A n \in S : n \in Nat /\ N - n \in Nat  OBVIOUS
<1>1. T \subseteq Nat /\ T # {}  BY <1>0
<1>2. PICK t \in T : \A u \in T : <<u, t>> \notin OpToRel(<, Nat)
  BY <1>1, NatLessThanWellFounded, WFMin
<1>3. \A u \in T : ~(u < t)  BY <1>1, <1>2 DEF OpToRel
<1>4. PICK m \in S : t = N - m  OBVIOUS
<1>5. ASSUME NEW n \in S PROVE n <= m
  <2>1. N - n \in T  OBVIOUS
  <2>2. ~(N - n < N - m)  BY <1>3, <1>4, <2>1
  <2> QED  BY <1>0, <2>2
<1> QED  BY <1>5

(* In a chain of waiting batches the rows waited for only go up. *)
LEMMA WaitingGoesUp ==
    ASSUME BatchInv, NEW rank, Sorted(rank),
           NEW c \in Batch, NEW d \in Batch, NEW x \in Batch,
           WaitsFor(c, d), WaitsFor(d, x)
    PROVE  rank[NextEntry(c)] < rank[NextEntry(d)]
<1> DEFINE e == NextEntry(c)
           f == NextEntry(d)
           i == pending[d][e]
<1>1. /\ e \in Row /\ i # 0
      /\ f \in Row /\ pending[x][f] # 0
      /\ d # x /\ state[d] = "running" /\ done[d] < Len(list[d])
  BY DEF WaitsFor, Holds, HasNext
<1>2. pending[d][f] = 0  BY <1>1 DEF BatchInv, LocksExclusive
<1>3. /\ i \in 1..done[d]
      /\ list[d][i] = e
      /\ \A j \in 1..done[d] : list[d][j] # f
  BY <1>1, <1>2 DEF BatchInv, PendingIsLast, BatchTypeOK
<1>4. /\ done[d] \in Nat
      /\ Len(list[d]) \in Nat
      /\ list[d][done[d] + 1] = f
  BY DEF BatchInv, BatchTypeOK, NextEntry
<1>5. e \in Named(d) /\ f \in Named(d)
  <2>1. done[d] + 1 \in 1..Len(list[d]) /\ i \in 1..Len(list[d])
    BY <1>1, <1>3, <1>4
  <2> QED  BY <1>1, <1>3, <1>4, <2>1 DEF Named
<1>6. e # f  BY <1>1, <1>2
<1>7. LocksBefore(d, e, f)
  <2>1. i \in 1..Len(list[d]) /\ \A j \in 1..i : list[d][j] # f
    BY <1>1, <1>3, <1>4
  <2> QED  BY <1>3, <1>5, <1>6, <2>1 DEF LocksBefore
<1> QED  BY <1>1, <1>7 DEF Sorted

(* So where one order suits every list, no circle of them closes. *)
LEMMA SortedNoCycle ==
    ASSUME BatchInv, NEW rank \in [Row -> 1..Cardinality(Row)], Sorted(rank),
           NEW b \in Batch
    PROVE  ~InDeadlock(b)
<1> SUFFICES ASSUME InDeadlock(b) PROVE FALSE  OBVIOUS
<1>1. PICK C \in SUBSET Batch :
         /\ b \in C
         /\ \A c \in C : \E d \in C : WaitsFor(c, d)
  BY DEF InDeadlock
<1> DEFINE S == {rank[NextEntry(c)] : c \in C}
<1>2. \A c \in C : NextEntry(c) \in Row  BY <1>1 DEF WaitsFor, Holds
<1>3. Cardinality(Row) \in Nat  BY UpdateBatchAssumption, FS_CardinalityType
<1>4. S \in SUBSET (1..Cardinality(Row)) /\ S # {}  BY <1>1, <1>2
<1>5. PICK m \in S : \A n \in S : n <= m  BY <1>3, <1>4, BoundedHasMax
<1>6. PICK c \in C : m = rank[NextEntry(c)]  OBVIOUS
<1>7. PICK d \in C : WaitsFor(c, d)  BY <1>1
<1>8. PICK x \in C : WaitsFor(d, x)  BY <1>1
<1>9. m < rank[NextEntry(d)]  BY <1>6, <1>7, <1>8, WaitingGoesUp
<1>10. rank[NextEntry(d)] \in S  OBVIOUS
<1>11. m \in Nat /\ rank[NextEntry(d)] \in Nat  BY <1>3, <1>4, <1>10
<1> QED  BY <1>5, <1>9, <1>10, <1>11

(* What is said of victims, as an invariant. *)
NoVictimWhenSorted ==
    \A rank \in [Row -> 1..Cardinality(Row)] :
        Sorted(rank) => \A b \in Batch : state[b] # "victim"

(* A list is empty until it is sent, and the same from then on. *)
LEMMA ListsStay ==
    ASSUME BatchInv, [BatchNext]_batchVars, NEW b \in Batch
    PROVE  list'[b] = list[b] \/ (list[b] = <<>> /\ state[b] = "none")
<1>1. CASE UNCHANGED batchVars  BY <1>1 DEF batchVars
<1>2. ASSUME NEW c \in Batch, NEW l \in Lists, SendBatch(c, l)
      PROVE  list'[b] = list[b] \/ (list[b] = <<>> /\ state[b] = "none")
  BY <1>2 DEF SendBatch, BatchInv, UnsentIsEmpty, BatchTypeOK
<1>3. ASSUME NEW c \in Batch,
             ServerStep(c) \/ CutOff(c) \/ ReadFirstResult(c) \/ BreakOff(c)
      PROVE  list' = list
  BY <1>3 DEF ServerStep, Work, Execute, FailStatement, BreakDeadlock, CutOff,
              Rollback, CommitBatch, ReadFirstResult, BreakOff
<1>4. CASE LoseReplies  BY <1>4 DEF LoseReplies
<1> QED  BY <1>1, <1>2, <1>3, <1>4 DEF BatchNext

(* What a list names, it goes on naming, in the same order. *)
LEMMA NamesStay ==
    ASSUME BatchInv, [BatchNext]_batchVars, NEW b \in Batch
    PROVE  /\ Named(b) \subseteq Named(b)'
           /\ Named(b) # {} => Named(b)' = Named(b)
           /\ \A e, f \in Row : LocksBefore(b, e, f) => LocksBefore(b, e, f)'
<1>1. CASE list'[b] = list[b]  BY <1>1 DEF Named, LocksBefore
<1>2. CASE list[b] = <<>>
  <2>1. Named(b) = {}  BY <1>2 DEF Named
  <2> QED  BY <2>1 DEF LocksBefore
<1> QED  BY <1>1, <1>2, ListsStay

(* A new victim lies on a circle. *)
LEMMA VictimsFromDeadlock ==
    ASSUME BatchInv, [BatchNext]_batchVars, NEW b \in Batch,
           state'[b] = "victim", state[b] # "victim"
    PROVE  InDeadlock(b)
<1> USE DEF BatchInv, BatchTypeOK
<1>1. CASE UNCHANGED batchVars  BY <1>1 DEF batchVars
<1>2. ASSUME NEW c \in Batch, NEW l \in Lists, SendBatch(c, l) PROVE FALSE
  BY <1>2 DEF SendBatch
<1>3. ASSUME NEW c \in Batch,
             Execute(c) \/ FailStatement(c) \/ CutOff(c) \/ CommitBatch(c)
                \/ ReadFirstResult(c) \/ BreakOff(c)
      PROVE  FALSE
  BY <1>3 DEF Execute, FailStatement, CutOff, Rollback, CommitBatch, ReadFirstResult,
              BreakOff
<1>4. ASSUME NEW c \in Batch, BreakDeadlock(c) PROVE InDeadlock(b)
  BY <1>4 DEF BreakDeadlock, Rollback
<1>5. CASE LoseReplies  BY <1>5 DEF LoseReplies
<1> QED  BY <1>1, <1>2, <1>3, <1>4, <1>5 DEF BatchNext, ServerStep, Work

LEMMA NoVictimNext ==
    BatchInv /\ NoVictimWhenSorted /\ [BatchNext]_batchVars => NoVictimWhenSorted'
<1> SUFFICES ASSUME BatchInv, NoVictimWhenSorted, [BatchNext]_batchVars,
                    NEW rank \in [Row -> 1..Cardinality(Row)], Sorted(rank)',
                    NEW b \in Batch
             PROVE  state'[b] # "victim"
  BY DEF NoVictimWhenSorted
<1>1. Sorted(rank)  BY NamesStay DEF Sorted
<1>2. state[b] # "victim" /\ ~InDeadlock(b)
  BY <1>1, SortedNoCycle DEF NoVictimWhenSorted
<1> QED  BY <1>2, VictimsFromDeadlock

(***************************************************************************)
(* Any number of PATCHes whose lists agree on some order of the rows never *)
(* deadlock: a client that sorts its list by entry is safe.                *)
(***************************************************************************)
THEOREM SortedListsAreSafe == BatchSpec => []SortedListsNeverDeadlock
<1>1. BatchInit => NoVictimWhenSorted  BY DEF BatchInit, NoVictimWhenSorted
<1>2. BatchInv /\ NoVictimWhenSorted => SortedListsNeverDeadlock
  BY SortedNoCycle DEF SortedListsNeverDeadlock, NoVictimWhenSorted
<1> QED
  BY BatchInvariant, <1>1, NoVictimNext, <1>2, PTL DEF BatchSpec

-----------------------------------------------------------------------------
(* The two rows at which a victim met other batches. *)
MetTwice(b) ==
    \E e, f \in Named(b) : \E c, d \in Batch \ {b} :
        e # f /\ e \in Named(c) /\ f \in Named(d)

EndsAccounted ==
    \A b \in Batch :
        /\ state[b] = "failed" => errors > 0
        /\ state[b] = "victim" => MetTwice(b)

(* One row is waited for, the other one held. *)
LEMMA DeadlockMeetsTwice ==
    ASSUME BatchInv, NEW b \in Batch, InDeadlock(b)
    PROVE  MetTwice(b)
<1> USE DEF BatchInv, BatchTypeOK
<1>1. PICK c \in Batch, d \in Batch : WaitsFor(b, c) /\ WaitsFor(d, b)
  BY DEF InDeadlock
<1> DEFINE e == NextEntry(b)
           f == NextEntry(d)
<1>2. ASSUME NEW x \in Batch, HasNext(x), NextEntry(x) \in Row
      PROVE  NextEntry(x) \in Named(x)
  <2>1. done[x] + 1 \in 1..Len(list[x])  BY <1>2 DEF HasNext
  <2> QED  BY <1>2, <2>1 DEF NextEntry, Named
<1>3. ASSUME NEW x \in Batch, NEW g, Holds(x, g)
      PROVE  g \in Named(x)
  <2>1. /\ g \in Row
        /\ pending[x][g] \in 1..done[x]
        /\ list[x][pending[x][g]] = g
    BY <1>3 DEF Holds, PendingIsLast
  <2>2. pending[x][g] \in 1..Len(list[x])  BY <2>1
  <2> QED  BY <2>1, <2>2 DEF Named
<1>4. /\ e \in Named(b) /\ e \in Named(c) /\ c # b
      /\ f \in Named(d) /\ f \in Named(b) /\ d # b
  BY <1>1, <1>2, <1>3 DEF WaitsFor, Holds
<1>5. e # f
  BY <1>1 DEF WaitsFor, Holds, LocksExclusive
<1> QED  BY <1>4, <1>5 DEF MetTwice

LEMMA EndsAccountedNext ==
    BatchInv /\ EndsAccounted /\ [BatchNext]_batchVars => EndsAccounted'
<1> SUFFICES ASSUME BatchInv, EndsAccounted, [BatchNext]_batchVars, NEW b \in Batch
             PROVE  /\ state'[b] = "failed" => errors' > 0
                    /\ state'[b] = "victim" => MetTwice(b)'
  BY DEF EndsAccounted
<1> USE DEF BatchInv, BatchTypeOK
<1>1. ASSUME state'[b] = "failed" PROVE errors' > 0
  <2>1. CASE UNCHANGED batchVars  BY <1>1, <2>1 DEF batchVars, EndsAccounted
  <2>2. ASSUME NEW c \in Batch, NEW l \in Lists, SendBatch(c, l) PROVE errors' > 0
    BY <1>1, <2>2 DEF SendBatch, EndsAccounted
  <2>3. ASSUME NEW c \in Batch,
               Execute(c) \/ BreakDeadlock(c) \/ CutOff(c) \/ CommitBatch(c)
                  \/ ReadFirstResult(c) \/ BreakOff(c)
        PROVE  errors' > 0
    BY <1>1, <2>3
    DEF Execute, BreakDeadlock, CutOff, Rollback, CommitBatch, ReadFirstResult, BreakOff,
        EndsAccounted
  <2>4. ASSUME NEW c \in Batch, FailStatement(c) PROVE errors' > 0
    BY <2>4 DEF FailStatement
  <2>5. CASE LoseReplies  BY <1>1, <2>5 DEF LoseReplies, EndsAccounted
  <2> QED  BY <2>1, <2>2, <2>3, <2>4, <2>5 DEF BatchNext, ServerStep, Work
<1>2. ASSUME state'[b] = "victim" PROVE MetTwice(b)'
  <2>1. MetTwice(b)
    BY <1>2, VictimsFromDeadlock, DeadlockMeetsTwice DEF EndsAccounted
  <2>2. \A c \in Batch : Named(c) \subseteq Named(c)'  BY NamesStay
  <2> QED  BY <2>1, <2>2 DEF MetTwice
<1> QED  BY <1>1, <1>2

(***************************************************************************)
(* What the answer to a PATCH says of its outcome, whatever fails, errors  *)
(* of the connection and cancelled requests included: those say nothing.   *)
(***************************************************************************)
THEOREM RepliesAreTold == BatchSpec => []ReplyTellsOutcome
<1>1. BatchInit => EndsAccounted  BY DEF BatchInit, EndsAccounted
<1>2. BatchInv /\ EndsAccounted => ReplyTellsOutcome
  <2> SUFFICES ASSUME BatchInv, EndsAccounted PROVE ReplyTellsOutcome  OBVIOUS
  <2>1. ASSUME NEW b \in Batch, reply[b] = "refused", NEW e \in Row,
               NEW i \in 1..Len(list[b]), place[e] = <<b, i>>
        PROVE  FALSE
    <3>1. place[e] \in {b} \X Nat  BY <2>1 DEF BatchInv, BatchTypeOK
    <3> QED  BY <2>1, <3>1 DEF BatchInv, PlacesCommitted, RefusedDidNothing
  <2> QED
    BY <2>1 DEF ReplyTellsOutcome, EndsAccounted, MetTwice, BatchInv, RefusedDidNothing
<1> QED
  BY BatchInvariant, <1>1, EndsAccountedNext, <1>2, PTL DEF BatchSpec
=============================================================================
