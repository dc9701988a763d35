---------------------------- MODULE ConnPoolProofs ----------------------------
(***************************************************************************)
(* For any number of requests and any size of the pool: only batches and   *)
(* panics shrink the pool.  The invariant is inductive together with       *)
(* TypeOK; what every step needs is how it changes the set Running.        *)
(***************************************************************************)
EXTENDS ConnPool, FiniteSetTheorems, TLAPS

PoolInv == TypeOK /\ OnlyUnclosedResultsAreLost

(* Running is finite, and its cardinality follows one request in or out. *)
LEMMA RunningFinite ==
    /\ IsFiniteSet(Running)
    /\ Cardinality(Running) \in Nat
<1>1. IsFiniteSet(Request)  BY ConnPoolAssumption
<1>2. Running \subseteq Request  BY DEF Running
<1>3. IsFiniteSet(Running)  BY <1>1, <1>2, FS_Subset
<1> QED  BY <1>3, FS_CardinalityType

(* Acquiring a connection adds one running request. *)
LEMMA RunningGrows ==
    ASSUME NEW r \in Request, TypeOK, stage[r] # "running",
           stage' = [stage EXCEPT ![r] = "running"]
    PROVE  Cardinality(Running') = Cardinality(Running) + 1
<1>1. Running' = Running \union {r}  BY DEF Running, TypeOK
<1>2. r \notin Running  BY DEF Running
<1> QED  BY <1>1, <1>2, RunningFinite, FS_AddElement

(* Answering a running request removes one. *)
LEMMA RunningShrinks ==
    ASSUME NEW r \in Request, TypeOK, stage[r] = "running",
           stage' = [stage EXCEPT ![r] = "answered"]
    PROVE  Cardinality(Running') = Cardinality(Running) - 1
<1>1. Running' = Running \ {r}  BY DEF Running, TypeOK
<1>2. r \in Running  BY DEF Running
<1> QED  BY <1>1, <1>2, RunningFinite, FS_RemoveElement

(* No other change of stage touches Running. *)
LEMMA RunningStays ==
    ASSUME NEW r \in Request, NEW s \in {"answered", "acquiring"}, TypeOK,
           stage[r] # "running", stage' = [stage EXCEPT ![r] = s]
    PROVE  Running' = Running
BY DEF Running, TypeOK

(* Initially the whole pool is free. *)
LEMMA PoolInvInit == Init => PoolInv
<1> SUFFICES ASSUME Init PROVE PoolInv  OBVIOUS
<1>1. TypeOK  BY ConnPoolAssumption DEF Init, TypeOK, Method, Stage
<1>2. Running = {}  BY DEF Init, Running
<1>3. Cardinality(Running) = 0  BY <1>2, FS_EmptySet
<1>4. OnlyUnclosedResultsAreLost
  BY <1>3, ConnPoolAssumption DEF Init, OnlyUnclosedResultsAreLost, Method
<1> QED  BY <1>1, <1>4 DEF PoolInv

(* Every step of a request keeps the account. *)
LEMMA PoolInvNext == PoolInv /\ [Next]_vars => PoolInv'
<1> SUFFICES ASSUME PoolInv, [Next]_vars PROVE PoolInv'  OBVIOUS
<1> USE DEF PoolInv
<1>0. Cardinality(Running) \in Nat  BY RunningFinite
<1>1. CASE UNCHANGED vars
  BY <1>1 DEF vars, TypeOK, OnlyUnclosedResultsAreLost, Running
<1>2. ASSUME NEW r \in Request, NEW m \in Method, Call(r, m) PROVE PoolInv'
  <2>1. Running' = Running  BY <1>2, RunningStays DEF Call
  <2>2. TypeOK'  BY <1>2 DEF Call, TypeOK, Stage, Method
  <2> QED  BY <2>1, <2>2, <1>2 DEF Call, OnlyUnclosedResultsAreLost
<1>3. ASSUME NEW r \in Request, Acquire(r) PROVE PoolInv'
  <2>1. Cardinality(Running') = Cardinality(Running) + 1
    BY <1>3, RunningGrows DEF Acquire
  <2>2. TypeOK'  BY <1>3, ConnPoolAssumption DEF Acquire, TypeOK, Stage
  <2> QED
    BY <2>1, <2>2, <1>0, <1>3, ConnPoolAssumption
    DEF Acquire, TypeOK, Method, OnlyUnclosedResultsAreLost
<1>4. ASSUME NEW r \in Request, GiveUp(r) PROVE PoolInv'
  <2>1. Running' = Running  BY <1>4, RunningStays DEF GiveUp, Reply
  <2>2. TypeOK'  BY <1>4 DEF GiveUp, Reply, TypeOK, Stage
  <2> QED  BY <2>1, <2>2, <1>4 DEF GiveUp, OnlyUnclosedResultsAreLost
<1>5. ASSUME NEW r \in Request, Finish(r) PROVE PoolInv'
  <2>1. Cardinality(Running') = Cardinality(Running) - 1
    BY <1>5, RunningShrinks DEF Finish, Answer, Reply
  <2>2. Cardinality(Running') \in Nat
    <3>1. Running' \subseteq Request  BY DEF Running
    <3> QED  BY <3>1, ConnPoolAssumption, FS_Subset, FS_CardinalityType
  <2>3. OnlyUnclosedResultsAreLost'
    BY <2>1, <1>0, <1>5, ConnPoolAssumption
    DEF Finish, Answer, Reply, TypeOK, Method, OnlyUnclosedResultsAreLost
  <2>4. TypeOK'
    BY <2>2, <2>3, <1>5, ConnPoolAssumption
    DEF Finish, Answer, Reply, TypeOK, Stage, Method, OnlyUnclosedResultsAreLost
  <2> QED  BY <2>3, <2>4
<1>6. ASSUME NEW r \in Request, Lose(r), call[r] # "Statement" PROVE PoolInv'
  <2>1. Cardinality(Running') = Cardinality(Running) - 1
    BY <1>6, RunningShrinks DEF Lose, Answer, Reply
  <2>2. call[r] \in {"GetLocations", "UpdateFeedLocations"}
    BY <1>6 DEF Lose, Answer, TypeOK, Method
  <2>3. TypeOK'  BY <1>6, <2>2 DEF Lose, Answer, Reply, TypeOK, Stage, Method
  <2>4. OnlyUnclosedResultsAreLost'
    BY <2>1, <2>2, <1>0, <1>6, ConnPoolAssumption
    DEF Lose, Answer, Reply, TypeOK, Method, OnlyUnclosedResultsAreLost
  <2> QED  BY <2>3, <2>4
<1>7. ASSUME NEW r \in Request, Refuse(r) PROVE PoolInv'
  <2>1. Running' = Running  BY <1>7, RunningStays DEF Refuse, Reply
  <2>2. TypeOK'  BY <1>7 DEF Refuse, Reply, TypeOK, Stage
  <2> QED  BY <2>1, <2>2, <1>7 DEF Refuse, OnlyUnclosedResultsAreLost
<1>8. CASE Terminate
  <2>1. Running' = Running  BY <1>8 DEF Terminate, Running
  <2> QED  BY <2>1, <1>8 DEF Terminate, TypeOK, OnlyUnclosedResultsAreLost
<1>9. CASE NewProcess
  <2>1. Running' = {}  BY <1>9 DEF NewProcess, Running
  <2>2. Cardinality(Running') = 0  BY <2>1, FS_EmptySet
  <2>3. TypeOK'  BY <1>9, ConnPoolAssumption DEF NewProcess, TypeOK, Stage, Method
  <2> QED
    BY <2>2, <2>3, <1>9, ConnPoolAssumption
    DEF NewProcess, OnlyUnclosedResultsAreLost, Method
<1> QED
  BY <1>1, <1>2, <1>3, <1>4, <1>5, <1>6, <1>7, <1>8, <1>9
  DEF Next, Return, PanicOnRow, ExecBatch, Exit, Crash

(***************************************************************************)
(* The variables of the pool keep their types; in particular no connection *)
(* is ever given back that was not taken.                                  *)
(***************************************************************************)
THEOREM PoolTypeCorrect == Spec => []TypeOK
<1>1. PoolInv => TypeOK  BY DEF PoolInv
<1> QED  BY PoolInvInit, PoolInvNext, <1>1, PTL DEF Spec

(***************************************************************************)
(* A statement that fails, is given up or runs out of time gives its       *)
(* connection back, however many requests share a pool of whatever size.   *)
(***************************************************************************)
THEOREM PoolAccounted == Spec => []OnlyUnclosedResultsAreLost
<1>1. PoolInv => OnlyUnclosedResultsAreLost  BY DEF PoolInv
<1> QED  BY PoolInvInit, PoolInvNext, <1>1, PTL DEF Spec
=============================================================================
