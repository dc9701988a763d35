---------------------------- MODULE ConsumerGroup ----------------------------
(***************************************************************************)
(* The consumer processes of cmd/consumer and the Kafka consumer group     *)
(* they form.  consumer.go hands the group to sarama: sarama joins, calls  *)
(* Setup, runs ConsumeClaim in one goroutine per claimed partition, and    *)
(* ends the session when the group rebalances.  The group coordinator and  *)
(* sarama are external; they are modelled as consumer.go relies on them,   *)
(* under the default configuration NewConsumerGroup asks for.              *)
(*                                                                         *)
(* Offsets are counts: committed[p] = n means that the next message to     *)
(* consume is log[p][n + 1].                                               *)
(***************************************************************************)
EXTENDS Integers, Sequences

CONSTANTS Consumer,        \* the consumer processes
          Partition,       \* the partitions of the two topics
          MaxDisruptions   \* bound on crashes, evictions and spontaneous rebalances

ASSUME ConsumerGroupAssumption == MaxDisruptions \in Nat

VARIABLES log,          \* log[p]: the messages of partition p
          committed,    \* committed[p]: the group's offset kept by the coordinator
          rebalancing,  \* the coordinator waits for the members to rejoin
          phase,        \* phase[c]: where process c stands with the group
          claims,       \* claims[c]: the partitions of the session of c
          work,         \* work[c][p]: the goroutine of c that serves p
          position,     \* position[c][p]: the messages that goroutine has received
          marked,       \* marked[c][p]: the offset MarkMessage has recorded
          disruptions   \* how many disruptions there have been

(* History variables: they record what happened and guard nothing. *)
VARIABLES finished,     \* finished[p]: the offsets some handler has returned from
          acked,        \* acked[p]: the offsets some handler has marked
          base          \* base[p]: the offset the last start at the newest offset
                        \* jumped to

groupVars == <<committed, rebalancing, phase, claims, position, marked,
               disruptions, base>>
historyVars == <<finished, acked>>

(* The coordinator has no offset for the partition (sarama's OffsetNewest, -1). *)
NoOffset == -1

(***************************************************************************)
(* down: no process.  joining: in Consume, waiting for the coordinator.    *)
(* active: in a session.  ending: in a session whose context is done.      *)
(* evicted: in a session the coordinator has given up; its commits fail.   *)
(***************************************************************************)
Phase == {"down", "joining", "active", "ending", "evicted"}
Members == {c \in Consumer : phase[c] \in {"active", "ending"}}

(***************************************************************************)
(* off: no goroutine.  waiting: in the select of ConsumeClaim.  mark and   *)
(* commit: the two calls that end a handler.  The others are the calls of  *)
(* the two handlers, in module FeedPipeline.                               *)
(***************************************************************************)
Stage == {"off", "waiting", "store", "produce", "intents", "needs",
          "duplicates", "delete", "update", "index", "mark", "commit"}

(* A goroutine at a stage, its handler's entryID and intents not yet set. *)
Worker(stage) == [stage |-> stage, entry |-> 0, reason |-> "payload"]
NoWorkers == [p \in Partition |-> Worker("off")]

At(c, p, stage) == work[c][p].stage = stage
Goto(c, p, stage) == work' = [work EXCEPT ![c][p].stage = stage]

GroupInit ==
    /\ committed \in [Partition -> {NoOffset, 0}]
    /\ rebalancing = TRUE
    /\ phase = [c \in Consumer |-> "joining"]
    /\ claims = [c \in Consumer |-> {}]
    /\ work = [c \in Consumer |-> NoWorkers]
    /\ position = [c \in Consumer |-> [p \in Partition |-> 0]]
    /\ marked = [c \in Consumer |-> [p \in Partition |-> NoOffset]]
    /\ disruptions = 0
    /\ finished = [p \in Partition |-> {}]
    /\ acked = [p \in Partition |-> {}]
    /\ base = [p \in Partition |-> 0]

Disrupt ==
    /\ disruptions < MaxDisruptions
    /\ disruptions' = disruptions + 1

-----------------------------------------------------------------------------
(* The coordinator. *)

(* The members are told to rejoin: a partition was added, a member timed out... *)
Rebalance ==
    /\ ~rebalancing
    /\ Disrupt
    /\ rebalancing' = TRUE
    /\ UNCHANGED <<log, committed, phase, claims, work, position, marked,
                   historyVars, base>>

(***************************************************************************)
(* A member that misses its heartbeats, or is still in a handler when the  *)
(* rebalance timeout expires, is given up.  It does not stop: its          *)
(* goroutines go on with what they hold.                                   *)
(***************************************************************************)
Evict(c) ==
    /\ c \in Members
    /\ Disrupt
    /\ rebalancing' = TRUE
    /\ phase' = [phase EXCEPT ![c] = "evicted"]
    /\ UNCHANGED <<log, committed, claims, work, position, marked,
                   historyVars, base>>

(* Mutant: a claim starts at the newest message whatever was committed. *)
StartOffsetNewest(p) == Len(log[p])

(* Mutant: the absence of an offset is taken for an offset. *)
StartOffsetUnchecked(p) == committed[p]

(***************************************************************************)
(* Every process that has joined gets its share of the partitions and      *)
(* starts a session: Setup, then one ConsumeClaim per partition, from the  *)
(* committed offset, or from the newest message if there is none.          *)
(***************************************************************************)
StartOffset(p) == IF committed[p] = NoOffset THEN Len(log[p]) ELSE committed[p]

CompleteRebalance ==
    LET joined == {c \in Consumer : phase[c] = "joining"}
    IN  /\ rebalancing
        /\ Members = {}
        /\ \E owner \in [Partition -> joined] :
              /\ claims' = [c \in Consumer |->
                               IF c \in joined THEN {p \in Partition : owner[p] = c}
                                               ELSE claims[c]]
              /\ work' = [c \in Consumer |-> [p \in Partition |->
                               IF owner[p] = c THEN Worker("waiting") ELSE work[c][p]]]
              /\ position' = [c \in Consumer |-> [p \in Partition |->
                               IF owner[p] = c THEN StartOffset(p) ELSE position[c][p]]]
              /\ marked' = [c \in Consumer |-> [p \in Partition |->
                               IF owner[p] = c THEN committed[p] ELSE marked[c][p]]]
        /\ phase' = [c \in Consumer |-> IF c \in joined THEN "active" ELSE phase[c]]
        /\ base' = [p \in Partition |->
                       IF committed[p] = NoOffset THEN Len(log[p]) ELSE base[p]]
        /\ rebalancing' = FALSE
        /\ UNCHANGED <<log, committed, disruptions, historyVars>>

-----------------------------------------------------------------------------
(* The session. *)

(* A heartbeat reports the rebalance: the context of the session is done. *)
CancelSession(c) ==
    /\ rebalancing
    /\ phase[c] = "active"
    /\ phase' = [phase EXCEPT ![c] = "ending"]
    /\ UNCHANGED <<log, committed, rebalancing, claims, work, position, marked,
                   disruptions, historyVars, base>>

(* Mutant: the coordinator takes the offsets of a member it has given up. *)
FlushUnfenced(c) ==
    /\ phase[c] \in {"active", "ending", "evicted"}
    /\ committed' = [p \in Partition |->
                        IF p \in claims[c] /\ marked[c][p] # NoOffset
                        THEN marked[c][p] ELSE committed[p]]

(* Mutant: what was received is committed, not what was marked. *)
FlushReceived(c) ==
    /\ c \in Members
    /\ committed' = [p \in Partition |->
                        IF p \in claims[c] THEN position[c][p] ELSE committed[p]]

(* The coordinator takes the offsets that the session of c has marked. *)
Flush(c) ==
    /\ c \in Members
    /\ committed' = [p \in Partition |->
                        IF p \in claims[c] /\ marked[c][p] # NoOffset
                        THEN marked[c][p] ELSE committed[p]]

(* The once a second commit of what is marked, on while the session lasts. *)
AutoCommit(c) ==
    /\ Flush(c)
    /\ UNCHANGED <<log, rebalancing, phase, claims, work, position, marked,
                   disruptions, historyVars, base>>

(* Mutant: a claim goes on after its session, until the group gives it up. *)
EndingUnnoticed(c) == phase[c] = "evicted"

Ending(c) == phase[c] \in {"ending", "evicted"}

(* ConsumeClaim takes the branch of the finished context and returns. *)
StopClaim(c, p) ==
    /\ Ending(c)
    /\ At(c, p, "waiting")
    /\ Goto(c, p, "off")
    /\ UNCHANGED <<log, groupVars, historyVars>>

(***************************************************************************)
(* When its goroutines have returned the session is released: a last       *)
(* commit, which may fail, Cleanup, and Start calls Consume again, with a  *)
(* fresh Ready channel.                                                    *)
(***************************************************************************)
Release(c) ==
    /\ Ending(c)
    /\ \A p \in Partition : At(c, p, "off")
    /\ Flush(c) \/ UNCHANGED committed
    /\ phase' = [phase EXCEPT ![c] = "joining"]
    /\ rebalancing' = TRUE
    /\ claims' = [claims EXCEPT ![c] = {}]
    /\ position' = [position EXCEPT ![c] = [p \in Partition |-> 0]]
    /\ marked' = [marked EXCEPT ![c] = [p \in Partition |-> NoOffset]]
    /\ UNCHANGED <<log, work, disruptions, historyVars, base>>

-----------------------------------------------------------------------------
(* The goroutine of a claim. *)

Message(c, p) == log[p][position[c][p]]

(* Mutant: a message is marked when it is received. *)
TakeMessageMarked(c, p, stage) ==
    /\ At(c, p, "waiting")
    /\ position[c][p] < Len(log[p])
    /\ position' = [position EXCEPT ![c][p] = @ + 1]
    /\ marked' = [marked EXCEPT ![c][p] = position[c][p] + 1]
    /\ Goto(c, p, stage)
    /\ UNCHANGED <<log, committed, rebalancing, phase, claims,
                   disruptions, historyVars, base>>

(***************************************************************************)
(* ConsumeClaim receives the next message and enters its handler.  A claim *)
(* whose context is done may still do so: select chooses among the ready   *)
(* branches, and messages fetched before are in the channel.               *)
(***************************************************************************)
TakeMessage(c, p, stage) ==
    /\ At(c, p, "waiting")
    /\ position[c][p] < Len(log[p])
    /\ position' = [position EXCEPT ![c][p] = @ + 1]
    /\ Goto(c, p, stage)
    /\ UNCHANGED <<log, committed, rebalancing, phase, claims, marked,
                   disruptions, historyVars, base>>

(* A handler returns without marking its message: ConsumeClaim goes on. *)
ReturnUnmarked(c, p) ==
    /\ work' = [work EXCEPT ![c][p] = Worker("waiting")]
    /\ finished' = [finished EXCEPT ![p] = @ \union {position[c][p]}]
    /\ UNCHANGED acked

(* Mutant: a handler commits without having marked its message. *)
MarkMessageForgotten(c, p) ==
    /\ At(c, p, "mark")
    /\ acked' = [acked EXCEPT ![p] = @ \union {position[c][p]}]
    /\ finished' = [finished EXCEPT ![p] = @ \union {position[c][p]}]
    /\ Goto(c, p, "commit")
    /\ UNCHANGED <<log, groupVars>>

(***************************************************************************)
(* MarkMessage keeps the highest offset: what was marked before, and what  *)
(* was received before and never marked, is covered by it.                 *)
(***************************************************************************)
MarkMessage(c, p) ==
    /\ At(c, p, "mark")
    /\ marked' = [marked EXCEPT ![c][p] = IF position[c][p] > @ THEN position[c][p] ELSE @]
    /\ acked' = [acked EXCEPT ![p] = @ \union {position[c][p]}]
    /\ finished' = [finished EXCEPT ![p] = @ \union {position[c][p]}]
    /\ Goto(c, p, "commit")
    /\ UNCHANGED <<log, committed, rebalancing, phase, claims, position,
                   disruptions, base>>

(* session.Commit commits every claim of the session; a failure is not reported. *)
Commit(c, p) ==
    /\ At(c, p, "commit")
    /\ Flush(c) \/ UNCHANGED committed
    /\ work' = [work EXCEPT ![c][p] = Worker("waiting")]
    /\ UNCHANGED <<log, rebalancing, phase, claims, position, marked,
                   disruptions, historyVars, base>>

-----------------------------------------------------------------------------
(* The process. *)

(* The process ends, with every goroutine and everything they hold. *)
Stop(c) ==
    /\ phase[c] # "down"
    /\ Disrupt
    /\ phase' = [phase EXCEPT ![c] = "down"]
    /\ rebalancing' = TRUE
    /\ claims' = [claims EXCEPT ![c] = {}]
    /\ work' = [work EXCEPT ![c] = NoWorkers]
    /\ position' = [position EXCEPT ![c] = [p \in Partition |-> 0]]
    /\ marked' = [marked EXCEPT ![c] = [p \in Partition |-> NoOffset]]
    /\ UNCHANGED <<log, committed, historyVars, base>>

(***************************************************************************)
(* A claim that ends closes its channel: the receive of ConsumeClaim can   *)
(* yield nil, whose Topic is read.  The panic ends the process.            *)
(***************************************************************************)
NilMessage(c, p) ==
    /\ Ending(c)
    /\ At(c, p, "waiting")
    /\ Stop(c)

(* The process is started again and calls Consume. *)
Restart(c) ==
    /\ phase[c] = "down"
    /\ phase' = [phase EXCEPT ![c] = "joining"]
    /\ rebalancing' = TRUE
    /\ UNCHANGED <<log, committed, claims, work, position, marked, disruptions,
                   historyVars, base>>
=============================================================================
