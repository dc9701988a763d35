-------------------------- MODULE DeliveryContract --------------------------
(***************************************************************************)
(* What a consumer group owes to the writers of its topics, whatever its   *)
(* handlers do: no message is left behind before it was handled once, and  *)
(* what was left behind stays behind.  A message may be handled again, and *)
(* a group without an offset starts at the newest message.                 *)
(***************************************************************************)
EXTENDS Integers

CONSTANT Partition

VARIABLES sent,       \* sent[p]: how many messages partition p holds
          handled,    \* handled[p]: the offsets that were handled at least once
          committed,  \* committed[p]: the offset of the group, -1 if it has none
          start       \* start[p]: where the group started without an offset

vars == <<sent, handled, committed, start>>

Init ==
    /\ sent = [p \in Partition |-> 0]
    /\ handled = [p \in Partition |-> {}]
    /\ committed \in [Partition -> {-1, 0}]
    /\ start = [p \in Partition |-> 0]

(* Writers append messages. *)
Send ==
    /\ \A p \in Partition : sent'[p] >= sent[p]
    /\ UNCHANGED <<handled, committed, start>>

(* One message, new or old, is handled. *)
Handle ==
    /\ \E p \in Partition : \E i \in 1..sent[p] :
          handled' = [handled EXCEPT ![p] = @ \union {i}]
    /\ UNCHANGED <<sent, committed, start>>

(* Offsets move forward, over messages that were handled. *)
Commit ==
    /\ \A p \in Partition :
          /\ committed'[p] >= committed[p]
          /\ \A i \in start[p] + 1 .. committed'[p] : i \in handled[p]
    /\ UNCHANGED <<sent, handled, start>>

(* The group starts where it has no offset. *)
StartAtNewest ==
    /\ \A p \in Partition :
          start'[p] = IF committed[p] = -1 THEN sent[p] ELSE start[p]
    /\ UNCHANGED <<sent, handled, committed>>

Next == Send \/ Handle \/ Commit \/ StartAtNewest

Spec == Init /\ [][Next]_vars
=============================================================================
