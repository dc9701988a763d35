----------------------------- MODULE AtomicPatches -----------------------------
(***************************************************************************)
(* What PATCH /feeds/areas promises: the corrections of one request are    *)
(* applied all at once or not at all, and where a list names a row twice   *)
(* the last of them is the one that stays.                                 *)
(***************************************************************************)
EXTENDS Integers, Sequences

CONSTANTS Batch,   \* the requests
          Row,     \* the entries that have a row in feeds_location
          Lists    \* the lists of entries a request may name

VARIABLES place,   \* place[e]: the correction the row of e holds
          list,    \* list[b]: the entries b corrects, in the order of its body
          fate     \* fate[b]: "none", "submitted", "applied" or "dropped"

apVars == <<place, list, fate>>

(* The place a row has from its payload. *)
Payload == <<>>

(* The index of the last of the first n items of l that names e, or 0. *)
LastNamed(l, n, e) ==
    IF \E i \in 1..n : l[i] = e
    THEN CHOOSE i \in 1..n : l[i] = e /\ \A j \in 1..n : l[j] = e => j <= i
    ELSE 0

(* The rows after all the items of l, which are those of b, were applied. *)
Corrected(b, l) ==
    [e \in Row |-> IF LastNamed(l, Len(l), e) = 0
                   THEN place[e]
                   ELSE <<b, LastNamed(l, Len(l), e)>>]

-----------------------------------------------------------------------------
APInit ==
    /\ place = [e \in Row |-> Payload]
    /\ list = [b \in Batch |-> <<>>]
    /\ fate = [b \in Batch |-> "none"]

APSubmit(b, l) ==
    /\ fate[b] = "none"
    /\ fate' = [fate EXCEPT ![b] = "submitted"]
    /\ list' = [list EXCEPT ![b] = l]
    /\ UNCHANGED place

APApply(b) ==
    /\ fate[b] = "submitted"
    /\ fate' = [fate EXCEPT ![b] = "applied"]
    /\ place' = Corrected(b, list[b])
    /\ UNCHANGED list

APDrop(b) ==
    /\ fate[b] = "submitted"
    /\ fate' = [fate EXCEPT ![b] = "dropped"]
    /\ UNCHANGED <<place, list>>

APNext ==
    \E b \in Batch :
        \/ \E l \in Lists : APSubmit(b, l)
        \/ APApply(b)
        \/ APDrop(b)

APSpec == APInit /\ [][APNext]_apVars
=============================================================================
