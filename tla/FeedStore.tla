------------------------------ MODULE FeedStore ------------------------------
(***************************************************************************)
(* What the back end keeps about a feed once a consumer has handled it:    *)
(* the tables feeds_entry and feeds_location (repository/repository.go)    *)
(* and the Elasticsearch index "locations" (search/location.go).           *)
(*                                                                         *)
(* createFeedLocation inserts the location under the id of its entry, so   *)
(* an entry and its location are one record here, numbered by that id; the *)
(* field placed says whether the location row exists.  Ids are drawn from  *)
(* an identity column: the model numbers them without the gaps a rollback  *)
(* leaves.  Text, coordinates and needs are not told apart by any property *)
(* and are left out; needs is written by the same statement as reason.     *)
(***************************************************************************)
EXTENDS Integers, Sequences

CONSTANTS Source,   \* where an entry can come from: a message of Kafka
          DocId     \* the values of location.ID in the incoming payloads

VARIABLES entries,  \* entries[id]: the row of feeds_entry and of its location
          index     \* index[d]: the document with _id d of the elastic index

(***************************************************************************)
(* The column reason: as the payload brought it, "" (the resolver gave no  *)
(* intent), or a list of resolved labels.                                  *)
(***************************************************************************)
Reason == {"payload", "empty", "labels"}

Row == [src: Source, placed: BOOLEAN, reason: Reason, deleted: BOOLEAN]

(***************************************************************************)
(* entry is the row the document was written for, 0 for no document.  It   *)
(* is not the field entry_id of the document, which like _id is the        *)
(* payload's: CreateFeed sets EntryID in its own copy of the location.     *)
(***************************************************************************)
Document == [entry: Nat, reason: Reason]
NoDocument == [entry |-> 0, reason |-> "payload"]

StoreTypeOK ==
    /\ entries \in Seq(Row)
    /\ index \in [DocId -> Document]

StoreInit ==
    /\ entries = <<>>
    /\ index = [d \in DocId |-> NoDocument]

NextEntryID == Len(entries) + 1

(***************************************************************************)
(* CreateFeed: the entry and, when the payload has an address and both     *)
(* coordinates, its location, in one transaction.                          *)
(***************************************************************************)
CreateFeed(src, placed) ==
    entries' = Append(entries, [src     |-> src,
                                placed  |-> placed,
                                reason  |-> "payload",
                                deleted |-> FALSE])

(* Mutant: an empty answer does not overwrite the reason of the payload. *)
UpdateUnlessEmpty(id, intents) ==
    entries' = IF entries[id].placed /\ intents # "empty"
               THEN [entries EXCEPT ![id].reason = intents]
               ELSE entries

(* The UPDATE of the location row of entry id: no row, no effect, no error. *)
UpdateLocationIntentAndNeeds(id, intents) ==
    entries' = IF entries[id].placed
               THEN [entries EXCEPT ![id].reason = intents]
               ELSE entries

(* The soft delete: is_deleted is set, the row stays. *)
DeleteFeedLocation(id) ==
    entries' = IF entries[id].placed
               THEN [entries EXCEPT ![id].deleted = TRUE]
               ELSE entries

(***************************************************************************)
(* CreateFeedLocation of the search package: a bulk index of one document, *)
(* whose _id is the id the payload carried and not the id of the entry, so *)
(* that it replaces any document written under the same payload id.        *)
(***************************************************************************)
CreateFeedLocation(doc, id, intents) ==
    index' = [index EXCEPT ![doc] = [entry |-> id, reason |-> intents]]
=============================================================================
