------------------------- MODULE FeedEffectsProofs -------------------------
(***************************************************************************)
(* What the handlers leave behind: rows, intent messages and documents.    *)
(* Proved for every number of processes, partitions and messages and for   *)
(* every budget of failures and disruptions.                               *)
(***************************************************************************)
EXTENDS FeedPipelineProofs

-----------------------------------------------------------------------------
(* The inductive invariant. *)

(* The calls of addressResolveHandle and of intentResolveHandle. *)
StoreStage == {"store", "produce"}
ResolveStage == {"intents", "needs", "duplicates", "delete", "update", "index"}

(* The calls made once the intent service has answered. *)
AnsweredStage == {"needs", "duplicates", "update", "index"}

(* Each topic carries the messages of its handler, or garbage. *)
LogKinds ==
    /\ \A p \in LocationPartition : \A i \in 1..Len(log[p]) : log[p][i].kind # "intent"
    /\ \A p \in IntentPartition : \A i \in 1..Len(log[p]) : log[p][i].kind \in {"intent", "garbage"}

(* Every row comes from a location message. *)
SourcesInLog ==
    \A id \in 1..Len(entries) : \E p \in LocationPartition : \E i \in 1..Len(log[p]) :
        entries[id].src = <<p, i>> /\ log[p][i].kind \in LocationKind

(* The payload of the location message a row comes from. *)
SourceDoc(id) == log[entries[id].src[1]][entries[id].src[2]].doc

(* The message at offset j of q names a row, and has the payload of its source. *)
NamesRow(q, j) ==
    /\ log[q][j].entry \in 1..Len(entries)
    /\ SourceDoc(log[q][j].entry) = log[q][j].doc

(* IntentNamesEntry, in these terms. *)
IntentsNamed ==
    \A q \in IntentPartition : \A j \in 1..Len(log[q]) :
        log[q][j].kind = "intent" => NamesRow(q, j)

(* Only messages of the log were finished or marked. *)
HistoryInLog ==
    \A p \in Partition : finished[p] \subseteq 1..Len(log[p]) /\ acked[p] \subseteq 1..Len(log[p])

(* What a goroutine in a handler knows of the message and of the row it is at. *)
HandlerInv(c, p) ==
    /\ work[c][p].stage \in StoreStage =>
          p \in LocationPartition /\ Message(c, p).kind \in LocationKind
    /\ work[c][p].stage \in ResolveStage =>
          p \in IntentPartition /\ Message(c, p).kind = "intent"
    /\ At(c, p, "produce") =>
          /\ work[c][p].entry \in 1..Len(entries)
          /\ entries[work[c][p].entry].src = <<p, position[c][p]>>
    /\ work[c][p].stage \in AnsweredStage => work[c][p].reason # "payload"
    /\ At(c, p, "index") /\ entries[FeedID(c, p)].placed =>
          entries[FeedID(c, p)].reason # "payload"

(* A location message has its row, and the row its intent message, or the send failed. *)
Forwarded(p, i) == \E id \in Stored(p, i) : Intended(id) \/ errors["send"] > 0

(* An intent message has been applied to its row, or a call has failed. *)
Resolved(p, i) ==
    errors["db"] = 0 /\ errors["api"] = 0 => Applied(entries[log[p][i].entry])

(* What a handler that is about to mark its message has done. *)
MarkInv(c, p) ==
    At(c, p, "mark") =>
        /\ Message(c, p).kind \in LocationKind => Forwarded(p, position[c][p])
        /\ Message(c, p).kind = "intent" => Resolved(p, position[c][p])

(* What was returned from has its row, unless a database call has failed. *)
FinishedStored ==
    errors["db"] = 0 =>
        \A p \in LocationPartition : \A i \in finished[p] :
            log[p][i].kind \in LocationKind => Stored(p, i) # {}

(* The documents are about rows. *)
IndexInTable == \A d \in DocId : index[d].entry \in 0..Len(entries)

EffectsInv ==
    /\ LogKinds /\ SourcesInLog /\ HistoryInLog /\ IntentsNamed
    /\ \A c \in Consumer, p \in Partition : HandlerInv(c, p) /\ MarkInv(c, p)
    /\ FinishedStored /\ AckedFeedForwarded /\ AckedIntentApplied
    /\ IndexInTable /\ IndexFollowsUpdate

-----------------------------------------------------------------------------
(* A process outside a session runs no goroutine, and one in a session runs  *)
(* those of its claims.                                                      *)
GoroutinesClaimed ==
    \A c \in Consumer :
        /\ phase[c] \in {"down", "joining"} => \A p \in Partition : At(c, p, "off")
        /\ \A p \in Partition : ~At(c, p, "off") => p \in claims[c]

(* Without a disruption there is one session, from the first rebalance on. *)
OneSession ==
    \/ /\ rebalancing
       /\ \A c \in Consumer : phase[c] = "joining"
       /\ entries = <<>>
    \/ /\ ~rebalancing
       /\ \A c \in Consumer : phase[c] = "active"

(* The goroutine of a partition has passed the messages that have rows. *)
RowsPassed ==
    \A id \in 1..Len(entries) : \A c \in Consumer :
        LET p == entries[id].src[1]
            i == entries[id].src[2]
        IN  ~At(c, p, "off") => i <= position[c][p] /\ (At(c, p, "store") => i < position[c][p])

OneRow ==
    \A id1, id2 \in 1..Len(entries) : entries[id1].src = entries[id2].src => id1 = id2

CalmInv == disruptions = 0 => OneSession /\ RowsPassed /\ OneRow

SessionInv == GoroutinesClaimed /\ OrphanNeedsFault /\ CalmInv

-----------------------------------------------------------------------------
(* The message at offset j of q is the intent message of row id. *)
IntentOf(q, j, id) == log[q][j].kind = "intent" /\ log[q][j].entry = id

(* A row has one intent message, and none before it is forwarded. *)
OneIntent ==
    /\ \A q1, q2 \in IntentPartition :
          \A j1 \in 1..Len(log[q1]), j2 \in 1..Len(log[q2]) : \A id \in 1..Len(entries) :
              IntentOf(q1, j1, id) /\ IntentOf(q2, j2, id) => q1 = q2 /\ j1 = j2
    /\ \A c \in Consumer, p \in Partition : At(c, p, "produce") => ~Intended(work[c][p].entry)

(* A handler has written the document of a row, or has deleted the row. *)
Touched(id) == entries[id].deleted \/ \E d \in DocId : index[d].entry = id

(* The goroutine of c on q is through with message j. *)
Through(c, q, j) ==
    \/ j < position[c][q]
    \/ j = position[c][q] /\ work[c][q].stage \in {"waiting", "mark", "commit"}

(* A row is touched by the handler of its intent message, and then no more. *)
TouchedOnce ==
    \A id \in 1..Len(entries) : Touched(id) =>
        /\ Intended(id)
        /\ \A q \in IntentPartition : \A j \in 1..Len(log[q]) :
              IntentOf(q, j, id) => \A c \in Consumer : At(c, q, "off") \/ Through(c, q, j)

(* What is about to be indexed is in the table. *)
IndexesTable ==
    \A c \in Consumer, q \in Partition :
        At(c, q, "index") /\ entries[FeedID(c, q)].placed =>
            entries[FeedID(c, q)].reason = work[c][q].reason

(* The documents agree with their rows. *)
DocsMatch ==
    \A d \in DocId :
        LET e == index[d].entry
        IN  e # 0 /\ entries[e].placed => entries[e].reason = index[d].reason /\ ~entries[e].deleted

HandledOnce == OneIntent /\ TouchedOnce /\ IndexesTable /\ DocsMatch

OnceInv == disruptions = 0 /\ errors["send"] = 0 => HandledOnce

-----------------------------------------------------------------------------
(* What was written is never taken back. *)

LogGrows ==
    \A p \in Partition :
        /\ Len(log[p]) \in Nat /\ Len(log'[p]) \in Nat /\ Len(log'[p]) >= Len(log[p])
        /\ \A i \in 1..Len(log[p]) : log'[p][i] = log[p][i]

RowsGrow ==
    /\ Len(entries) \in Nat /\ Len(entries') \in Nat /\ Len(entries') >= Len(entries)
    /\ \A id \in 1..Len(entries) :
          /\ entries'[id].src = entries[id].src
          /\ entries'[id].placed = entries[id].placed
          /\ entries[id].deleted => entries'[id].deleted
          /\ entries[id].reason # "payload" => entries'[id].reason # "payload"

ErrorsGrow == \A k \in ErrorKind : errors[k] \in Nat /\ errors'[k] \in Nat /\ errors'[k] >= errors[k]

Grows == LogGrows /\ RowsGrow /\ ErrorsGrow

(* What is left alone grows. *)
LEMMA KeptGrows ==
    ASSUME TypeOK
    PROVE  /\ UNCHANGED log => LogGrows
           /\ UNCHANGED entries => RowsGrow
           /\ UNCHANGED errors => ErrorsGrow
BY DEF TypeOK, LogTypeOK, StoreTypeOK, BudgetTypeOK, LogGrows, RowsGrow, ErrorsGrow

(* A failing call adds to the errors. *)
LEMMA FailGrows ==
    ASSUME TypeOK, NEW kind \in ErrorKind, Fail(kind)
    PROVE  ErrorsGrow /\ errors'[kind] > 0
BY DEF TypeOK, BudgetTypeOK, ErrorsGrow, Fail

(* A new row comes after the others. *)
LEMMA CreateGrows ==
    ASSUME TypeOK, NEW src \in Source, NEW placed \in BOOLEAN, CreateFeed(src, placed)
    PROVE  /\ RowsGrow
           /\ Len(entries') = Len(entries) + 1
           /\ entries'[Len(entries) + 1].src = src
           /\ ~entries'[Len(entries) + 1].deleted
           /\ \A id \in 1..Len(entries) : entries'[id] = entries[id]
<1> DEFINE row == [src |-> src, placed |-> placed, reason |-> "payload", deleted |-> FALSE]
<1>1. entries \in Seq(Row \union {row})
  BY DEF TypeOK, StoreTypeOK
<1>2. entries' = Append(entries, row)
  BY DEF CreateFeed
<1> HIDE DEF row
<1>3. /\ Len(entries) \in Nat
      /\ Len(entries') = Len(entries) + 1
      /\ entries'[Len(entries) + 1] = row
      /\ \A id \in 1..Len(entries) : entries'[id] = entries[id]
  BY <1>1, <1>2
<1> QED
  BY <1>3 DEF RowsGrow, row

(* The update changes the reason of one row, the soft delete its flag. *)
LEMMA UpdateGrows ==
    ASSUME TypeOK, NEW id \in 1..Len(entries), NEW intents \in Reason \ {"payload"},
           UpdateLocationIntentAndNeeds(id, intents)
    PROVE  /\ RowsGrow
           /\ Len(entries') = Len(entries)
           /\ \A e \in 1..Len(entries) :
                 /\ e # id => entries'[e] = entries[e]
                 /\ entries'[e].deleted = entries[e].deleted
           /\ entries[id].placed => entries'[id].reason = intents
<1>1. entries \in [1..Len(entries) -> Row] /\ Len(entries) \in Nat
  BY DEF TypeOK, StoreTypeOK
<1>2. CASE entries[id].placed
  <2>1. entries' = [entries EXCEPT ![id].reason = intents]
    BY <1>2 DEF UpdateLocationIntentAndNeeds
  <2>2. entries' \in [1..Len(entries) -> Row]
    BY <1>1, <2>1 DEF Row
  <2>3. Len(entries') = Len(entries)
    BY <1>1, <2>1
  <2>4. \A e \in 1..Len(entries) :
            entries'[e] = IF e = id THEN [entries[e] EXCEPT !.reason = intents] ELSE entries[e]
    BY <1>1, <2>1
  <2> QED
    BY <1>1, <2>2, <2>3, <2>4 DEF RowsGrow, Row
<1>3. CASE ~entries[id].placed
  BY <1>1, <1>3 DEF UpdateLocationIntentAndNeeds, RowsGrow
<1> QED
  BY <1>2, <1>3

LEMMA DeleteGrows ==
    ASSUME TypeOK, NEW id \in 1..Len(entries), DeleteFeedLocation(id)
    PROVE  /\ RowsGrow
           /\ Len(entries') = Len(entries)
           /\ \A e \in 1..Len(entries) :
                 /\ e # id => entries'[e] = entries[e]
                 /\ entries'[e].reason = entries[e].reason
           /\ entries[id].placed => entries'[id].deleted
<1>1. entries \in [1..Len(entries) -> Row] /\ Len(entries) \in Nat
  BY DEF TypeOK, StoreTypeOK
<1>2. CASE entries[id].placed
  <2>1. entries' = [entries EXCEPT ![id].deleted = TRUE]
    BY <1>2 DEF DeleteFeedLocation
  <2>2. Len(entries') = Len(entries)
    BY <1>1, <2>1
  <2>3. \A e \in 1..Len(entries) :
            /\ e # id => entries'[e] = entries[e]
            /\ entries'[e].src = entries[e].src
            /\ entries'[e].placed = entries[e].placed
            /\ entries'[e].reason = entries[e].reason
    BY <1>1, <2>1 DEF Row
  <2>4. entries'[id].deleted
    BY <1>1, <2>1 DEF Row
  <2> QED
    BY <1>1, <2>2, <2>3, <2>4 DEF RowsGrow
<1>3. CASE ~entries[id].placed
  BY <1>1, <1>3 DEF DeleteFeedLocation, RowsGrow
<1> QED
  BY <1>2, <1>3

(* What Append makes of a sequence. *)
LEMMA AppendAdds ==
    ASSUME NEW S, NEW s \in Seq(S), NEW m \in S
    PROVE  /\ Append(s, m) \in Seq(S)
           /\ Len(s) \in Nat /\ Len(Append(s, m)) = Len(s) + 1
           /\ Append(s, m)[Len(s) + 1] = m
           /\ \A i \in 1..Len(s) : Append(s, m)[i] = s[i]
OBVIOUS

(* Lengthening one log takes nothing back. *)
LEMMA ReplaceGrows ==
    ASSUME TypeOK, NEW q \in Partition, \A r \in Partition : r # q => log'[r] = log[r],
           Len(log'[q]) \in Nat, Len(log'[q]) >= Len(log[q]),
           \A i \in 1..Len(log[q]) : log'[q][i] = log[q][i]
    PROVE  LogGrows
<1>1. \A r \in Partition : Len(log[r]) \in Nat
  BY DEF TypeOK, LogTypeOK
<1> QED
  BY <1>1 DEF LogGrows

(* The messages from outside are garbage, or location messages. *)
LEMMA PublishWrites ==
    ASSUME TypeOK, NEW p \in Partition, Publish(p)
    PROVE  /\ LogGrows
           /\ \A q \in Partition : \A i \in Len(log[q]) + 1 .. Len(log'[q]) :
                 \/ log'[q][i].kind = "garbage"
                 \/ q \in LocationPartition /\ log'[q][i].kind \in LocationKind
<1>1. PICK kind \in Outside, d \in DocId :
          /\ kind = "garbage" \/ p \in LocationPartition
          /\ log' = [log EXCEPT ![p] = Append(@, [kind |-> kind, entry |-> 0, doc |-> d])]
  BY DEF Publish
<1> DEFINE m == [kind |-> kind, entry |-> 0, doc |-> d]
<1> DEFINE longer == Append(log[p], m)
<1>2. kind = "garbage" \/ kind \in LocationKind
  BY FeedPipelineAssumption DEF LocationKind
<1>3. m.kind = kind
  OBVIOUS
<1>4. log' = [log EXCEPT ![p] = longer]
  BY <1>1 DEF TypeOK, LogTypeOK
<1>5. log[p] \in Seq(Messages \union {m})
  BY DEF TypeOK, LogTypeOK
<1> HIDE DEF m
<1>6. /\ Len(log[p]) \in Nat /\ Len(longer) = Len(log[p]) + 1
      /\ longer[Len(log[p]) + 1] = m
      /\ \A i \in 1..Len(log[p]) : longer[i] = log[p][i]
  BY <1>5, AppendAdds, m \in Messages \union {m}
<1> HIDE DEF longer
<1>7. log'[p] = longer /\ \A r \in Partition : r # p => log'[r] = log[r]
  BY <1>4 DEF TypeOK, LogTypeOK
<1>8. ASSUME NEW q \in Partition, NEW i \in Len(log[q]) + 1 .. Len(log'[q])
      PROVE  q = p /\ log'[q][i] = m
  <2>1. Len(log[q]) \in Nat
    BY DEF TypeOK, LogTypeOK
  <2> QED
    BY <1>6, <1>7, <2>1
<1>9. LogGrows
  BY <1>6, <1>7, ReplaceGrows
<1> QED
  BY <1>1, <1>2, <1>3, <1>8, <1>9

(* The producer writes the intent message once; or it fails, having written  *)
(* it twice or not at all.                                                   *)
LEMMA SendIntentWrites ==
    ASSUME TypeOK, NEW c \in Consumer, NEW p \in Partition, SendIntent(c, p)
    PROVE  /\ LogGrows
           /\ \E q \in IntentPartition, n \in 0..2 :
                 /\ \A r \in Partition : r # q => log'[r] = log[r]
                 /\ Len(log'[q]) = Len(log[q]) + n
                 /\ \A i \in Len(log[q]) + 1 .. Len(log'[q]) :
                       log'[q][i] = [kind |-> "intent", entry |-> work[c][p].entry,
                                     doc |-> Message(c, p).doc]
                 /\ (n = 1 /\ UNCHANGED errors) \/ Fail("send")
<1> DEFINE m == [kind |-> "intent", entry |-> work[c][p].entry, doc |-> Message(c, p).doc]
<1>1. PICK q \in IntentPartition :
          \/ log' = [log EXCEPT ![q] = Append(@, m)] /\ UNCHANGED errors
          \/ log' = [log EXCEPT ![q] = Append(Append(@, m), m)] /\ Fail("send")
          \/ UNCHANGED log /\ Fail("send")
  BY DEF SendIntent
<1> DEFINE one == Append(log[q], m)
<1> DEFINE two == Append(one, m)
<1>2. q \in Partition
  BY FeedPipelineAssumption
<1>3. log[q] \in Seq(Messages \union {m}) /\ Len(log[q]) \in Nat
  BY <1>2 DEF TypeOK, LogTypeOK
<1>4. \/ log' = [log EXCEPT ![q] = one] /\ UNCHANGED errors
      \/ log' = [log EXCEPT ![q] = two] /\ Fail("send")
      \/ UNCHANGED log /\ Fail("send")
  BY <1>1, <1>2 DEF TypeOK, LogTypeOK
<1> HIDE DEF m
<1>5. /\ one \in Seq(Messages \union {m}) /\ Len(one) = Len(log[q]) + 1
      /\ one[Len(log[q]) + 1] = m
      /\ \A i \in 1..Len(log[q]) : one[i] = log[q][i]
  BY <1>3, AppendAdds, m \in Messages \union {m}
<1> HIDE DEF one
<1>6. /\ Len(two) = Len(one) + 1
      /\ two[Len(one) + 1] = m
      /\ \A i \in 1..Len(one) : two[i] = one[i]
  BY <1>5, AppendAdds, m \in Messages \union {m}
<1> HIDE DEF two
<1>7. CASE log' = [log EXCEPT ![q] = one] /\ UNCHANGED errors
  <2>1. log'[q] = one /\ \A r \in Partition : r # q => log'[r] = log[r]
    BY <1>2, <1>7 DEF TypeOK, LogTypeOK
  <2>2. \A i \in Len(log[q]) + 1 .. Len(log'[q]) : log'[q][i] = m
    BY <1>3, <1>5, <2>1
  <2>3. LogGrows
    BY <1>2, <1>3, <1>5, <2>1, ReplaceGrows
  <2> QED
    BY <1>5, <1>7, <2>1, <2>2, <2>3, 1 \in 0..2 DEF m
<1>8. CASE log' = [log EXCEPT ![q] = two] /\ Fail("send")
  <2>1. Len(two) = Len(log[q]) + 2
    BY <1>3, <1>5, <1>6
  <2>2. \A i \in 1..Len(log[q]) : two[i] = log[q][i]
    BY <1>3, <1>5, <1>6
  <2>3. log'[q] = two /\ \A r \in Partition : r # q => log'[r] = log[r]
    BY <1>2, <1>8 DEF TypeOK, LogTypeOK
  <2>4. \A i \in Len(log[q]) + 1 .. Len(log'[q]) : log'[q][i] = m
    BY <1>3, <1>5, <1>6, <2>1, <2>3
  <2>5. LogGrows
    BY <1>2, <1>3, <2>1, <2>2, <2>3, ReplaceGrows
  <2> QED
    BY <1>8, <2>1, <2>3, <2>4, <2>5, 2 \in 0..2 DEF m
<1>9. CASE UNCHANGED log /\ Fail("send")
  <2>1. LogGrows
    BY <1>9, KeptGrows
  <2> QED
    BY <1>2, <1>3, <1>9, <2>1
<1> QED
  BY <1>4, <1>7, <1>8, <1>9

-----------------------------------------------------------------------------
(* What holds of rows and messages goes on to hold as they grow. *)

LEMMA IntendedStays ==
    ASSUME LogGrows
    PROVE  \A id : Intended(id) => Intended(id)'
BY FeedPipelineAssumption DEF LogGrows, Intended

LEMMA ForwardedStays ==
    ASSUME Grows
    PROVE  \A p, i : /\ Stored(p, i) \subseteq Stored(p, i)'
                     /\ Forwarded(p, i) => Forwarded(p, i)'
<1>1. \A p, i : Stored(p, i) \subseteq Stored(p, i)'
  BY DEF Grows, RowsGrow, Stored
<1>2. errors["send"] > 0 => errors'["send"] > 0
  BY DEF Grows, ErrorsGrow, ErrorKind
<1>3. \A id : Intended(id) => Intended(id)'
  BY IntendedStays DEF Grows
<1> QED
  BY <1>1, <1>2, <1>3 DEF Forwarded

LEMMA AppliedStays ==
    ASSUME RowsGrow
    PROVE  \A id \in 1..Len(entries) : Applied(entries[id]) => Applied(entries'[id])
BY DEF RowsGrow, Applied

LEMMA ResolvedStays ==
    ASSUME Grows, NEW p \in Partition, NEW i \in 1..Len(log[p]),
           log[p][i].entry \in 1..Len(entries), Resolved(p, i)
    PROVE  Resolved(p, i)'
<1>1. log'[p][i] = log[p][i]
  BY DEF Grows, LogGrows
<1>2. errors'["db"] = 0 /\ errors'["api"] = 0 => errors["db"] = 0 /\ errors["api"] = 0
  BY DEF Grows, ErrorsGrow, ErrorKind
<1> QED
  BY <1>1, <1>2, AppliedStays DEF Grows, Resolved

(* The row of the intent message in work exists. *)
LEMMA NamedRow ==
    ASSUME TypeOK, OffsetsInLog, LogKinds, IntentsNamed,
           NEW c \in Consumer, NEW p \in Partition, Working(c, p), Message(c, p).kind = "intent"
    PROVE  p \in IntentPartition /\ FeedID(c, p) \in 1..Len(entries)
<1>1. position[c][p] \in 1..Len(log[p])
  BY MessageType
<1>2. p \in IntentPartition
  BY <1>1, FeedPipelineAssumption DEF LogKinds, Message
<1> QED
  BY <1>1, <1>2 DEF IntentsNamed, NamesRow, Message, FeedID

-----------------------------------------------------------------------------
(* What a step may add. *)

(* Messages: garbage, location messages, intent messages of committed rows. *)
NewMessages ==
    \A p \in Partition : \A i \in Len(log[p]) + 1 .. Len(log'[p]) :
        \/ log'[p][i].kind = "garbage"
        \/ p \in LocationPartition /\ log'[p][i].kind \in LocationKind
        \/ /\ p \in IntentPartition
           /\ log'[p][i].kind = "intent"
           /\ log'[p][i].entry \in 1..Len(entries)
           /\ SourceDoc(log'[p][i].entry) = log'[p][i].doc

(* Rows: those of location messages. *)
NewRows ==
    \A id \in Len(entries) + 1 .. Len(entries') :
        \E p \in LocationPartition : \E i \in 1..Len(log[p]) :
            entries'[id].src = <<p, i>> /\ log[p][i].kind \in LocationKind

(* What handlers have returned from: stored, or a database call has failed. *)
NewFinished ==
    \A p \in Partition : \A i \in finished'[p] \ finished[p] :
        /\ i \in 1..Len(log[p])
        /\ log[p][i].kind \in LocationKind => errors'["db"] > 0 \/ Stored(p, i) # {}

(* Marks: what was forwarded or resolved. *)
NewAcked ==
    \A p \in Partition : \A i \in acked'[p] \ acked[p] :
        /\ i \in 1..Len(log[p])
        /\ log[p][i].kind \in LocationKind => Forwarded(p, i)
        /\ log[p][i].kind = "intent" => Resolved(p, i)

(* Documents: those of rows that have been resolved. *)
NewDocs ==
    \A d \in DocId :
        \/ index'[d].entry = index[d].entry
        \/ /\ index'[d].entry \in 1..Len(entries)
           /\ entries[index'[d].entry].placed => entries[index'[d].entry].reason # "payload"

(* What is left alone adds nothing. *)
LEMMA NothingNew ==
    ASSUME TypeOK
    PROVE  /\ UNCHANGED log => NewMessages
           /\ UNCHANGED entries => NewRows
           /\ UNCHANGED finished => NewFinished
           /\ UNCHANGED acked => NewAcked
           /\ UNCHANGED index => NewDocs
<1>1. UNCHANGED log => NewMessages
  <2>1. \A p \in Partition : Len(log[p]) \in Nat
    BY DEF TypeOK, LogTypeOK
  <2>2. \A p \in Partition : Len(log[p]) + 1 .. Len(log[p]) = {}
    BY <2>1
  <2> QED
    BY <2>2 DEF NewMessages
<1>2. UNCHANGED entries => NewRows
  <2>1. Len(entries) + 1 .. Len(entries) = {}
    BY DEF TypeOK, StoreTypeOK
  <2> QED
    BY <2>1 DEF NewRows
<1>3. UNCHANGED finished => NewFinished
  BY DEF NewFinished
<1>4. UNCHANGED acked => NewAcked
  BY DEF NewAcked
<1>5. UNCHANGED index => NewDocs
  BY DEF NewDocs
<1> QED
  BY <1>1, <1>2, <1>3, <1>4, <1>5

(***************************************************************************)
(* A step that adds no more than that, and leaves every goroutine with what *)
(* it may rely on, keeps EffectsInv.                                        *)
(***************************************************************************)
LEMMA EffectsStep ==
    ASSUME TypeOK, EffectsInv, Grows,
           NewMessages, NewRows, NewFinished, NewAcked, NewDocs,
           \A c \in Consumer, p \in Partition : HandlerInv(c, p)' /\ MarkInv(c, p)'
    PROVE  EffectsInv'
<1>1. LogKinds'
  <2>1. ASSUME NEW p \in Partition, NEW i \in 1..Len(log'[p])
        PROVE  IF p \in LocationPartition THEN log'[p][i].kind # "intent"
                                          ELSE log'[p][i].kind \in {"intent", "garbage"}
    <3>1. CASE i \in 1..Len(log[p])
      <4>1. log'[p][i] = log[p][i]
        BY <3>1 DEF Grows, LogGrows
      <4> QED
        BY <3>1, <4>1, FeedPipelineAssumption DEF EffectsInv, LogKinds
    <3>2. CASE i \in Len(log[p]) + 1 .. Len(log'[p])
      BY <3>2, FeedPipelineAssumption DEF NewMessages, LocationKind
    <3> QED
      BY <3>1, <3>2 DEF Grows, LogGrows
  <2> QED
    BY <2>1, FeedPipelineAssumption DEF LogKinds
<1>2. SourcesInLog'
  <2>1. ASSUME NEW id \in 1..Len(entries')
        PROVE  \E p \in LocationPartition : \E i \in 1..Len(log[p]) :
                   entries'[id].src = <<p, i>> /\ log[p][i].kind \in LocationKind
    <3>1. CASE id \in 1..Len(entries)
      BY <3>1 DEF EffectsInv, SourcesInLog, Grows, RowsGrow
    <3>2. CASE id \in Len(entries) + 1 .. Len(entries')
      BY <3>2 DEF NewRows
    <3> QED
      BY <3>1, <3>2 DEF Grows, RowsGrow
  <2>2. \A p \in LocationPartition : \A i \in 1..Len(log[p]) :
            i \in 1..Len(log'[p]) /\ log'[p][i] = log[p][i]
    BY FeedPipelineAssumption DEF Grows, LogGrows
  <2>3. ASSUME NEW id \in 1..Len(entries')
        PROVE  \E p \in LocationPartition : \E i \in 1..Len(log'[p]) :
                   entries'[id].src = <<p, i>> /\ log'[p][i].kind \in LocationKind
    <3>1. PICK p \in LocationPartition : \E i \in 1..Len(log[p]) :
              entries'[id].src = <<p, i>> /\ log[p][i].kind \in LocationKind
      BY <2>1
    <3>2. PICK i \in 1..Len(log[p]) :
              entries'[id].src = <<p, i>> /\ log[p][i].kind \in LocationKind
      BY <3>1
    <3>3. i \in 1..Len(log'[p]) /\ log'[p][i] = log[p][i]
      BY <2>2
    <3> QED
      BY <3>2, <3>3
  <2> QED
    BY <2>3 DEF SourcesInLog
<1>3. HistoryInLog'
  <2>1. ASSUME NEW p \in Partition
        PROVE  finished'[p] \subseteq 1..Len(log[p]) /\ acked'[p] \subseteq 1..Len(log[p])
    BY DEF EffectsInv, HistoryInLog, NewFinished, NewAcked
  <2> QED
    BY <2>1 DEF HistoryInLog, Grows, LogGrows
<1>4. IntentsNamed'
  <2>1. ASSUME NEW q \in IntentPartition, NEW j \in 1..Len(log'[q]), log'[q][j].kind = "intent"
        PROVE  /\ log'[q][j].entry \in 1..Len(entries)
               /\ SourceDoc(log'[q][j].entry) = log'[q][j].doc
    <3>1. q \in Partition /\ q \notin LocationPartition
      BY FeedPipelineAssumption
    <3>2. CASE j \in 1..Len(log[q])
      <4>1. log'[q][j] = log[q][j]
        BY <3>1, <3>2 DEF Grows, LogGrows
      <4> QED
        BY <2>1, <3>2, <4>1 DEF EffectsInv, IntentsNamed, NamesRow
    <3>3. CASE j \in Len(log[q]) + 1 .. Len(log'[q])
      BY <2>1, <3>1, <3>3 DEF NewMessages, LocationKind
    <3>4. j \in 1..Len(log[q]) \/ j \in Len(log[q]) + 1 .. Len(log'[q])
      BY <3>1 DEF Grows, LogGrows
    <3> QED
      BY <3>2, <3>3, <3>4
  <2>2. ASSUME NEW id \in 1..Len(entries)
        PROVE  id \in 1..Len(entries') /\ SourceDoc(id)' = SourceDoc(id)
    <3>1. id \in 1..Len(entries') /\ entries'[id].src = entries[id].src
      BY DEF Grows, RowsGrow
    <3>2. PICK p \in LocationPartition : \E i \in 1..Len(log[p]) : entries[id].src = <<p, i>>
      BY DEF EffectsInv, SourcesInLog
    <3>3. PICK i \in 1..Len(log[p]) : entries[id].src = <<p, i>>
      BY <3>2
    <3>4. log'[p][i] = log[p][i]
      BY <3>3, FeedPipelineAssumption DEF Grows, LogGrows
    <3> QED
      BY <3>1, <3>3, <3>4 DEF SourceDoc
  <2>3. ASSUME NEW q \in IntentPartition, NEW j \in 1..Len(log'[q]), log'[q][j].kind = "intent"
        PROVE  NamesRow(q, j)'
    <3>1. PICK id \in 1..Len(entries) : id = log'[q][j].entry
      BY <2>1, <2>3
    <3>2. SourceDoc(id) = log'[q][j].doc
      BY <2>1, <2>3, <3>1
    <3>3. id \in 1..Len(entries') /\ SourceDoc(id)' = log'[q][j].doc
      BY <2>2, <3>2
    <3> QED
      BY <3>1, <3>3, Zenon DEF NamesRow, SourceDoc
  <2> QED
    BY <2>3 DEF IntentsNamed
<1>5. FinishedStored'
  <2>1. ASSUME errors'["db"] = 0, NEW p \in LocationPartition, NEW i \in finished'[p],
               log'[p][i].kind \in LocationKind
        PROVE  Stored(p, i)' # {}
    <3>1. p \in Partition /\ errors["db"] = 0 /\ Stored(p, i) \subseteq Stored(p, i)'
      BY <2>1, ForwardedStays, FeedPipelineAssumption DEF Grows, ErrorsGrow, ErrorKind
    <3>2. i \in 1..Len(log[p])
      BY <3>1 DEF EffectsInv, HistoryInLog, NewFinished
    <3>3. log'[p][i] = log[p][i]
      BY <3>1, <3>2 DEF Grows, LogGrows
    <3> QED
      BY <2>1, <3>1, <3>3 DEF EffectsInv, FinishedStored, NewFinished
  <2> QED
    BY <2>1 DEF FinishedStored
<1>6. AckedFeedForwarded'
  <2>1. ASSUME NEW p \in LocationPartition, NEW i \in acked'[p], log'[p][i].kind \in LocationKind
        PROVE  Forwarded(p, i)'
    <3>1. p \in Partition
      BY FeedPipelineAssumption
    <3>2. i \in 1..Len(log[p])
      BY <3>1 DEF EffectsInv, HistoryInLog, NewAcked
    <3>3. log'[p][i] = log[p][i]
      BY <3>1, <3>2 DEF Grows, LogGrows
    <3>4. Forwarded(p, i)
      BY <2>1, <3>1, <3>3 DEF EffectsInv, AckedFeedForwarded, Forwarded, NewAcked
    <3> QED
      BY <3>4, ForwardedStays
  <2> QED
    BY <2>1 DEF AckedFeedForwarded, Forwarded
<1>7. AckedIntentApplied'
  <2>1. ASSUME NEW q \in IntentPartition, NEW j \in acked'[q], log'[q][j].kind = "intent"
        PROVE  Resolved(q, j)'
    <3>1. q \in Partition
      BY FeedPipelineAssumption
    <3>2. j \in 1..Len(log[q])
      BY <3>1 DEF EffectsInv, HistoryInLog, NewAcked
    <3>3. log'[q][j] = log[q][j]
      BY <3>1, <3>2 DEF Grows, LogGrows
    <3>4. log[q][j].entry \in 1..Len(entries)
      BY <2>1, <3>2, <3>3 DEF EffectsInv, IntentsNamed, NamesRow
    <3>5. Resolved(q, j)
      BY <2>1, <3>1, <3>3 DEF EffectsInv, AckedIntentApplied, Resolved, NewAcked
    <3> QED
      BY <3>1, <3>2, <3>4, <3>5, ResolvedStays
  <2> QED
    BY <2>1 DEF AckedIntentApplied, Resolved
<1>8. IndexInTable' /\ IndexFollowsUpdate'
  <2>1. ASSUME NEW d \in DocId
        PROVE  /\ index'[d].entry \in 0..Len(entries)
               /\ index'[d].entry # 0 /\ entries[index'[d].entry].placed =>
                      entries[index'[d].entry].reason # "payload"
    BY DEF EffectsInv, IndexInTable, IndexFollowsUpdate, NewDocs, Grows, RowsGrow
  <2> QED
    BY <2>1 DEF IndexInTable, IndexFollowsUpdate, Grows, RowsGrow
<1> QED
  BY <1>1, <1>2, <1>3, <1>4, <1>5, <1>6, <1>7, <1>8 DEF EffectsInv

(* A goroutine that does not move keeps what it relies on. *)
LEMMA HandlerStays ==
    ASSUME TypeOK, OffsetsInLog, EffectsInv, Grows, NEW c \in Consumer, NEW p \in Partition,
           work'[c][p] = work[c][p], position'[c][p] = position[c][p]
    PROVE  HandlerInv(c, p)' /\ MarkInv(c, p)'
<1>1. HandlerInv(c, p) /\ MarkInv(c, p)
  BY DEF EffectsInv
<1>2. CASE ~Working(c, p)
  BY <1>2 DEF Working, HandlerInv, MarkInv, StoreStage, ResolveStage, AnsweredStage, At
<1>3. CASE Working(c, p)
  <2>1. position[c][p] \in 1..Len(log[p])
    BY <1>3, MessageType
  <2>2. Message(c, p)' = Message(c, p) /\ FeedID(c, p)' = FeedID(c, p)
    BY <2>1 DEF Message, FeedID, Grows, LogGrows
  <2>3. Message(c, p).kind = "intent" => FeedID(c, p) \in 1..Len(entries)
    BY <1>3, NamedRow DEF EffectsInv
  <2>4. HandlerInv(c, p)'
    BY <1>1, <2>2, <2>3
    DEF HandlerInv, At, Grows, RowsGrow, StoreStage, ResolveStage, AnsweredStage
  <2>5. MarkInv(c, p)'
    <3>1. PICK i \in 1..Len(log[p]) : i = position[c][p] /\ i = position'[c][p]
      BY <2>1
    <3>2. Message(c, p).kind = "intent" /\ Resolved(p, i) => Resolved(p, i)'
      BY <2>3, <3>1, ResolvedStays DEF Message, FeedID
    <3>3. Forwarded(p, i) => Forwarded(p, i)'
      BY ForwardedStays
    <3> QED
      BY <1>1, <2>2, <3>1, <3>2, <3>3 DEF MarkInv, At
  <2> QED
    BY <2>4, <2>5
<1> QED
  BY <1>2, <1>3

(* A goroutine outside the handlers relies on nothing. *)
LEMMA HandlerIdle ==
    ASSUME NEW c \in Consumer, NEW p \in Partition,
           work'[c][p].stage \in {"off", "waiting", "commit"}
    PROVE  HandlerInv(c, p)' /\ MarkInv(c, p)'
BY DEF HandlerInv, MarkInv, StoreStage, ResolveStage, AnsweredStage, At

-----------------------------------------------------------------------------
(* EffectsInv is kept, one lemma per action. *)

(* What sessions, commits and disruptions leave alone, whoever is at work:   *)
(* a goroutine stays where it is, ends, or waits for its next message.       *)
Quiet ==
    /\ UNCHANGED <<log, entries, index, finished, acked, errors>>
    /\ \A c \in Consumer, p \in Partition :
          \/ work'[c][p] = work[c][p] /\ position'[c][p] = position[c][p]
          \/ work'[c][p].stage \in {"off", "waiting"}

LEMMA QuietEffects ==
    ASSUME TypeOK, OffsetsInLog, EffectsInv, Quiet
    PROVE  EffectsInv'
<1>1. Grows
  BY KeptGrows DEF Quiet, Grows
<1>3. NewMessages /\ NewRows /\ NewFinished /\ NewAcked /\ NewDocs
  BY NothingNew DEF Quiet
<1>4. \A c \in Consumer, p \in Partition : HandlerInv(c, p)' /\ MarkInv(c, p)'
  BY <1>1, HandlerStays, HandlerIdle DEF Quiet
<1> QED
  BY <1>1, <1>3, <1>4, EffectsStep

(* The steps that no handler takes part in. *)
GroupStep ==
    \/ \E c \in Consumer : SessionStep(c)
    \/ \E c \in Consumer : AutoCommit(c) /\ UNCHANGED <<storeVars, published, errors>>
    \/ CompleteRebalance /\ UNCHANGED <<storeVars, published, errors>>
    \/ Disruption
    \/ \E c \in Consumer, p \in Partition : UnreachableService(c, p)
    \/ \E c \in Consumer, p \in Partition :
          Commit(c, p) /\ UNCHANGED <<storeVars, published, errors>>
    \/ UNCHANGED vars

LEMMA GroupStepQuiet ==
    ASSUME TypeOK, GroupStep
    PROVE  Quiet
<1>1. UNCHANGED <<log, entries, index, finished, acked, errors>>
  BY DEF GroupStep, SessionStep, CancelSession, Release, Restart, StopClaim, AutoCommit,
         CompleteRebalance, Disruption, Rebalance, Evict, Stop, NilMessage,
         UnreachableService, Commit, storeVars, historyVars, vars
<1>2. ASSUME NEW c \in Consumer, NEW p \in Partition
      PROVE  \/ work'[c][p] = work[c][p] /\ position'[c][p] = position[c][p]
             \/ work'[c][p].stage \in {"off", "waiting"}
  <2>1. CASE \E d \in Consumer : SessionStep(d)
    <3>1. PICK d \in Consumer : SessionStep(d)
      BY <2>1
    <3>2. CASE Release(d)
      BY <3>2 DEF Release, At, TypeOK, OffsetTypeOK
    <3>3. CASE CancelSession(d) \/ Restart(d)
      BY <3>3 DEF CancelSession, Restart
    <3>4. CASE \E q \in Partition : StopClaim(d, q)
      BY <3>4 DEF StopClaim, Goto, groupVars, TypeOK, WorkTypeOK, Task
    <3> QED
      BY <3>1, <3>2, <3>3, <3>4 DEF SessionStep
  <2>2. CASE \E d \in Consumer : AutoCommit(d)
    BY <2>2 DEF AutoCommit
  <2>3. CASE CompleteRebalance
    BY <2>3 DEF CompleteRebalance, Worker
  <2>4. ASSUME NEW d \in Consumer, Stop(d)
        PROVE  \/ work'[c][p] = work[c][p] /\ position'[c][p] = position[c][p]
               \/ work'[c][p].stage \in {"off", "waiting"}
    BY <2>4 DEF Stop, NoWorkers, Worker, TypeOK, WorkTypeOK, OffsetTypeOK
  <2>5. CASE Rebalance \/ \E d \in Consumer : Evict(d)
    BY <2>5 DEF Rebalance, Evict
  <2>6. CASE \E d \in Consumer, q \in Partition : Commit(d, q)
    BY <2>6 DEF Commit, Worker, TypeOK, WorkTypeOK
  <2>7. CASE UNCHANGED vars
    BY <2>7 DEF vars, groupVars
  <2> QED
    BY <2>1, <2>2, <2>3, <2>4, <2>5, <2>6, <2>7
    DEF GroupStep, Disruption, NilMessage, UnreachableService
<1> QED
  BY <1>1, <1>2 DEF Quiet

LEMMA PublishEffects ==
    ASSUME TypeOK, OffsetsInLog, EffectsInv, NEW p \in Partition, Publish(p)
    PROVE  EffectsInv'
<1>1. UNCHANGED <<position, work, entries, index, finished, acked, errors>>
  BY DEF Publish, groupVars, storeVars, historyVars
<1>2. Grows
  BY <1>1, PublishWrites, KeptGrows DEF Grows
<1>3. NewMessages
  BY PublishWrites DEF NewMessages
<1>4. NewRows /\ NewFinished /\ NewAcked /\ NewDocs
  BY <1>1, NothingNew
<1>5. \A c \in Consumer, q \in Partition : HandlerInv(c, q)' /\ MarkInv(c, q)'
  BY <1>1, <1>2, HandlerStays
<1> QED
  BY <1>2, <1>3, <1>4, <1>5, EffectsStep

LEMMA ReceiveEffects ==
    ASSUME TypeOK, OffsetsInLog, EffectsInv, NEW c \in Consumer, NEW p \in Partition, Receive(c, p)
    PROVE  EffectsInv'
<1> DEFINE m == log[p][position[c][p] + 1]
<1>1. UNCHANGED <<log, entries, index, finished, acked, errors>>
  BY DEF Receive, TakeMessage, storeVars, historyVars
<1>2. Grows
  BY <1>1, KeptGrows DEF Grows
<1>3. NewMessages /\ NewRows /\ NewFinished /\ NewAcked /\ NewDocs
  BY <1>1, NothingNew
<1>4. ASSUME NEW d \in Consumer, NEW q \in Partition, d # c \/ q # p
      PROVE  work'[d][q] = work[d][q] /\ position'[d][q] = position[d][q]
  BY <1>4 DEF Receive, TakeMessage, Goto, TypeOK, WorkTypeOK, OffsetTypeOK
<1>5. /\ position[c][p] + 1 \in 1..Len(log[p])
      /\ Message(c, p)' = m
      /\ work'[c][p].stage = FirstStage(p, m)
  BY <1>1 DEF Receive, TakeMessage, Goto, Message, TypeOK, WorkTypeOK, Task, OffsetTypeOK, LogTypeOK
<1>6. /\ m.kind \in Kind
      /\ p \in LocationPartition => m.kind # "intent"
      /\ p \in IntentPartition => m.kind \in {"intent", "garbage"}
  <2>1. m \in Messages
    BY <1>5 DEF TypeOK, LogTypeOK
  <2>2. LogKinds
    BY DEF EffectsInv
  <2> QED
    BY <1>5, <2>1, <2>2 DEF LogKinds, Messages
<1> HIDE DEF m
<1>7. HandlerInv(c, p)' /\ MarkInv(c, p)'
  <2>1. \/ work'[c][p].stage = "mark" /\ m.kind = "garbage"
        \/ work'[c][p].stage = "intents" /\ p \in IntentPartition /\ m.kind = "intent"
        \/ work'[c][p].stage = "store" /\ p \in LocationPartition /\ m.kind \in LocationKind
    <3>1. CASE m.kind = "garbage"
      BY <1>5, <3>1 DEF FirstStage
    <3>2. CASE m.kind # "garbage" /\ p \in IntentPartition
      BY <1>5, <1>6, <3>2 DEF FirstStage
    <3>3. CASE m.kind # "garbage" /\ p \notin IntentPartition
      <4>1. p \in LocationPartition
        BY <3>3, FeedPipelineAssumption
      <4>2. m.kind \in LocationKind
        BY <1>6, <3>3, <4>1 DEF Kind
      <4>3. FirstStage(p, m) = "store"
        BY <3>3 DEF FirstStage
      <4> QED
        BY <1>5, <4>1, <4>2, <4>3
    <3> QED
      BY <3>1, <3>2, <3>3
  <2> QED
    BY <1>5, <2>1
    DEF HandlerInv, MarkInv, At, StoreStage, ResolveStage, AnsweredStage, LocationKind
<1>8. \A d \in Consumer, q \in Partition : HandlerInv(d, q)' /\ MarkInv(d, q)'
  BY <1>2, <1>4, <1>7, HandlerStays
<1> QED
  BY <1>2, <1>3, <1>8, EffectsStep

(* A step of one goroutine within its handler: the others stay. *)
LEMMA OthersStay ==
    ASSUME TypeOK, OffsetsInLog, EffectsInv, Grows, NEW c \in Consumer, NEW p \in Partition,
           \A d \in Consumer, q \in Partition : d # c \/ q # p => work'[d][q] = work[d][q],
           UNCHANGED position, HandlerInv(c, p)', MarkInv(c, p)'
    PROVE  \A d \in Consumer, q \in Partition : HandlerInv(d, q)' /\ MarkInv(d, q)'
BY HandlerStays

(* A handler returns without a mark, after a database error. *)
LEMMA ReturnUnmarkedAdds ==
    ASSUME TypeOK, OffsetsInLog, NEW c \in Consumer, NEW p \in Partition, Working(c, p),
           ReturnUnmarked(c, p), Fail("db")
    PROVE  /\ NewFinished /\ NewAcked
           /\ HandlerInv(c, p)' /\ MarkInv(c, p)'
           /\ \A d \in Consumer, q \in Partition : d # c \/ q # p => work'[d][q] = work[d][q]
<1>1. errors'["db"] > 0
  BY FailGrows DEF ErrorKind
<1>2. position[c][p] \in 1..Len(log[p])
  BY MessageType
<1>3. NewFinished
  BY <1>1, <1>2 DEF ReturnUnmarked, NewFinished, TypeOK, HistoryTypeOK
<1>4. NewAcked
  BY DEF ReturnUnmarked, NewAcked
<1>5. /\ work'[c][p].stage = "waiting"
      /\ \A d \in Consumer, q \in Partition : d # c \/ q # p => work'[d][q] = work[d][q]
  BY DEF ReturnUnmarked, Worker, TypeOK, WorkTypeOK
<1> QED
  BY <1>3, <1>4, <1>5, HandlerIdle

LEMMA StoreFeedEffects ==
    ASSUME TypeOK, OffsetsInLog, EffectsInv, NEW c \in Consumer, NEW p \in Partition,
           StoreFeed(c, p)
    PROVE  EffectsInv'
<1> DEFINE Create == CreateFeed(<<p, position[c][p]>>, Message(c, p).kind = "located")
<1>1. UNCHANGED <<log, position, index>> /\ At(c, p, "store") /\ Working(c, p)
  BY DEF StoreFeed, groupVars, At, Working
<1>11. Create => /\ RowsGrow /\ Len(entries') = Len(entries) + 1
                /\ entries'[Len(entries) + 1].src = <<p, position[c][p]>>
  <2>1. <<p, position[c][p]>> \in Source
    BY DEF Source, TypeOK, OffsetTypeOK
  <2> QED
    BY <2>1, CreateGrows
<1>2. /\ p \in LocationPartition /\ Message(c, p).kind \in LocationKind
      /\ position[c][p] \in 1..Len(log[p])
      /\ Message(c, p)' = Message(c, p)
  BY <1>1, MessageType DEF EffectsInv, HandlerInv, StoreStage, At, Message
<1>3. Create \/ UNCHANGED entries => RowsGrow /\ NewRows
  <2>1. CASE Create
    BY <1>2, <1>11, <2>1 DEF NewRows, RowsGrow, Message
  <2>2. CASE UNCHANGED entries
    BY <2>2, KeptGrows, NothingNew
  <2> QED
    BY <2>1, <2>2
<1>4. LogGrows /\ NewMessages /\ NewDocs
  BY <1>1, KeptGrows, NothingNew
<1>5. CASE /\ Create
           /\ work' = [work EXCEPT ![c][p].stage = "produce", ![c][p].entry = NextEntryID]
           /\ UNCHANGED <<historyVars, errors>>
  <2>1. Grows
    BY <1>3, <1>4, <1>5, KeptGrows DEF Grows
  <2>2. NewFinished /\ NewAcked
    BY <1>5 DEF NewFinished, NewAcked, historyVars
  <2>3. /\ work'[c][p].stage = "produce" /\ work'[c][p].entry = Len(entries) + 1
        /\ \A d \in Consumer, q \in Partition : d # c \/ q # p => work'[d][q] = work[d][q]
    BY <1>5 DEF TypeOK, WorkTypeOK, Task, NextEntryID
  <2>4. /\ Len(entries') = Len(entries) + 1 /\ Len(entries) \in Nat
        /\ entries'[Len(entries) + 1].src = <<p, position[c][p]>>
    BY <1>5, <1>11 DEF RowsGrow
  <2>5. HandlerInv(c, p)' /\ MarkInv(c, p)'
    BY <1>1, <1>2, <2>3, <2>4
    DEF HandlerInv, MarkInv, At, StoreStage, ResolveStage, AnsweredStage
  <2> QED
    BY <1>1, <1>3, <1>4, <1>5, <2>1, <2>2, <2>3, <2>5, OthersStay, EffectsStep
<1>6. CASE Fail("db") /\ (Create \/ UNCHANGED entries) /\ ReturnUnmarked(c, p)
  <2>1. Grows
    BY <1>3, <1>4, <1>6, FailGrows DEF Grows, ErrorKind
  <2> QED
    BY <1>1, <1>3, <1>4, <1>6, <2>1, ReturnUnmarkedAdds, OthersStay, EffectsStep
<1> QED
  BY <1>5, <1>6 DEF StoreFeed

LEMMA SendIntentEffects ==
    ASSUME TypeOK, OffsetsInLog, EffectsInv, NEW c \in Consumer, NEW p \in Partition,
           SendIntent(c, p)
    PROVE  EffectsInv'
<1> DEFINE m == [kind |-> "intent", entry |-> work[c][p].entry, doc |-> Message(c, p).doc]
<1>1. UNCHANGED <<position, entries, index, finished, acked>> /\ At(c, p, "produce") /\ Working(c, p)
  BY DEF SendIntent, groupVars, storeVars, historyVars, At, Working
<1>2. /\ p \in LocationPartition /\ Message(c, p).kind \in LocationKind
      /\ work[c][p].entry \in 1..Len(entries)
      /\ entries[work[c][p].entry].src = <<p, position[c][p]>>
      /\ position[c][p] \in 1..Len(log[p])
  BY <1>1, MessageType DEF EffectsInv, HandlerInv, StoreStage, At
<1>3. PICK q \in IntentPartition, n \in 0..2 :
          /\ \A r \in Partition : r # q => log'[r] = log[r]
          /\ Len(log'[q]) = Len(log[q]) + n
          /\ \A i \in Len(log[q]) + 1 .. Len(log'[q]) : log'[q][i] = m
          /\ (n = 1 /\ UNCHANGED errors) \/ Fail("send")
  BY SendIntentWrites
<1>4. Grows
  BY <1>1, <1>3, SendIntentWrites, KeptGrows, FailGrows DEF Grows, ErrorKind
<1>5. NewMessages
  <2>1. ASSUME NEW r \in Partition, NEW i \in Len(log[r]) + 1 .. Len(log'[r])
        PROVE  r = q /\ log'[r][i] = m
    BY <1>3, <1>4, <2>1 DEF Grows, LogGrows
  <2>2. m.kind = "intent" /\ m.entry \in 1..Len(entries) /\ SourceDoc(m.entry) = m.doc
    <3>1. SourceDoc(work[c][p].entry) = log[p][position[c][p]].doc
      BY <1>2 DEF SourceDoc
    <3> QED
      BY <1>2, <3>1 DEF Message
  <2> HIDE DEF m
  <2>3. ASSUME NEW r \in Partition, NEW i \in Len(log[r]) + 1 .. Len(log'[r])
        PROVE  /\ r \in IntentPartition /\ log'[r][i].kind = "intent"
               /\ log'[r][i].entry \in 1..Len(entries)
               /\ SourceDoc(log'[r][i].entry) = log'[r][i].doc
    BY <2>1, <2>2
  <2> QED
    BY <2>3 DEF NewMessages
<1>6. NewRows /\ NewFinished /\ NewAcked /\ NewDocs
  BY <1>1, NothingNew
<1>7. /\ work'[c][p].stage = "mark"
      /\ \A d \in Consumer, r \in Partition : d # c \/ r # p => work'[d][r] = work[d][r]
  BY DEF SendIntent, Worker, TypeOK, WorkTypeOK
<1>8. Message(c, p)' = Message(c, p)
  BY <1>1, <1>2, <1>4 DEF Message, Grows, LogGrows
<1>9. Forwarded(p, position[c][p])'
  <2>1. work[c][p].entry \in Stored(p, position[c][p])'
    BY <1>1, <1>2 DEF Stored
  <2>2. CASE n = 1
    <3>1. Len(log[q]) + 1 \in 1..Len(log'[q]) /\ log'[q][Len(log[q]) + 1] = m
      BY <1>3, <1>4, <2>2, FeedPipelineAssumption DEF Grows, LogGrows
    <3>2. \E r \in IntentPartition : \E j \in 1..Len(log'[r]) :
              log'[r][j].kind = "intent" /\ log'[r][j].entry = work[c][p].entry
      BY <3>1
    <3> QED
      BY <2>1, <3>2 DEF Forwarded, Intended
  <2>3. CASE Fail("send")
    BY <2>1, <2>3, FailGrows DEF Forwarded, ErrorKind
  <2> QED
    BY <1>3, <2>2, <2>3
<1>10. HandlerInv(c, p)' /\ MarkInv(c, p)'
  BY <1>1, <1>2, <1>7, <1>8, <1>9
  DEF HandlerInv, MarkInv, At, StoreStage, ResolveStage, AnsweredStage, LocationKind
<1> QED
  BY <1>1, <1>4, <1>5, <1>6, <1>7, <1>10, OthersStay, EffectsStep

(* A call of a service returns: the handler has what the answer gave it. *)
LEMMA ServiceEffects ==
    ASSUME TypeOK, OffsetsInLog, EffectsInv, NEW c \in Consumer, NEW p \in Partition,
           ResolveIntents(c, p) \/ ResolveNeeds(c, p) \/ CheckDuplication(c, p)
    PROVE  EffectsInv'
<1>1. UNCHANGED <<log, position, entries, index, finished, acked>>
  BY DEF ResolveIntents, ResolveNeeds, CheckDuplication, Answer, groupVars, storeVars, historyVars
<1>2. work[c][p].stage \in ResolveStage /\ Working(c, p)
  BY DEF ResolveIntents, ResolveNeeds, CheckDuplication, At, ResolveStage, Working
<1>3. p \in IntentPartition /\ Message(c, p).kind = "intent" /\ Message(c, p)' = Message(c, p)
  BY <1>1, <1>2 DEF EffectsInv, HandlerInv, Message
<1>4. Grows /\ NewMessages /\ NewRows /\ NewFinished /\ NewAcked /\ NewDocs
  BY <1>1, KeptGrows, FailGrows, NothingNew
  DEF Grows, ErrorKind, ResolveIntents, ResolveNeeds, CheckDuplication
<1>5. PICK stage \in {"needs", "duplicates", "update", "delete", "mark"}, intents \in Reason :
          /\ Answer(c, p, stage, intents)
          /\ stage \in AnsweredStage => intents # "payload"
          /\ stage = "mark" => Fail("api")
  <2>1. work[c][p].reason \in Reason
    BY DEF TypeOK, WorkTypeOK, Task
  <2>2. CASE ResolveIntents(c, p)
    BY <2>2, FeedPipelineAssumption DEF ResolveIntents, Reason, AnsweredStage
  <2>3. CASE ResolveNeeds(c, p) \/ CheckDuplication(c, p)
    <3>1. work[c][p].reason # "payload"
      BY <2>3 DEF ResolveNeeds, CheckDuplication, At, AnsweredStage, EffectsInv, HandlerInv
    <3> QED
      BY <2>1, <2>3, <3>1 DEF ResolveNeeds, CheckDuplication, Reason, AnsweredStage
  <2> QED
    BY <2>2, <2>3
<1>6. /\ work'[c][p].stage = stage /\ work'[c][p].reason = intents
      /\ \A d \in Consumer, q \in Partition : d # c \/ q # p => work'[d][q] = work[d][q]
  BY <1>5 DEF Answer, TypeOK, WorkTypeOK, Task
<1>7. stage = "mark" => errors'["api"] > 0
  BY <1>5, FailGrows DEF ErrorKind
<1>8. HandlerInv(c, p)'
  BY <1>3, <1>5, <1>6 DEF HandlerInv, At, StoreStage, AnsweredStage
<1>9. MarkInv(c, p)'
  BY <1>3, <1>6, <1>7 DEF MarkInv, At, Resolved, LocationKind
<1> QED
  BY SMTT(30), <1>1, <1>4, <1>6, <1>8, <1>9, OthersStay, EffectsStep

LEMMA DeleteLocationEffects ==
    ASSUME TypeOK, OffsetsInLog, EffectsInv, NEW c \in Consumer, NEW p \in Partition,
           DeleteLocation(c, p)
    PROVE  EffectsInv'
<1>1. /\ UNCHANGED <<log, position, index, finished, acked>>
      /\ At(c, p, "delete") /\ Working(c, p)
  BY DEF DeleteLocation, groupVars, historyVars, At, Working
<1>2. /\ p \in IntentPartition /\ Message(c, p).kind = "intent"
      /\ Message(c, p)' = Message(c, p) /\ FeedID(c, p)' = FeedID(c, p)
  BY <1>1 DEF EffectsInv, HandlerInv, ResolveStage, At, Message, FeedID
<1>3. FeedID(c, p) \in 1..Len(entries)
  BY <1>1, <1>2, NamedRow DEF EffectsInv
<1>4. DeleteFeedLocation(FeedID(c, p)) =>
          /\ RowsGrow /\ Len(entries') = Len(entries)
          /\ entries[FeedID(c, p)].placed => entries'[FeedID(c, p)].deleted
  BY <1>3, DeleteGrows
<1>5. RowsGrow /\ Len(entries') = Len(entries)
  BY <1>4, KeptGrows DEF DeleteLocation
<1>6. NewRows
  BY <1>5 DEF NewRows, RowsGrow
<1>7. Grows /\ NewMessages /\ NewFinished /\ NewAcked /\ NewDocs
  BY <1>1, <1>5, KeptGrows, FailGrows, NothingNew DEF Grows, ErrorKind, DeleteLocation
<1>8. /\ work'[c][p].stage = "mark"
      /\ \A d \in Consumer, q \in Partition : d # c \/ q # p => work'[d][q] = work[d][q]
  BY DEF DeleteLocation, Goto, TypeOK, WorkTypeOK, Task
<1>9. HandlerInv(c, p)'
  BY <1>8 DEF HandlerInv, At, StoreStage, ResolveStage, AnsweredStage
<1>10. MarkInv(c, p)'
  <2>1. CASE Fail("db")
    <3>1. errors'["db"] > 0
      BY <2>1, FailGrows DEF ErrorKind
    <3> QED
      BY <1>2, <3>1 DEF MarkInv, Resolved, LocationKind
  <2>2. CASE DeleteFeedLocation(FeedID(c, p))
    <3>1. Applied(entries'[FeedID(c, p)])
      BY <1>3, <1>4, <2>2 DEF Applied, RowsGrow
    <3> QED
      BY <1>1, <1>2, <3>1 DEF MarkInv, Resolved, LocationKind, Message, FeedID
  <2> QED
    BY <2>1, <2>2 DEF DeleteLocation
<1> QED
  BY <1>1, <1>6, <1>7, <1>8, <1>9, <1>10, OthersStay, EffectsStep

LEMMA UpdateLocationEffects ==
    ASSUME TypeOK, OffsetsInLog, EffectsInv, NEW c \in Consumer, NEW p \in Partition,
           UpdateLocation(c, p)
    PROVE  EffectsInv'
<1> DEFINE Update == UpdateLocationIntentAndNeeds(FeedID(c, p), work[c][p].reason)
<1>1. UNCHANGED <<log, position, index>> /\ At(c, p, "update") /\ Working(c, p)
  BY DEF UpdateLocation, groupVars, At, Working
<1>2. /\ p \in IntentPartition /\ Message(c, p).kind = "intent"
      /\ Message(c, p)' = Message(c, p) /\ FeedID(c, p)' = FeedID(c, p)
      /\ work[c][p].reason \in Reason \ {"payload"}
  BY <1>1 DEF EffectsInv, HandlerInv, ResolveStage, AnsweredStage, At, Message, FeedID,
              TypeOK, WorkTypeOK, Task
<1>3. FeedID(c, p) \in 1..Len(entries)
  BY <1>1, <1>2, NamedRow DEF EffectsInv
<1>4. Update => /\ RowsGrow /\ Len(entries') = Len(entries)
                /\ entries[FeedID(c, p)].placed =>
                       entries'[FeedID(c, p)].reason = work[c][p].reason
  BY <1>2, <1>3, UpdateGrows
<1>5. RowsGrow /\ Len(entries') = Len(entries)
  BY <1>4, KeptGrows DEF UpdateLocation
<1>6. NewRows
  BY <1>5 DEF NewRows, RowsGrow
<1>7. Grows /\ NewMessages /\ NewDocs
  BY <1>1, <1>5, KeptGrows, FailGrows, NothingNew DEF Grows, ErrorKind, UpdateLocation
<1>8. CASE Update /\ Goto(c, p, "index") /\ UNCHANGED <<historyVars, errors>>
  <2>1. /\ work'[c][p].stage = "index" /\ work'[c][p].reason = work[c][p].reason
        /\ \A d \in Consumer, q \in Partition : d # c \/ q # p => work'[d][q] = work[d][q]
    BY <1>8 DEF Goto, TypeOK, WorkTypeOK, Task
  <2>2. entries'[FeedID(c, p)].placed => entries'[FeedID(c, p)].reason # "payload"
    BY <1>2, <1>3, <1>4, <1>8 DEF RowsGrow
  <2>3. HandlerInv(c, p)' /\ MarkInv(c, p)'
    BY <1>2, <2>1, <2>2 DEF HandlerInv, MarkInv, At, StoreStage
  <2>4. NewFinished /\ NewAcked
    BY <1>8, NothingNew DEF historyVars
  <2> QED
    BY <1>1, <1>6, <1>7, <2>1, <2>3, <2>4, OthersStay, EffectsStep
<1>9. CASE Fail("db") /\ (Update \/ UNCHANGED entries) /\ ReturnUnmarked(c, p)
  BY <1>1, <1>6, <1>7, <1>9, ReturnUnmarkedAdds, OthersStay, EffectsStep
<1> QED
  BY <1>8, <1>9 DEF UpdateLocation

LEMMA IndexLocationEffects ==
    ASSUME TypeOK, OffsetsInLog, EffectsInv, NEW c \in Consumer, NEW p \in Partition,
           IndexLocation(c, p)
    PROVE  EffectsInv'
<1>1. /\ UNCHANGED <<log, position, entries, finished, acked, errors>>
      /\ At(c, p, "index") /\ Working(c, p)
  BY DEF IndexLocation, groupVars, historyVars, At, Working
<1>2. /\ p \in IntentPartition /\ Message(c, p).kind = "intent"
      /\ Message(c, p)' = Message(c, p)
      /\ entries[FeedID(c, p)].placed => entries[FeedID(c, p)].reason # "payload"
  BY <1>1 DEF EffectsInv, HandlerInv, ResolveStage, At, Message
<1>3. FeedID(c, p) \in 1..Len(entries)
  BY <1>1, <1>2, NamedRow DEF EffectsInv
<1>4. Grows /\ NewMessages /\ NewRows /\ NewFinished /\ NewAcked
  BY <1>1, KeptGrows, NothingNew DEF Grows
<1>5. NewDocs
  <2>1. \A d \in DocId : index'[d] = index[d] \/ index'[d].entry = FeedID(c, p)
    BY DEF IndexLocation, CreateFeedLocation, TypeOK, StoreTypeOK
  <2> QED
    BY <1>2, <1>3, <2>1 DEF NewDocs
<1>6. /\ work'[c][p].stage = "mark"
      /\ \A d \in Consumer, q \in Partition : d # c \/ q # p => work'[d][q] = work[d][q]
  BY DEF IndexLocation, Worker, TypeOK, WorkTypeOK
<1>7. HandlerInv(c, p)'
  BY <1>6 DEF HandlerInv, At, StoreStage, ResolveStage, AnsweredStage
<1>8. MarkInv(c, p)'
  BY <1>1, <1>2 DEF MarkInv, Resolved, Applied, LocationKind, Message, FeedID
<1> QED
  BY <1>1, <1>4, <1>5, <1>6, <1>7, <1>8, OthersStay, EffectsStep

LEMMA MarkMessageEffects ==
    ASSUME TypeOK, OffsetsInLog, EffectsInv, NEW c \in Consumer, NEW p \in Partition,
           MarkMessage(c, p), UNCHANGED <<storeVars, published, errors>>
    PROVE  EffectsInv'
<1>1. /\ UNCHANGED <<log, position, entries, index, errors>>
      /\ At(c, p, "mark") /\ Working(c, p)
  BY DEF MarkMessage, storeVars, At, Working
<1>2. position[c][p] \in 1..Len(log[p])
  BY <1>1, MessageType
<1>3. /\ Message(c, p).kind \in LocationKind => Forwarded(p, position[c][p])
      /\ Message(c, p).kind = "intent" => Resolved(p, position[c][p])
  BY <1>1 DEF EffectsInv, MarkInv
<1>4. Grows /\ NewMessages /\ NewRows /\ NewDocs
  BY <1>1, KeptGrows, NothingNew DEF Grows
<1>5. /\ \A q \in Partition : finished'[q] \ finished[q] \subseteq {position[c][q]}
      /\ \A q \in Partition : acked'[q] \ acked[q] \subseteq {position[c][q]}
      /\ \A q \in Partition : q # p => finished'[q] = finished[q] /\ acked'[q] = acked[q]
  BY DEF MarkMessage, TypeOK, HistoryTypeOK
<1>6. NewFinished
  BY <1>2, <1>3, <1>5 DEF NewFinished, Message, Forwarded
<1>7. NewAcked
  BY <1>2, <1>3, <1>5 DEF NewAcked, Message
<1>8. /\ work'[c][p].stage = "commit"
      /\ \A d \in Consumer, q \in Partition : d # c \/ q # p => work'[d][q] = work[d][q]
  BY DEF MarkMessage, Goto, TypeOK, WorkTypeOK, Task
<1> QED
  BY <1>1, <1>4, <1>6, <1>7, <1>8, HandlerIdle, OthersStay, EffectsStep

(* Initially there is nothing to say anything of. *)
LEMMA InitEffects == Init => EffectsInv
<1> SUFFICES ASSUME Init PROVE EffectsInv
    OBVIOUS
<1>1. /\ \A p \in Partition : log[p] = <<>> /\ finished[p] = {} /\ acked[p] = {}
      /\ entries = <<>>
      /\ \A d \in DocId : index[d].entry = 0
      /\ \A c \in Consumer, p \in Partition : work[c][p].stage = "off"
  BY DEF Init, GroupInit, StoreInit, NoDocument, NoWorkers, Worker
<1>2. LocationPartition \subseteq Partition /\ IntentPartition \subseteq Partition
  BY FeedPipelineAssumption
<1>3. \A c \in Consumer, p \in Partition : HandlerInv(c, p) /\ MarkInv(c, p)
  BY <1>1 DEF HandlerInv, MarkInv, StoreStage, ResolveStage, AnsweredStage, At
<1>4. LogKinds /\ SourcesInLog /\ HistoryInLog /\ IntentsNamed
  BY <1>1, <1>2 DEF LogKinds, SourcesInLog, HistoryInLog, IntentsNamed
<1>5. FinishedStored /\ AckedFeedForwarded /\ AckedIntentApplied
  BY <1>1, <1>2 DEF FinishedStored, AckedFeedForwarded, AckedIntentApplied
<1>6. IndexInTable /\ IndexFollowsUpdate
  BY <1>1 DEF IndexInTable, IndexFollowsUpdate
<1> QED
  BY <1>3, <1>4, <1>5, <1>6 DEF EffectsInv

(* What the goroutine of a claim does with a message, up to its mark. *)
HandlerMove(c, p) ==
    \/ Receive(c, p) \/ StoreFeed(c, p) \/ SendIntent(c, p)
    \/ ResolveIntents(c, p) \/ ResolveNeeds(c, p) \/ CheckDuplication(c, p)
    \/ DeleteLocation(c, p) \/ UpdateLocation(c, p) \/ IndexLocation(c, p)
    \/ MarkMessage(c, p) /\ UNCHANGED <<storeVars, published, errors>>

(* Every step is one that no handler takes part in, or one of a handler. *)
LEMMA StepCases ==
    ASSUME [Next]_vars
    PROVE  \/ GroupStep
           \/ \E p \in Partition : Publish(p)
           \/ \E c \in Consumer, p \in Partition : HandlerMove(c, p)
BY DEF Next, GroupStep, ClaimStep, AddressResolveHandle, IntentResolveHandle, Acknowledge, HandlerMove

LEMMA NextEffects ==
    ASSUME TypeOK, OffsetsInLog, EffectsInv, [Next]_vars
    PROVE  EffectsInv'
<1>1. CASE GroupStep
  BY <1>1, GroupStepQuiet, QuietEffects
<1>2. CASE \E p \in Partition : Publish(p)
  BY <1>2, PublishEffects
<1>3. ASSUME NEW c \in Consumer, NEW p \in Partition, HandlerMove(c, p)
      PROVE  EffectsInv'
  <2>1. CASE Receive(c, p) \/ StoreFeed(c, p) \/ SendIntent(c, p)
    BY <2>1, ReceiveEffects, StoreFeedEffects, SendIntentEffects
  <2>2. CASE ResolveIntents(c, p) \/ ResolveNeeds(c, p) \/ CheckDuplication(c, p)
    BY <2>2, ServiceEffects
  <2>3. CASE DeleteLocation(c, p) \/ UpdateLocation(c, p) \/ IndexLocation(c, p)
    BY <2>3, DeleteLocationEffects, UpdateLocationEffects, IndexLocationEffects
  <2>4. CASE MarkMessage(c, p) /\ UNCHANGED <<storeVars, published, errors>>
    BY <2>4, MarkMessageEffects
  <2> QED
    BY <1>3, <2>1, <2>2, <2>3, <2>4 DEF HandlerMove
<1> QED
  BY <1>1, <1>2, <1>3, StepCases

LEMMA EffectsHold == Spec => [](IInv /\ EffectsInv)
<1>1. IInv /\ EffectsInv /\ [Next]_vars => EffectsInv'
  BY NextEffects DEF IInv, DeliveryInv
<1> QED
  BY <1>1, InitEffects, InvariantHolds, PTL DEF Spec

-----------------------------------------------------------------------------
(* What the handlers promise. *)

(***************************************************************************)
(* An intent message is never visible before its row is committed: the     *)
(* handler of topic.feeds.intent never updates, deletes or indexes a row   *)
(* that is not there, and the payload it indexes is that of its row.       *)
(***************************************************************************)
THEOREM IntentsNameEntries == Spec => []IntentNamesEntry
<1>1. IntentsNamed => IntentNamesEntry
  BY Zenon DEF IntentsNamed, NamesRow, SourceDoc, IntentNamesEntry
<1> QED
  BY <1>1, EffectsHold, PTL DEF EffectsInv

(***************************************************************************)
(* A location message that was marked has been stored, and forwarded       *)
(* unless the producer has failed.                                         *)
(***************************************************************************)
THEOREM AckedFeedsForwarded == Spec => []AckedFeedForwarded
BY EffectsHold, PTL DEF EffectsInv

(***************************************************************************)
(* An intent message that was marked has been applied to its row, unless a *)
(* database call or a service has failed.                                  *)
(***************************************************************************)
THEOREM AckedIntentsApplied == Spec => []AckedIntentApplied
BY EffectsHold, PTL DEF EffectsInv

(***************************************************************************)
(* No document shows intents that the table has not got.                   *)
(***************************************************************************)
THEOREM IndexFollowsTable == Spec => []IndexFollowsUpdate
BY EffectsHold, PTL DEF EffectsInv

(***************************************************************************)
(* What the group leaves behind was finished, and what was finished was    *)
(* stored: a valid location message is lost only to a database error,      *)
(* whatever crashes, is evicted or is delivered again.                     *)
(***************************************************************************)
THEOREM NothingLostButToErrors == Spec => []LossNeedsDbError
<1>1. IInv /\ EffectsInv => LossNeedsDbError
  BY FeedPipelineAssumption
  DEF IInv, DeliveryInv, CommittedWasFinished, EffectsInv, FinishedStored, LossNeedsDbError
<1> QED
  BY <1>1, EffectsHold, PTL

-----------------------------------------------------------------------------
(* Sessions: who may be at work. *)

(* What a handler's step leaves alone. *)
LEMMA HandlerMoveFrame ==
    ASSUME TypeOK, NEW c \in Consumer, NEW p \in Partition, HandlerMove(c, p)
    PROVE  /\ UNCHANGED <<phase, claims, rebalancing, disruptions>>
           /\ ~At(c, p, "off") /\ work'[c][p].stage # "off"
           /\ \A d \in Consumer, q \in Partition : d # c \/ q # p =>
                 work'[d][q] = work[d][q] /\ position'[d][q] = position[d][q]
           /\ \/ Receive(c, p) /\ position'[c][p] = position[c][p] + 1
              \/ ~At(c, p, "waiting") /\ UNCHANGED position /\ work'[c][p].stage # "store"
<1>1. CASE Receive(c, p)
  <2>1. PICK stage \in {"mark", "intents", "store"} : TakeMessage(c, p, stage)
    BY <1>1 DEF Receive, FirstStage
  <2> QED
    BY <1>1, <2>1 DEF TakeMessage, Goto, At, TypeOK, WorkTypeOK, OffsetTypeOK, Task
<1>2. CASE StoreFeed(c, p) \/ SendIntent(c, p)
  BY <1>2 DEF StoreFeed, SendIntent, ReturnUnmarked, Worker, groupVars, At,
              TypeOK, WorkTypeOK, Task
<1>3. CASE ResolveIntents(c, p) \/ ResolveNeeds(c, p) \/ CheckDuplication(c, p)
  BY <1>3 DEF ResolveIntents, ResolveNeeds, CheckDuplication, Answer, groupVars, At,
              TypeOK, WorkTypeOK, Task
<1>4. CASE DeleteLocation(c, p) \/ UpdateLocation(c, p) \/ IndexLocation(c, p)
  BY <1>4 DEF DeleteLocation, UpdateLocation, IndexLocation, ReturnUnmarked, Worker, Goto,
              groupVars, At, TypeOK, WorkTypeOK, Task
<1>5. CASE MarkMessage(c, p)
  BY <1>5 DEF MarkMessage, Goto, At, TypeOK, WorkTypeOK, Task
<1> QED
  BY <1>1, <1>2, <1>3, <1>4, <1>5 DEF HandlerMove

(* No goroutine starts but in CompleteRebalance, none is left when its       *)
(* process joins or ends.                                                    *)
LEMMA ClaimedStays ==
    ASSUME GoroutinesClaimed, UNCHANGED claims,
           \A c \in Consumer : phase'[c] \in {"down", "joining"} => phase[c] \in {"down", "joining"},
           \A c \in Consumer, p \in Partition : At(c, p, "off") => At(c, p, "off")'
    PROVE  GoroutinesClaimed'
BY DEF GoroutinesClaimed

LEMMA GroupClaimed ==
    ASSUME TypeOK, GoroutinesClaimed, GroupStep
    PROVE  GoroutinesClaimed'
<1>1. CASE \E c \in Consumer : SessionStep(c)
  <2>1. PICK c \in Consumer : SessionStep(c)
    BY <1>1
  <2>2. CASE CancelSession(c) \/ Restart(c)
    BY <2>2, ClaimedStays DEF CancelSession, Restart, At, TypeOK, MemberTypeOK
  <2>3. CASE \E p \in Partition : StopClaim(c, p)
    BY <2>3, ClaimedStays DEF StopClaim, Goto, At, groupVars, TypeOK, WorkTypeOK, Task
  <2>4. CASE Release(c)
    BY <2>4 DEF Release, GoroutinesClaimed, At, TypeOK, MemberTypeOK
  <2> QED
    BY <2>1, <2>2, <2>3, <2>4 DEF SessionStep
<1>2. CASE \E c \in Consumer : AutoCommit(c)
  BY <1>2, ClaimedStays DEF AutoCommit, At
<1>3. CASE CompleteRebalance
  <2> DEFINE joined == {c \in Consumer : phase[c] = "joining"}
  <2>1. PICK owner \in [Partition -> joined] :
            /\ claims' = [c \in Consumer |->
                             IF c \in joined THEN {p \in Partition : owner[p] = c}
                                             ELSE claims[c]]
            /\ work' = [c \in Consumer |-> [p \in Partition |->
                             IF owner[p] = c THEN Worker("waiting") ELSE work[c][p]]]
    BY <1>3 DEF CompleteRebalance
  <2>2. phase' = [c \in Consumer |-> IF c \in joined THEN "active" ELSE phase[c]]
    BY <1>3 DEF CompleteRebalance
  <2>3. ASSUME NEW c \in Consumer
        PROVE  /\ phase'[c] \in {"down", "joining"} => \A p \in Partition : At(c, p, "off")'
               /\ \A p \in Partition : ~At(c, p, "off")' => p \in claims'[c]
    <3>1. CASE c \in joined
      BY <2>1, <2>2, <3>1 DEF GoroutinesClaimed, At
    <3>2. CASE c \notin joined
      BY <2>1, <2>2, <3>2 DEF GoroutinesClaimed, At
    <3> QED
      BY <3>1, <3>2
  <2> QED
    BY <2>3 DEF GoroutinesClaimed
<1>4. ASSUME NEW c \in Consumer, Stop(c) PROVE GoroutinesClaimed'
  BY <1>4 DEF Stop, GoroutinesClaimed, NoWorkers, Worker, At, TypeOK, MemberTypeOK, WorkTypeOK
<1>5. CASE Rebalance \/ \E c \in Consumer : Evict(c)
  BY <1>5, ClaimedStays DEF Rebalance, Evict, At, TypeOK, MemberTypeOK
<1>6. CASE \E c \in Consumer, p \in Partition : Commit(c, p)
  BY <1>6, ClaimedStays DEF Commit, Worker, At, TypeOK, WorkTypeOK
<1>7. CASE UNCHANGED vars
  BY <1>7, ClaimedStays DEF vars, groupVars, At
<1> QED
  BY <1>1, <1>2, <1>3, <1>4, <1>5, <1>6, <1>7
  DEF GroupStep, Disruption, NilMessage, UnreachableService

LEMMA NextClaimed ==
    ASSUME TypeOK, GoroutinesClaimed, [Next]_vars
    PROVE  GoroutinesClaimed'
<1>1. CASE GroupStep
  BY <1>1, GroupClaimed
<1>2. CASE \E p \in Partition : Publish(p)
  BY <1>2, ClaimedStays DEF Publish, groupVars, At
<1>3. CASE \E c \in Consumer, p \in Partition : HandlerMove(c, p)
  BY <1>3, ClaimedStays, HandlerMoveFrame DEF At
<1> QED
  BY <1>1, <1>2, <1>3, StepCases

(* Disruptions are counted. *)
LEMMA DisruptionsGrow ==
    ASSUME TypeOK, [Next]_vars
    PROVE  disruptions' >= disruptions /\ disruptions \in Nat /\ disruptions' \in Nat
<1>1. disruptions \in Nat
  BY DEF TypeOK, BudgetTypeOK
<1>2. disruptions' = disruptions \/ disruptions' = disruptions + 1
  <2>1. CASE GroupStep
    BY <2>1 DEF GroupStep, SessionStep, CancelSession, Release, Restart, StopClaim, AutoCommit,
                CompleteRebalance, Disruption, Rebalance, Evict, Stop, NilMessage, Disrupt,
                UnreachableService, Commit, groupVars, vars
  <2>2. CASE \E p \in Partition : Publish(p)
    BY <2>2 DEF Publish, groupVars
  <2>3. CASE \E c \in Consumer, p \in Partition : HandlerMove(c, p)
    BY <2>3, HandlerMoveFrame
  <2> QED
    BY <2>1, <2>2, <2>3, StepCases
<1> QED
  BY <1>1, <1>2

(* Without a disruption the group leaves the work of its goroutines alone.   *)
LEMMA GroupKeepsWork ==
    ASSUME TypeOK, GoroutinesClaimed, GroupStep
    PROVE  \/ disruptions' > 0
           \/ \A c \in Consumer, p \in Partition : Working(c, p) => work'[c][p] = work[c][p]
<1>1. CASE \E c \in Consumer : SessionStep(c)
  BY <1>1 DEF SessionStep, CancelSession, Release, Restart, StopClaim, Goto, At, Working,
              TypeOK, WorkTypeOK
<1>2. CASE \E c \in Consumer : AutoCommit(c)
  BY <1>2 DEF AutoCommit
<1>3. CASE CompleteRebalance
  <2>1. PICK owner \in [Partition -> {c \in Consumer : phase[c] = "joining"}] :
            work' = [c \in Consumer |-> [p \in Partition |->
                        IF owner[p] = c THEN Worker("waiting") ELSE work[c][p]]]
    BY <1>3 DEF CompleteRebalance
  <2>2. ASSUME NEW c \in Consumer, NEW p \in Partition, Working(c, p)
        PROVE  owner[p] # c
    BY <2>2 DEF GoroutinesClaimed, At, Working
  <2> QED
    BY <2>1, <2>2
<1>4. CASE \/ Disruption
           \/ \E c \in Consumer, p \in Partition : UnreachableService(c, p)
  <2>1. disruptions' = disruptions + 1 /\ disruptions \in Nat
    BY <1>4 DEF Disruption, Rebalance, Evict, Stop, NilMessage, Disrupt, UnreachableService,
                TypeOK, BudgetTypeOK
  <2> QED
    BY <2>1
<1>5. CASE \E c \in Consumer, p \in Partition : Commit(c, p)
  BY <1>5 DEF Commit, At, Working, TypeOK, WorkTypeOK
<1>6. CASE UNCHANGED vars
  BY <1>6 DEF vars
<1> QED
  BY <1>1, <1>2, <1>3, <1>4, <1>5, <1>6 DEF GroupStep

(* Only StoreFeed adds a row; only the soft delete and the update change one: *)
(* the row of the intent message in work.                                     *)
LEMMA RowsChanged ==
    ASSUME TypeOK, OffsetsInLog, EffectsInv, NEW c \in Consumer, NEW p \in Partition,
           HandlerMove(c, p), ~StoreFeed(c, p)
    PROVE  /\ Len(entries') = Len(entries)
           /\ RowsGrow
           /\ ~At(c, p, "delete") /\ ~At(c, p, "update") => UNCHANGED entries
           /\ \A id \in 1..Len(entries) : id # FeedID(c, p) => entries'[id] = entries[id]
<1>1. CASE At(c, p, "delete") \/ At(c, p, "update")
  <2>1. Working(c, p) /\ Message(c, p).kind = "intent"
    BY <1>1 DEF EffectsInv, HandlerInv, ResolveStage, At, Working
  <2>2. FeedID(c, p) \in 1..Len(entries)
    BY <2>1, NamedRow DEF EffectsInv
  <2>3. At(c, p, "update") => work[c][p].reason \in Reason \ {"payload"}
    BY DEF EffectsInv, HandlerInv, AnsweredStage, At, TypeOK, WorkTypeOK, Task
  <2>4. \/ UNCHANGED entries
        \/ At(c, p, "delete") /\ DeleteFeedLocation(FeedID(c, p))
        \/ At(c, p, "update") /\ UpdateLocationIntentAndNeeds(FeedID(c, p), work[c][p].reason)
    BY SMTT(30), <1>1 DEF HandlerMove, Receive, TakeMessage, SendIntent, ResolveIntents, ResolveNeeds,
                CheckDuplication, DeleteLocation, UpdateLocation, IndexLocation,
                MarkMessage, At
  <2> QED
    BY <1>1, <2>2, <2>3, <2>4, KeptGrows, DeleteGrows, UpdateGrows
<1>2. CASE ~At(c, p, "delete") /\ ~At(c, p, "update")
  <2>1. UNCHANGED entries
    BY <1>2 DEF HandlerMove, Receive, SendIntent, ResolveIntents, ResolveNeeds,
                CheckDuplication, Answer, DeleteLocation, UpdateLocation, IndexLocation, storeVars
  <2> QED
    BY <1>2, <2>1, KeptGrows
<1> QED
  BY <1>1, <1>2

-----------------------------------------------------------------------------
(* Rows without an intent message. *)

(* What excuses a row without one goes on to excuse it. *)
LEMMA OrphanStays ==
    ASSUME TypeOK, OrphanNeedsFault, LogGrows, ErrorsGrow, [Next]_vars,
           Len(entries') = Len(entries),
           \A c \in Consumer, p \in Partition, id \in 1..Len(entries) :
              At(c, p, "produce") /\ work[c][p].entry = id =>
                  \/ work'[c][p] = work[c][p]
                  \/ Intended(id)'
                  \/ disruptions' > 0 \/ errors'["send"] > 0 \/ errors'["db"] > 0
    PROVE  OrphanNeedsFault'
<1>1. /\ disruptions > 0 => disruptions' > 0
      /\ errors["send"] > 0 => errors'["send"] > 0
      /\ errors["db"] > 0 => errors'["db"] > 0
  BY DisruptionsGrow DEF ErrorsGrow, ErrorKind
<1>2. \A id : Intended(id) => Intended(id)'
  BY IntendedStays
<1> SUFFICES ASSUME NEW id \in 1..Len(entries)
             PROVE  \/ Intended(id)'
                    \/ \E c \in Consumer, p \in Partition :
                          At(c, p, "produce")' /\ work'[c][p].entry = id
                    \/ disruptions' > 0 \/ errors'["send"] > 0 \/ errors'["db"] > 0
    BY DEF OrphanNeedsFault
<1>3. CASE \E c \in Consumer, p \in Partition : At(c, p, "produce") /\ work[c][p].entry = id
  <2>1. PICK c \in Consumer, p \in Partition : At(c, p, "produce") /\ work[c][p].entry = id
    BY <1>3
  <2>2. CASE work'[c][p] = work[c][p]
    BY <2>1, <2>2 DEF At
  <2> QED
    BY <2>1, <2>2
<1> QED
  BY <1>1, <1>2, <1>3 DEF OrphanNeedsFault

(* A step that keeps every goroutine at work, or disrupts the group. *)
LEMMA GroupOrphan ==
    ASSUME TypeOK, GoroutinesClaimed, OrphanNeedsFault, GroupStep, [Next]_vars
    PROVE  OrphanNeedsFault'
<1>1. Grows /\ UNCHANGED entries
  BY GroupStepQuiet, KeptGrows DEF Quiet, Grows
<1>2. \A c \in Consumer, p \in Partition : At(c, p, "produce") => Working(c, p)
  BY DEF At, Working
<1> QED
  BY <1>1, <1>2, GroupKeepsWork, OrphanStays DEF Grows

LEMMA StoreFeedOrphan ==
    ASSUME TypeOK, OrphanNeedsFault, NEW c \in Consumer, NEW p \in Partition,
           StoreFeed(c, p), [Next]_vars
    PROVE  OrphanNeedsFault'
<1>1. UNCHANGED <<log, disruptions>> /\ At(c, p, "store")
  BY DEF StoreFeed, groupVars
<1>2. CASE Fail("db")
  BY <1>2, FailGrows DEF OrphanNeedsFault, ErrorKind
<1>3. CASE /\ CreateFeed(<<p, position[c][p]>>, Message(c, p).kind = "located")
           /\ work' = [work EXCEPT ![c][p].stage = "produce", ![c][p].entry = NextEntryID]
           /\ UNCHANGED errors
  <2>1. Len(entries') = Len(entries) + 1 /\ Len(entries) \in Nat
    <3>1. <<p, position[c][p]>> \in Source
      BY DEF Source, TypeOK, OffsetTypeOK
    <3> QED
      BY <1>3, <3>1, CreateGrows DEF RowsGrow
  <2>2. /\ work'[c][p].stage = "produce" /\ work'[c][p].entry = Len(entries) + 1
        /\ \A d \in Consumer, q \in Partition : d # c \/ q # p => work'[d][q] = work[d][q]
    BY <1>3 DEF TypeOK, WorkTypeOK, Task, NextEntryID
  <2> SUFFICES ASSUME NEW id \in 1..Len(entries')
               PROVE  \/ Intended(id)'
                      \/ \E d \in Consumer, q \in Partition :
                            At(d, q, "produce")' /\ work'[d][q].entry = id
                      \/ disruptions' > 0 \/ errors'["send"] > 0 \/ errors'["db"] > 0
      BY DEF OrphanNeedsFault
  <2>3. CASE id = Len(entries) + 1
    BY <2>2, <2>3 DEF At
  <2>4. CASE id \in 1..Len(entries)
    <3>1. CASE \E d \in Consumer, q \in Partition : At(d, q, "produce") /\ work[d][q].entry = id
      BY <1>1, <2>2, <3>1 DEF At
    <3>2. Intended(id) => Intended(id)'
      BY <1>1 DEF Intended
    <3> QED
      BY <1>1, <1>3, <2>4, <3>1, <3>2 DEF OrphanNeedsFault
  <2> QED
    BY <2>1, <2>3, <2>4
<1> QED
  BY <1>2, <1>3 DEF StoreFeed

LEMMA SendIntentOrphan ==
    ASSUME TypeOK, OrphanNeedsFault, NEW c \in Consumer, NEW p \in Partition,
           SendIntent(c, p), [Next]_vars
    PROVE  OrphanNeedsFault'
<1>1. UNCHANGED entries
  BY DEF SendIntent, storeVars
<1>2. PICK q \in IntentPartition, n \in 0..2 :
          /\ Len(log'[q]) = Len(log[q]) + n
          /\ \A i \in Len(log[q]) + 1 .. Len(log'[q]) :
                log'[q][i] = [kind |-> "intent", entry |-> work[c][p].entry,
                              doc |-> Message(c, p).doc]
          /\ (n = 1 /\ UNCHANGED errors) \/ Fail("send")
  BY SendIntentWrites
<1>3. Grows
  BY <1>1, <1>2, SendIntentWrites, KeptGrows, FailGrows DEF Grows, ErrorKind
<1>4. ASSUME NEW id, id = work[c][p].entry
      PROVE  Intended(id)' \/ errors'["send"] > 0
  <2>1. CASE n = 1
    <3>1. Len(log[q]) + 1 \in 1..Len(log'[q]) /\ q \in IntentPartition
      BY <1>2, <1>3, <2>1, FeedPipelineAssumption DEF Grows, LogGrows
    <3>2. log'[q][Len(log[q]) + 1] = [kind |-> "intent", entry |-> work[c][p].entry,
                                      doc |-> Message(c, p).doc]
      BY <1>2, <1>3, <2>1, <3>1, FeedPipelineAssumption DEF Grows, LogGrows
    <3>3. log'[q][Len(log[q]) + 1].kind = "intent" /\ log'[q][Len(log[q]) + 1].entry = id
      BY <1>4, <3>2
    <3> QED
      BY <3>1, <3>3 DEF Intended
  <2>2. CASE Fail("send")
    BY <2>2, FailGrows DEF ErrorKind
  <2> QED
    BY <1>2, <2>1, <2>2
<1>5. \A d \in Consumer, r \in Partition : d # c \/ r # p => work'[d][r] = work[d][r]
  BY DEF SendIntent, Worker, TypeOK, WorkTypeOK
<1> QED
  BY <1>1, <1>3, <1>4, <1>5, OrphanStays DEF Grows


LEMMA NextOrphan ==
    ASSUME TypeOK, OffsetsInLog, EffectsInv, GoroutinesClaimed, OrphanNeedsFault, [Next]_vars
    PROVE  OrphanNeedsFault'
<1>1. CASE GroupStep
  BY <1>1, GroupOrphan
<1>2. CASE \E p \in Partition : Publish(p)
  <2>1. UNCHANGED <<entries, errors, work>>
    BY <1>2 DEF Publish, storeVars
  <2>2. LogGrows /\ ErrorsGrow
    BY <1>2, <2>1, PublishWrites, KeptGrows
  <2> QED
    BY <2>1, <2>2, OrphanStays
<1>3. ASSUME NEW c \in Consumer, NEW p \in Partition, HandlerMove(c, p)
      PROVE  OrphanNeedsFault'
  <2>1. CASE StoreFeed(c, p)
    BY <2>1, StoreFeedOrphan
  <2>2. CASE SendIntent(c, p)
    BY <2>2, SendIntentOrphan
  <2>3. CASE ~StoreFeed(c, p) /\ ~SendIntent(c, p)
    <3>1. UNCHANGED log /\ ErrorsGrow /\ ~At(c, p, "produce")
      BY <1>3, <2>3, KeptGrows, FailGrows
      DEF HandlerMove, Receive, TakeMessage, ResolveIntents, ResolveNeeds, CheckDuplication,
          Answer, DeleteLocation, UpdateLocation, IndexLocation, MarkMessage, At, ErrorKind
    <3>2. \A d \in Consumer, q \in Partition : At(d, q, "produce") => work'[d][q] = work[d][q]
      BY <1>3, <3>1, HandlerMoveFrame
    <3>3. Len(entries') = Len(entries)
      BY <1>3, <2>3, RowsChanged
    <3>4. LogGrows
      BY <3>1, KeptGrows
    <3> QED
      BY SMTT(30), <3>1, <3>2, <3>3, <3>4, OrphanStays
  <2> QED
    BY <2>1, <2>2, <2>3
<1> QED
  BY <1>1, <1>2, <1>3, StepCases

-----------------------------------------------------------------------------
(* Without a disruption: one session, one goroutine a partition, one row.    *)

LEMMA OneGoroutine ==
    ASSUME DeliveryInv, GoroutinesClaimed, OneSession,
           NEW c \in Consumer, NEW d \in Consumer, NEW p \in Partition,
           ~At(c, p, "off"), ~At(d, p, "off")
    PROVE  c = d
<1>1. phase[c] = "active" /\ phase[d] = "active" /\ p \in claims[c] /\ p \in claims[d]
  BY DEF GoroutinesClaimed, OneSession
<1> QED
  BY <1>1 DEF DeliveryInv, SoleOwner, Members

(* Before the first rebalance there is no row; after it the sessions last.   *)
LEMMA GroupCalm ==
    ASSUME TypeOK, GoroutinesClaimed, OneSession, GroupStep, disruptions' = 0
    PROVE  /\ OneSession'
           /\ \/ entries = <<>>
              \/ /\ UNCHANGED position
                 /\ \A c \in Consumer, p \in Partition :
                       \/ work'[c][p] = work[c][p]
                       \/ At(c, p, "commit") /\ work'[c][p].stage = "waiting"
<1>1. UNCHANGED entries
  BY GroupStepQuiet DEF Quiet
<1>2. CASE \E c \in Consumer : SessionStep(c)
  BY <1>2 DEF SessionStep, CancelSession, Release, Restart, StopClaim, Ending, OneSession
<1>3. CASE \E c \in Consumer : AutoCommit(c)
  BY <1>1, <1>3 DEF AutoCommit, OneSession
<1>4. CASE CompleteRebalance
  <2>1. entries = <<>> /\ \A c \in Consumer : phase[c] = "joining"
    BY <1>4 DEF CompleteRebalance, OneSession
  <2>2. ~rebalancing' /\ \A c \in Consumer : phase'[c] = "active"
    BY <1>4, <2>1 DEF CompleteRebalance
  <2> QED
    BY <2>1, <2>2 DEF OneSession
<1>5. CASE \/ Disruption
           \/ \E c \in Consumer, p \in Partition : UnreachableService(c, p)
  <2>1. disruptions' = disruptions + 1 /\ disruptions \in Nat
    BY <1>5 DEF Disruption, Rebalance, Evict, Stop, NilMessage, Disrupt, UnreachableService,
                TypeOK, BudgetTypeOK
  <2> QED
    BY <2>1
<1>6. CASE \E c \in Consumer, p \in Partition : Commit(c, p)
  BY <1>1, <1>6 DEF Commit, OneSession, Worker, At, TypeOK, WorkTypeOK
<1>7. CASE UNCHANGED vars
  BY <1>1, <1>7 DEF vars, groupVars, OneSession
<1> QED
  BY <1>2, <1>3, <1>4, <1>5, <1>6, <1>7 DEF GroupStep

(* What a handler adds to the tables comes from the message it is at. *)
LEMMA RowAdded ==
    ASSUME TypeOK, NEW c \in Consumer, NEW p \in Partition, StoreFeed(c, p)
    PROVE  /\ RowsGrow
           /\ \A id \in 1..Len(entries) : entries'[id] = entries[id]
           /\ \A id \in 1..Len(entries') :
                 \/ id \in 1..Len(entries)
                 \/ /\ id = Len(entries) + 1
                    /\ entries'[id].src = <<p, position[c][p]>>
                    /\ ~entries'[id].deleted
<1>1. CASE CreateFeed(<<p, position[c][p]>>, Message(c, p).kind = "located")
  <2>1. <<p, position[c][p]>> \in Source
    BY DEF Source, TypeOK, OffsetTypeOK
  <2>2. /\ RowsGrow /\ Len(entries') = Len(entries) + 1
        /\ entries'[Len(entries) + 1].src = <<p, position[c][p]>>
        /\ ~entries'[Len(entries) + 1].deleted
        /\ \A id \in 1..Len(entries) : entries'[id] = entries[id]
    BY <1>1, <2>1, CreateGrows
  <2> QED
    BY <2>2 DEF RowsGrow
<1>2. CASE UNCHANGED entries
  BY <1>2, KeptGrows
<1> QED
  BY <1>1, <1>2 DEF StoreFeed

LEMMA HandlerCalm ==
    ASSUME TypeOK, DeliveryInv, EffectsInv, GoroutinesClaimed, OneSession, RowsPassed, OneRow,
           NEW c \in Consumer, NEW p \in Partition, HandlerMove(c, p)
    PROVE  OneSession' /\ RowsPassed' /\ OneRow'
<1>1. /\ UNCHANGED <<phase, claims, rebalancing>>
      /\ ~At(c, p, "off") /\ work'[c][p].stage # "off"
      /\ \A d \in Consumer, q \in Partition : d # c \/ q # p =>
            work'[d][q] = work[d][q] /\ position'[d][q] = position[d][q]
      /\ \/ At(c, p, "waiting") /\ position'[c][p] = position[c][p] + 1
         \/ UNCHANGED position /\ work'[c][p].stage # "store"
  BY HandlerMoveFrame DEF Receive, TakeMessage
<1>2. OneSession'
  BY <1>1 DEF OneSession, GoroutinesClaimed
<1>3. /\ Len(entries) \in Nat /\ Len(entries') \in Nat
      /\ \A id \in 1..Len(entries') :
            \/ id \in 1..Len(entries) /\ entries'[id].src = entries[id].src
            \/ /\ id = Len(entries) + 1 /\ At(c, p, "store")
               /\ entries'[id].src = <<p, position[c][p]>>
  <2>1. CASE StoreFeed(c, p)
    <3>1. At(c, p, "store")
      BY <2>1 DEF StoreFeed
    <3> QED
      BY <2>1, <3>1, RowAdded DEF RowsGrow
  <2>2. CASE ~StoreFeed(c, p)
    BY <2>2, RowsChanged DEF RowsGrow, DeliveryInv
  <2> QED
    BY <2>1, <2>2
<1>4. ASSUME NEW id \in 1..Len(entries)
      PROVE  entries[id].src[1] \in Partition /\ entries[id].src[2] \in Nat
  <2>1. entries[id] \in Row
    BY DEF TypeOK, StoreTypeOK
  <2> QED
    BY <2>1 DEF Row, Source
<1>5. \A d \in Consumer, q \in Partition : position[d][q] \in Nat
  BY DEF TypeOK, OffsetTypeOK
<1>6. RowsPassed'
  <2> SUFFICES ASSUME NEW id \in 1..Len(entries'), NEW d \in Consumer,
                      work'[d][entries'[id].src[1]].stage # "off"
               PROVE  /\ entries'[id].src[2] <= position'[d][entries'[id].src[1]]
                      /\ work'[d][entries'[id].src[1]].stage = "store" =>
                             entries'[id].src[2] < position'[d][entries'[id].src[1]]
      BY DEF RowsPassed, At
  <2>1. CASE id \in 1..Len(entries) /\ entries'[id].src = entries[id].src
    <3>1. PICK q \in Partition, i \in Nat : q = entries[id].src[1] /\ i = entries[id].src[2]
      BY <1>4, <2>1
    <3>2. CASE d # c \/ q # p
      BY <1>1, <2>1, <3>1, <3>2 DEF RowsPassed, At
    <3>3. CASE d = c /\ q = p
      <4>1. i <= position[c][p]
        BY <1>1, <2>1, <3>1, <3>3 DEF RowsPassed
      <4> QED
        BY <1>1, <1>5, <2>1, <3>1, <3>3, <4>1
    <3> QED
      BY <3>2, <3>3
  <2>2. CASE At(c, p, "store") /\ entries'[id].src = <<p, position[c][p]>>
    <3>1. UNCHANGED position /\ work'[c][p].stage # "store"
      BY <1>1, <2>2 DEF At
    <3>2. d = c
      BY <1>1, <2>2, OneGoroutine DEF At
    <3> QED
      BY <1>5, <2>2, <3>1, <3>2
  <2> QED
    BY <1>3, <2>1, <2>2
<1>7. OneRow'
  <2>1. ASSUME NEW id \in 1..Len(entries), At(c, p, "store")
        PROVE  entries[id].src # <<p, position[c][p]>>
    BY <1>5, <2>1 DEF RowsPassed, At
  <2> QED
    BY <1>3, <2>1 DEF OneRow
<1> QED
  BY <1>2, <1>6, <1>7

LEMMA NextCalm ==
    ASSUME TypeOK, DeliveryInv, EffectsInv, GoroutinesClaimed, CalmInv, [Next]_vars
    PROVE  CalmInv'
<1> SUFFICES ASSUME disruptions' = 0 PROVE OneSession' /\ RowsPassed' /\ OneRow'
    BY DEF CalmInv
<1>1. OneSession /\ RowsPassed /\ OneRow
  BY DisruptionsGrow DEF CalmInv
<1>2. CASE GroupStep
  <2>1. UNCHANGED entries
    BY <1>2, GroupStepQuiet DEF Quiet
  <2>2. OneRow'
    BY <1>1, <2>1 DEF OneRow
  <2>3. OneSession'
    BY <1>1, <1>2, GroupCalm
  <2>4. CASE entries = <<>>
    BY <2>1, <2>2, <2>3, <2>4 DEF RowsPassed
  <2>5. CASE /\ UNCHANGED position
             /\ \A c \in Consumer, p \in Partition :
                   \/ work'[c][p] = work[c][p]
                   \/ At(c, p, "commit") /\ work'[c][p].stage = "waiting"
    <3>1. \A id \in 1..Len(entries) : entries[id].src[1] \in Partition
      <4>1. \A id \in 1..Len(entries) : entries[id] \in Row
        BY DEF TypeOK, StoreTypeOK
      <4> QED
        BY <4>1 DEF Row, Source
    <3>2. RowsPassed'
      BY <1>1, <2>1, <2>5, <3>1 DEF RowsPassed, At
    <3> QED
      BY <2>2, <2>3, <3>2
  <2> QED
    BY <1>1, <1>2, <2>4, <2>5, GroupCalm
<1>3. CASE \E p \in Partition : Publish(p)
  BY <1>1, <1>3 DEF Publish, groupVars, storeVars, OneSession, RowsPassed, OneRow, At
<1>4. CASE \E c \in Consumer, p \in Partition : HandlerMove(c, p)
  BY <1>1, <1>4, HandlerCalm
<1> QED
  BY <1>2, <1>3, <1>4, StepCases

LEMMA InitSession == Init => SessionInv
<1> SUFFICES ASSUME Init PROVE SessionInv
    OBVIOUS
<1>1. /\ entries = <<>> /\ rebalancing
      /\ \A c \in Consumer : phase[c] = "joining"
      /\ \A c \in Consumer, p \in Partition : At(c, p, "off")
  BY DEF Init, GroupInit, StoreInit, NoWorkers, Worker, At
<1>2. GoroutinesClaimed
  BY <1>1 DEF GoroutinesClaimed
<1>3. OrphanNeedsFault
  BY <1>1 DEF OrphanNeedsFault
<1>4. OneSession /\ RowsPassed /\ OneRow
  BY <1>1 DEF OneSession, RowsPassed, OneRow
<1> QED
  BY <1>2, <1>3, <1>4 DEF SessionInv, CalmInv

LEMMA SessionHolds == Spec => [](IInv /\ EffectsInv /\ SessionInv)
<1>1. IInv /\ EffectsInv /\ SessionInv /\ [Next]_vars => SessionInv'
  BY NextClaimed, NextOrphan, NextCalm DEF IInv, DeliveryInv, SessionInv
<1> QED
  BY <1>1, InitSession, EffectsHold, PTL DEF Spec

(***************************************************************************)
(* A row that nobody will resolve is the trace of a fault: a crash, an     *)
(* eviction, a rebalance, a failed send or a failed database call.         *)
(***************************************************************************)
THEOREM OrphansNeedFaults == Spec => []OrphanNeedsFault
BY SessionHolds, PTL DEF SessionInv

(***************************************************************************)
(* Failing calls alone never give a message a second row: that takes a     *)
(* second delivery, and a second delivery takes a disruption.              *)
(***************************************************************************)
THEOREM DuplicatesNeedDisruptions == Spec => []DuplicateEntryNeedsDisruption
<1>1. SessionInv => DuplicateEntryNeedsDisruption
  BY DEF SessionInv, CalmInv, OneRow, DuplicateEntryNeedsDisruption, Stored
<1> QED
  BY <1>1, SessionHolds, PTL

-----------------------------------------------------------------------------
(* Every message handled once: the index agrees with the table. *)

(* Two handlers are never at work on one row, nor on a row touched before.   *)
LEMMA SoleHandler ==
    ASSUME TypeOK, DeliveryInv, EffectsInv, GoroutinesClaimed, OneSession, HandledOnce,
           NEW c \in Consumer, NEW p \in Partition, work[c][p].stage \in ResolveStage
    PROVE  /\ p \in IntentPartition /\ FeedID(c, p) \in 1..Len(entries)
           /\ position[c][p] \in 1..Len(log[p])
           /\ IntentOf(p, position[c][p], FeedID(c, p))
           /\ ~Touched(FeedID(c, p))
           /\ \A d \in Consumer, q \in Partition :
                 work[d][q].stage \in ResolveStage /\ FeedID(d, q) = FeedID(c, p) => d = c /\ q = p
<1>1. ASSUME NEW d \in Consumer, NEW q \in Partition, work[d][q].stage \in ResolveStage
      PROVE  /\ q \in IntentPartition /\ FeedID(d, q) \in 1..Len(entries)
             /\ position[d][q] \in 1..Len(log[q])
             /\ IntentOf(q, position[d][q], FeedID(d, q))
             /\ ~At(d, q, "off")
  <2>1. Working(d, q) /\ OffsetsInLog /\ LogKinds /\ IntentsNamed /\ ~At(d, q, "off")
    BY <1>1 DEF Working, ResolveStage, DeliveryInv, EffectsInv, At
  <2>2. Message(d, q).kind = "intent"
    BY <1>1 DEF EffectsInv, HandlerInv
  <2> QED
    BY <2>1, <2>2, NamedRow, MessageType DEF IntentOf, Message, FeedID
<1>2. ~Touched(FeedID(c, p))
  <2>1. ~Through(c, p, position[c][p])
    BY <1>1 DEF Through, ResolveStage
  <2> QED
    BY <1>1, <2>1 DEF HandledOnce, TouchedOnce
<1>3. ASSUME NEW d \in Consumer, NEW q \in Partition, work[d][q].stage \in ResolveStage,
             FeedID(d, q) = FeedID(c, p)
      PROVE  d = c /\ q = p
  <2>1. IntentOf(q, position[d][q], FeedID(c, p)) /\ IntentOf(p, position[c][p], FeedID(c, p))
    BY <1>1, <1>3
  <2>2. q = p
    BY <1>1, <1>3, <2>1 DEF HandledOnce, OneIntent
  <2> QED
    BY <1>1, <1>3, <2>2, OneGoroutine
<1> QED
  BY <1>1, <1>2, <1>3

(* Steps that change no log, no row and no document, and take no goroutine   *)
(* back to a message it was through with.                                    *)
LEMMA PassOnce ==
    ASSUME TypeOK, DeliveryInv, EffectsInv, HandledOnce, UNCHANGED <<log, entries, index>>,
           \A c \in Consumer, p \in Partition :
              \/ work'[c][p] = work[c][p] /\ position'[c][p] = position[c][p]
              \/ /\ work'[c][p].stage \notin {"produce", "index"}
                 /\ \A j \in 1..Len(log[p]) : At(c, p, "off") \/ Through(c, p, j) =>
                       At(c, p, "off")' \/ Through(c, p, j)'
    PROVE  HandledOnce'
<1>1. OneIntent'
  BY DEF HandledOnce, OneIntent, IntentOf, Intended, At
<1>2. TouchedOnce'
  <2>1. \A c \in Consumer, q \in IntentPartition : \A j \in 1..Len(log[q]) :
            At(c, q, "off") \/ Through(c, q, j) => At(c, q, "off")' \/ Through(c, q, j)'
    BY FeedPipelineAssumption DEF At, Through
  <2>2. \A id : (Touched(id)' <=> Touched(id)) /\ (Intended(id)' <=> Intended(id))
    BY DEF Touched, Intended
  <2> QED
    BY <2>1, <2>2 DEF HandledOnce, TouchedOnce, IntentOf
<1>3. IndexesTable'
  BY SMTT(30) DEF HandledOnce, IndexesTable, At, FeedID, Message
<1>4. DocsMatch'
  BY DEF HandledOnce, DocsMatch
<1> QED
  BY <1>1, <1>2, <1>3, <1>4 DEF HandledOnce

LEMMA GroupOnce ==
    ASSUME TypeOK, DeliveryInv, EffectsInv, GoroutinesClaimed, OneSession, HandledOnce,
           GroupStep, disruptions' = 0
    PROVE  HandledOnce'
<1>1. Quiet
  BY GroupStepQuiet
<1>2. CASE entries = <<>>
  <2>1. \A c \in Consumer, p \in Partition :
            /\ work[c][p].stage # "produce"
            /\ work[c][p].stage # "index"
    <3>1. Len(entries) = 0
      BY <1>2
    <3> QED
      BY <3>1, SoleHandler DEF EffectsInv, HandlerInv, At, ResolveStage
  <2>2. \A c \in Consumer, p \in Partition : work'[c][p].stage \notin {"produce", "index"}
    BY <1>1, <2>1 DEF Quiet
  <2>3. OneIntent' /\ IndexesTable'
    BY <1>1, <2>2 DEF HandledOnce, OneIntent, IntentOf, IndexesTable, Quiet, At
  <2>4. TouchedOnce' /\ DocsMatch'
    BY <1>1, <1>2 DEF HandledOnce, TouchedOnce, DocsMatch, Quiet
  <2> QED
    BY <2>3, <2>4 DEF HandledOnce
<1>3. CASE /\ UNCHANGED position
           /\ \A c \in Consumer, p \in Partition :
                 \/ work'[c][p] = work[c][p]
                 \/ At(c, p, "commit") /\ work'[c][p].stage = "waiting"
  BY <1>1, <1>3, PassOnce DEF Quiet, At, Through
<1> QED
  BY <1>2, <1>3, GroupCalm

LEMMA ReceiveOnce ==
    ASSUME TypeOK, DeliveryInv, EffectsInv, HandledOnce,
           NEW c \in Consumer, NEW p \in Partition, Receive(c, p)
    PROVE  HandledOnce'
<1>1. UNCHANGED <<log, entries, index>> /\ At(c, p, "waiting")
  BY DEF Receive, TakeMessage, storeVars
<1>2. /\ work'[c][p].stage \in {"mark", "intents", "store"}
      /\ position'[c][p] = position[c][p] + 1 /\ position[c][p] \in Nat
      /\ \A d \in Consumer, q \in Partition : d # c \/ q # p =>
            work'[d][q] = work[d][q] /\ position'[d][q] = position[d][q]
  BY DEF Receive, TakeMessage, FirstStage, Goto, TypeOK, WorkTypeOK, Task, OffsetTypeOK
<1>3. \A j \in 1..Len(log[p]) : At(c, p, "off") \/ Through(c, p, j) => Through(c, p, j)'
  BY <1>1, <1>2 DEF At, Through
<1> QED
  BY <1>1, <1>2, <1>3, PassOnce

LEMMA MarkMessageOnce ==
    ASSUME TypeOK, DeliveryInv, EffectsInv, HandledOnce,
           NEW c \in Consumer, NEW p \in Partition,
           MarkMessage(c, p), UNCHANGED <<storeVars, published, errors>>
    PROVE  HandledOnce'
<1>1. UNCHANGED <<log, entries, index, position>> /\ At(c, p, "mark")
  BY DEF MarkMessage, storeVars
<1>2. /\ work'[c][p].stage = "commit"
      /\ \A d \in Consumer, q \in Partition : d # c \/ q # p => work'[d][q] = work[d][q]
  BY DEF MarkMessage, Goto, TypeOK, WorkTypeOK, Task
<1>3. \A j \in 1..Len(log[p]) : At(c, p, "off") \/ Through(c, p, j) => Through(c, p, j)'
  BY <1>1, <1>2 DEF At, Through
<1> QED
  BY <1>1, <1>2, <1>3, PassOnce

(* Messages from outside name no row. *)
LEMMA PublishOnce ==
    ASSUME TypeOK, HandledOnce, NEW p \in Partition, Publish(p), OffsetsInLog, EffectsInv
    PROVE  HandledOnce'
<1>1. UNCHANGED <<position, work, entries, index>>
  BY DEF Publish, groupVars, storeVars
<1>2. \A q \in IntentPartition : \A j \in 1..Len(log'[q]) : \A id :
          IntentOf(q, j, id)' => j \in 1..Len(log[q]) /\ IntentOf(q, j, id)
  <2> SUFFICES ASSUME NEW q \in IntentPartition, NEW j \in 1..Len(log'[q]), log'[q][j].kind = "intent"
               PROVE  j \in 1..Len(log[q]) /\ log'[q][j] = log[q][j]
      BY DEF IntentOf
  <2>1. q \in Partition
    BY FeedPipelineAssumption
  <2>2. j \notin Len(log[q]) + 1 .. Len(log'[q])
    BY <2>1, PublishWrites DEF LocationKind
  <2> QED
    BY <2>1, <2>2, PublishWrites DEF LogGrows
<1>3. \A id : Intended(id)' <=> Intended(id)
  <2>1. \A id : Intended(id)' => Intended(id)
    BY <1>2 DEF Intended, IntentOf
  <2> QED
    BY <2>1, PublishWrites, IntendedStays
<1>4. OneIntent'
  BY <1>1, <1>2, <1>3 DEF HandledOnce, OneIntent, At
<1>5. TouchedOnce'
  <2>1. \A id : Touched(id)' <=> Touched(id)
    BY <1>1 DEF Touched
  <2>2. \A c \in Consumer, q \in IntentPartition : \A j \in 1..Len(log[q]) :
            At(c, q, "off") \/ Through(c, q, j) => At(c, q, "off")' \/ Through(c, q, j)'
    BY <1>1 DEF At, Through
  <2> QED
    BY <1>1, <1>2, <1>3, <2>1, <2>2 DEF HandledOnce, TouchedOnce
<1>6. IndexesTable'
  <2>1. ASSUME NEW c \in Consumer, NEW q \in Partition, At(c, q, "index")
        PROVE  FeedID(c, q)' = FeedID(c, q)
    <3>1. position[c][q] \in 1..Len(log[q])
      BY <2>1, MessageType DEF At, Working
    <3> QED
      BY <1>1, <3>1, PublishWrites DEF FeedID, Message, LogGrows
  <2> QED
    BY <1>1, <2>1 DEF HandledOnce, IndexesTable, At
<1>7. DocsMatch'
  BY <1>1 DEF HandledOnce, DocsMatch
<1> QED
  BY <1>4, <1>5, <1>6, <1>7 DEF HandledOnce

(* A new row is named by no message and shown by no document. *)
LEMMA StoreFeedOnce ==
    ASSUME TypeOK, DeliveryInv, EffectsInv, HandledOnce,
           NEW c \in Consumer, NEW p \in Partition, StoreFeed(c, p)
    PROVE  HandledOnce'
<1>1. UNCHANGED <<log, index, position>> /\ At(c, p, "store")
  BY DEF StoreFeed, groupVars
<1>2. p \in LocationPartition /\ p \notin IntentPartition
  BY <1>1, FeedPipelineAssumption DEF EffectsInv, HandlerInv, StoreStage, At
<1>3. /\ Len(entries) \in Nat
      /\ \A id \in 1..Len(entries) : entries'[id] = entries[id]
      /\ \A id \in 1..Len(entries') :
            id \in 1..Len(entries) \/ (id = Len(entries) + 1 /\ ~entries'[id].deleted)
  <2>1. Len(entries) \in Nat
    BY DEF TypeOK, StoreTypeOK
  <2>2. \A id \in 1..Len(entries) : entries'[id] = entries[id]
    BY RowAdded
  <2>3. \A id \in 1..Len(entries') :
            id \in 1..Len(entries) \/ (id = Len(entries) + 1 /\ ~entries'[id].deleted)
    BY RowAdded
  <2> QED
    BY <2>1, <2>2, <2>3
<1>4. /\ \/ work'[c][p].stage = "produce" /\ work'[c][p].entry = Len(entries) + 1
         \/ work'[c][p].stage = "waiting"
      /\ \A d \in Consumer, q \in Partition : d # c \/ q # p => work'[d][q] = work[d][q]
  BY DEF StoreFeed, ReturnUnmarked, Worker, NextEntryID, TypeOK, WorkTypeOK, Task
<1>5. /\ \A q \in IntentPartition : \A j \in 1..Len(log[q]) : ~IntentOf(q, j, Len(entries) + 1)
      /\ ~Intended(Len(entries) + 1)
  <2>1. Len(entries) \in Nat
    BY <1>3
  <2>2. Len(entries) + 1 \notin 1..Len(entries)
    BY <2>1
  <2>3. ASSUME NEW q \in IntentPartition, NEW j \in 1..Len(log[q]), log[q][j].kind = "intent"
        PROVE  log[q][j].entry \in 1..Len(entries)
    BY <2>3 DEF EffectsInv, IntentsNamed, NamesRow
  <2>4. \A q \in IntentPartition : \A j \in 1..Len(log[q]) : ~IntentOf(q, j, Len(entries) + 1)
    BY <2>2, <2>3 DEF IntentOf
  <2> QED
    BY <2>4 DEF IntentOf, Intended
<1>6. \A id : Intended(id)' <=> Intended(id)
  BY <1>1 DEF Intended
<1>7. OneIntent'
  <2>1. ASSUME NEW q1 \in IntentPartition, NEW q2 \in IntentPartition,
               NEW j1 \in 1..Len(log[q1]), NEW j2 \in 1..Len(log[q2]), NEW id \in 1..Len(entries'),
               IntentOf(q1, j1, id), IntentOf(q2, j2, id)
        PROVE  q1 = q2 /\ j1 = j2
    BY <1>3, <1>5, <2>1 DEF HandledOnce, OneIntent
  <2>2. ASSUME NEW d \in Consumer, NEW q \in Partition, work'[d][q].stage = "produce",
               NEW id, id = work'[d][q].entry
        PROVE  ~Intended(id)
    BY <1>4, <1>5, <2>2 DEF HandledOnce, OneIntent, At
  <2> QED
    BY <1>1, <1>6, <2>1, <2>2 DEF OneIntent, IntentOf, At
<1>8. TouchedOnce'
  <2>1. ASSUME NEW id \in 1..Len(entries'), Touched(id)'
        PROVE  id \in 1..Len(entries) /\ Touched(id)
    BY <1>1, <1>3, <2>1 DEF Touched, EffectsInv, IndexInTable
  <2>2. \A d \in Consumer, q \in IntentPartition : \A j \in 1..Len(log[q]) :
            At(d, q, "off") \/ Through(d, q, j) => At(d, q, "off")' \/ Through(d, q, j)'
    BY <1>1, <1>2, <1>4, FeedPipelineAssumption DEF At, Through
  <2> QED
    BY <1>1, <1>6, <2>1, <2>2 DEF HandledOnce, TouchedOnce, IntentOf
<1>9. IndexesTable'
  <2>1. ASSUME NEW d \in Consumer, NEW q \in Partition, work'[d][q].stage = "index"
        PROVE  /\ work'[d][q] = work[d][q] /\ At(d, q, "index")
               /\ FeedID(d, q)' = FeedID(d, q) /\ FeedID(d, q) \in 1..Len(entries)
    <3>1. work'[d][q] = work[d][q] /\ At(d, q, "index") /\ Working(d, q)
      BY <1>4, <2>1 DEF At, Working
    <3>2. FeedID(d, q) \in 1..Len(entries)
      BY <3>1, NamedRow DEF EffectsInv, HandlerInv, ResolveStage, At, DeliveryInv
    <3> QED
      BY <1>1, <3>1, <3>2 DEF FeedID, Message
  <2> QED
    BY <1>3, <2>1 DEF HandledOnce, IndexesTable, At
<1>10. DocsMatch'
  BY <1>1, <1>3 DEF HandledOnce, DocsMatch, EffectsInv, IndexInTable
<1> QED
  BY <1>7, <1>8, <1>9, <1>10 DEF HandledOnce

(* The one intent message of a row that nothing has touched. *)
LEMMA SendIntentOnce ==
    ASSUME TypeOK, DeliveryInv, EffectsInv, GoroutinesClaimed, OneSession, HandledOnce,
           NEW c \in Consumer, NEW p \in Partition, SendIntent(c, p), errors'["send"] = 0
    PROVE  HandledOnce'
<1> DEFINE id == work[c][p].entry
<1>1. UNCHANGED <<entries, index, position>> /\ At(c, p, "produce")
  BY DEF SendIntent, storeVars, groupVars
<1>2. /\ p \in LocationPartition /\ p \notin IntentPartition
      /\ id \in 1..Len(entries) /\ entries[id].src = <<p, position[c][p]>>
  BY <1>1, FeedPipelineAssumption DEF EffectsInv, HandlerInv, StoreStage, At
<1>3. ~Intended(id)
  BY <1>1 DEF HandledOnce, OneIntent
<1>4. LogGrows /\ \E q \in IntentPartition :
          /\ \A r \in Partition : r # q => log'[r] = log[r]
          /\ Len(log'[q]) = Len(log[q]) + 1
          /\ \A i \in Len(log[q]) + 1 .. Len(log'[q]) :
                log'[q][i].kind = "intent" /\ log'[q][i].entry = id
  <2>1. ~Fail("send")
    BY FailGrows DEF ErrorKind
  <2>2. PICK q \in IntentPartition, n \in 0..2 :
            /\ \A r \in Partition : r # q => log'[r] = log[r]
            /\ Len(log'[q]) = Len(log[q]) + n
            /\ \A i \in Len(log[q]) + 1 .. Len(log'[q]) :
                  log'[q][i] = [kind |-> "intent", entry |-> work[c][p].entry,
                                doc |-> Message(c, p).doc]
            /\ (n = 1 /\ UNCHANGED errors) \/ Fail("send")
    BY SendIntentWrites
  <2>3. Len(log'[q]) = Len(log[q]) + 1
    BY <2>1, <2>2
  <2>4. \A i \in Len(log[q]) + 1 .. Len(log'[q]) :
            log'[q][i].kind = "intent" /\ log'[q][i].entry = id
    BY <2>2
  <2>5. LogGrows
    BY SendIntentWrites
  <2> QED
    BY <2>2, <2>3, <2>4, <2>5
<1>5. PICK q \in IntentPartition :
          /\ \A r \in Partition : r # q => log'[r] = log[r]
          /\ Len(log'[q]) = Len(log[q]) + 1
          /\ \A i \in Len(log[q]) + 1 .. Len(log'[q]) :
                log'[q][i].kind = "intent" /\ log'[q][i].entry = id
  BY <1>4
<1>6. /\ work'[c][p].stage = "mark"
      /\ \A d \in Consumer, r \in Partition : d # c \/ r # p => work'[d][r] = work[d][r]
  BY DEF SendIntent, Worker, TypeOK, WorkTypeOK
<1> HIDE DEF id
<1>7. /\ q \in Partition /\ Len(log[q]) + 1 \in 1..Len(log'[q]) /\ Len(log[q]) \in Nat
      /\ \A r \in Partition : \A j \in 1..Len(log'[r]) :
            \/ j \in 1..Len(log[r]) /\ log'[r][j] = log[r][j]
            \/ /\ r = q /\ j = Len(log[q]) + 1
               /\ log'[r][j].kind = "intent" /\ log'[r][j].entry = id
  BY <1>4, <1>5, FeedPipelineAssumption DEF LogGrows
<1>8. ASSUME NEW r \in IntentPartition, NEW j \in 1..Len(log'[r]), NEW e, IntentOf(r, j, e)'
      PROVE  \/ j \in 1..Len(log[r]) /\ IntentOf(r, j, e) /\ Intended(e) /\ e # id
             \/ r = q /\ j = Len(log[q]) + 1 /\ e = id
  BY <1>3, <1>7, <1>8, FeedPipelineAssumption DEF IntentOf, Intended
<1>9. ASSUME NEW e, Intended(e)'
      PROVE  Intended(e) \/ e = id
  BY <1>8, <1>9 DEF Intended, IntentOf
<1>10. OneIntent'
  <2>1. ASSUME NEW r1 \in IntentPartition, NEW r2 \in IntentPartition,
               NEW j1 \in 1..Len(log'[r1]), NEW j2 \in 1..Len(log'[r2]), NEW e \in 1..Len(entries),
               IntentOf(r1, j1, e)', IntentOf(r2, j2, e)'
        PROVE  r1 = r2 /\ j1 = j2
    BY <1>8, <2>1 DEF HandledOnce, OneIntent
  <2>2. ASSUME NEW d \in Consumer, NEW r \in Partition, work'[d][r].stage = "produce",
               NEW e, e = work'[d][r].entry
        PROVE  ~Intended(e)'
    <3>1. (d # c \/ r # p) /\ At(d, r, "produce") /\ e = work[d][r].entry
      BY <1>6, <2>2 DEF At
    <3>2. e \in 1..Len(entries) /\ entries[e].src = <<r, position[d][r]>> /\ ~Intended(e)
      BY <3>1 DEF EffectsInv, HandlerInv, HandledOnce, OneIntent
    <3>3. CASE e = id
      <4>1. r = p
        BY <1>2, <3>2, <3>3
      <4>2. ~At(c, p, "off") /\ ~At(d, p, "off")
        BY <1>1, <3>1, <4>1 DEF At
      <4> QED
        BY <3>1, <4>1, <4>2, OneGoroutine
    <3> QED
      BY <1>9, <3>2, <3>3
  <2> QED
    BY <1>1, <2>1, <2>2 DEF OneIntent, At
<1>11. TouchedOnce'
  <2>1. \A e : Touched(e)' <=> Touched(e)
    BY <1>1 DEF Touched
  <2>2. \A d \in Consumer, r \in IntentPartition : \A j \in 1..Len(log[r]) :
            At(d, r, "off") \/ Through(d, r, j) => At(d, r, "off")' \/ Through(d, r, j)'
    BY <1>1, <1>2, <1>6, FeedPipelineAssumption DEF At, Through
  <2>3. \A e \in 1..Len(entries) : Touched(e) => e # id /\ Intended(e) /\ Intended(e)'
    BY <1>3, <1>4, IntendedStays DEF HandledOnce, TouchedOnce
  <2> QED
    BY <1>1, <1>8, <2>1, <2>2, <2>3 DEF HandledOnce, TouchedOnce
<1>12. IndexesTable'
  <2>1. ASSUME NEW d \in Consumer, NEW r \in Partition, work'[d][r].stage = "index"
        PROVE  work'[d][r] = work[d][r] /\ At(d, r, "index") /\ FeedID(d, r)' = FeedID(d, r)
    <3>1. work'[d][r] = work[d][r] /\ At(d, r, "index") /\ Working(d, r)
      BY <1>6, <2>1 DEF At, Working
    <3>2. position[d][r] \in 1..Len(log[r])
      BY <3>1, MessageType DEF DeliveryInv
    <3> QED
      BY <1>1, <1>4, <3>1, <3>2 DEF FeedID, Message, LogGrows
  <2> QED
    BY <1>1, <2>1 DEF HandledOnce, IndexesTable, At
<1>13. DocsMatch'
  BY <1>1 DEF HandledOnce, DocsMatch
<1> QED
  BY <1>10, <1>11, <1>12, <1>13 DEF HandledOnce

(***************************************************************************)
(* A step of intentResolveHandle: its row was untouched, is at work with   *)
(* no other goroutine, and is touched only as the handler goes to its mark. *)
(***************************************************************************)
LEMMA ResolveOnce ==
    ASSUME TypeOK, DeliveryInv, EffectsInv, GoroutinesClaimed, OneSession, HandledOnce,
           NEW c \in Consumer, NEW p \in Partition, work[c][p].stage \in ResolveStage,
           HandlerMove(c, p)
    PROVE  HandledOnce'
<1> DEFINE id == FeedID(c, p)
<1>1. /\ p \in IntentPartition /\ id \in 1..Len(entries)
      /\ position[c][p] \in 1..Len(log[p])
      /\ IntentOf(p, position[c][p], id)
      /\ ~Touched(id)
      /\ \A d \in Consumer, q \in Partition :
            work[d][q].stage \in ResolveStage /\ FeedID(d, q) = id => d = c /\ q = p
  BY SoleHandler
<1>2. ~Receive(c, p) /\ ~StoreFeed(c, p) /\ ~SendIntent(c, p) /\ ~MarkMessage(c, p)
  BY SMTT(30) DEF Receive, TakeMessage, StoreFeed, SendIntent, MarkMessage, At, ResolveStage
<1>3. /\ UNCHANGED <<log, position>>
      /\ work'[c][p].stage \notin {"off", "produce"}
      /\ \A d \in Consumer, q \in Partition : d # c \/ q # p => work'[d][q] = work[d][q]
  <2>1. /\ UNCHANGED log
        /\ work'[c][p].stage # "produce"
    BY <1>2 DEF HandlerMove, ResolveIntents, ResolveNeeds, CheckDuplication, Answer,
                DeleteLocation, UpdateLocation, IndexLocation, ReturnUnmarked, Worker, Goto,
                TypeOK, WorkTypeOK, Task
  <2> QED
    BY <1>2, <2>1, HandlerMoveFrame
<1>4. /\ Len(entries') = Len(entries)
      /\ \A e \in 1..Len(entries) : e # id => entries'[e] = entries[e]
  BY <1>2, RowsChanged DEF DeliveryInv
<1>5. \/ UNCHANGED index
      \/ /\ At(c, p, "index") /\ work'[c][p].stage = "mark"
         /\ UNCHANGED entries
         /\ \A d \in DocId : index'[d] \in {index[d], [entry |-> id, reason |-> work[c][p].reason]}
  BY <1>2 DEF HandlerMove, ResolveIntents, ResolveNeeds, CheckDuplication, Answer, storeVars,
              DeleteLocation, UpdateLocation, IndexLocation, CreateFeedLocation, Worker,
              TypeOK, StoreTypeOK, WorkTypeOK
<1>6. \/ entries'[id].deleted = entries[id].deleted
      \/ At(c, p, "delete") /\ work'[c][p].stage = "mark"
  <2>1. CASE At(c, p, "delete")
    BY <1>2, <2>1 DEF HandlerMove, ResolveIntents, ResolveNeeds, CheckDuplication,
                      DeleteLocation, UpdateLocation, IndexLocation, Goto, At,
                      TypeOK, WorkTypeOK, Task
  <2>2. CASE At(c, p, "update")
    <3>1. work[c][p].reason \in Reason \ {"payload"}
      BY <2>2 DEF EffectsInv, HandlerInv, AnsweredStage, At, TypeOK, WorkTypeOK, Task
    <3>2. UpdateLocationIntentAndNeeds(id, work[c][p].reason) \/ UNCHANGED entries
      BY <1>2, <2>2 DEF HandlerMove, ResolveIntents, ResolveNeeds, CheckDuplication,
                        DeleteLocation, UpdateLocation, IndexLocation, At
    <3> QED
      BY <1>1, <3>1, <3>2, UpdateGrows
  <2>3. CASE ~At(c, p, "delete") /\ ~At(c, p, "update")
    BY <1>2, <2>3, RowsChanged DEF DeliveryInv
  <2> QED
    BY <2>1, <2>2, <2>3
<1>7. work'[c][p].stage = "index" /\ entries'[id].placed =>
          entries'[id].reason = work'[c][p].reason
  <2> SUFFICES ASSUME work'[c][p].stage = "index", entries'[id].placed
               PROVE  entries'[id].reason = work'[c][p].reason
      OBVIOUS
  <2>1. /\ At(c, p, "update")
        /\ UpdateLocationIntentAndNeeds(id, work[c][p].reason)
        /\ work'[c][p].reason = work[c][p].reason
    BY <1>2 DEF HandlerMove, ResolveIntents, ResolveNeeds, CheckDuplication, Answer,
                DeleteLocation, UpdateLocation, IndexLocation, ReturnUnmarked, Worker, Goto,
                TypeOK, WorkTypeOK, Task
  <2>2. work[c][p].reason \in Reason \ {"payload"}
    BY <2>1 DEF EffectsInv, HandlerInv, AnsweredStage, At, TypeOK, WorkTypeOK, Task
  <2> QED
    BY SMTT(30), <1>1, <2>1, <2>2, UpdateGrows DEF RowsGrow
<1> HIDE DEF id
<1>8. /\ \A e : Intended(e)' <=> Intended(e)
      /\ Intended(id)
  BY <1>1, <1>3 DEF Intended, IntentOf
<1>9. OneIntent'
  BY <1>3, <1>4, <1>8 DEF HandledOnce, OneIntent, IntentOf, At
<1>10. ASSUME NEW e \in 1..Len(entries), Touched(e)'
       PROVE  (Touched(e) /\ e # id) \/ (e = id /\ work'[c][p].stage = "mark")
  <2>1. CASE e # id
    <3>1. entries'[e] = entries[e]
      BY <1>4, <2>1
    <3>2. \A d \in DocId : index'[d].entry = e => index[d].entry = e
      BY <1>5, <2>1
    <3> QED
      BY <1>10, <2>1, <3>1, <3>2 DEF Touched
  <2>2. CASE e = id
    <3>1. CASE work'[c][p].stage = "mark"
      BY <2>2, <3>1
    <3>2. CASE work'[c][p].stage # "mark"
      <4>1. UNCHANGED index /\ entries'[id].deleted = entries[id].deleted
        BY <1>5, <1>6, <3>2
      <4> QED
        BY <1>1, <1>10, <2>2, <4>1 DEF Touched
    <3> QED
      BY <3>1, <3>2
  <2> QED
    BY <2>1, <2>2
<1>11. TouchedOnce'
  <2> SUFFICES ASSUME NEW e \in 1..Len(entries), Touched(e)',
                      NEW q \in IntentPartition, NEW j \in 1..Len(log[q]), IntentOf(q, j, e),
                      NEW d \in Consumer
               PROVE  At(d, q, "off")' \/ Through(d, q, j)'
    <3>1. \A e \in 1..Len(entries) : Touched(e)' => Intended(e)'
      BY <1>8, <1>10 DEF HandledOnce, TouchedOnce
    <3> QED
      BY <1>3, <1>4, <3>1 DEF TouchedOnce, IntentOf
  <2>1. q \in Partition
    BY FeedPipelineAssumption
  <2>2. CASE e # id
    <3>1. At(d, q, "off") \/ Through(d, q, j)
      BY <1>10, <2>2 DEF HandledOnce, TouchedOnce
    <3>2. CASE d # c \/ q # p
      BY <1>3, <2>1, <3>1, <3>2 DEF At, Through
    <3>3. CASE d = c /\ q = p
      BY <1>3, <3>1, <3>3 DEF At, Through, ResolveStage
    <3> QED
      BY <3>2, <3>3
  <2>3. CASE e = id
    <3>1. q = p /\ j = position[c][p]
      BY <1>1, <2>3 DEF HandledOnce, OneIntent
    <3>2. CASE d = c
      BY <1>3, <1>10, <2>3, <3>1, <3>2 DEF Through
    <3>3. CASE d # c
      <4>1. ~At(c, p, "off")
        BY DEF At, ResolveStage
      <4>2. At(d, p, "off")
        BY <2>1, <3>1, <3>3, <4>1, OneGoroutine
      <4> QED
        BY <1>3, <2>1, <3>1, <3>3, <4>2 DEF At
    <3> QED
      BY <3>2, <3>3
  <2> QED
    BY <2>2, <2>3
<1>12. IndexesTable'
  <2>1. \A d \in Consumer, q \in Partition : FeedID(d, q)' = FeedID(d, q)
    BY <1>3 DEF FeedID, Message
  <2>2. ASSUME NEW d \in Consumer, NEW q \in Partition, d # c \/ q # p, At(d, q, "index")
        PROVE  entries'[FeedID(d, q)] = entries[FeedID(d, q)]
    <3>1. FeedID(d, q) # id
      BY <1>1, <2>2 DEF At, ResolveStage
    <3>2. FeedID(d, q) \in 1..Len(entries)
      BY <2>2, SoleHandler DEF At, ResolveStage
    <3> QED
      BY <1>4, <3>1, <3>2
  <2>3. FeedID(c, p) = id
    BY DEF id
  <2> QED
    BY <1>3, <1>7, <2>1, <2>2, <2>3 DEF HandledOnce, IndexesTable, At
<1>13. DocsMatch'
  <2> SUFFICES ASSUME NEW d \in DocId, NEW e, e = index'[d].entry, e # 0, entries'[e].placed
               PROVE  entries'[e].reason = index'[d].reason /\ ~entries'[e].deleted
      BY DEF DocsMatch
  <2>1. CASE index'[d] = index[d]
    <3>1. e \in 1..Len(entries) /\ e # id
      BY <1>1, <2>1 DEF Touched, EffectsInv, IndexInTable
    <3> QED
      BY <1>4, <2>1, <3>1 DEF HandledOnce, DocsMatch
  <2>2. CASE /\ At(c, p, "index") /\ UNCHANGED entries
             /\ index'[d] = [entry |-> id, reason |-> work[c][p].reason]
    <3>1. e = id /\ index'[d].reason = work[c][p].reason
      BY <2>2
    <3>2. FeedID(c, p) = id
      BY DEF id
    <3> QED
      BY <1>1, <2>2, <3>1, <3>2, FeedPipelineAssumption DEF HandledOnce, IndexesTable, Touched
  <2> QED
    BY <1>5, <2>1, <2>2
<1> QED
  BY <1>9, <1>11, <1>12, <1>13 DEF HandledOnce

LEMMA NextOnce ==
    ASSUME IInv, EffectsInv, SessionInv, OnceInv, [Next]_vars
    PROVE  OnceInv'
<1> SUFFICES ASSUME disruptions' = 0, errors'["send"] = 0 PROVE HandledOnce'
    BY DEF OnceInv
<1>1. TypeOK /\ DeliveryInv /\ OffsetsInLog /\ GoroutinesClaimed
  BY DEF IInv, DeliveryInv, SessionInv
<1>2. ErrorsGrow
  <2>1. CASE GroupStep
    BY <1>1, <2>1, GroupStepQuiet, KeptGrows DEF Quiet
  <2>2. CASE \E p \in Partition : Publish(p)
    BY <1>1, <2>2, KeptGrows DEF Publish
  <2>3. CASE \E c \in Consumer, p \in Partition : HandlerMove(c, p)
    BY <1>1, <2>3, KeptGrows, FailGrows
    DEF HandlerMove, Receive, StoreFeed, SendIntent, ResolveIntents, ResolveNeeds,
        CheckDuplication, DeleteLocation, UpdateLocation, IndexLocation, ErrorKind
  <2> QED
    BY <2>1, <2>2, <2>3, StepCases
<1>3. OneSession /\ HandledOnce
  BY <1>1, <1>2, DisruptionsGrow DEF SessionInv, CalmInv, OnceInv, ErrorsGrow, ErrorKind
<1>4. CASE GroupStep
  BY <1>1, <1>3, <1>4, GroupOnce
<1>5. CASE \E p \in Partition : Publish(p)
  BY <1>1, <1>3, <1>5, PublishOnce
<1>6. ASSUME NEW c \in Consumer, NEW p \in Partition, HandlerMove(c, p)
      PROVE  HandledOnce'
  <2>1. CASE Receive(c, p)
    BY <1>1, <1>3, <2>1, ReceiveOnce
  <2>2. CASE StoreFeed(c, p)
    BY <1>1, <1>3, <2>2, StoreFeedOnce
  <2>3. CASE SendIntent(c, p)
    BY <1>1, <1>3, <2>3, SendIntentOnce
  <2>4. CASE MarkMessage(c, p) /\ UNCHANGED <<storeVars, published, errors>>
    BY <1>1, <1>3, <2>4, MarkMessageOnce
  <2>5. CASE work[c][p].stage \in ResolveStage
    BY <1>1, <1>3, <1>6, <2>5, ResolveOnce
  <2> QED
    BY <1>6, <2>1, <2>2, <2>3, <2>4, <2>5
    DEF HandlerMove, ResolveIntents, ResolveNeeds, CheckDuplication, DeleteLocation,
        UpdateLocation, IndexLocation, At, ResolveStage
<1> QED
  BY <1>4, <1>5, <1>6, StepCases

LEMMA InitOnce == Init => OnceInv
<1> SUFFICES ASSUME Init PROVE HandledOnce
    BY DEF OnceInv
<1>1. /\ entries = <<>> /\ \A p \in Partition : log[p] = <<>>
      /\ \A d \in DocId : index[d].entry = 0
      /\ \A c \in Consumer, p \in Partition : At(c, p, "off")
  BY DEF Init, GroupInit, StoreInit, NoDocument, NoWorkers, Worker, At
<1> QED
  BY <1>1 DEF HandledOnce, OneIntent, TouchedOnce, IndexesTable, DocsMatch, At

(***************************************************************************)
(* As long as no message is delivered or sent twice, every document shows  *)
(* the intents its row has in the table, and no row that was deleted.      *)
(***************************************************************************)
THEOREM IndexAgreesWithTable == Spec => []IndexMatchesRow
<1>1. IInv /\ EffectsInv /\ SessionInv /\ OnceInv /\ [Next]_vars => OnceInv'
  BY NextOnce
<1>2. OnceInv => IndexMatchesRow
  BY DEF OnceInv, HandledOnce, DocsMatch, IndexMatchesRow
<1> QED
  BY <1>1, <1>2, InitOnce, SessionHolds, PTL DEF Spec
=============================================================================
