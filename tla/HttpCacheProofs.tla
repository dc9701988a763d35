--------------------------- MODULE HttpCacheProofs ---------------------------
(***************************************************************************)
(* Proofs about the response cache, for every number of requests at once,  *)
(* every set of URLs and tables, and every number of writes and failures.  *)
(***************************************************************************)
EXTENDS HttpCache, TLAPS

-----------------------------------------------------------------------------
(* The inductive invariant. *)

(* A write is of a URL that has one, and only a GET is looked up and kept. *)
MethodsFit ==
    \A r \in Request : /\ request[r].method = "WRITE" => request[r].url \in WriteUrl
                       /\ At(r, "lookup") \/ At(r, "fill") => request[r].method = "GET"
                       /\ At(r, "writing") \/ request[r].sent => request[r].method = "WRITE"

(* The request in slot r, or its transaction, is in progress, by that method, of u. *)
Of(r, method, u) == Open(r) /\ request[r].method = method /\ request[r].url = u

(* Its handler is about to write, or has written what is not committed. *)
Writing(r) == At(r, "handler") \/ request[r].sent

(* Rows in body are no older than the last write of u. *)
NoOlder(body, u) == body.kind = "data" => body.version >= written[u]

(***************************************************************************)
(* A URL that has seen no overlap: it is not read and written at once;     *)
(* what is about to be kept of it, and what is kept, is no older than its  *)
(* last write; and nothing is kept while a write of it may still commit.    *)
(***************************************************************************)
Fresh(u) ==
    /\ \A r, s \in Request : ~(Of(r, "GET", u) /\ Of(s, "WRITE", u))
    /\ \A r \in Request : Of(r, "GET", u) /\ At(r, "fill") => NoOlder(request[r].body, u)
    /\ \A r \in Request : Of(r, "WRITE", u) /\ Writing(r) => cache[u] = NoBody
    /\ NoOlder(cache[u], u)

FreshInv ==
    /\ MethodsFit
    /\ \A u \in WriteUrl : written[u] <= db[TableOf[u]]
    /\ \A u \in WriteUrl : ~overlap[u] => Fresh(u)

-----------------------------------------------------------------------------
(* What a step does to the request it serves. *)

(* It stays the same request, and the others are left alone. *)
Moved(r) ==
    /\ request' \in [Request -> RequestRecord]
    /\ \A q \in Request : q # r => request'[q] = request[q]
    /\ request'[r].method = request[r].method
    /\ request'[r].url = request[r].url

LEMMA BodyTypes ==
    /\ Kept \subseteq Body
    /\ NoBody \in Kept
    /\ \A v \in Nat : Data(v) \in Kept
    /\ \A kind \in {"partial", "error", "ok"} : Text(kind) \in Kept
    /\ Text("status") \in Body
BY DEF Kept, Body, NoBody, Data, Text

LEMMA GotoMoves ==
    ASSUME TypeOK, NEW r \in Request, NEW stage \in Stage, Goto(r, stage)
    PROVE  /\ Moved(r) /\ request'[r].stage = stage /\ request'[r].body = request[r].body
           /\ request'[r].sent = request[r].sent
BY DEF TypeOK, Goto, Moved, RequestRecord

LEMMA AnswerMoves ==
    ASSUME TypeOK, NEW r \in Request, NEW body \in Body, Answer(r, body)
    PROVE  Moved(r) /\ request'[r].stage = "answered" /\ request'[r].sent = request[r].sent
<1> DEFINE q == request[r]
           new == [q EXCEPT !.stage = "answered", !.body = body]
<1>1. request' = [request EXCEPT ![r] = new]
  BY DEF Answer
<1>2. q \in RequestRecord
  BY DEF TypeOK
<1>3. /\ new \in RequestRecord
      /\ new.method = q.method /\ new.url = q.url /\ new.sent = q.sent
      /\ new.stage = "answered"
  BY <1>2 DEF RequestRecord, Stage
<1> HIDE DEF q, new
<1> QED
  BY <1>1, <1>3 DEF Moved, TypeOK, q

LEMMA RespondMoves ==
    ASSUME TypeOK, NEW r \in Request, NEW body \in Body, Respond(r, body)
    PROVE  /\ Moved(r) /\ request'[r].sent = request[r].sent
           /\ request'[r].stage \in {"fill", "answered"}
           /\ request'[r].stage = "fill" => request[r].method = "GET" /\ request'[r].body = body
<1> DEFINE q == request[r]
           stage == IF q.method = "GET" THEN "fill" ELSE "answered"
           new == [q EXCEPT !.body = body, !.own = TRUE, !.stage = stage]
<1>1. request' = [request EXCEPT ![r] = new]
  BY DEF Respond
<1>2. q \in RequestRecord
  BY DEF TypeOK
<1>3. /\ new \in RequestRecord
      /\ new.method = q.method /\ new.url = q.url /\ new.sent = q.sent
      /\ new.stage = stage /\ new.body = body
  BY <1>2 DEF RequestRecord, Stage
<1> HIDE DEF q, new
<1> QED
  BY <1>1, <1>3 DEF Moved, TypeOK, q

LEMMA WriteMoves ==
    ASSUME TypeOK, NEW r \in Request, Write(r) \/ AnswerWrite(r)
    PROVE  /\ Moved(r)
           /\ request'[r].stage \in {"writing", "answered"}
           /\ request'[r].sent => request[r].method = "WRITE" \/ request[r].sent
           /\ UNCHANGED <<db, cache, written, overlap>>
<1>1. CASE AnswerNoRows(r)
  BY <1>1, AnswerMoves, BodyTypes DEF Write, AnswerWrite, AnswerNoRows
<1>2. CASE Write(r) /\ request' = [request EXCEPT ![r].stage = "writing", ![r].sent = TRUE]
  <2> DEFINE q == request[r]
             new == [q EXCEPT !.stage = "writing", !.sent = TRUE]
  <2>1. request' = [request EXCEPT ![r] = new]
    BY <1>2
  <2>2. q \in RequestRecord
    BY DEF TypeOK
  <2>3. /\ new \in RequestRecord
        /\ new.method = q.method /\ new.url = q.url /\ new.stage = "writing"
    BY <2>2 DEF RequestRecord, Stage
  <2> HIDE DEF q, new
  <2> QED
    BY <1>2, <2>1, <2>3 DEF Write, Moved, TypeOK, q
<1> QED
  BY <1>1, <1>2 DEF Write, AnswerWrite

-----------------------------------------------------------------------------
(* Every request that moves comes from an action of its own. *)
LEMMA ServeMoves ==
    ASSUME TypeOK, MethodsFit, NEW r \in Request, Serve(r)
    PROVE  /\ Moved(r) /\ InProgress(r)
           /\ request'[r].stage \in {"lookup", "fill"} => request[r].method = "GET"
           /\ request'[r].stage = "writing" \/ request'[r].sent => request[r].method = "WRITE"
           /\ request'[r].stage = "fill" => request'[r].body \in Kept
<1>1. CASE Authorize(r)
  BY <1>1, GotoMoves, AnswerMoves, BodyTypes DEF Authorize, At, InProgress, Stage, MethodsFit
<1>2. CASE Lookup(r)
  <2>1. cache[request[r].url] \in Body
    BY BodyTypes DEF TypeOK, RequestRecord
  <2> QED
    BY <1>2, <2>1, GotoMoves, AnswerMoves DEF Lookup, At, InProgress, Stage, MethodsFit
<1>3. CASE DeleteEntry(r)
  BY <1>3, GotoMoves DEF DeleteEntry, At, InProgress, Stage, MethodsFit
<1>4. CASE Read(r)
  <2>1. Data(db[TableOf[request[r].url]]) \in Kept
    BY <1>4, BodyTypes, HttpCacheAssumption DEF Read, TypeOK
  <2> QED
    BY <1>4, <2>1, RespondMoves, AnswerMoves, BodyTypes DEF Read, At, InProgress, MethodsFit
<1>5. CASE Write(r) \/ AnswerWrite(r)
  BY <1>5, WriteMoves DEF Write, AnswerWrite, MethodsFit, At, InProgress
<1>6. CASE Prune(r)
  BY <1>6, RespondMoves, AnswerMoves, BodyTypes DEF Prune, At, InProgress, MethodsFit
<1>7. CASE Fill(r)
  BY <1>7, GotoMoves DEF Fill, At, InProgress, Stage, MethodsFit
<1> QED
  BY <1>1, <1>2, <1>3, <1>4, <1>5, <1>6, <1>7 DEF Serve

(* A request that arrives is at its first stage. *)
LEMMA ArriveMoves ==
    ASSUME TypeOK, NEW r \in Request, Arrive(r)
    PROVE  /\ request' \in [Request -> RequestRecord]
           /\ \A q \in Request : q # r => request'[q] = request[q]
           /\ request'[r].stage = "auth"
           /\ request'[r].method = "WRITE" => request'[r].url \in WriteUrl
           /\ ~request'[r].sent
           /\ ~Open(r)
BY BodyTypes DEF TypeOK, Arrive, RequestRecord, Stage

(* A transaction that is over leaves its request at its stage. *)
LEMMA EndWriteMoves ==
    ASSUME TypeOK, NEW r \in Request, EndWrite(r)
    PROVE  /\ Moved(r) /\ request[r].sent /\ ~request'[r].sent
           /\ request'[r].stage = request[r].stage
           /\ request'[r].body = request[r].body
           /\ UNCHANGED <<cache, failures, overlap>>
BY DEF EndWrite, Moved, TypeOK, RequestRecord

-----------------------------------------------------------------------------
(* The types. *)

LEMMA InitTypes == Init => TypeOK /\ MethodsFit
<1> SUFFICES ASSUME Init PROVE TypeOK /\ MethodsFit
    OBVIOUS
<1>1. Idle \in RequestRecord
  BY BodyTypes DEF Idle, RequestRecord, Method, Url, Stage
<1>2. NoBody \in Kept
  BY BodyTypes
<1>3. \A r \in Request : ~At(r, "fill")
  BY DEF Init, Idle, At
<1>4. MethodsFit
  BY DEF Init, MethodsFit, Idle, At
<1> HIDE DEF Idle, NoBody, Kept, Body
<1>5. TypeOK
  BY <1>1, <1>2, <1>3, HttpCacheAssumption DEF Init, TypeOK
<1> QED
  BY <1>4, <1>5

LEMMA FailTypes ==
    ASSUME TypeOK, Fail
    PROVE  failures' \in 0..MaxFailures
BY HttpCacheAssumption DEF TypeOK, Fail

LEMMA NextTypes ==
    ASSUME TypeOK, MethodsFit, [Next]_vars
    PROVE  TypeOK' /\ MethodsFit'
<1>1. ASSUME NEW r \in Request, Arrive(r)
      PROVE  TypeOK' /\ MethodsFit'
  <2>1. MethodsFit'
    BY <1>1, ArriveMoves DEF MethodsFit, At
  <2>2. overlap' \in [WriteUrl -> BOOLEAN]
    BY <1>1 DEF Arrive, TypeOK
  <2>3. \A q \in Request : At(q, "fill")' => request'[q].body \in Kept
    BY <1>1, ArriveMoves DEF TypeOK, At
  <2> QED
    BY <1>1, <2>1, <2>2, <2>3, ArriveMoves DEF Arrive, TypeOK
<1>2. ASSUME NEW r \in Request, Serve(r)
      PROVE  TypeOK' /\ MethodsFit'
  <2>1. /\ MethodsFit' /\ request' \in [Request -> RequestRecord]
        /\ \A q \in Request : At(q, "fill")' => request'[q].body \in Kept
    BY <1>2, ServeMoves DEF MethodsFit, Moved, At, TypeOK
  <2>2. failures' \in 0..MaxFailures
    BY <1>2, FailTypes
    DEF Serve, Authorize, Lookup, DeleteEntry, Read, Write, AnswerWrite, Prune, Fill, TypeOK
  <2>3. overlap' \in [WriteUrl -> BOOLEAN]
    BY <1>2
    DEF Serve, Authorize, Lookup, DeleteEntry, Read, Write, AnswerWrite, Prune, Fill, TypeOK
  <2>4. cache' \in [Url -> Kept]
    BY <1>2, BodyTypes
    DEF Serve, Authorize, Lookup, DeleteEntry, Read, Write, AnswerWrite, Prune, Fill, TypeOK
  <2>5. UNCHANGED <<db, written>>
    BY <1>2
    DEF Serve, Authorize, Lookup, DeleteEntry, Read, Write, AnswerWrite, Prune, Fill
  <2> QED
    BY <2>1, <2>2, <2>3, <2>4, <2>5 DEF TypeOK
<1>6. ASSUME NEW r \in Request, EndWrite(r)
      PROVE  TypeOK' /\ MethodsFit'
  <2>1. /\ MethodsFit' /\ request' \in [Request -> RequestRecord]
        /\ \A q \in Request : At(q, "fill")' => request'[q].body \in Kept
    BY <1>6, EndWriteMoves DEF MethodsFit, Moved, At, TypeOK
  <2>2. TableOf[request[r].url] \in Table
    BY <1>6, HttpCacheAssumption DEF EndWrite, MethodsFit
  <2>3. db' \in [Table -> 0..MaxWrites] /\ written' \in [WriteUrl -> 0..MaxWrites]
    BY <1>6, <2>2, HttpCacheAssumption DEF EndWrite, TypeOK
  <2> QED
    BY <1>6, <2>1, <2>3, EndWriteMoves DEF TypeOK
<1>3. ASSUME NEW u \in Url, Expire(u)
      PROVE  TypeOK' /\ MethodsFit'
  BY <1>3, BodyTypes DEF Expire, TypeOK, MethodsFit, At
<1>4. ASSUME NEW t \in FedTable, ConsumerWrite(t)
      PROVE  TypeOK' /\ MethodsFit'
  BY <1>4, HttpCacheAssumption DEF ConsumerWrite, TypeOK, MethodsFit, At
<1>5. CASE UNCHANGED vars
  BY <1>5 DEF vars, TypeOK, MethodsFit, At
<1> QED
  BY <1>1, <1>2, <1>3, <1>4, <1>5, <1>6 DEF Next

LEMMA TypesHold == Spec => [](TypeOK /\ MethodsFit)
<1>1. (TypeOK /\ MethodsFit) /\ [Next]_vars => (TypeOK /\ MethodsFit)'
  BY NextTypes
<1> QED
  BY <1>1, InitTypes, PTL DEF Spec

(***************************************************************************)
(* The variables keep their types, whatever the requests do and however    *)
(* their calls fail.                                                       *)
(***************************************************************************)
THEOREM CacheTypeCorrect == Spec => []TypeOK
BY TypesHold, PTL

-----------------------------------------------------------------------------
(* Freshness, step by step. *)

(* What a request does not do, and what grows. *)
LEMMA OfMoves ==
    ASSUME NEW r \in Request, Moved(r), Open(r)
    PROVE  \A q \in Request : \A method, u : Of(q, method, u)' => Of(q, method, u)
BY DEF Moved, Of, Open, InProgress

(***************************************************************************)
(* A step that starts no request, writes nothing by u and keeps nothing of *)
(* u that was not there keeps u fresh.                                     *)
(***************************************************************************)
LEMMA FreshStays ==
    ASSUME NEW u \in WriteUrl, Fresh(u), written'[u] = written[u],
           \A q \in Request : \A method : Of(q, method, u)' => Of(q, method, u),
           cache'[u] \in {cache[u], NoBody},
           \A q \in Request : Of(q, "GET", u)' /\ At(q, "fill")' =>
               \/ At(q, "fill") /\ request'[q].body = request[q].body
               \/ NoOlder(request'[q].body, u),
           \A q \in Request : Of(q, "WRITE", u)' /\ Writing(q)' =>
               Writing(q) \/ cache'[u] = NoBody
    PROVE  Fresh(u)'
<1>1. NoOlder(cache'[u], u)
  BY DEF Fresh, NoOlder, NoBody
<1>2. NoOlder(cache[u], u)'
  BY <1>1 DEF NoOlder
<1>3. \A q, s \in Request : ~(Of(q, "GET", u)' /\ Of(s, "WRITE", u)')
  BY DEF Fresh
<1>4. ASSUME NEW q \in Request, Of(q, "GET", u)', At(q, "fill")'
      PROVE  NoOlder(request[q].body, u)'
  BY <1>4 DEF Fresh, NoOlder
<1>5. ASSUME NEW q \in Request, Of(q, "WRITE", u)', Writing(q)'
      PROVE  cache'[u] = NoBody
  BY <1>5 DEF Fresh
<1> QED
  BY <1>2, <1>3, <1>4, <1>5 DEF Fresh

(* What a request that is served does to a URL that is fresh. *)
LEMMA ServeFresh ==
    ASSUME TypeOK, MethodsFit, NEW r \in Request, Serve(r),
           NEW u \in WriteUrl, ~overlap'[u], Fresh(u), written[u] <= db[TableOf[u]]
    PROVE  Fresh(u)'
<1>1. /\ Moved(r) /\ InProgress(r)
      /\ request'[r].stage \in {"lookup", "fill"} => request[r].method = "GET"
  BY ServeMoves
<1>2. /\ \A q \in Request : \A method : Of(q, method, u)' => Of(q, method, u)
      /\ \A q \in Request : q # r => request'[q] = request[q]
  BY <1>1, OfMoves DEF Moved, Open
<1>3. u \in Url /\ u # PruneUrl /\ u \in DataUrl
  BY HttpCacheAssumption DEF Url
<1>4. CASE Authorize(r)
  <2>1. request'[r].stage \notin {"fill", "handler"} /\ request'[r].sent = request[r].sent
    BY <1>4, GotoMoves, AnswerMoves, BodyTypes DEF Authorize, Stage
  <2> QED
    BY <1>2, <1>4, <2>1, FreshStays DEF Authorize, At, Writing
<1>5. CASE Lookup(r)
  <2>1. cache[request[r].url] \in Body
    BY BodyTypes DEF TypeOK, RequestRecord
  <2>2. request'[r].stage # "fill" /\ request[r].method = "GET"
    BY <1>5, <2>1, GotoMoves, AnswerMoves DEF Lookup, Stage, MethodsFit
  <2> QED
    BY <1>1, <1>2, <1>5, <2>2, FreshStays DEF Lookup, At, Of, Moved, Writing
<1>6. CASE DeleteEntry(r)
  <2>1. request'[r].stage = "handler"
    BY <1>6, GotoMoves DEF DeleteEntry, Stage
  <2>2. cache'[u] \in {cache[u], NoBody}
    BY <1>3, <1>6 DEF DeleteEntry, TypeOK
  <2>3. request[r].url = u => cache'[u] = NoBody
    BY <1>3, <1>6 DEF DeleteEntry, TypeOK
  <2>4. written' = written
    BY <1>6 DEF DeleteEntry
  <2> QED
    BY <1>1, <1>2, <2>1, <2>2, <2>3, <2>4, FreshStays DEF At, Of, Moved, Writing
<1>7. CASE Read(r)
  <2> DEFINE rows == Data(db[TableOf[request[r].url]])
  <2>1. rows \in Kept /\ rows.kind = "data" /\ rows.version = db[TableOf[request[r].url]]
    BY <1>7, BodyTypes, HttpCacheAssumption DEF Read, TypeOK, Data
  <2>2. /\ request'[r].stage \in {"fill", "answered"}
        /\ request'[r].stage = "fill" =>
              request'[r].body \in {rows, Text("error"), Text("partial")}
    BY <1>7, <2>1, RespondMoves, AnswerMoves, BodyTypes DEF Read
  <2>3. request'[r].stage = "fill" /\ request[r].url = u => NoOlder(request'[r].body, u)
    BY <2>1, <2>2 DEF NoOlder, Text
  <2> HIDE DEF rows
  <2> QED
    BY <1>1, <1>2, <1>7, <2>2, <2>3, FreshStays DEF Read, At, Of, Moved, Writing
<1>8. CASE Write(r) \/ AnswerWrite(r)
  <2>1. /\ request'[r].stage \in {"writing", "answered"}
        /\ request'[r].sent => Writing(r)
        /\ UNCHANGED <<cache, written>>
    BY <1>8, WriteMoves, AnswerMoves, BodyTypes
    DEF Write, AnswerWrite, AnswerNoRows, Writing
  <2> QED
    BY <1>2, <2>1, FreshStays DEF At, Writing
<1>9. CASE Prune(r)
  <2>1. request[r].url # u /\ cache'[u] \in {cache[u], NoBody} /\ written' = written
    BY <1>3, <1>9 DEF Prune
  <2> QED
    BY <1>1, <1>2, <2>1, FreshStays DEF At, Of, Moved, Writing
<1>10. CASE Fill(r)
  <2>1. /\ request'[r].stage = "answered" /\ request'[r].sent = request[r].sent
        /\ UNCHANGED written
    BY <1>10, GotoMoves DEF Fill, Stage
  <2>2. CASE request[r].url = u
    <3>1. Of(r, "GET", u) /\ NoOlder(request[r].body, u)
      BY <1>1, <1>10, <2>2 DEF Fill, Of, Fresh, MethodsFit, Open
    <3>2. \A s \in Request : ~Of(s, "WRITE", u)
      BY <3>1 DEF Fresh
    <3>3. cache'[u] \in {cache[u], request[r].body}
      BY <1>3, <1>10, <2>2 DEF Fill, TypeOK
    <3>4. NoOlder(cache'[u], u)
      BY <3>1, <3>3 DEF Fresh
    <3>5. NoOlder(cache[u], u)'
      BY <2>1, <3>4 DEF NoOlder
    <3>6. ASSUME NEW q \in Request, Of(q, "GET", u)', At(q, "fill")'
          PROVE  NoOlder(request[q].body, u)'
      BY <1>2, <2>1, <3>6 DEF Fresh, NoOlder, At
    <3> QED
      BY <1>2, <3>2, <3>5, <3>6 DEF Fresh
  <2>3. CASE request[r].url # u
    <3>1. cache'[u] = cache[u]
      BY <1>3, <1>10, <2>3 DEF Fill, TypeOK
    <3> QED
      BY <1>2, <2>1, <3>1, FreshStays DEF At, Writing
  <2> QED
    BY <2>2, <2>3
<1> QED
  BY <1>4, <1>5, <1>6, <1>7, <1>8, <1>9, <1>10 DEF Serve

(***************************************************************************)
(* The commit of a write: no GET of u is in progress, and nothing is kept. *)
(***************************************************************************)
LEMMA EndWriteFresh ==
    ASSUME TypeOK, MethodsFit, NEW r \in Request, EndWrite(r), NEW u \in WriteUrl, Fresh(u)
    PROVE  Fresh(u)'
<1>1. /\ Moved(r) /\ request[r].sent /\ ~request'[r].sent
      /\ request'[r].stage = request[r].stage
      /\ UNCHANGED cache
  BY EndWriteMoves
<1>2. /\ \A q \in Request : \A method : Of(q, method, u)' => Of(q, method, u)
      /\ \A q \in Request : q # r => request'[q] = request[q]
  BY <1>1, OfMoves DEF Moved, Open
<1>3. CASE request[r].url = u
  <2>1. Of(r, "WRITE", u) /\ cache[u] = NoBody
    BY <1>1, <1>3 DEF Of, Open, Fresh, MethodsFit, Writing
  <2>2. \A q \in Request : ~Of(q, "GET", u)
    BY <2>1 DEF Fresh
  <2>3. NoOlder(cache[u], u)'
    BY <1>1, <2>1 DEF NoOlder, NoBody
  <2> QED
    BY <1>1, <1>2, <2>1, <2>2, <2>3 DEF Fresh
<1>4. CASE request[r].url # u
  <2>1. written'[u] = written[u] /\ ~Of(r, "GET", u)' /\ ~Of(r, "WRITE", u)'
    BY <1>1, <1>4 DEF EndWrite, TypeOK, Moved, Of
  <2> QED
    BY <1>1, <1>2, <2>1, FreshStays DEF At, Writing
<1> QED
  BY <1>3, <1>4

(***************************************************************************)
(* A request that arrives: u was quiet, or it overlaps no other request.   *)
(***************************************************************************)
LEMMA ArriveFresh ==
    ASSUME TypeOK, NEW r \in Request, Arrive(r),
           NEW u \in WriteUrl, ~overlap'[u], ~overlap[u] => Fresh(u)
    PROVE  Fresh(u)'
<1>1. /\ \A q \in Request : q # r => request'[q] = request[q]
      /\ request'[r].stage = "auth" /\ ~request'[r].sent /\ ~Open(r)
      /\ UNCHANGED <<cache, written>>
  BY ArriveMoves DEF Arrive
<1>2. \A q \in Request : \A method : q # r /\ Of(q, method, u)' => Of(q, method, u)
  BY <1>1 DEF Of, Open, InProgress
<1>3. CASE request'[r].url # u
  <2>1. overlap'[u] = overlap[u]
    BY <1>3 DEF Arrive, TypeOK
  <2>2. ~Of(r, "GET", u)' /\ ~Of(r, "WRITE", u)'
    BY <1>3 DEF Of
  <2> QED
    BY <1>1, <1>2, <2>1, <2>2 DEF Fresh, NoOlder, At, Writing
<1>4. CASE request'[r].url = u
  <2>1. PICK method \in Method :
            /\ request'[r].method = method
            /\ overlap' = [overlap EXCEPT ![u] = ~Quiet(u) /\ (@ \/ Overlaps(method, u))]
    <3>1. PICK method \in Method, v \in Url, keyed \in BOOLEAN :
              /\ request' = [request EXCEPT ![r] =
                    [method |-> method, url |-> v, keyed |-> keyed, stage |-> "auth",
                     body |-> NoBody, own |-> FALSE, sent |-> FALSE]]
              /\ overlap' = IF v \in WriteUrl
                            THEN [overlap EXCEPT ![v] = ~Quiet(v) /\ (@ \/ Overlaps(method, v))]
                            ELSE overlap
      BY DEF Arrive
    <3>2. request'[r].method = method /\ request'[r].url = v
      BY <3>1 DEF TypeOK
    <3> QED
      BY <1>4, <3>1, <3>2
  <2>2. CASE Quiet(u)
    <3>1. \A q \in Request : q # r => ~Of(q, "GET", u)' /\ ~Of(q, "WRITE", u)'
      BY <1>2, <2>2 DEF Quiet, Of
    <3>2. cache[u] = NoBody
      BY <2>2 DEF Quiet
    <3>3. NoOlder(cache[u], u)'
      BY <1>1, <3>2 DEF NoOlder, NoBody
    <3>4. ~(Of(r, "GET", u)' /\ Of(r, "WRITE", u)')
      BY DEF Of
    <3> QED
      BY <1>1, <3>1, <3>3, <3>4 DEF Fresh, At, Writing
  <2>3. CASE ~Quiet(u)
    <3>1. Fresh(u) /\ ~Overlaps(method, u)
      BY <2>1, <2>3 DEF TypeOK
    <3>2. \A q \in Request : /\ method = "WRITE" => ~Of(q, "GET", u)
                             /\ method = "GET" => ~Of(q, "WRITE", u)
      BY <3>1 DEF Overlaps, Of
    <3>3. \A q, s \in Request : ~(Of(q, "GET", u)' /\ Of(s, "WRITE", u)')
      BY <1>2, <2>1, <3>1, <3>2 DEF Fresh, Of
    <3> QED
      BY <1>1, <1>2, <3>1, <3>3 DEF Fresh, NoOlder, At, Writing
  <2> QED
    BY <2>2, <2>3
<1> QED
  BY <1>3, <1>4

LEMMA NextFresh ==
    ASSUME TypeOK, MethodsFit, FreshInv, [Next]_vars
    PROVE  FreshInv'
<1>1. \A u \in WriteUrl : u \in Url /\ u \in DataUrl /\ TableOf[u] \in Table
  BY HttpCacheAssumption DEF Url
<1>2. MethodsFit'
  BY NextTypes
<1>3. ASSUME NEW u \in WriteUrl
      PROVE  written'[u] <= db'[TableOf[u]]
  <2>1. written[u] <= db[TableOf[u]] /\ written[u] \in Nat /\ db[TableOf[u]] \in Nat
    BY <1>1, HttpCacheAssumption DEF FreshInv, TypeOK
  <2>2. CASE \E r \in Request : EndWrite(r)
    BY <1>1, <2>1, <2>2, HttpCacheAssumption DEF EndWrite, TypeOK
  <2>3. CASE \E t \in FedTable : ConsumerWrite(t)
    BY <1>1, <2>1, <2>3, HttpCacheAssumption DEF ConsumerWrite, TypeOK
  <2>4. CASE UNCHANGED <<db, written>>
    BY <2>1, <2>4
  <2> QED
    BY <2>2, <2>3, <2>4
    DEF Next, Serve, Arrive, Authorize, Lookup, DeleteEntry, Read, Write, AnswerWrite,
        Prune, Fill, Expire, vars
<1>4. ASSUME NEW u \in WriteUrl, ~overlap'[u]
      PROVE  Fresh(u)'
  <2>1. ~overlap[u] => Fresh(u)
    BY DEF FreshInv
  <2>2. CASE \E r \in Request : Arrive(r)
    BY <1>4, <2>1, <2>2, ArriveFresh
  <2>3. CASE \E r \in Request : Serve(r)
    <3>1. ~overlap[u]
      BY <1>4, <2>3
      DEF Serve, Authorize, Lookup, DeleteEntry, Read, Write, AnswerWrite, Prune, Fill, TypeOK
    <3> QED
      BY <1>4, <2>1, <2>3, <3>1, ServeFresh DEF FreshInv
  <2>4. CASE \E v \in Url : Expire(v)
    <3>1. /\ UNCHANGED <<request, written, overlap>>
          /\ cache'[u] \in {cache[u], NoBody}
      BY <1>1, <2>4 DEF Expire, TypeOK
    <3> QED
      BY <1>4, <2>1, <3>1, FreshStays DEF At, Of, Open, InProgress, Writing
  <2>5. CASE UNCHANGED <<cache, request, written, overlap>>
    BY <1>4, <2>1, <2>5, FreshStays DEF At, Of, Open, InProgress, Writing
  <2>6. CASE \E r \in Request : EndWrite(r)
    BY <1>4, <2>1, <2>6, EndWriteFresh, EndWriteMoves
  <2> QED
    BY <2>2, <2>3, <2>4, <2>5, <2>6 DEF Next, ConsumerWrite, vars
<1> QED
  BY <1>2, <1>3, <1>4 DEF FreshInv

LEMMA InitFresh == Init => FreshInv
<1> SUFFICES ASSUME Init PROVE FreshInv
    OBVIOUS
<1>1. \A u \in WriteUrl : u \in Url /\ TableOf[u] \in Table
  BY HttpCacheAssumption DEF Url
<1>2. \A u \in WriteUrl : cache[u] = NoBody /\ written[u] = 0 /\ db[TableOf[u]] = 0
  BY <1>1 DEF Init
<1>3. \A r \in Request : \A method, u : ~Of(r, method, u)
  BY DEF Init, Idle, Of, Open, InProgress
<1>4. \A u \in WriteUrl : Fresh(u)
  BY <1>2, <1>3 DEF Fresh, NoOlder, NoBody
<1> QED
  BY <1>2, <1>4, InitTypes DEF FreshInv

(***************************************************************************)
(* Deleting the entry before the write is enough, as long as no GET of the *)
(* URL is in progress together with a write of it whose transaction is not *)
(* over: then what is kept is never older than the last write.             *)
(***************************************************************************)
THEOREM KeptIsFresh == Spec => []FreshWithoutOverlap
<1>1. (TypeOK /\ MethodsFit) /\ FreshInv /\ [Next]_vars => FreshInv'
  BY NextFresh
<1>2. FreshInv => FreshWithoutOverlap
  BY DEF FreshInv, Fresh, NoOlder, FreshWithoutOverlap, Holds
<1> QED
  BY <1>1, <1>2, InitFresh, TypesHold, PTL DEF Spec
=============================================================================
