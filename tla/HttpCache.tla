------------------------------ MODULE HttpCache ------------------------------
(***************************************************************************)
(* The requests of the API server (cmd/api), through its middlewares to    *)
(* its handlers: auth, then the response cache in redis, then the handler  *)
(* and the database.  The instances of the server share the redis and the  *)
(* database, so any number of requests are in progress at once.            *)
(*                                                                         *)
(* A response is kept under the hash of its whole URL, query string        *)
(* included.  Of a table the model keeps a version, the number of writes   *)
(* it has seen, and of a response the version it was made from.            *)
(***************************************************************************)
EXTENDS Integers

CONSTANTS Request,      \* slots for concurrent requests
          Table,        \* feeds_location and needs
          FedTable,     \* the tables that the consumers write as well
          DataUrl,      \* the URLs that are answered from a table
          ListUrl,      \* those of them that answer with a list of rows
          TableOf,      \* TableOf[u]: that table
          WriteUrl,     \* the URLs, without query, that PATCH or POST change
          BatchUrl,     \* those that are written by a batch, /feeds/areas
          PruneUrl,     \* /caches/prune
          MaxWrites,    \* bound on the writes to a table
          MaxFailures   \* bound on failing calls of the database and of redis

ASSUME HttpCacheAssumption ==
    /\ TableOf \in [DataUrl -> Table]
    /\ FedTable \subseteq Table
    /\ WriteUrl \union ListUrl \subseteq DataUrl
    /\ BatchUrl \subseteq WriteUrl
    /\ PruneUrl \notin DataUrl
    /\ MaxWrites \in Nat
    /\ MaxFailures \in Nat

VARIABLES db,         \* db[t]: the version of table t
          cache,      \* cache[u]: the body kept under the hash of u
          request,    \* request[r]: the request in slot r
          failures,   \* how many calls have failed
          written,    \* history: written[u] is the version the last write by u made
          overlap     \* history: overlap[u], since u was last quiet a GET and a write
                      \* of u were in progress at once (a write until its transaction
                      \* is over), or a write could not delete

vars == <<db, cache, request, failures, written, overlap>>

Url == DataUrl \union {PruneUrl}

(***************************************************************************)
(* data: the rows of a version.  partial: some of them, the reading of the *)
(* rest having failed.  error: the "{}" that ctx.JSON(err) makes of an     *)
(* error, with status 200.  ok: the text of SendStatus(200).  status: the  *)
(* body of any other status.                                               *)
(***************************************************************************)
Body == [kind: {"none", "data", "partial", "error", "ok", "status"}, version: Nat]
NoBody == [kind |-> "none", version |-> 0]
Data(v) == [kind |-> "data", version |-> v]
Text(kind) == [kind |-> kind, version |-> 0]

(***************************************************************************)
(* GET and HEAD read; WRITE stands for the PATCH or POST of the URL.  Only *)
(* the latter needs the api key.                                           *)
(***************************************************************************)
Method == {"GET", "HEAD", "WRITE"}
Stage == {"auth", "lookup", "delete", "handler", "writing", "fill", "answered"}
RequestRecord == [method: Method, url: Url, keyed: BOOLEAN, stage: Stage, body: Body,
                  own: BOOLEAN,    \* the handler has run for this request
                  sent: BOOLEAN]   \* its statements are with the database, uncommitted
Idle == [method |-> "GET", url |-> PruneUrl, keyed |-> FALSE, stage |-> "answered",
         body |-> NoBody, own |-> FALSE, sent |-> FALSE]

InProgress(r) == request[r].stage # "answered"

(* Of a write there is more to come until its transaction is over. *)
Open(r) == InProgress(r) \/ request[r].sent

At(r, stage) == request[r].stage = stage
Goto(r, stage) == request' = [request EXCEPT ![r].stage = stage]
Answer(r, body) == request' = [request EXCEPT ![r].stage = "answered", ![r].body = body]

Fail ==
    /\ failures < MaxFailures
    /\ failures' = failures + 1

(* A GET and a write of the same URL are in progress at once. *)
Overlaps(method, u) ==
    \E r \in Request : /\ Open(r)
                       /\ request[r].url = u
                       /\ {method, request[r].method} = {"GET", "WRITE"}

Quiet(u) ==
    /\ cache[u] = NoBody
    /\ \A r \in Request : Open(r) => request[r].url # u

-----------------------------------------------------------------------------
Arrive(r) ==
    /\ ~Open(r)
    /\ \E method \in Method, u \in Url, keyed \in BOOLEAN :
          /\ method = "WRITE" => u \in WriteUrl
          /\ method # "WRITE" => ~keyed
          /\ request' = [request EXCEPT ![r] =
                [method |-> method, url |-> u, keyed |-> keyed, stage |-> "auth",
                 body |-> NoBody, own |-> FALSE, sent |-> FALSE]]
          /\ overlap' = IF u \in WriteUrl
                        THEN [overlap EXCEPT ![u] = ~Quiet(u) /\ (@ \/ Overlaps(method, u))]
                        ELSE overlap
    /\ UNCHANGED <<db, cache, failures, written>>

(* auth.New: a write without the key is answered 401, before the cache is reached. *)
Authorize(r) ==
    /\ At(r, "auth")
    /\ IF request[r].method = "WRITE" /\ ~request[r].keyed
       THEN Answer(r, Text("status"))
       ELSE Goto(r, IF request[r].method = "GET" THEN "lookup" ELSE "delete")
    /\ UNCHANGED <<db, cache, failures, written, overlap>>

(* cache.New, GET: what is kept is the answer; a failing redis counts as a miss. *)
Lookup(r) ==
    /\ At(r, "lookup")
    /\ \/ /\ cache[request[r].url] # NoBody
          /\ Answer(r, cache[request[r].url])
          /\ UNCHANGED failures
       \/ /\ cache[request[r].url] = NoBody
          /\ Goto(r, "handler")
          /\ UNCHANGED failures
       \/ Fail /\ Goto(r, "handler")
    /\ UNCHANGED <<db, cache, written, overlap>>

(* Mutant: the cache lets every other method pass. *)
DeleteNothing(r) ==
    /\ At(r, "delete")
    /\ Goto(r, "handler")
    /\ UNCHANGED <<db, cache, failures, written, overlap>>

(***************************************************************************)
(* cache.New, any other method: the entry of the very same URL goes, and   *)
(* then the handler runs.  A failure is printed.                           *)
(***************************************************************************)
DeleteEntry(r) ==
    /\ At(r, "delete")
    /\ Goto(r, "handler")
    /\ \/ /\ cache' = [cache EXCEPT ![request[r].url] = NoBody]
          /\ UNCHANGED <<failures, overlap>>
       \/ /\ Fail
          /\ overlap' = IF request[r].url \in WriteUrl
                        THEN [overlap EXCEPT ![request[r].url] = TRUE] ELSE overlap
          /\ UNCHANGED cache
    /\ UNCHANGED <<db, written>>

(* The answer of a handler with status 200: a GET has it kept. *)
Respond(r, body) ==
    request' = [request EXCEPT ![r].body = body, ![r].own = TRUE,
                   ![r].stage = IF request[r].method = "GET" THEN "fill" ELSE "answered"]

(* Mutant: what the handler answered is kept whatever its status. *)
ReadKeepsAnyStatus(r) ==
    LET u == request[r].url
    IN  /\ At(r, "handler")
        /\ request[r].method # "WRITE"
        /\ u \in DataUrl
        /\ \/ /\ Respond(r, Data(db[TableOf[u]]))
              /\ UNCHANGED failures
           \/ /\ Fail
              /\ Respond(r, Text("error")) \/ Respond(r, Text("status"))
        /\ UNCHANGED <<db, cache, written, overlap>>

(***************************************************************************)
(* A handler that reads: the rows as they are; or the rows before the one  *)
(* that failed, as rows.Err is not asked for; or the error, with status    *)
(* 200; or a panic, of which recover.New makes a 500.                      *)
(***************************************************************************)
Read(r) ==
    LET u == request[r].url
    IN  /\ At(r, "handler")
        /\ request[r].method # "WRITE"
        /\ u \in DataUrl
        /\ \/ /\ Respond(r, Data(db[TableOf[u]]))
              /\ UNCHANGED failures
           \/ /\ Fail
              /\ \/ Respond(r, Text("error"))
                 \/ u \in ListUrl /\ Respond(r, Text("partial"))
                 \/ Answer(r, Text("status"))
        /\ UNCHANGED <<db, cache, written, overlap>>

(* A write is answered with a status, or with the error and status 200. *)
AnswerNoRows(r) == Answer(r, Text("status")) \/ Answer(r, Text("error"))

(***************************************************************************)
(* A handler that writes has nothing to send, as the request does not      *)
(* decode or there is no connection; or it sends its statements.           *)
(***************************************************************************)
Write(r) ==
    /\ At(r, "handler")
    /\ request[r].method = "WRITE"
    /\ \/ AnswerNoRows(r)
       \/ request' = [request EXCEPT ![r].stage = "writing", ![r].sent = TRUE]
    /\ UNCHANGED <<db, cache, failures, written, overlap>>

(* The database commits what was sent, or undoes it. *)
EndWrite(r) ==
    LET u == request[r].url
        t == TableOf[u]
    IN  /\ request[r].sent
        /\ request' = [request EXCEPT ![r].sent = FALSE]
        /\ \/ /\ db[t] < MaxWrites
              /\ db' = [db EXCEPT ![t] = @ + 1]
              /\ written' = [written EXCEPT ![u] = db[t] + 1]
           \/ UNCHANGED <<db, written>>
        /\ UNCHANGED <<cache, failures, overlap>>

(***************************************************************************)
(* CreateNeed returns when its statement is committed or undone;           *)
(* UpdateFeedLocations on the first result of its batch, which may be      *)
(* there before the commit.  A call that breaks off or runs out of time    *)
(* returns too, and what it has sent may be committed all the same.        *)
(***************************************************************************)
AnswerWrite(r) ==
    /\ At(r, "writing")
    /\ \/ /\ request[r].sent => request[r].url \in BatchUrl
          /\ UNCHANGED failures
       \/ Fail
    /\ AnswerNoRows(r)
    /\ UNCHANGED <<db, cache, written, overlap>>

(* InvalidateCache, the handler of /caches/prune: FlushDB, or status 500. *)
Prune(r) ==
    /\ At(r, "handler")
    /\ request[r].url = PruneUrl
    /\ \/ /\ cache' = [u \in Url |-> NoBody]
          /\ Respond(r, Text("ok"))
          /\ UNCHANGED failures
       \/ /\ Fail
          /\ Answer(r, Text("status"))
          /\ UNCHANGED cache
    /\ UNCHANGED <<db, written, overlap>>

(* cache.New again: a 200 with a body is kept for five minutes; SetKey may fail. *)
Fill(r) ==
    /\ At(r, "fill")
    /\ Goto(r, "answered")
    /\ \/ /\ cache' = [cache EXCEPT ![request[r].url] = request[r].body]
          /\ UNCHANGED failures
       \/ Fail /\ UNCHANGED cache
    /\ UNCHANGED <<db, written, overlap>>

(* Mutant: an entry is kept without a time to live. *)
ExpireNever(u) == FALSE

(* Redis: the five minutes of an entry are over. *)
Expire(u) ==
    /\ cache[u] # NoBody
    /\ cache' = [cache EXCEPT ![u] = NoBody]
    /\ UNCHANGED <<db, request, failures, written, overlap>>

(* The consumers write too, and know nothing of the cache. *)
ConsumerWrite(t) ==
    /\ db[t] < MaxWrites
    /\ db' = [db EXCEPT ![t] = @ + 1]
    /\ UNCHANGED <<cache, request, failures, written, overlap>>

-----------------------------------------------------------------------------
Init ==
    /\ db = [t \in Table |-> 0]
    /\ cache = [u \in Url |-> NoBody]
    /\ request = [r \in Request |-> Idle]
    /\ failures = 0
    /\ written = [u \in WriteUrl |-> 0]
    /\ overlap = [u \in WriteUrl |-> FALSE]

Serve(r) ==
    \/ Authorize(r)
    \/ Lookup(r)
    \/ DeleteEntry(r)
    \/ Read(r)
    \/ Write(r)
    \/ AnswerWrite(r)
    \/ Prune(r)
    \/ Fill(r)

Next ==
    \/ \E r \in Request : Arrive(r) \/ Serve(r) \/ EndWrite(r)
    \/ \E u \in Url : Expire(u)
    \/ \E t \in FedTable : ConsumerWrite(t)

Spec == Init /\ [][Next]_vars

(***************************************************************************)
(* Redis expires what is kept, and a read that has come in is served, as   *)
(* every call of a read has a timeout.  A PATCH has none.                  *)
(***************************************************************************)
FairSpec ==
    /\ Spec
    /\ \A u \in Url : WF_vars(Expire(u))
    /\ \A r \in Request : WF_vars(request[r].method # "WRITE" /\ Serve(r))

-----------------------------------------------------------------------------
(* What a 200 can have brought; no other status is ever kept. *)
Kept == {body \in Body : body.kind # "status"}

(***************************************************************************)
(* The values the variables range over: a body that is kept, or is about   *)
(* to be, came with status 200.                                            *)
(***************************************************************************)
TypeOK ==
    /\ db \in [Table -> 0..MaxWrites]
    /\ cache \in [Url -> Kept]
    /\ request \in [Request -> RequestRecord]
    /\ \A r \in Request : At(r, "fill") => request[r].body \in Kept
    /\ failures \in 0..MaxFailures
    /\ written \in [WriteUrl -> 0..MaxWrites]
    /\ overlap \in [WriteUrl -> BOOLEAN]

Holds(u, kind) == cache[u].kind = kind

(***************************************************************************)
(* cache.New deletes the entry of a URL before the handler writes: that is *)
(* enough to never keep rows older than the last write of that URL, as     *)
(* long as no GET of the URL came between the arrival of a write of it and *)
(* its commit.  The answer of a PATCH is not the end of that time.         *)
(***************************************************************************)
FreshWithoutOverlap ==
    \A u \in WriteUrl :
        Holds(u, "data") /\ ~overlap[u] => cache[u].version >= written[u]

(***************************************************************************)
(* When the writes end, of the API and of the consumers, so does the       *)
(* serving of old rows: from some time on what is kept is what is stored.  *)
(***************************************************************************)
EventuallyConsistent ==
    <>[](\A u \in DataUrl :
            Holds(u, "data") => cache[u].version = db[TableOf[u]])

-----------------------------------------------------------------------------
(* What comments of the code say, and the code does not keep. *)

(***************************************************************************)
(* middleware/cache/cache.go:26: "Since there will be an update in db,     *)
(* better to remove cache entries for this url".  After the update no rows *)
(* from before it are kept under this URL.                                 *)
(***************************************************************************)
WriteRemovesEntry ==
    \A u \in WriteUrl : Holds(u, "data") => cache[u].version >= written[u]

(***************************************************************************)
(* middleware/cache/cache.go:25: "Don't cache write endpoints".  Whoever   *)
(* is told by /caches/prune that all went well has had the cache flushed.  *)
(***************************************************************************)
PruneFlushes ==
    \A r \in Request :
        request[r].url = PruneUrl /\ request[r].body = Text("ok") => request[r].own

(***************************************************************************)
(* handler/get_feed_areas.go:19: "@Success 200 {object} []feeds.Result".   *)
(* What a GET of a table answers with status 200 is the rows.              *)
(***************************************************************************)
SuccessIsResult ==
    \A r \in Request :
        /\ request[r].method = "GET"
        /\ request[r].url \in DataUrl
        /\ ~InProgress(r)
        => request[r].body.kind \in {"data", "status"}
=============================================================================
