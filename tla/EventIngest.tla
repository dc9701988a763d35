------------------------------ MODULE EventIngest ------------------------------
(***************************************************************************)
(* POST /events.  The handler sends the feeds of the body one by one to    *)
(* the topics of their channels and waits for each.  A send that fails is  *)
(* printed and the loop goes on; whatever failed, the answer is 201.       *)
(***************************************************************************)
EXTENDS Integers, Sequences, FiniteSets

CONSTANTS Post,           \* the requests
          Channel,        \* the channels of feeds: one topic.raw.<channel> each
          Bodies,         \* the lists of channels a body may hold
          MaxSendErrors   \* bound: how many sends may fail

ASSUME EventIngestAssumption ==
    /\ Bodies \subseteq Seq(Channel)
    /\ MaxSendErrors \in Nat

VARIABLES producer,   \* whether NewProducer gave the process a producer
          body,       \* body[p]: the channels of the feeds of p
          sent,       \* sent[p]: how many turns of the loop are over
          answer,     \* answer[p]: "none", "sending", "created", "error" or "cut"
          topic,      \* topic[c]: what was written, a feed being its post and place
          late,       \* feeds of which an attempt may still be written
          failures    \* history: the feeds whose send returned an error

eventVars == <<producer, body, sent, answer, topic, late, failures>>

Answers == {"none", "sending", "created", "error", "cut"}
Feed(p) == {<<p, i>> : i \in 1..Len(body[p])}
Written(c) == {topic[c][k] : k \in 1..Len(topic[c])}

-----------------------------------------------------------------------------
EventInit ==
    /\ producer \in BOOLEAN
    /\ body = [p \in Post |-> <<>>]
    /\ sent = [p \in Post |-> 0]
    /\ answer = [p \in Post |-> "none"]
    /\ topic = [c \in Channel |-> <<>>]
    /\ late = {}
    /\ failures = {}

(* BodyParser: a body of feeds, or one that is no JSON. *)
Decode(p) ==
    /\ answer[p] = "none"
    /\ \/ \E l \in Bodies : /\ body' = [body EXCEPT ![p] = l]
                            /\ answer' = [answer EXCEPT ![p] = "sending"]
       \/ /\ answer' = [answer EXCEPT ![p] = "error"]
          /\ UNCHANGED body
    /\ UNCHANGED <<producer, sent, topic, late, failures>>

(* Mutant: the list of feeds is worked off from its end. *)
PlaceFromEnd(p) == Len(body[p]) - sent[p]

(* The place in the body of the feed p sends in this turn of its loop. *)
Place(p) == sent[p] + 1

Turn(p) == <<p, Place(p)>>
InLoop(p) == answer[p] = "sending" /\ sent[p] < Len(body[p])

(* Mutant: the loop is left at the first error. *)
NextTurnOrBreak(p) ==
    sent' = [sent EXCEPT ![p] = IF failures' = failures THEN @ + 1 ELSE Len(body[p])]

(* Mutant: the body of the loop advances its index as well. *)
NextTurnSkips(p) == sent' = [sent EXCEPT ![p] = @ + 2]

NextTurn(p) == sent' = [sent EXCEPT ![p] = @ + 1]

(***************************************************************************)
(* SendMessage returns.  Where the producer retried, an attempt before the *)
(* one that was acknowledged may still be on its way, to be written behind *)
(* it at once or after later feeds.  (Bound: one such attempt.)            *)
(***************************************************************************)
Send(p) ==
    /\ InLoop(p)
    /\ producer
    /\ topic' = [topic EXCEPT ![body[p][Place(p)]] = Append(@, Turn(p))]
    /\ late' \in {late, late \union {Turn(p)}}
    /\ UNCHANGED <<producer, body, answer, failures>>
    /\ NextTurn(p)

(* SendMessage gives up; what it sent may yet reach the topic. *)
SendFails(p) ==
    /\ InLoop(p)
    /\ producer
    /\ Cardinality(failures) < MaxSendErrors
    /\ failures' = failures \union {Turn(p)}
    /\ late' = late \union {Turn(p)}
    /\ NextTurn(p)
    /\ UNCHANGED <<producer, body, answer, topic>>

(* Mutant: without a producer the handler waits for one. *)
SendWaits(p) == FALSE

(* Without a producer the call panics, and recover.New answers 500. *)
SendPanics(p) ==
    /\ InLoop(p)
    /\ ~producer
    /\ answer' = [answer EXCEPT ![p] = "error"]
    /\ UNCHANGED <<producer, body, sent, topic, late, failures>>

SendStatus(p) ==
    /\ answer[p] = "sending"
    /\ sent[p] = Len(body[p])
    /\ answer' = [answer EXCEPT ![p] = "created"]
    /\ UNCHANGED <<producer, body, sent, topic, late, failures>>

(* An attempt the producer gave up reaches the broker after all, or never. *)
WriteLate(f) ==
    /\ f \in late
    /\ late' = late \ {f}
    /\ \/ topic' = [topic EXCEPT ![body[f[1]][f[2]]] = Append(@, f)]
       \/ UNCHANGED topic
    /\ UNCHANGED <<producer, body, sent, answer, failures>>

(* The process ends, and its loops with it: a send that was going on may    *)
(* still be written.  The next process makes its own producer.             *)
CutPosts ==
    /\ producer' \in BOOLEAN
    /\ late' = late \union {Turn(p) : p \in {q \in Post : InLoop(q) /\ producer}}
    /\ answer' = [p \in Post |-> IF answer[p] = "sending" THEN "cut" ELSE answer[p]]
    /\ UNCHANGED <<body, sent, topic, failures>>

PostStep(p) == Send(p) \/ SendFails(p) \/ SendPanics(p) \/ SendStatus(p)

EventNext ==
    \/ \E p \in Post : Decode(p) \/ PostStep(p)
    \/ \E f \in late : WriteLate(f)
    \/ CutPosts

EventSpec == EventInit /\ [][EventNext]_eventVars

(* SendMessage returns, if need be with the error of its last retry. *)
EventFairness == \A p \in Post : WF_eventVars(PostStep(p))

-----------------------------------------------------------------------------
(***************************************************************************)
(* The values the variables range over.                                    *)
(***************************************************************************)
EventTypeOK ==
    /\ producer \in BOOLEAN
    /\ body \in [Post -> Bodies \union {<<>>}]
    /\ sent \in [Post -> Nat]
    /\ \A p \in Post : sent[p] <= Len(body[p])
    /\ answer \in [Post -> Answers]
    /\ \A c \in Channel : Written(c) \subseteq UNION {Feed(p) : p \in Post}
    /\ late \union failures \subseteq UNION {Feed(p) : p \in Post}

(***************************************************************************)
(* 201 does not say that the feeds were written, but each of them was      *)
(* tried: what no topic holds is a feed whose own send failed.             *)
(***************************************************************************)
CreatedMeansTried ==
    \A p \in Post : answer[p] = "created" =>
        \A i \in 1..Len(body[p]) :
            <<p, i>> \in Written(body[p][i]) \union failures

(* In t the feed f was written before any copy of g. *)
Precedes(t, f, g) == \A m \in 1..Len(t) : t[m] = g => \E k \in 1..(m - 1) : t[k] = f

(***************************************************************************)
(* Each send waits for the one before: whatever is written twice or late,  *)
(* a feed of a post comes to its topic only after the feeds before it in   *)
(* the body, those apart whose send failed.  (A topic stands for the order *)
(* its partitions append in.)                                              *)
(***************************************************************************)
BodyOrderKept ==
    \A p \in Post : \A i, j \in 1..Len(body[p]) :
        i < j /\ body[p][i] = body[p][j] /\ <<p, i>> \notin failures =>
            Precedes(topic[body[p][j]], <<p, i>>, <<p, j>>)

(***************************************************************************)
(* However many sends fail, a post is answered unless its process ends.    *)
(***************************************************************************)
PostAnswered == \A p \in Post : answer[p] = "sending" ~> answer[p] \notin {"none", "sending"}
=============================================================================
