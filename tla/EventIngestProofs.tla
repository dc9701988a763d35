-------------------------- MODULE EventIngestProofs --------------------------
(***************************************************************************)
(* For any number of posts, channels and failures: an answer of 201 means  *)
(* that every feed of the body was sent, or that its own send failed.      *)
(***************************************************************************)
EXTENDS EventIngest, TLAPS

(* Whatever was written stays, and may be joined by more. *)
LEMMA WrittenGrows ==
    ASSUME NEW c \in Channel, NEW s \in Seq(Post \X Nat), topic[c] \in Seq(Post \X Nat),
           topic'[c] = topic[c] \o s
    PROVE  Written(c) \subseteq Written(c)'
<1>1. /\ Len(topic[c] \o s) = Len(topic[c]) + Len(s)
      /\ \A k \in 1..Len(topic[c]) : (topic[c] \o s)[k] = topic[c][k]
      /\ Len(topic[c]) \in Nat /\ Len(s) \in Nat
  OBVIOUS
<1> QED  BY <1>1 DEF Written

(* The part of the type invariant that the proof needs. *)
EventTypes ==
    /\ body \in [Post -> Seq(Channel)]
    /\ sent \in [Post -> Nat]
    /\ answer \in [Post -> Answers]
    /\ topic \in [Channel -> Seq(Post \X Nat)]
    /\ late \subseteq Post \X Nat

(* Each turn of the loop that is over has written its feed, or failed. *)
TurnsTried ==
    \A p \in Post :
        /\ answer[p] = "none" => sent[p] = 0
        /\ answer[p] = "created" => sent[p] = Len(body[p])
        /\ sent[p] <= Len(body[p])
        /\ \A i \in 1..sent[p], x \in Channel :
              body[p][i] = x => <<p, i>> \in Written(x) \union failures

TriedInv == EventTypes /\ TurnsTried

-----------------------------------------------------------------------------
(* What a step adds to the topics is added at their ends. *)
LEMMA AppendsKeep ==
    ASSUME EventTypes, NEW x, NEW s \in Seq(Post \X Nat),
           topic' = [topic EXCEPT ![x] = @ \o s]
    PROVE  /\ topic' \in [Channel -> Seq(Post \X Nat)]
           /\ \A c \in Channel : Written(c) \subseteq Written(c)'
<1>1. topic' \in [Channel -> Seq(Post \X Nat)]
  <2>1. CASE x \in Channel
    <3>1. topic[x] \o s \in Seq(Post \X Nat)  BY <2>1 DEF EventTypes
    <3> QED  BY <3>1 DEF EventTypes
  <2>2. CASE x \notin Channel
    <3>1. topic' = topic  BY <2>2 DEF EventTypes
    <3> QED  BY <3>1 DEF EventTypes
  <2> QED  BY <2>1, <2>2
<1>2. ASSUME NEW c \in Channel PROVE Written(c) \subseteq Written(c)'
  <2>0. topic[c] \in Seq(Post \X Nat)  BY DEF EventTypes
  <2>1. CASE c = x
    <3>1. topic'[c] = topic[c] \o s  BY <2>1 DEF EventTypes
    <3> QED  BY <2>0, <3>1, WrittenGrows
  <2>2. CASE c # x
    <3>1. topic'[c] = topic[c]  BY <2>2 DEF EventTypes
    <3> QED  BY <3>1 DEF Written
  <2> QED  BY <2>1, <2>2
<1> QED  BY <1>1, <1>2

LEMMA AppendIsConcat ==
    ASSUME NEW S, NEW t \in Seq(S), NEW e \in S
    PROVE  Append(t, e) = t \o <<e>>
<1>1. /\ <<e>> \in Seq(S) /\ Len(<<e>>) = 1 /\ <<e>>[1] = e /\ Len(t) \in Nat
      /\ t \o <<e>> \in Seq(S) /\ Len(t \o <<e>>) = Len(t) + 1
      /\ Append(t, e) \in Seq(S) /\ Len(Append(t, e)) = Len(t) + 1
  OBVIOUS
<1>2. ASSUME NEW k \in 1..(Len(t) + 1) PROVE Append(t, e)[k] = (t \o <<e>>)[k]
  BY SMTT(30), <1>1
<1> QED  BY SMTT(30), <1>1, <1>2

(* To append a feed to a topic is to add the list of that feed at its end. *)
LEMMA AppendedFeed ==
    ASSUME EventTypes, NEW f \in Post \X Nat, NEW x,
           topic' = [topic EXCEPT ![x] = Append(@, f)]
    PROVE  topic' = [topic EXCEPT ![x] = @ \o <<f>>]
<1>1. ASSUME NEW t \in Seq(Post \X Nat) PROVE Append(t, f) = t \o <<f>>
  BY AppendIsConcat
<1>2. DOMAIN topic = Channel  BY DEF EventTypes
<1>3. CASE x \in Channel
  <2>1. topic[x] \in Seq(Post \X Nat)  BY <1>3 DEF EventTypes
  <2>2. Append(topic[x], f) = topic[x] \o <<f>>  BY Zenon, <1>1, <2>1
  <2> QED  BY Zenon, <2>2
<1>4. CASE x \notin Channel
  BY <1>2, <1>4
<1> QED  BY <1>3, <1>4

(* A step in which no turn ends keeps what was tried. *)
LEMMA SameTurns ==
    ASSUME TriedInv, UNCHANGED <<body, sent, answer>>, failures \subseteq failures',
           \A c \in Channel : Written(c) \subseteq Written(c)'
    PROVE  TurnsTried'
<1>1. ASSUME NEW p \in Post, NEW i \in 1..sent[p], NEW x \in Channel, body[p][i] = x
      PROVE  <<p, i>> \in Written(x)' \union failures'
  <2>1. <<p, i>> \in Written(x) \union failures  BY <1>1 DEF TriedInv, TurnsTried
  <2> QED  BY <2>1
<1> QED  BY <1>1 DEF TriedInv, TurnsTried

(* The turn of p ends with its feed written or its send failed. *)
LEMMA NextTurnTried ==
    ASSUME TriedInv, NEW p \in Post, InLoop(p), NextTurn(p), UNCHANGED <<body, answer>>,
           failures \subseteq failures',
           \A c \in Channel : Written(c) \subseteq Written(c)',
           NEW y \in Channel, body[p][sent[p] + 1] = y,
           <<p, sent[p] + 1>> \in Written(y)' \union failures'
    PROVE  sent' \in [Post -> Nat] /\ TurnsTried'
<1> USE DEF TriedInv, EventTypes
<1>1. /\ sent[p] \in Nat /\ Len(body[p]) \in Nat /\ sent[p] < Len(body[p])
      /\ sent' = [sent EXCEPT ![p] = sent[p] + 1]
      /\ answer[p] = "sending"
  BY DEF InLoop, NextTurn
<1>2. sent' \in [Post -> Nat]  BY <1>1
<1>3. ASSUME NEW q \in Post
      PROVE  /\ answer[q] = "none" => sent'[q] = 0
             /\ answer[q] = "created" => sent'[q] = Len(body[q])
             /\ sent'[q] <= Len(body[q])
  BY <1>1 DEF TurnsTried
<1>4. ASSUME NEW q \in Post, NEW i \in 1..sent'[q], NEW x \in Channel, body[q][i] = x
      PROVE  <<q, i>> \in Written(x)' \union failures'
  <2>1. CASE i \in 1..sent[q]
    <3>1. <<q, i>> \in Written(x) \union failures  BY <1>4, <2>1 DEF TurnsTried
    <3> QED  BY <3>1
  <2>2. CASE i \notin 1..sent[q]
    <3>1. q = p /\ i = sent[p] + 1  BY <1>1, <1>4, <2>2
    <3>2. x = y  BY <1>4, <3>1
    <3> QED  BY <3>1, <3>2
  <2> QED  BY <2>1, <2>2
<1> QED  BY <1>2, <1>3, <1>4 DEF TurnsTried

LEMMA TriedInit == EventInit => TriedInv
<1> SUFFICES ASSUME EventInit PROVE TriedInv  OBVIOUS
<1>1. <<>> \in Seq(Channel) /\ <<>> \in Seq(Post \X Nat) /\ Len(<<>>) = 0  OBVIOUS
<1>2. EventTypes  BY <1>1 DEF EventInit, EventTypes, Answers
<1>3. TurnsTried  BY <1>1 DEF EventInit, TurnsTried
<1> QED  BY <1>2, <1>3 DEF TriedInv

LEMMA TriedNext == TriedInv /\ [EventNext]_eventVars => TriedInv'
<1> SUFFICES ASSUME TriedInv, [EventNext]_eventVars PROVE TriedInv'  OBVIOUS
<1>0. EventTypes /\ TurnsTried  BY DEF TriedInv
<1>1. CASE UNCHANGED eventVars
  <2>1. EventTypes'  BY <1>0, <1>1 DEF eventVars, EventTypes
  <2>2. \A c \in Channel : Written(c) \subseteq Written(c)'
    BY <1>1 DEF eventVars, Written
  <2>3. TurnsTried'  BY <1>1, <2>2, SameTurns DEF eventVars
  <2> QED  BY <2>1, <2>3 DEF TriedInv
<1>2. ASSUME NEW p \in Post, Decode(p) PROVE TriedInv'
  <2>1. /\ body' \in [Post -> Seq(Channel)]
        /\ answer' \in [Post -> Answers]
        /\ answer'[p] \in {"sending", "error"}
    BY <1>0, <1>2, EventIngestAssumption DEF Decode, EventTypes, Answers
  <2>2. sent[p] = 0 /\ UNCHANGED <<sent, topic, late, failures>>
    BY <1>0, <1>2 DEF Decode, TurnsTried
  <2>3. \A q \in Post \ {p} : body'[q] = body[q] /\ answer'[q] = answer[q]
    BY <1>0, <1>2 DEF Decode, EventTypes
  <2>4. EventTypes'  BY <1>0, <2>1, <2>2 DEF EventTypes
  <2>5. TurnsTried'
    <3>1. ASSUME NEW q \in Post
          PROVE  /\ answer'[q] = "none" => sent[q] = 0
                 /\ answer'[q] = "created" => sent[q] = Len(body'[q])
                 /\ sent[q] <= Len(body'[q])
                 /\ \A i \in 1..sent[q], x \in Channel :
                       body'[q][i] = x => <<q, i>> \in Written(x) \union failures
      <4>1. CASE q = p
        <5>1. Len(body'[q]) \in Nat  BY <2>1
        <5> QED  BY <2>1, <2>2, <4>1, <5>1
      <4>2. CASE q # p
        <5>1. body'[q] = body[q] /\ answer'[q] = answer[q]  BY <2>3, <4>2
        <5> QED  BY <1>0, <5>1 DEF TurnsTried
      <4> QED  BY <4>1, <4>2
    <3>2. \A x \in Channel : Written(x)' = Written(x)  BY <2>2 DEF Written
    <3> QED  BY <2>2, <3>1, <3>2 DEF TurnsTried
  <2> QED  BY <2>4, <2>5 DEF TriedInv
<1>3. ASSUME NEW p \in Post, Send(p) PROVE TriedInv'
  <2>1. PICK x \in Channel : x = body[p][sent[p] + 1]
    BY <1>0, <1>3 DEF Send, InLoop, EventTypes
  <2>2. PICK f \in Post \X Nat : f = <<p, sent[p] + 1>>
    <3>1. <<p, sent[p] + 1>> \in Post \X Nat  BY <1>0 DEF EventTypes
    <3> QED  BY <3>1
  <2>3. topic' = [topic EXCEPT ![x] = Append(@, f)]
    BY Zenon, <1>3, <2>1, <2>2 DEF Send, Place, Turn
  <2>4. topic[x] \in Seq(Post \X Nat) /\ <<f>> \in Seq(Post \X Nat)
    BY <1>0 DEF EventTypes
  <2>5. topic' = [topic EXCEPT ![x] = @ \o <<f>>]
    BY <1>0, <2>3, AppendedFeed
  <2>6. /\ topic' \in [Channel -> Seq(Post \X Nat)]
        /\ \A c \in Channel : Written(c) \subseteq Written(c)'
    BY <1>0, <2>4, <2>5, AppendsKeep
  <2>7. <<p, sent[p] + 1>> \in Written(x)'
    <3>1. topic'[x] = Append(topic[x], f)  BY <1>0, <2>3 DEF EventTypes
    <3>2. /\ Len(topic'[x]) = Len(topic[x]) + 1
          /\ Len(topic[x]) \in Nat
          /\ topic'[x][Len(topic[x]) + 1] = f
      BY <2>4, <3>1
    <3>3. Len(topic[x]) + 1 \in 1..Len(topic'[x])  BY <3>2
    <3> QED  BY <2>2, <3>2, <3>3 DEF Written
  <2>8. sent' \in [Post -> Nat] /\ TurnsTried'
    BY <1>3, <2>1, <2>6, <2>7, NextTurnTried DEF Send
  <2>9. late' \subseteq Post \X Nat
    BY <1>0, <1>3, <2>2 DEF Send, Turn, Place, EventTypes
  <2>10. EventTypes'  BY <1>0, <1>3, <2>6, <2>8, <2>9 DEF Send, EventTypes
  <2> QED  BY <2>8, <2>10 DEF TriedInv
<1>4. ASSUME NEW p \in Post, SendFails(p) PROVE TriedInv'
  <2>1. Turn(p) \in Post \X Nat
    BY <1>0, <1>4 DEF SendFails, InLoop, Place, Turn, EventTypes
  <2>2. \A c \in Channel : Written(c) \subseteq Written(c)'
    BY <1>4 DEF SendFails, Written
  <2>5. PICK x \in Channel : x = body[p][sent[p] + 1]
    BY <1>0, <1>4 DEF SendFails, InLoop, EventTypes
  <2>6. <<p, sent[p] + 1>> \in failures'  BY <1>4 DEF SendFails, Turn, Place
  <2>3. sent' \in [Post -> Nat] /\ TurnsTried'
    BY <1>4, <2>2, <2>5, <2>6, NextTurnTried DEF SendFails
  <2>4. EventTypes'  BY <1>0, <1>4, <2>1, <2>3 DEF SendFails, EventTypes
  <2> QED  BY <2>3, <2>4 DEF TriedInv
<1>5. ASSUME NEW p \in Post, SendPanics(p) \/ SendStatus(p) PROVE TriedInv'
  <2>1. PICK a \in {"error", "created"} :
           /\ answer' = [answer EXCEPT ![p] = a]
           /\ answer[p] = "sending"
           /\ a = "created" => sent[p] = Len(body[p])
    BY <1>5 DEF SendPanics, InLoop, SendStatus
  <2>2. UNCHANGED <<body, sent, topic, late, failures>>
    BY <1>5 DEF SendPanics, SendStatus
  <2>3. EventTypes'  BY <1>0, <2>1, <2>2 DEF EventTypes, Answers
  <2>4. TurnsTried'
    <3>1. ASSUME NEW q \in Post
          PROVE  /\ answer'[q] = "none" => sent[q] = 0
                 /\ answer'[q] = "created" => sent[q] = Len(body[q])
      BY SMTT(30), <1>0, <2>1 DEF EventTypes, TurnsTried
    <3>2. \A x \in Channel : Written(x)' = Written(x)  BY <2>2 DEF Written
    <3> QED  BY <1>0, <2>2, <3>1, <3>2 DEF TurnsTried
  <2> QED  BY <2>3, <2>4 DEF TriedInv
<1>6. ASSUME NEW f \in late, WriteLate(f) PROVE TriedInv'
  <2>1. UNCHANGED <<body, sent, answer, failures>>  BY <1>6 DEF WriteLate
  <2>2. /\ topic' \in [Channel -> Seq(Post \X Nat)]
        /\ \A c \in Channel : Written(c) \subseteq Written(c)'
    <3>1. CASE UNCHANGED topic  BY <1>0, <3>1 DEF EventTypes, Written
    <3>2. CASE topic' = [topic EXCEPT ![body[f[1]][f[2]]] = Append(@, f)]
      <4> DEFINE x == body[f[1]][f[2]]
      <4>1. f \in Post \X Nat /\ <<f>> \in Seq(Post \X Nat)  BY <1>0 DEF EventTypes
      <4>2. topic' = [topic EXCEPT ![x] = Append(@, f)]  BY Zenon, <3>2
      <4> HIDE DEF x
      <4>3. topic' = [topic EXCEPT ![x] = @ \o <<f>>]
        BY <1>0, <4>1, <4>2, AppendedFeed
      <4> QED  BY <1>0, <4>1, <4>3, AppendsKeep
    <3> QED  BY Zenon, <1>6, <3>1, <3>2 DEF WriteLate
  <2>3. TurnsTried'  BY <2>1, <2>2, SameTurns
  <2>4. EventTypes'
    <3>1. late' \subseteq late  BY <1>6 DEF WriteLate
    <3> QED  BY Zenon, <1>0, <2>1, <2>2, <3>1 DEF EventTypes
  <2> QED  BY <2>3, <2>4 DEF TriedInv
<1>7. CASE CutPosts
  <2>1. UNCHANGED <<body, sent, topic, failures>>  BY <1>7 DEF CutPosts
  <2>2. \A p \in Post : answer'[p] = answer[p] \/ answer'[p] = "cut"
    BY <1>7 DEF CutPosts
  <2>3. late' \subseteq Post \X Nat
    BY <1>0, <1>7 DEF CutPosts, EventTypes, Turn, Place
  <2>4. answer' \in [Post -> Answers]
    BY <1>0, <1>7 DEF CutPosts, EventTypes, Answers
  <2>5. EventTypes'  BY <1>0, <2>1, <2>3, <2>4 DEF EventTypes
  <2>6. TurnsTried'
    <3>1. ASSUME NEW q \in Post
          PROVE  /\ answer'[q] = "none" => sent[q] = 0
                 /\ answer'[q] = "created" => sent[q] = Len(body[q])
      BY <1>0, <2>2 DEF TurnsTried
    <3>2. \A x \in Channel : Written(x)' = Written(x)  BY <2>1 DEF Written
    <3> QED  BY <1>0, <2>1, <3>1, <3>2 DEF TurnsTried
  <2> QED  BY <2>5, <2>6 DEF TriedInv
<1> QED
  BY <1>1, <1>2, <1>3, <1>4, <1>5, <1>6, <1>7 DEF EventNext, PostStep

(***************************************************************************)
(* However many posts are handled at once and whatever fails, crashes      *)
(* included: 201 means that each feed of the body was tried.               *)
(***************************************************************************)
THEOREM EveryFeedIsTried == EventSpec => []CreatedMeansTried
<1>1. TriedInv => CreatedMeansTried
  BY DEF TriedInv, EventTypes, TurnsTried, CreatedMeansTried
<1> QED  BY TriedInit, TriedNext, <1>1, PTL DEF EventSpec

-----------------------------------------------------------------------------
(* The order of a topic. *)

(* The feed f is of a turn that is over, or of the one a post was cut in. *)
Passed(f) ==
    /\ f[2] \in 1..Len(body[f[1]])
    /\ \/ f[2] <= sent[f[1]]
       \/ answer[f[1]] = "cut" /\ f[2] = sent[f[1]] + 1

(* What was written, may be written or has failed was sent before. *)
FeedsPassed ==
    /\ \A f \in late \union failures : Passed(f)
    /\ \A c \in Channel : \A k \in 1..Len(topic[c]) : Passed(topic[c][k])

OrderInv ==
    /\ producer \in BOOLEAN /\ body \in [Post -> Bodies \union {<<>>}]
    /\ failures \subseteq Post \X Nat
    /\ FeedsPassed /\ BodyOrderKept

(* At the end of some topics f is added, and nothing else changes. *)
AddsOnly(f) ==
    \A c \in Channel :
        /\ Len(topic'[c]) \in Nat
        /\ \A k \in 1..Len(topic'[c]) :
              \/ k \in 1..Len(topic[c]) /\ topic'[c][k] = topic[c][k]
              \/ k \notin 1..Len(topic[c]) /\ topic'[c][k] = f

(* The elements of a concatenation. *)
LEMMA ConcatAt ==
    ASSUME NEW S, NEW a \in Seq(S), NEW b \in Seq(S), NEW k \in 1..Len(a \o b)
    PROVE  \/ k \in 1..Len(a) /\ (a \o b)[k] = a[k]
           \/ /\ k \notin 1..Len(a)
              /\ \E i \in 1..Len(b) : (a \o b)[k] = b[i]
<1>1. Len(a) \in Nat /\ Len(b) \in Nat /\ Len(a \o b) = Len(a) + Len(b)
  OBVIOUS
<1>2. CASE k \in 1..Len(a)
  BY <1>2
<1>3. CASE k \notin 1..Len(a)
  <2>1. k - Len(a) \in 1..Len(b)  BY <1>1, <1>3
  <2>2. (a \o b)[k] = b[k - Len(a)]  BY <1>1, <1>3
  <2> QED  BY <1>3, <2>1, <2>2
<1> QED  BY <1>2, <1>3

LEMMA AppendAdds ==
    ASSUME EventTypes, NEW x, NEW f \in Post \X Nat, NEW s \in Seq(Post \X Nat),
           \A i \in 1..Len(s) : s[i] = f,
           topic' = [topic EXCEPT ![x] = @ \o s]
    PROVE  AddsOnly(f)
<1>1. ASSUME NEW c \in Channel, NEW k \in 1..Len(topic'[c])
      PROVE  \/ k \in 1..Len(topic[c]) /\ topic'[c][k] = topic[c][k]
             \/ k \notin 1..Len(topic[c]) /\ topic'[c][k] = f
  <2>1. CASE c = x
    <3>1. topic[c] \in Seq(Post \X Nat) /\ topic'[c] = topic[c] \o s
      BY <2>1 DEF EventTypes
    <3> QED  BY SMTT(30), <3>1, ConcatAt
  <2>2. CASE c # x
    <3>1. topic'[c] = topic[c]  BY <2>2 DEF EventTypes
    <3> QED  BY <3>1
  <2> QED  BY <2>1, <2>2
<1>2. ASSUME NEW c \in Channel PROVE Len(topic'[c]) \in Nat
  <2>1. topic[c] \in Seq(Post \X Nat) /\ topic[c] \o s \in Seq(Post \X Nat)
    BY DEF EventTypes
  <2>2. topic'[c] = topic[c] \o s \/ topic'[c] = topic[c]  BY DEF EventTypes
  <2> QED  BY <2>1, <2>2
<1> QED  BY Zenon, <1>1, <1>2 DEF AddsOnly

(* What is below a place of a list is a place of the list. *)
LEMMA Below ==
    ASSUME NEW n \in Nat, NEW m \in 1..n, NEW k \in 1..(m - 1) PROVE k \in 1..n
OBVIOUS

(* A feed that is written comes after those of its post that were written. *)
LEMMA OrderStays ==
    ASSUME TriedInv, BodyOrderKept, NEW f \in Post \X Nat, AddsOnly(f),
           UNCHANGED body, failures \subseteq failures', f[2] <= sent[f[1]] + 1
    PROVE  BodyOrderKept'
<1> SUFFICES ASSUME NEW p \in Post, NEW i \in 1..Len(body[p]), NEW j \in 1..Len(body[p]),
                    i < j, body[p][i] = body[p][j], <<p, i>> \notin failures'
             PROVE  Precedes(topic'[body[p][j]], <<p, i>>, <<p, j>>)
  BY DEF BodyOrderKept
<1>a. body[p] \in Seq(Channel) /\ Len(body[p]) \in Nat
  BY SMTT(30) DEF TriedInv, EventTypes
<1>b. body[p][j] \in Channel  BY ONLY <1>a, j \in 1..Len(body[p])
<1> PICK c \in Channel : c = body[p][j]  BY <1>b
<1> SUFFICES ASSUME NEW m \in 1..Len(topic'[c]), topic'[c][m] = <<p, j>>
             PROVE  \E k \in 1..(m - 1) : topic'[c][k] = <<p, i>>
  BY DEF Precedes
<1>1. /\ body[p][i] = c /\ topic[c] \in Seq(Post \X Nat)
      /\ Len(body[p]) \in Nat /\ Len(topic[c]) \in Nat
      /\ Len(topic'[c]) \in Nat
  <2>1. body[p][i] = c /\ Len(topic'[c]) \in Nat  BY Zenon DEF AddsOnly
  <2>2. topic[c] \in Seq(Post \X Nat)  BY Zenon DEF TriedInv, EventTypes
  <2>3. Len(topic[c]) \in Nat  BY ONLY <2>2
  <2> QED  BY Zenon, <1>a, <2>1, <2>2, <2>3
<1>2. <<p, i>> \notin failures  OBVIOUS
<1>3. \/ m \in 1..Len(topic[c]) /\ topic[c][m] = <<p, j>>
      \/ m \notin 1..Len(topic[c]) /\ f = <<p, j>>
  BY <1>1 DEF AddsOnly
<1>4. CASE m \in 1..Len(topic[c]) /\ topic[c][m] = <<p, j>>
  <2>1. PICK k \in 1..(m - 1) : topic[c][k] = <<p, i>>
    <3>1. Precedes(topic[c], <<p, i>>, <<p, j>>)
      BY <1>2, Zenon DEF BodyOrderKept
    <3> QED  BY <1>4, <3>1 DEF Precedes
  <2>2. k \in 1..Len(topic[c]) /\ k \in 1..Len(topic'[c])
    BY Zenon, <1>1, <1>4, <2>1, Below
  <2>3. topic'[c][k] = <<p, i>>  BY <1>1, <2>1, <2>2 DEF AddsOnly
  <2> QED  BY <2>3
<1>5. CASE m \notin 1..Len(topic[c]) /\ f = <<p, j>>
  <2>1. sent[p] \in Nat /\ i \in 1..sent[p]  BY <1>1, <1>5 DEF TriedInv, EventTypes
  <2>2. <<p, i>> \in Written(c)  BY <1>1, <1>2, <2>1 DEF TriedInv, TurnsTried
  <2>3. PICK k \in 1..Len(topic[c]) : topic[c][k] = <<p, i>>  BY <2>2 DEF Written
  <2>4. k \in 1..(m - 1) /\ k \in 1..Len(topic'[c])  BY <1>1, <1>5, <2>3
  <2>5. topic'[c][k] = <<p, i>>  BY <1>1, <2>3, <2>4 DEF AddsOnly
  <2> QED  BY <2>4, <2>5
<1> QED  BY Zenon, <1>3, <1>4, <1>5

(* Where nothing is written the order stays. *)
LEMMA OrderSame ==
    ASSUME BodyOrderKept, UNCHANGED <<topic, body>>, failures \subseteq failures'
    PROVE  BodyOrderKept'
BY DEF BodyOrderKept

(* Every feed of a topic is one, and is passed. *)
LEMMA FeedOfTopic ==
    ASSUME EventTypes, FeedsPassed, NEW c \in Channel, NEW k \in 1..Len(topic[c])
    PROVE  \E g \in Post \X Nat : g = topic[c][k] /\ Passed(g)
<1>1. topic[c] \in Seq(Post \X Nat)  BY DEF EventTypes
<1>2. topic[c][k] \in Post \X Nat
  BY ONLY <1>1, k \in 1..Len(topic[c])
<1>3. Passed(topic[c][k])  BY Zenon DEF FeedsPassed
<1> QED  BY <1>2, <1>3

(* What was passed stays so, and so does what may only be written late. *)
LEMMA PassedStays ==
    ASSUME EventTypes, FeedsPassed, NEW f \in Post \X Nat, AddsOnly(f),
           \A g \in Post \X Nat : Passed(g) => Passed(g)',
           Passed(f)',
           \A g \in late' \union failures' : g \in late \union failures \/ Passed(g)',
           failures \subseteq Post \X Nat
    PROVE  FeedsPassed'
<1>1. \A g \in late \union failures : g \in Post \X Nat
  BY DEF EventTypes
<1>2. \A g \in late' \union failures' : Passed(g)'
  BY <1>1 DEF FeedsPassed
<1>3. ASSUME NEW c \in Channel, NEW k \in 1..Len(topic'[c])
      PROVE  Passed(topic[c][k])'
  <2>1. CASE k \in 1..Len(topic[c]) /\ topic'[c][k] = topic[c][k]
    <3>1. PICK g \in Post \X Nat : g = topic[c][k] /\ Passed(g)
      BY <2>1, FeedOfTopic
    <3>2. Passed(g)'  BY <3>1
    <3> QED  BY <2>1, <3>1, <3>2 DEF Passed
  <2>2. CASE topic'[c][k] = f
    BY <2>2 DEF Passed
  <2> QED  BY <2>1, <2>2 DEF AddsOnly
<1> QED  BY <1>2, <1>3 DEF FeedsPassed

-----------------------------------------------------------------------------
LEMMA OrderInit == EventInit => OrderInv
<1> SUFFICES ASSUME EventInit PROVE OrderInv  OBVIOUS
<1>1. \A c \in Channel : topic[c] = <<>> /\ Len(topic[c]) = 0  BY DEF EventInit
<1>2. FeedsPassed /\ BodyOrderKept
  BY <1>1 DEF EventInit, FeedsPassed, BodyOrderKept
<1> QED  BY <1>2 DEF EventInit, OrderInv

(* A step that writes nothing. *)
LEMMA NothingWritten ==
    ASSUME TriedInv, OrderInv, UNCHANGED topic, failures \subseteq failures',
           failures' \subseteq Post \X Nat,
           \A g \in Post \X Nat : Passed(g) => Passed(g)',
           \A g \in late' \union failures' : g \in late \union failures \/ Passed(g)'
    PROVE  FeedsPassed'
<1>1. ASSUME NEW g \in late' \union failures' PROVE Passed(g)'
  <2>1. CASE g \in late \union failures
    <3>1. g \in Post \X Nat /\ Passed(g)
      BY <2>1 DEF TriedInv, EventTypes, OrderInv, FeedsPassed
    <3> QED  BY <3>1
  <2> QED  BY <1>1, <2>1
<1>2. ASSUME NEW c \in Channel, NEW k \in 1..Len(topic[c]) PROVE Passed(topic[c][k])'
  <2>1. PICK g \in Post \X Nat : g = topic[c][k] /\ Passed(g)
    BY FeedOfTopic DEF TriedInv, OrderInv
  <2>2. Passed(g)'  BY <2>1
  <2> QED  BY <2>1, <2>2 DEF Passed
<1> QED  BY <1>1, <1>2 DEF FeedsPassed

(* The body of a post that has not been decoded has sent nothing. *)
LEMMA DecodeOrder ==
    ASSUME TriedInv, OrderInv, NEW p \in Post, Decode(p)
    PROVE  OrderInv'
<1>1. /\ body' \in [Post -> Bodies \union {<<>>}]
      /\ UNCHANGED <<producer, sent, topic, late, failures>>
      /\ sent[p] = 0 /\ answer[p] = "none"
      /\ \A q \in Post : q # p => body'[q] = body[q] /\ answer'[q] = answer[q]
  BY DEF Decode, TriedInv, EventTypes, TurnsTried, OrderInv
<1>2. ASSUME NEW g \in Post \X Nat, Passed(g) PROVE g[1] # p /\ Passed(g)'
  <2>1. g[1] # p  BY <1>1, <1>2 DEF Passed
  <2>2. g[1] \in Post  OBVIOUS
  <2> QED  BY <1>1, <1>2, <2>1, <2>2 DEF Passed
<1>3. FeedsPassed'
  BY <1>1, <1>2, NothingWritten DEF OrderInv
<1>4. BodyOrderKept'
  <2> SUFFICES ASSUME NEW q \in Post, NEW i \in 1..Len(body'[q]), NEW j \in 1..Len(body'[q]),
                      i < j, body'[q][i] = body'[q][j], <<q, i>> \notin failures
               PROVE  Precedes(topic[body'[q][j]], <<q, i>>, <<q, j>>)
    BY <1>1 DEF BodyOrderKept
  <2>1. CASE q = p
    <3>1. PICK c \in Channel : c = body'[q][j]  BY <1>1, EventIngestAssumption
    <3>2. ASSUME NEW m \in 1..Len(topic[c]) PROVE topic[c][m] # <<q, j>>
      <4>1. PICK g \in Post \X Nat : g = topic[c][m] /\ Passed(g)
        BY FeedOfTopic DEF TriedInv, OrderInv
      <4> QED  BY <1>2, <2>1, <4>1
    <3> QED  BY <3>1, <3>2 DEF Precedes
  <2>2. CASE q # p
    <3>1. body'[q] = body[q]  BY <1>1, <2>2
    <3> QED  BY <3>1, Zenon DEF OrderInv, BodyOrderKept
  <2> QED  BY <2>1, <2>2
<1> QED  BY <1>1, <1>3, <1>4 DEF OrderInv

(* The turn of a post that is still in its loop: the place after all it has passed. *)
LEMMA TurnPassed ==
    ASSUME TriedInv, OrderInv, NEW p \in Post, InLoop(p), NextTurn(p), UNCHANGED <<body, answer>>,
           NEW f, f = Turn(p)
    PROVE  /\ f \in Post \X Nat /\ f[1] = p /\ f[2] = sent[p] + 1
           /\ Passed(f)'
           /\ \A g \in Post \X Nat : Passed(g) => Passed(g)'
<1>1. /\ sent[p] \in Nat /\ Len(body[p]) \in Nat /\ sent[p] < Len(body[p])
      /\ answer[p] = "sending" /\ sent \in [Post -> Nat]
      /\ sent' = [sent EXCEPT ![p] = sent[p] + 1]
  BY DEF TriedInv, EventTypes, InLoop, NextTurn
<1>2. f \in Post \X Nat /\ f[1] = p /\ f[2] = sent[p] + 1
  BY <1>1 DEF Turn, Place
<1>3. Passed(f)'
  <2>1. sent[p] + 1 \in 1..Len(body[p]) /\ sent'[p] = sent[p] + 1  BY <1>1
  <2>2. f[2] \in 1..Len(body'[f[1]]) /\ f[2] <= sent'[f[1]]  BY <1>1, <1>2, <2>1
  <2> QED  BY <2>2 DEF Passed
<1>4. ASSUME NEW g \in Post \X Nat, Passed(g) PROVE Passed(g)'
  <2>1. CASE g[1] = p
    <3>1. g[2] <= sent[p]  BY <1>1, <1>4, <2>1 DEF Passed
    <3>2. g[2] <= sent'[p]  BY <1>1, <3>1
    <3> QED  BY <1>4, <2>1, <3>2 DEF Passed
  <2>2. CASE g[1] # p
    <3>1. sent'[g[1]] = sent[g[1]]  BY <1>1, <2>2
    <3> QED  BY <1>4, <2>2, <3>1 DEF Passed
  <2> QED  BY <2>1, <2>2
<1> QED  BY <1>2, <1>3, <1>4

(* A send that returns adds the next place of its body. *)
LEMMA SendOrder ==
    ASSUME TriedInv, OrderInv, NEW p \in Post, Send(p)
    PROVE  OrderInv'
<1>1. /\ InLoop(p) /\ NextTurn(p)
      /\ UNCHANGED <<producer, body, answer, failures>>
      /\ late' \subseteq late \union {Turn(p)}
  BY DEF Send
<1>0. PICK f : f = Turn(p)
  OBVIOUS
<1>2. /\ f \in Post \X Nat /\ f[1] = p /\ f[2] = sent[p] + 1 /\ sent[p] \in Nat
      /\ Passed(f)'
      /\ \A g \in Post \X Nat : Passed(g) => Passed(g)'
  BY <1>1, <1>0, TurnPassed DEF TriedInv, EventTypes
<1> DEFINE x == body[p][Place(p)]
<1>3. topic' = [topic EXCEPT ![x] = @ \o <<f>>]
  <2>1. topic' = [topic EXCEPT ![x] = Append(@, f)]  BY <1>0, Zenon DEF Send
  <2> HIDE DEF x
  <2> QED  BY <1>2, <2>1, AppendedFeed DEF TriedInv
<1>4. <<f>> \in Seq(Post \X Nat) /\ \A i \in 1..Len(<<f>>) : <<f>>[i] = f
  BY <1>2
<1> HIDE DEF x
<1>5. AddsOnly(f)
  BY <1>2, <1>3, <1>4, AppendAdds DEF TriedInv
<1>6. \A g \in late' \union failures' : g \in late \union failures \/ Passed(g)'
  BY <1>0, <1>1, <1>2
<1>7. FeedsPassed'
  BY <1>1, <1>2, <1>5, <1>6, PassedStays DEF TriedInv, OrderInv
<1>8. BodyOrderKept'
  BY <1>1, <1>2, <1>5, OrderStays DEF OrderInv
<1> QED  BY <1>1, <1>7, <1>8 DEF OrderInv

(* A send that fails is not spoken of. *)
LEMMA SendFailsOrder ==
    ASSUME TriedInv, OrderInv, NEW p \in Post, SendFails(p)
    PROVE  OrderInv'
<1>1. /\ InLoop(p) /\ NextTurn(p)
      /\ UNCHANGED <<producer, body, answer, topic>>
      /\ failures' = failures \union {Turn(p)} /\ late' = late \union {Turn(p)}
  BY DEF SendFails
<1>0. PICK f : f = Turn(p)
  OBVIOUS
<1>2. /\ f \in Post \X Nat /\ f[1] = p /\ Passed(f)'
      /\ \A g \in Post \X Nat : Passed(g) => Passed(g)'
  BY <1>0, <1>1, TurnPassed
<1>3. FeedsPassed' /\ BodyOrderKept' /\ failures' \subseteq Post \X Nat
  <2>1. failures' \subseteq Post \X Nat /\ failures \subseteq failures'
    BY <1>0, <1>1, <1>2 DEF OrderInv
  <2>2. \A g \in late' \union failures' : g \in late \union failures \/ Passed(g)'
    BY <1>0, <1>1, <1>2
  <2> QED  BY <1>1, <1>2, <2>1, <2>2, NothingWritten, OrderSame DEF OrderInv
<1> QED  BY <1>1, <1>3 DEF OrderInv

(***************************************************************************)
(* What is written late is of a turn that is over, or of the one its post  *)
(* was cut in: the turns before that one are over.                         *)
(***************************************************************************)
LEMMA WriteLateOrder ==
    ASSUME TriedInv, OrderInv, NEW f \in late, WriteLate(f)
    PROVE  OrderInv'
<1>1. /\ UNCHANGED <<producer, body, sent, answer, failures>>
      /\ late' = late \ {f}
  BY DEF WriteLate
<1>2. f \in Post \X Nat /\ Passed(f)
  BY DEF TriedInv, EventTypes, OrderInv, FeedsPassed
<1>3. \A g : Passed(g) => Passed(g)'
  BY <1>1 DEF Passed
<1>4. f[2] <= sent[f[1]] + 1
  BY <1>2 DEF Passed, TriedInv, EventTypes
<1>5. CASE UNCHANGED topic
  BY <1>1, <1>3, <1>5, NothingWritten, OrderSame DEF OrderInv
<1>6. CASE topic' = [topic EXCEPT ![body[f[1]][f[2]]] = Append(@, f)]
  <2> DEFINE x == body[f[1]][f[2]]
  <2>1. <<f>> \in Seq(Post \X Nat) /\ \A i \in 1..Len(<<f>>) : <<f>>[i] = f
    BY <1>2
  <2>2. topic' = [topic EXCEPT ![x] = Append(@, f)]  BY Zenon, <1>6
  <2> HIDE DEF x
  <2>3. topic' = [topic EXCEPT ![x] = @ \o <<f>>]
    BY <1>2, <2>2, AppendedFeed DEF TriedInv
  <2>4. AddsOnly(f)
    BY <1>2, <2>1, <2>3, AppendAdds DEF TriedInv
  <2>5. FeedsPassed'
    BY <1>1, <1>2, <1>3, <2>4, PassedStays DEF TriedInv, OrderInv
  <2>6. BodyOrderKept'
    BY <1>1, <1>2, <1>4, <2>4, OrderStays DEF OrderInv
  <2> QED  BY <1>1, <2>5, <2>6 DEF OrderInv
<1> QED  BY ZenonT(60), <1>5, <1>6 DEF WriteLate

(* The place of a post that is cut is the one after all it has passed. *)
LEMMA CutPostsOrder ==
    ASSUME TriedInv, OrderInv, CutPosts
    PROVE  OrderInv'
<1>1. /\ UNCHANGED <<body, sent, topic, failures>> /\ producer' \in BOOLEAN
      /\ \A p \in Post : answer[p] = "cut" => answer'[p] = "cut"
      /\ \A p \in Post : InLoop(p) => answer'[p] = "cut"
  BY DEF CutPosts, InLoop
<1>2. ASSUME NEW g \in late', g \notin late
      PROVE  /\ g \in Post \X Nat /\ answer'[g[1]] = "cut" /\ g[2] = sent[g[1]] + 1
             /\ g[2] \in 1..Len(body[g[1]])
  <2>1. PICK p \in Post : g = Turn(p) /\ InLoop(p)
    BY <1>2 DEF CutPosts
  <2>2. sent[p] \in Nat /\ Len(body[p]) \in Nat /\ sent[p] < Len(body[p])
    BY <2>1 DEF InLoop, TriedInv, EventTypes
  <2>3. g = <<p, sent[p] + 1>>
    BY <2>1 DEF Turn, Place
  <2> QED  BY <1>1, <2>1, <2>2, <2>3
<1>3. \A g \in Post \X Nat : Passed(g) => Passed(g)'
  BY <1>1 DEF Passed
<1>4. ASSUME NEW g \in late', g \notin late PROVE Passed(g)'
  BY <1>1, <1>2, <1>4 DEF Passed
<1>5. FeedsPassed' /\ BodyOrderKept'
  BY <1>1, <1>3, <1>4, NothingWritten, OrderSame DEF OrderInv
<1> QED  BY <1>1, <1>5 DEF OrderInv

LEMMA OrderNext == TriedInv /\ OrderInv /\ [EventNext]_eventVars => OrderInv'
<1> SUFFICES ASSUME TriedInv, OrderInv, [EventNext]_eventVars PROVE OrderInv'  OBVIOUS
<1>1. ASSUME NEW p \in Post, SendPanics(p) \/ SendStatus(p) PROVE OrderInv'
  <2>1. /\ UNCHANGED <<producer, body, sent, topic, late, failures>>
        /\ answer[p] = "sending"
        /\ \A q \in Post : q # p => answer'[q] = answer[q]
    BY <1>1 DEF SendPanics, SendStatus, InLoop, TriedInv, EventTypes
  <2>2. \A q \in Post : answer[q] = "cut" => answer'[q] = "cut"
    BY <2>1
  <2>3. \A g \in Post \X Nat : Passed(g) => Passed(g)'
    BY <2>1, <2>2 DEF Passed
  <2>4. FeedsPassed' /\ BodyOrderKept'
    BY <2>1, <2>3, NothingWritten, OrderSame DEF OrderInv
  <2> QED  BY <2>1, <2>4 DEF OrderInv
<1>2. CASE UNCHANGED eventVars
  <2>1. \A g : Passed(g) => Passed(g)'
    BY <1>2 DEF eventVars, Passed
  <2>2. FeedsPassed' /\ BodyOrderKept'
    BY <1>2, <2>1, NothingWritten, OrderSame DEF eventVars, OrderInv
  <2> QED  BY <1>2, <2>2 DEF eventVars, OrderInv
<1> QED
  BY <1>1, <1>2, DecodeOrder, SendOrder, SendFailsOrder, WriteLateOrder, CutPostsOrder
  DEF EventNext, PostStep

LEMMA OrderHolds == EventSpec => [](TriedInv /\ OrderInv)
<1>1. TriedInv /\ OrderInv /\ [EventNext]_eventVars => (TriedInv /\ OrderInv)'
  BY TriedNext, OrderNext
<1> QED  BY <1>1, TriedInit, OrderInit, PTL DEF EventSpec

(***************************************************************************)
(* The topics, the failures and what may still be written hold only feeds  *)
(* that some post has in its body.                                         *)
(***************************************************************************)
THEOREM EventsTypeCorrect == EventSpec => []EventTypeOK
<1>1. ASSUME TriedInv, OrderInv PROVE EventTypeOK
  <2>1. ASSUME NEW g \in Post \X Nat, Passed(g) PROVE g \in UNION {Feed(p) : p \in Post}
    <3>1. g[1] \in Post /\ g = <<g[1], g[2]>> /\ g[2] \in 1..Len(body[g[1]])
      BY <2>1 DEF Passed
    <3>2. g \in Feed(g[1])  BY <3>1 DEF Feed
    <3> QED  BY <3>1, <3>2
  <2>2. ASSUME NEW c \in Channel PROVE Written(c) \subseteq UNION {Feed(p) : p \in Post}
    <3>1. \A k \in 1..Len(topic[c]) : topic[c][k] \in Post \X Nat /\ Passed(topic[c][k])
      BY <1>1 DEF TriedInv, EventTypes, OrderInv, FeedsPassed
    <3> QED  BY <2>1, <3>1 DEF Written
  <2>3. late \union failures \subseteq UNION {Feed(p) : p \in Post}
    BY <1>1, <2>1 DEF TriedInv, EventTypes, OrderInv, FeedsPassed
  <2> QED
    BY <1>1, <2>2, <2>3 DEF EventTypeOK, TriedInv, EventTypes, TurnsTried, OrderInv
<1> QED  BY <1>1, OrderHolds, PTL

(***************************************************************************)
(* Retries, late copies and crashes included, a feed is in its topic only  *)
(* after those before it in the body whose sends did not fail.             *)
(***************************************************************************)
THEOREM BodyOrderHolds == EventSpec => []BodyOrderKept
BY OrderHolds, PTL DEF OrderInv
=============================================================================
