---------------------------- MODULE LocationQuery ----------------------------
(***************************************************************************)
(* GET /feeds/areas: which feeds a query lists, while the row of a feed is *)
(* created, classified, corrected and deleted, and the days go by.  The    *)
(* answers are those of the tables (Repository.GetLocations); beside them  *)
(* stands what the Elasticsearch index would answer                        *)
(* (LocationIndex.GetLocations), which the handler is to read one day.     *)
(*                                                                         *)
(* One row is followed, for a filter looks at one row at a time; its       *)
(* document is kept under the number the message carried, which another    *)
(* feed may carry too.  The columns a query asks for (extraParams) are     *)
(* left out: they choose no feed.                                          *)
(***************************************************************************)
EXTENDS Calendar, Sequences, SequencesExt

CONSTANTS None,         \* no row, no document, NULL
          NoNumber,     \* a parameter that is missing or is no number
          Payloads,     \* the locations a message of Kafka may bring
          Others,       \* those another message brings under the same number
          Answers,      \* what the classifier may answer: labels with scores
          Points,       \* where a PATCH may move a feed
          Lower,        \* strings.ToLower, for the labels
          Like,         \* pairs of a text and a part of it, case set aside
          Parameters,   \* the query strings
          StartDates,   \* the days a behaviour may begin on
          MaxResolves,  \* bound: how often the intent message is handled
          MaxDays       \* bound: how many days go by

Place == [lat : Int, lng : Int]
Corner == [lat : Int \union {NoNumber}, lng : Int \union {NoNumber}]
Flag == {"", "true", "false", "garbage"}

(* A query string; a list of texts is what its commas part. *)
QueryString ==
    [sw : Corner, ne : Corner, timestamp : Int \union {NoNumber},
     reason : Seq(STRING), channel : Seq(STRING), locVerified : Flag, needVerified : Flag]

(***************************************************************************)
(* Coordinates and corners that are missing in a message are 0; nothing    *)
(* says that the point lies in the box.                                    *)
(***************************************************************************)
ASSUME QueryAssumption ==
    /\ NoNumber \notin Int
    /\ \A p \in Payloads : /\ p.age \in Int
                          /\ p.point \in Place
                          /\ p.box \in [sw : Place, ne : Place]
    /\ Others \subseteq Payloads
    /\ Parameters \subseteq QueryString

ASSUME DatesAssumption == StartDates \subseteq [year : Int, month : 1..12, day : 1..31]

(* No label reads like the error that stands for an irrelevant text. *)
ASSUME AnswersAssumption ==
    /\ \A a \in Answers : a \in Seq([label : DOMAIN Lower, score : Int])
    /\ \A l \in DOMAIN Lower : Lower[l] # "alakasiz veri"

VARIABLES row,        \* the row of feeds_location, or None
          document,   \* what the index holds for it, or None
          today,      \* the date
          answer,     \* history: the answer of the classifier reason comes from
          indexed,    \* history: the document was written with that answer
          resolves,   \* how often the intent message was handled
          days        \* how many days went by

queryVars == <<row, document, today, answer, indexed, resolves, days>>

-----------------------------------------------------------------------------
(***************************************************************************)
(* sendIntentResolveRequest.  Scores are in tenths.                        *)
(***************************************************************************)
Irrelevant == <<"alakasiz veri">>

(* Mutant: a label needs more than the least score. *)
KeepAbove(kept, intent) ==
    IF kept = Irrelevant \/ intent.score <= 4 THEN kept
    ELSE IF intent.label = "Alakasiz" /\ intent.score >= 7 THEN Irrelevant
    ELSE Append(kept, Lower[intent.label])

(* One turn of the loop over the answer; its error ends the loop. *)
Keep(kept, intent) ==
    IF kept = Irrelevant \/ intent.score < 4 THEN kept
    ELSE IF intent.label = "Alakasiz" /\ intent.score >= 7 THEN Irrelevant
    ELSE Append(kept, Lower[intent.label])

Intents(a) ==
    LET kept[i \in 0..Len(a)] == IF i = 0 THEN <<>> ELSE Keep(kept[i - 1], a[i])
    IN  kept[Len(a)]

-----------------------------------------------------------------------------
QueryInit ==
    /\ row = None
    /\ document = None
    /\ today \in StartDates
    /\ answer = None
    /\ indexed = FALSE
    /\ resolves = 0
    /\ days = 0

(* The row of a payload. *)
Stored(p) ==
    [point |-> p.point, box |-> p.box, epoch |-> NumberOf(today) - p.age,
     reason |-> p.reason, channel |-> p.channel,
     locVerified |-> FALSE, needVerified |-> FALSE, deleted |-> FALSE, payload |-> p.point]

(* CreateFeed: without coordinates no row is stored. *)
Create ==
    /\ row = None
    /\ \E p \in Payloads : p.point.lat # 0 /\ p.point.lng # 0 /\ row' = Stored(p)
    /\ UNCHANGED <<document, today, answer, indexed, resolves, days>>

(* strings.Split of a column; the document omits a field that is NULL. *)
SplitColumn(column) ==
    IF column = None THEN <<>> ELSE IF column = <<>> THEN <<"">> ELSE column

(* Mutant: the document keeps the reason of the payload. *)
DocumentOfPayload(r, intents) ==
    [point |-> r.payload, box |-> r.box, epoch |-> r.epoch,
     reason |-> SplitColumn(r.reason), channel |-> SplitColumn(r.channel),
     locVerified |-> FALSE, needVerified |-> FALSE]

(***************************************************************************)
(* CreateFeedLocation: the location as the message carried it, with the    *)
(* new reason.                                                             *)
(***************************************************************************)
DocumentOf(r, intents) ==
    [point |-> r.payload, box |-> r.box, epoch |-> r.epoch,
     reason |-> SplitColumn(intents), channel |-> SplitColumn(r.channel),
     locVerified |-> FALSE, needVerified |-> FALSE]

(***************************************************************************)
(* The request of one document: neither the status of the response nor the *)
(* errors it lists are looked at, so what it did the handler cannot tell.  *)
(***************************************************************************)
Bulk(doc) ==
    \/ document' = doc /\ indexed' = TRUE
    \/ UNCHANGED document /\ indexed' = FALSE

(* Mutant: the error of the classifier is not told from an answer. *)
ResolveAnyway(a) ==
    /\ row' = [row EXCEPT !.reason = Intents(a)]
    /\ answer' = a
    /\ Bulk(DocumentOf(row, Intents(a)))

(* Mutant: the feed comes back when it is classified again. *)
ResolveRevives(a) ==
    \/ /\ Intents(a) = Irrelevant
       /\ row' = [row EXCEPT !.deleted = TRUE]
       /\ UNCHANGED <<document, answer, indexed>>
    \/ /\ Intents(a) # Irrelevant
       /\ row' = [row EXCEPT !.reason = Intents(a), !.deleted = FALSE]
       /\ answer' = a
       /\ UNCHANGED document /\ indexed' = FALSE

(***************************************************************************)
(* What the handler does with the answer: it deletes the feed when it is   *)
(* irrelevant, or a duplicate, and updates it otherwise.                   *)
(***************************************************************************)
Resolve(a) ==
    \/ /\ row' = [row EXCEPT !.deleted = TRUE]
       /\ UNCHANGED <<document, answer, indexed>>
    \/ /\ Intents(a) # Irrelevant
       /\ row' = [row EXCEPT !.reason = Intents(a)]
       /\ answer' = a
       /\ Bulk(DocumentOf(row, Intents(a)))

(* intentResolveHandle, once or again for a redelivered message. *)
HandleIntents ==
    /\ row # None
    /\ resolves < MaxResolves
    /\ resolves' = resolves + 1
    /\ \E a \in Answers : Resolve(a)
    /\ UNCHANGED <<today, days>>

(***************************************************************************)
(* The document of another message with the same number takes the place of *)
(* this one: the message is another feed's, or this one's delivered again, *)
(* which has made a second row.                                            *)
(***************************************************************************)
OtherFeedIndexed ==
    /\ \E p \in Others, a \in Answers :
          Intents(a) # Irrelevant /\ document' = DocumentOf(Stored(p), Intents(a))
    /\ indexed' = FALSE
    /\ UNCHANGED <<row, today, answer, resolves, days>>

(* Mutant: the needs are marked as verified with the location. *)
PatchVerifiesNeeds ==
    /\ row # None
    /\ \E p \in Points :
          row' = [row EXCEPT !.point = p, !.locVerified = TRUE, !.needVerified = TRUE]
    /\ UNCHANGED <<document, today, answer, indexed, resolves, days>>

(* One UPDATE of PATCH /feeds/areas: the point moves, the box does not. *)
PatchLocation ==
    /\ row # None
    /\ \E p \in Points : row' = [row EXCEPT !.point = p, !.locVerified = TRUE]
    /\ UNCHANGED <<document, today, answer, indexed, resolves, days>>

NextDay ==
    /\ days < MaxDays
    /\ days' = days + 1
    /\ today' = DateAfter(today)
    /\ UNCHANGED <<row, document, answer, indexed, resolves>>

QueryNext == Create \/ HandleIntents \/ OtherFeedIndexed \/ PatchLocation \/ NextDay

QuerySpec == QueryInit /\ [][QueryNext]_queryVars

-----------------------------------------------------------------------------
(***************************************************************************)
(* The handler: from the query string to the query.  A number it cannot    *)
(* parse is 0, a timestamp it cannot parse is as if there were none.       *)
(***************************************************************************)
ParseFloat(n) == IF n = NoNumber THEN 0 ELSE n

(* Mutant: a year is taken to have 365 days. *)
DefaultIn365Days == NumberOf(today) - 365

DefaultTimestamp == AddDate(today, -1, -1, -1)

GetFeedAreas(p) ==
    [p EXCEPT !.sw = [lat |-> ParseFloat(@.lat), lng |-> ParseFloat(@.lng)],
              !.ne = [lat |-> ParseFloat(@.lat), lng |-> ParseFloat(@.lng)],
              !.timestamp = IF @ = NoNumber THEN DefaultTimestamp ELSE @]

NoBox(q) == q.sw.lat = 0 /\ q.sw.lng = 0 /\ q.ne.lat = 0 /\ q.ne.lng = 0

(* Mutant: the comparison with the far corner is the wrong way round. *)
InBoxSwapped(f, q) ==
    /\ f.box.sw.lat >= q.sw.lat /\ f.box.sw.lng >= q.sw.lng
    /\ f.box.ne.lat >= q.ne.lat /\ f.box.ne.lng >= q.ne.lng

InBox(f, q) ==
    /\ f.box.sw.lat >= q.sw.lat /\ f.box.sw.lng >= q.sw.lng
    /\ f.box.ne.lat <= q.ne.lat /\ f.box.ne.lng <= q.ne.lng

(* The channel has to be this one, not a list that holds it. *)
NoTime(q) == q.timestamp = 0 \/ q.channel = <<"ahbap_location">>

(* Mutant: the column has to be like each text of the list. *)
ILikeAll(column, texts) ==
    /\ column # None
    /\ \A s \in ToSet(texts) : \E t \in ToSet(column) : s = "" \/ <<s, t>> \in Like

(***************************************************************************)
(* column ILIKE ANY(%text%): the column, a list of texts joined by commas, *)
(* holds one of the texts.  The empty text is in every column, NULL is     *)
(* like nothing.                                                           *)
(***************************************************************************)
ILikeAny(column, texts) ==
    /\ column # None
    /\ \E s \in ToSet(texts) : s = "" \/ \E t \in ToSet(column) : <<s, t>> \in Like

(* A value of a Boolean parameter, "" when it is missing. *)
ParseBool(b) == b = "true"

(***************************************************************************)
(* Repository.GetLocations: is_location_verified is parsed here and        *)
(* ignored if it is garbage, is_need_verified is left to the database,     *)
(* whose error looks like the end of the rows.                             *)
(***************************************************************************)
GetLocations(q) ==
    /\ row # None
    /\ NoBox(q) \/ InBox(row, q)
    /\ NoTime(q) \/ row.epoch >= q.timestamp
    /\ q.reason = <<>> \/ ILikeAny(row.reason, q.reason)
    /\ q.channel = <<>> \/ ILikeAny(row.channel, q.channel)
    /\ q.locVerified \in {"", "garbage"} \/ row.locVerified = ParseBool(q.locVerified)
    /\ q.needVerified # "garbage"
    /\ q.needVerified = "" \/ row.needVerified = ParseBool(q.needVerified)
    /\ ~row.deleted

(* A term query compares the whole text with each element of a field. *)
Term(field, texts) == Len(texts) = 1 /\ texts[1] \in ToSet(field)

(* Search: of a request that is refused the response has no hits. *)
Accepted(q) == "garbage" \notin {q.locVerified, q.needVerified}

(* LocationIndex.GetLocations. *)
IndexGetLocations(q) ==
    /\ document # None
    /\ NoBox(q) \/ InBox(document, q)
    /\ NoTime(q) \/ document.epoch >= q.timestamp
    /\ q.reason = <<>> \/ Term(document.reason, q.reason)
    /\ q.channel = <<>> \/ Term(document.channel, q.channel)
    /\ Accepted(q)
    /\ q.locVerified = "" \/ document.locVerified = ParseBool(q.locVerified)
    /\ q.needVerified = "" \/ document.needVerified = ParseBool(q.needVerified)

(* Whether GET /feeds/areas?p lists the feed, and would from the index. *)
Listed(p) == GetLocations(GetFeedAreas(p))
ListedByIndex(p) == IndexGetLocations(GetFeedAreas(p))

-----------------------------------------------------------------------------
(***************************************************************************)
(* The values the variables range over.                                    *)
(***************************************************************************)
Columns == UNION {{p.reason, p.channel} : p \in Payloads} \union {None}
Labels == {Intents(a) : a \in Answers} \ {Irrelevant}
PayloadBoxes == {p.box : p \in Payloads}
PayloadPoints == {p.point : p \in Payloads}

Row ==
    [point : Points \union PayloadPoints, box : PayloadBoxes, epoch : Int,
     reason : Columns \union Labels, channel : Columns,
     locVerified : BOOLEAN, needVerified : BOOLEAN, deleted : BOOLEAN, payload : PayloadPoints]

Document ==
    [point : PayloadPoints, box : PayloadBoxes, epoch : Int,
     reason : {SplitColumn(l) : l \in Labels}, channel : {SplitColumn(c) : c \in Columns},
     locVerified : {FALSE}, needVerified : {FALSE}]

(* None is no row, no document, no answer and no label. *)
ASSUME NoneAssumption ==
    /\ None \notin Row \union Document \union Answers \union Labels
    /\ MaxResolves \in Nat /\ MaxDays \in Nat

(* The reason of a row is the payload's, or an answer's that keeps the feed. *)
QueryTypeOK ==
    /\ row \in Row \union {None}
    /\ document \in Document \union {None}
    /\ today \in [year : Int, month : 1..12, day : Int]
    /\ answer # None => /\ answer \in Answers /\ Intents(answer) \in Labels
                        /\ row # None /\ row.reason = Intents(answer)
    /\ indexed => document # None /\ answer # None
    /\ resolves \in 0..MaxResolves
    /\ days \in 0..MaxDays

(***************************************************************************)
(* What the classifier said is what the feed is found by: by each label it *)
(* gave a score of at least 0.4, as long as the feed is not deleted, and   *)
(* by no text that is in none of them.  An answer that calls the feed      *)
(* irrelevant gives it no labels, wherever in the answer it says so.       *)
(***************************************************************************)
CalledIrrelevant(a) == \E i \in 1..Len(a) : a[i].label = "Alakasiz" /\ a[i].score >= 7

FoundByIntents ==
    answer # None => ~CalledIrrelevant(answer) /\ \A p \in Parameters :
        LET found == \E i \in 1..Len(answer), s \in ToSet(p.reason) :
                        answer[i].score >= 4 /\ <<s, Lower[answer[i].label]>> \in Like
        IN  p.reason # <<>> /\ "" \notin ToSet(p.reason) =>
                Listed(p) <=> found /\ Listed([p EXCEPT !.reason = <<>>])

(***************************************************************************)
(* Zooming out loses no feed: what a box lists, every box around it lists. *)
(***************************************************************************)
Around(outer, inner) ==
    /\ outer.sw.lat <= inner.sw.lat /\ outer.sw.lng <= inner.sw.lng
    /\ outer.ne.lat >= inner.ne.lat /\ outer.ne.lng >= inner.ne.lng

ZoomingOutKeeps ==
    \A p \in Parameters, box \in {<<w.sw, w.ne>> : w \in Parameters} :
        LET inner == GetFeedAreas(p)
            outer == GetFeedAreas([p EXCEPT !.sw = box[1], !.ne = box[2]])
        IN  ~NoBox(inner) /\ Around(outer, inner) /\ GetLocations(inner)
                => GetLocations(outer)

(***************************************************************************)
(* A list of channels asks for the union: the answer is what the channels  *)
(* list one by one.  Only ahbap_location is another question alone than in *)
(* a list, because alone it sets the time aside.                           *)
(***************************************************************************)
CommaListIsUnion ==
    \A p \in Parameters :
        p.channel # <<>> /\ "ahbap_location" \notin ToSet(p.channel) =>
            Listed(p) <=> \E s \in ToSet(p.channel) : Listed([p EXCEPT !.channel = <<s>>])

(***************************************************************************)
(* A query without a timestamp answers with the feeds of the last year, to *)
(* the same date of the year before: whatever the lengths of the months    *)
(* and of the year, none is left out.                                      *)
(***************************************************************************)
LastYearAnswered ==
    \A p \in Parameters :
        /\ p.timestamp = NoNumber
        /\ row # None
        /\ row.epoch >= NumberOf([today EXCEPT !.year = @ - 1])
        /\ Listed([p EXCEPT !.timestamp = 0])
        => Listed(p)

(***************************************************************************)
(* The index may be read instead of the tables for a feed whose document   *)
(* is the last one written under its number, that nobody corrected or      *)
(* deleted, when the reason and the channel asked for are one whole label  *)
(* and the flags can be parsed.                                            *)
(***************************************************************************)
WholeLabel(texts, column) ==
    \/ texts = <<>>
    \/ /\ Len(texts) = 1
       /\ \A t \in ToSet(SplitColumn(column)) : <<texts[1], t>> \in Like <=> texts[1] = t
       /\ texts[1] # ""

IndexAgrees ==
    \A p \in Parameters :
        /\ indexed
        /\ ~row.deleted /\ ~row.locVerified
        /\ WholeLabel(p.reason, row.reason) /\ WholeLabel(p.channel, row.channel)
        /\ p.locVerified # "garbage"
        => (Listed(p) <=> ListedByIndex(p))

(***************************************************************************)
(* A feed that was taken out stays out: neither the intent message handled *)
(* again nor a PATCH brings it back into any answer.                       *)
(***************************************************************************)
StaysOut == [][row # None /\ row.deleted => \A p \in Parameters : ~Listed(p)']_queryVars

(***************************************************************************)
(* A PATCH changes what is_location_verified asks for, and no other        *)
(* answer: it moves the point of a feed and none of what a feed is looked  *)
(* for by, so that every box lists the feed as it did before.              *)
(***************************************************************************)
PatchOnlyVerifies ==
    [][PatchLocation => \A p \in Parameters :
          CASE p.locVerified = "true" -> Listed(p) => Listed(p)'
            [] p.locVerified = "false" -> ~Listed(p)'
            [] OTHER -> Listed(p)' <=> Listed(p)]_queryVars
=============================================================================
