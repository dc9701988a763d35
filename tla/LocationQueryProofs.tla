-------------------------- MODULE LocationQueryProofs --------------------------
(***************************************************************************)
(* What GET /feeds/areas promises of boxes, lists of channels, the time,   *)
(* the labels of the classifier and feeds that were taken out, for every   *)
(* query, every feed and every classifier.                                 *)
(***************************************************************************)
EXTENDS LocationQuery, TLAPS, WellFoundedInduction

-----------------------------------------------------------------------------
(* The equation of the table DaysBefore chooses. *)
MonthTable(y, f) ==
    f = [k \in 1..12 |->
            IF k = 1 THEN (365 * y) + ((y + 3) \div 4) ELSE f[k - 1] + MonthLength(y, k - 1)]

(* The lengths of the months, by cases that exclude each other. *)
LEMMA MonthLengthIs ==
    ASSUME NEW y, NEW m
    PROVE  MonthLength(y, m) = IF m = 2 THEN (IF Leap(y) THEN 29 ELSE 28)
                               ELSE IF m \in {4, 6, 9, 11} THEN 30 ELSE 31
<1>1. CASE m = 2
  <2>1. m \notin {4, 6, 9, 11}  BY <1>1
  <2>2. MonthLength(y, m) = IF Leap(y) THEN 29 ELSE 28
    BY Zenon, <1>1, <2>1 DEF MonthLength
  <2> QED  BY <1>1, <2>2
<1>2. CASE m # 2 /\ m \in {4, 6, 9, 11}  BY Zenon, <1>2 DEF MonthLength
<1>3. CASE m # 2 /\ m \notin {4, 6, 9, 11}  BY Zenon, <1>3 DEF MonthLength
<1> QED  BY Zenon, <1>1, <1>2, <1>3

(* A table of the sums satisfies the equation: it says something. *)
LEMMA TableExists == ASSUME NEW y \in Int PROVE \E f : MonthTable(y, f)
<1> DEFINE leap == IF Leap(y) THEN 1 ELSE 0
           first == (365 * y) + ((y + 3) \div 4)
           sums == <<0, 31, 59 + leap, 90 + leap, 120 + leap, 151 + leap, 181 + leap,
                     212 + leap, 243 + leap, 273 + leap, 304 + leap, 334 + leap>>
           table == [k \in 1..12 |-> first + sums[k]]
<1>1. first \in Int /\ leap \in Int  OBVIOUS
<1>2. ASSUME NEW k \in 2..12
      PROVE  /\ sums[k] \in Int /\ sums[k - 1] \in Int
             /\ sums[k] = sums[k - 1] + MonthLength(y, k - 1)
  <2>1. MonthLength(y, k - 1) = IF k - 1 = 2 THEN (IF Leap(y) THEN 29 ELSE 28)
                                ELSE IF k - 1 \in {4, 6, 9, 11} THEN 30 ELSE 31
    BY Zenon, MonthLengthIs
  <2>2. k \in {2, 3, 4, 5, 6, 7, 8, 9, 10, 11, 12}  OBVIOUS
  <2> QED  BY SMTT(30), <2>1, <2>2
<1>3. sums[1] = 0  OBVIOUS
<1>7. ASSUME NEW k \in 2..12 PROVE MonthLength(y, k - 1) \in Int
  BY MonthLengthIs
<1> HIDE DEF first, sums
<1>4. ASSUME NEW k \in 1..12
      PROVE  table[k] = IF k = 1 THEN first ELSE table[k - 1] + MonthLength(y, k - 1)
  <2>1. CASE k = 1  BY <1>1, <1>3, <2>1
  <2>2. CASE k # 1
    <3>1. k \in 2..12 /\ k - 1 \in 1..12  BY <2>2
    <3>2. table[k] = first + sums[k] /\ table[k - 1] = first + sums[k - 1]  BY <3>1
    <3> QED  BY <1>1, <1>2, <1>7, <2>2, <3>1, <3>2
  <2> QED  BY <2>1, <2>2
<1>5. table = [k \in 1..12 |-> IF k = 1 THEN first ELSE table[k - 1] + MonthLength(y, k - 1)]
  <2>1. table = [k \in 1..12 |-> table[k]]  OBVIOUS
  <2> HIDE DEF table
  <2> QED  BY <1>4, <2>1
<1> HIDE DEF table
<1>6. MonthTable(y, table)  BY <1>5 DEF MonthTable, first
<1> QED  BY <1>6

(* So the number of days before a month obeys the equation. *)
LEMMA DaysBeforeTable ==
    ASSUME NEW y \in Int
    PROVE  /\ DaysBefore(y, 1) = (365 * y) + ((y + 3) \div 4)
           /\ \A k \in 2..12 : DaysBefore(y, k) = DaysBefore(y, k - 1) + MonthLength(y, k - 1)
<1> DEFINE t == CHOOSE f : MonthTable(y, f)
<1>1. MonthTable(y, t)  BY TableExists
<1>2. \A k : DaysBefore(y, k) = t[k]  BY DEF DaysBefore, MonthTable
<1> HIDE DEF t
<1>3. t[1] = (365 * y) + ((y + 3) \div 4)  BY <1>1 DEF MonthTable
<1>4. ASSUME NEW k \in 2..12 PROVE t[k] = t[k - 1] + MonthLength(y, k - 1)
  BY <1>1 DEF MonthTable
<1> QED  BY <1>2, <1>3, <1>4

(* What the table comes to. *)
LEMMA DaysBeforeIs ==
    ASSUME NEW y \in Int
    PROVE  LET leap == IF Leap(y) THEN 1 ELSE 0
               first == (365 * y) + ((y + 3) \div 4)
           IN  /\ \A k \in 1..12 : DaysBefore(y, k) \in Int
               /\ DaysBefore(y, 1) = first
               /\ DaysBefore(y, 12) = first + 334 + leap
               /\ DaysBefore(y, 12) <= first + 335
<1> DEFINE leap == IF Leap(y) THEN 1 ELSE 0
           first == (365 * y) + ((y + 3) \div 4)
<1>0. first \in Int /\ leap \in Int  OBVIOUS
<1>1. DaysBefore(y, 1) = first  BY DaysBeforeTable
<1> HIDE DEF first
<1>2. DaysBefore(y, 2) = first + 31
  <2>1. MonthLength(y, 1) = 31  BY MonthLengthIs
  <2> QED  BY <1>1, <2>1, DaysBeforeTable
<1>3. DaysBefore(y, 3) = first + 59 + leap
  <2>1. MonthLength(y, 2) = 28 + leap  BY MonthLengthIs
  <2> QED  BY <1>1, <1>2, <2>1, DaysBeforeTable
<1>4. DaysBefore(y, 4) = first + 90 + leap
  <2>1. MonthLength(y, 3) = 31  BY MonthLengthIs
  <2> QED  BY <1>1, <1>3, <2>1, DaysBeforeTable
<1>5. DaysBefore(y, 5) = first + 120 + leap
  <2>1. MonthLength(y, 4) = 30  BY MonthLengthIs
  <2> QED  BY <1>1, <1>4, <2>1, DaysBeforeTable
<1>6. DaysBefore(y, 6) = first + 151 + leap
  <2>1. MonthLength(y, 5) = 31  BY MonthLengthIs
  <2> QED  BY <1>1, <1>5, <2>1, DaysBeforeTable
<1>7. DaysBefore(y, 7) = first + 181 + leap
  <2>1. MonthLength(y, 6) = 30  BY MonthLengthIs
  <2> QED  BY <1>1, <1>6, <2>1, DaysBeforeTable
<1>8. DaysBefore(y, 8) = first + 212 + leap
  <2>1. MonthLength(y, 7) = 31  BY MonthLengthIs
  <2> QED  BY <1>1, <1>7, <2>1, DaysBeforeTable
<1>9. DaysBefore(y, 9) = first + 243 + leap
  <2>1. MonthLength(y, 8) = 31  BY MonthLengthIs
  <2> QED  BY <1>1, <1>8, <2>1, DaysBeforeTable
<1>10. DaysBefore(y, 10) = first + 273 + leap
  <2>1. MonthLength(y, 9) = 30  BY MonthLengthIs
  <2> QED  BY <1>1, <1>9, <2>1, DaysBeforeTable
<1>11. DaysBefore(y, 11) = first + 304 + leap
  <2>1. MonthLength(y, 10) = 31  BY MonthLengthIs
  <2> QED  BY <1>1, <1>10, <2>1, DaysBeforeTable
<1>12. DaysBefore(y, 12) = first + 334 + leap
  <2>1. MonthLength(y, 11) = 30  BY MonthLengthIs
  <2> QED  BY <1>1, <1>11, <2>1, DaysBeforeTable
<1> QED
  <2>1. ASSUME NEW k \in 1..12 PROVE DaysBefore(y, k) \in Int
    <3>1. k \in {1, 2, 3, 4, 5, 6, 7, 8, 9, 10, 11, 12}  OBVIOUS
    <3> HIDE DEF leap
    <3> QED  BY <1>0, <1>1, <1>2, <1>3, <1>4, <1>5, <1>6, <1>7, <1>8, <1>9, <1>10, <1>11, <1>12, <3>1
  <2> QED  BY <1>1, <1>12, <2>1 DEF first

(***************************************************************************)
(* A month back is at least 28 days back, a day back is one day back.      *)
(***************************************************************************)
LEMMA MonthBack ==
    ASSUME NEW y \in Int, NEW m \in 1..12, NEW d \in Int
    PROVE  /\ DayNumber(y, m, d) \in Int
           /\ DayNumber(y, m - 1, d - 1) \in Int
           /\ DayNumber(y, m - 1, d - 1) + 29 <= DayNumber(y, m, d)
<1>1. DayNumber(y, m, d) = DaysBefore(y, m) + d - 1
  <2>1. (m - 1) \div 12 = 0 /\ ((m - 1) % 12) + 1 = m  OBVIOUS
  <2> QED  BY <2>1 DEF DayNumber
<1>2. CASE m # 1
  <2>1. (m - 2) \div 12 = 0 /\ ((m - 2) % 12) + 1 = m - 1  BY <1>2
  <2>2. DayNumber(y, m - 1, d - 1) = DaysBefore(y, m - 1) + d - 2
    <3>1. m - 1 - 1 = m - 2  OBVIOUS
    <3>2. m - 1 \in 1..12  BY <1>2
    <3>3. DaysBefore(y, m - 1) \in Int  BY ZenonT(60), <3>2, DaysBeforeIs
    <3> QED  BY <2>1, <3>1, <3>3 DEF DayNumber
  <2>3. m \in 2..12 /\ m - 1 \in 1..12  BY <1>2
  <2>4. DaysBefore(y, m) = DaysBefore(y, m - 1) + MonthLength(y, m - 1)
    BY <2>3, DaysBeforeTable
  <2>5. MonthLength(y, m - 1) \in Int /\ MonthLength(y, m - 1) >= 28  BY MonthLengthIs
  <2>6. DaysBefore(y, m) \in Int /\ DaysBefore(y, m - 1) \in Int
    <3>1. \A k \in 1..12 : DaysBefore(y, k) \in Int  BY ZenonT(60), DaysBeforeIs
    <3> QED  BY <2>3, <3>1
  <2> QED  BY <1>1, <2>2, <2>4, <2>5, <2>6
<1>3. CASE m = 1
  <2>1. (m - 2) \div 12 = -1 /\ ((m - 2) % 12) + 1 = 12
    <3>1. ASSUME NEW n \in Int, n >= -12, n < 0
          PROVE  n \div 12 = -1 /\ n % 12 = n + 12
      BY <3>1
    <3>2. m - 2 \in Int /\ m - 2 >= -12 /\ m - 2 < 0 /\ (m - 2) + 12 + 1 = 12  BY <1>3
    <3> QED  BY <3>1, <3>2
  <2>2. DayNumber(y, m - 1, d - 1) = DaysBefore(y - 1, 12) + d - 2
    <3>1. m - 1 - 1 = m - 2 /\ y + (-1) = y - 1  BY <1>3
    <3>2. DaysBefore(y - 1, 12) \in Int  BY DaysBeforeIs
    <3> QED  BY <2>1, <3>1, <3>2 DEF DayNumber
  <2>3. DaysBefore(y - 1, 12) <= (365 * (y - 1)) + ((y + 2) \div 4) + 335
    <3> DEFINE z == y - 1
    <3>1. z \in Int /\ z + 3 = y + 2  OBVIOUS
    <3> HIDE DEF z
    <3>2. DaysBefore(z, 12) <= (365 * z) + ((z + 3) \div 4) + 335
      <4>1. (z + 3) \div 4 \in Int  BY <3>1
      <4> QED  BY <3>1, <4>1, DaysBeforeIs
    <3> QED  BY <3>1, <3>2 DEF z
  <2>4. DaysBefore(y, 1) = (365 * y) + ((y + 3) \div 4)  BY DaysBeforeIs
  <2>5. DaysBefore(y - 1, 12) \in Int /\ DaysBefore(y, 1) \in Int  BY DaysBeforeIs
  <2>6. (y + 2) \div 4 \in Int /\ (y + 3) \div 4 \in Int /\ (y + 2) \div 4 <= (y + 3) \div 4
    OBVIOUS
  <2> QED  BY <1>1, <1>3, <2>2, <2>3, <2>4, <2>5, <2>6
<1> QED  BY <1>2, <1>3

-----------------------------------------------------------------------------
(* A row is a record of its fields. *)
RowOK ==
    row # None =>
        /\ row = [point |-> row.point, box |-> row.box, epoch |-> row.epoch,
                  reason |-> row.reason, channel |-> row.channel,
                  locVerified |-> row.locVerified, needVerified |-> row.needVerified,
                  deleted |-> row.deleted, payload |-> row.payload]
        /\ row.box \in [sw : Place, ne : Place]
        /\ row.epoch \in Int /\ row.needVerified = FALSE /\ row.locVerified \in BOOLEAN

(* Today is a day of a month. *)
TodayOK == today \in [year : Int, month : 1..12, day : Int]

(* A document that was written is the row's, classified as the row is. *)
DocumentOK ==
    indexed =>
        /\ row # None /\ document # None
        /\ document.box = row.box /\ document.epoch = row.epoch
        /\ document.reason = SplitColumn(row.reason)
        /\ document.channel = SplitColumn(row.channel)
        /\ document.locVerified = FALSE /\ document.needVerified = FALSE

LEMMA CreateKeeps == TodayOK /\ Create => RowOK'
<1> SUFFICES ASSUME TodayOK, Create PROVE RowOK'  OBVIOUS
<1>1. PICK p \in Payloads : row' = Stored(p)  BY DEF Create
<1>2. p.box \in [sw : Place, ne : Place]  BY QueryAssumption
<1>3. NumberOf(today) - p.age \in Int
  <2>1. p.age \in Int  BY QueryAssumption
  <2>2. NumberOf(today) \in Int  BY MonthBack DEF NumberOf, TodayOK
  <2> QED  BY <2>1, <2>2
<1> QED  BY <1>1, <1>2, <1>3 DEF Stored, RowOK

LEMMA HandleIntentsKeeps == RowOK /\ HandleIntents => RowOK'
<1> SUFFICES ASSUME RowOK, HandleIntents PROVE RowOK'  OBVIOUS
<1>1. \/ row' = [row EXCEPT !.deleted = TRUE]
      \/ \E a \in Answers : row' = [row EXCEPT !.reason = Intents(a)]
  BY DEF HandleIntents, Resolve
<1>2. row # None  BY DEF HandleIntents
<1> QED  BY <1>1, <1>2 DEF RowOK

LEMMA PatchLocationKeeps == RowOK /\ PatchLocation => RowOK'
BY DEF RowOK, PatchLocation

LEMMA NextDayKeeps == TodayOK /\ NextDay => TodayOK'
<1> SUFFICES ASSUME TodayOK, NextDay PROVE TodayOK'  OBVIOUS
<1>1. today' = DateAfter(today)  BY DEF NextDay
<1>2. CASE today.day < MonthLength(today.year, today.month)
  BY <1>1, <1>2 DEF DateAfter, TodayOK
<1>3. CASE ~(today.day < MonthLength(today.year, today.month)) /\ today.month < 12
  <2>1. today' = [today EXCEPT !.month = @ + 1, !.day = 1]  BY <1>1, <1>3 DEF DateAfter
  <2>2. today.month + 1 \in 1..12 /\ 1 \in Int  BY <1>3 DEF TodayOK
  <2>3. [today EXCEPT !.month = @ + 1, !.day = 1] \in [year : Int, month : 1..12, day : Int]
    BY <2>2 DEF TodayOK
  <2> QED  BY <2>1, <2>3 DEF TodayOK
<1>4. CASE ~(today.day < MonthLength(today.year, today.month)) /\ ~(today.month < 12)
  BY <1>1, <1>4 DEF DateAfter, TodayOK
<1> QED  BY <1>2, <1>3, <1>4

(* What becomes of a row and its document when its intents are handled. *)
LEMMA HandledRow ==
    ASSUME row \in Row, HandleIntents
    PROVE  \/ row' = [row EXCEPT !.deleted = TRUE] /\ UNCHANGED <<document, answer, indexed>>
           \/ \E a \in Answers :
                 /\ row' = [row EXCEPT !.reason = Intents(a)]
                 /\ Intents(a) \in Labels
                 /\ answer' = a
                 /\ \/ UNCHANGED document /\ indexed' = FALSE
                    \/ document' = DocumentOf(row, Intents(a)) /\ indexed' = TRUE
BY DEF HandleIntents, Resolve, Bulk, Labels

(* A document made from a row and a label list is a document. *)
LEMMA DocumentOfRow ==
    ASSUME NEW r \in Row, NEW l \in Labels
    PROVE  DocumentOf(r, l) \in Document
<1>1. SplitColumn(r.channel) \in {SplitColumn(c) : c \in Columns}
  <2>1. r.channel \in Columns  BY DEF Row
  <2> QED  BY <2>1
<1>2. SplitColumn(l) \in {SplitColumn(k) : k \in Labels}  OBVIOUS
<1>3. r.payload \in PayloadPoints /\ r.box \in PayloadBoxes /\ r.epoch \in Int
  BY DEF Row
<1> QED  BY <1>1, <1>2, <1>3 DEF DocumentOf, Document

(* What a payload is stored as is a row. *)
LEMMA StoredIsRow ==
    ASSUME TodayOK, NEW p \in Payloads
    PROVE  Stored(p) \in Row
<1>1. NumberOf(today) - p.age \in Int
  <2>1. p.age \in Int  BY QueryAssumption
  <2>2. NumberOf(today) \in Int  BY MonthBack DEF NumberOf, TodayOK
  <2> QED  BY <2>1, <2>2
<1>2. /\ p.point \in PayloadPoints /\ p.box \in PayloadBoxes
      /\ p.reason \in Columns /\ p.channel \in Columns
  BY DEF PayloadPoints, PayloadBoxes, Columns
<1> QED  BY <1>1, <1>2 DEF Stored, Row

LEMMA CreateTyped == QueryTypeOK /\ Create => QueryTypeOK'
<1> SUFFICES ASSUME QueryTypeOK, Create PROVE QueryTypeOK'  OBVIOUS
<1>1. PICK p \in Payloads : row' = Stored(p)  BY DEF Create
<1>2. row' \in Row  BY <1>1, StoredIsRow DEF QueryTypeOK, TodayOK
<1>3. row' # None  BY <1>2, NoneAssumption
<1>4. answer = None /\ ~indexed  BY DEF Create, QueryTypeOK
<1> QED  BY <1>2, <1>4 DEF Create, QueryTypeOK

LEMMA OtherTyped == QueryTypeOK /\ OtherFeedIndexed => QueryTypeOK'
<1> SUFFICES ASSUME QueryTypeOK, OtherFeedIndexed PROVE QueryTypeOK'  OBVIOUS
<1>1. PICK p \in Others, a \in Answers :
         Intents(a) # Irrelevant /\ document' = DocumentOf(Stored(p), Intents(a))
  BY DEF OtherFeedIndexed
<1>2. Stored(p) \in Row
  <2>1. p \in Payloads  BY QueryAssumption
  <2> QED  BY <2>1, StoredIsRow DEF QueryTypeOK, TodayOK
<1>3. Intents(a) \in Labels  BY <1>1 DEF Labels
<1>4. document' \in Document  BY <1>1, <1>2, <1>3, DocumentOfRow
<1> QED  BY <1>4 DEF OtherFeedIndexed, QueryTypeOK

LEMMA HandleIntentsTyped == QueryTypeOK /\ HandleIntents => QueryTypeOK'
<1> SUFFICES ASSUME QueryTypeOK, HandleIntents PROVE QueryTypeOK'  OBVIOUS
<1>1. row \in Row  BY DEF HandleIntents, QueryTypeOK
<1>2. resolves' \in 0..MaxResolves /\ UNCHANGED <<today, days>>
  BY NoneAssumption DEF HandleIntents, QueryTypeOK
<1>3. CASE row' = [row EXCEPT !.deleted = TRUE] /\ UNCHANGED <<document, answer, indexed>>
  <2>1. row' \in Row /\ row'.reason = row.reason
    BY <1>1, <1>3 DEF Row
  <2>2. row' # None  BY <2>1, NoneAssumption
  <2> QED  BY <1>2, <1>3, <2>1, <2>2 DEF QueryTypeOK
<1>4. ASSUME NEW a \in Answers, row' = [row EXCEPT !.reason = Intents(a)],
             Intents(a) \in Labels, answer' = a,
             \/ UNCHANGED document /\ indexed' = FALSE
             \/ document' = DocumentOf(row, Intents(a)) /\ indexed' = TRUE
      PROVE  QueryTypeOK'
  <2> DEFINE l == Intents(a)
  <2>1. l \in Labels /\ row' = [row EXCEPT !.reason = l]  BY <1>4
  <2> HIDE DEF l
  <2>2. row' \in Row /\ row'.reason = l
    BY <1>1, <2>1 DEF Row
  <2>3. row' # None /\ answer' # None /\ Intents(answer') \in Labels
    BY <1>4, <2>2, NoneAssumption
  <2>4. /\ document' \in Document \union {None}
        /\ indexed' => document' # None
    <3>1. CASE UNCHANGED document /\ indexed' = FALSE  BY <3>1 DEF QueryTypeOK
    <3>2. CASE document' = DocumentOf(row, l)
      <4>1. document' \in Document  BY <1>1, <2>1, <3>2, DocumentOfRow
      <4> QED  BY <4>1, NoneAssumption
    <3> QED  BY <1>4, <3>1, <3>2 DEF l
  <2>5. row'.reason = Intents(answer')  BY <1>4, <2>2 DEF l
  <2> QED  BY <1>2, <1>4, <2>2, <2>3, <2>4, <2>5 DEF QueryTypeOK
<1> QED  BY <1>1, <1>3, <1>4, HandledRow

LEMMA PatchTyped == QueryTypeOK /\ PatchLocation => QueryTypeOK'
<1> SUFFICES ASSUME QueryTypeOK, PatchLocation PROVE QueryTypeOK'  OBVIOUS
<1>1. row \in Row  BY DEF PatchLocation, QueryTypeOK
<1>2. row' \in Row /\ row'.reason = row.reason
  BY <1>1 DEF PatchLocation, Row
<1>3. row' # None  BY <1>2, NoneAssumption
<1> QED  BY <1>2, <1>3 DEF PatchLocation, QueryTypeOK

LEMMA NextDayTyped == QueryTypeOK /\ NextDay => QueryTypeOK'
<1> SUFFICES ASSUME QueryTypeOK, NextDay PROVE QueryTypeOK'  OBVIOUS
<1>1. TodayOK'  BY NextDayKeeps DEF QueryTypeOK, TodayOK
<1>2. days' \in 0..MaxDays  BY NoneAssumption DEF NextDay, QueryTypeOK
<1> QED  BY <1>1, <1>2 DEF NextDay, QueryTypeOK, TodayOK

LEMMA TypedNext == QueryTypeOK /\ [QueryNext]_queryVars => QueryTypeOK'
<1>1. QueryTypeOK /\ UNCHANGED queryVars => QueryTypeOK'  BY DEF QueryTypeOK, queryVars
<1> QED  BY <1>1, CreateTyped, HandleIntentsTyped, OtherTyped, PatchTyped, NextDayTyped DEF QueryNext

(***************************************************************************)
(* Rows, documents and dates are what they are meant to be: the reason of  *)
(* a row is the payload's or comes from an answer that keeps the feed.     *)
(***************************************************************************)
THEOREM QueryTypeCorrect == QuerySpec => []QueryTypeOK
<1>1. QueryInit => QueryTypeOK
  <2>1. StartDates \subseteq [year : Int, month : 1..12, day : Int]  BY DatesAssumption
  <2> QED  BY <2>1, NoneAssumption DEF QueryInit, QueryTypeOK
<1> QED  BY <1>1, TypedNext, PTL DEF QuerySpec

-----------------------------------------------------------------------------
LEMMA DocumentKept ==
    QueryTypeOK /\ DocumentOK /\ [QueryNext]_queryVars => DocumentOK'
<1> SUFFICES ASSUME QueryTypeOK, DocumentOK, [QueryNext]_queryVars PROVE DocumentOK'
  OBVIOUS
<1>0. row # None => row \in Row  BY DEF QueryTypeOK
<1>1. CASE Create  BY <1>1 DEF Create, DocumentOK
<1>2. CASE HandleIntents
  <2>1. row \in Row  BY <1>0, <1>2 DEF HandleIntents
  <2>2. CASE row' = [row EXCEPT !.deleted = TRUE] /\ UNCHANGED <<document, indexed>>
    <3>1. /\ row' \in Row /\ row'.box = row.box /\ row'.epoch = row.epoch
          /\ row'.reason = row.reason /\ row'.channel = row.channel
      BY <2>1, <2>2 DEF Row
    <3>2. row' # None  BY <3>1, NoneAssumption
    <3> QED  BY <2>2, <3>1, <3>2 DEF DocumentOK
  <2>3. CASE UNCHANGED document /\ indexed' = FALSE  BY <2>3 DEF DocumentOK
  <2>4. ASSUME NEW a \in Answers, row' = [row EXCEPT !.reason = Intents(a)],
               Intents(a) \in Labels, document' = DocumentOf(row, Intents(a))
        PROVE  DocumentOK'
    <3> DEFINE l == Intents(a)
    <3>1. /\ l \in Labels /\ row' = [row EXCEPT !.reason = l]
          /\ document' = DocumentOf(row, l)
      BY <2>4
    <3> HIDE DEF l
    <3>2. /\ row' \in Row /\ row'.box = row.box /\ row'.epoch = row.epoch
          /\ row'.reason = l /\ row'.channel = row.channel
      BY <2>1, <3>1 DEF Row
    <3>3. document' \in Document  BY <2>1, <3>1, DocumentOfRow
    <3>4. /\ document'.box = row.box /\ document'.epoch = row.epoch
          /\ document'.reason = SplitColumn(l)
          /\ document'.channel = SplitColumn(row.channel)
          /\ document'.locVerified = FALSE /\ document'.needVerified = FALSE
      BY <3>1 DEF DocumentOf
    <3>5. row' # None /\ document' # None  BY <3>2, <3>3, NoneAssumption
    <3> QED  BY <3>2, <3>4, <3>5 DEF DocumentOK
  <2> QED  BY <1>2, <2>1, <2>2, <2>3, <2>4, HandledRow
<1>3. CASE PatchLocation
  <2>1. row \in Row  BY <1>0, <1>3 DEF PatchLocation
  <2>2. /\ row' \in Row /\ row'.box = row.box /\ row'.epoch = row.epoch
        /\ row'.reason = row.reason /\ row'.channel = row.channel
    BY <1>3, <2>1 DEF PatchLocation, Row
  <2>3. row' # None  BY <2>2, NoneAssumption
  <2> QED  BY <1>3, <2>2, <2>3 DEF PatchLocation, DocumentOK
<1>4. CASE UNCHANGED <<row, document, indexed>>  BY <1>4 DEF DocumentOK
<1>5. CASE OtherFeedIndexed  BY <1>5 DEF OtherFeedIndexed, DocumentOK
<1> QED  BY <1>1, <1>2, <1>3, <1>4, <1>5 DEF QueryNext, NextDay, queryVars

QueryInv == QueryTypeOK /\ RowOK /\ DocumentOK

LEMMA QueryInvNext == QueryInv /\ [QueryNext]_queryVars => QueryInv'
<1> SUFFICES ASSUME QueryInv, [QueryNext]_queryVars PROVE QueryInv'  OBVIOUS
<1>1. RowOK'
  <2>1. CASE UNCHANGED row  BY <2>1 DEF QueryInv, RowOK
  <2>2. UNCHANGED row \/ Create \/ HandleIntents \/ PatchLocation
    BY DEF QueryNext, NextDay, OtherFeedIndexed, queryVars
  <2>3. TodayOK  BY DEF QueryInv, QueryTypeOK, TodayOK
  <2> QED  BY <2>1, <2>2, <2>3, CreateKeeps, HandleIntentsKeeps, PatchLocationKeeps DEF QueryInv
<1>2. QueryTypeOK'  BY TypedNext DEF QueryInv
<1>3. DocumentOK'  BY DocumentKept DEF QueryInv
<1> QED  BY <1>1, <1>2, <1>3 DEF QueryInv

LEMMA QueryInvAlways == QuerySpec => []QueryInv
<1>1. QueryInit => QueryInv
  <2>1. StartDates \subseteq [year : Int, month : 1..12, day : Int]  BY DatesAssumption
  <2> QED  BY <2>1, NoneAssumption DEF QueryInit, QueryInv, QueryTypeOK, RowOK, DocumentOK
<1> QED  BY <1>1, QueryInvNext, PTL DEF QuerySpec

LEMMA RowAlwaysOK == QuerySpec => []RowOK
BY QueryInvAlways, PTL DEF QueryInv

-----------------------------------------------------------------------------
(* What the handler reads from a query string, field by field. *)
LEMMA QueryFields ==
    ASSUME NEW p \in QueryString
    PROVE  /\ GetFeedAreas(p).sw = [lat |-> ParseFloat(p.sw.lat), lng |-> ParseFloat(p.sw.lng)]
           /\ GetFeedAreas(p).ne = [lat |-> ParseFloat(p.ne.lat), lng |-> ParseFloat(p.ne.lng)]
           /\ GetFeedAreas(p).timestamp
                = IF p.timestamp = NoNumber THEN DefaultTimestamp ELSE p.timestamp
           /\ GetFeedAreas(p).reason = p.reason
           /\ GetFeedAreas(p).channel = p.channel
           /\ GetFeedAreas(p).locVerified = p.locVerified
           /\ GetFeedAreas(p).needVerified = p.needVerified
BY DEF GetFeedAreas, QueryString

(* Its corners are numbers. *)
LEMMA CornersAreNumbers ==
    ASSUME NEW p \in QueryString
    PROVE  GetFeedAreas(p).sw \in Place /\ GetFeedAreas(p).ne \in Place
<1>1. p.sw \in Corner /\ p.ne \in Corner  BY DEF QueryString
<1>2. \A n \in Int \union {NoNumber} : ParseFloat(n) \in Int  BY DEF ParseFloat
<1>3. \A c \in Corner : [lat |-> ParseFloat(c.lat), lng |-> ParseFloat(c.lng)] \in Place
  BY <1>2 DEF Corner, Place
<1> QED  BY <1>1, <1>3, QueryFields

(* A query string with another list of channels. *)
LEMMA OtherChannels ==
    ASSUME NEW p \in QueryString, NEW c \in Seq(STRING)
    PROVE  LET other == [p EXCEPT !.channel = c]
           IN  /\ other \in QueryString /\ other.channel = c
               /\ other.timestamp = p.timestamp /\ other.sw = p.sw /\ other.ne = p.ne
               /\ other.reason = p.reason /\ other.locVerified = p.locVerified
               /\ other.needVerified = p.needVerified
BY DEF QueryString

(* A query string with another box. *)
LEMMA OtherBox ==
    ASSUME NEW p \in QueryString, NEW sw \in Corner, NEW ne \in Corner
    PROVE  LET other == [p EXCEPT !.sw = sw, !.ne = ne]
           IN  /\ other \in QueryString
               /\ other.timestamp = p.timestamp /\ other.channel = p.channel
               /\ other.reason = p.reason /\ other.locVerified = p.locVerified
               /\ other.needVerified = p.needVerified
BY DEF QueryString

(* A box around another one holds every row the other one holds. *)
LEMMA AroundHolds ==
    ASSUME NEW f, NEW inner, NEW outer, f.box \in [sw : Place, ne : Place],
           inner.sw \in Place, inner.ne \in Place, outer.sw \in Place, outer.ne \in Place,
           Around(outer, inner), InBox(f, inner)
    PROVE  InBox(f, outer)
BY DEF Around, InBox, Place

(***************************************************************************)
(* On a map without bounds, zooming out never loses a feed.                *)
(***************************************************************************)
THEOREM ZoomingOut == QuerySpec => []ZoomingOutKeeps
<1>1. RowOK => ZoomingOutKeeps
  <2> SUFFICES ASSUME RowOK, NEW p \in Parameters,
                      NEW box \in {<<w.sw, w.ne>> : w \in Parameters},
                      ~NoBox(GetFeedAreas(p)),
                      Around(GetFeedAreas([p EXCEPT !.sw = box[1], !.ne = box[2]]),
                             GetFeedAreas(p)),
                      GetLocations(GetFeedAreas(p))
               PROVE  GetLocations(GetFeedAreas([p EXCEPT !.sw = box[1], !.ne = box[2]]))
    BY DEF ZoomingOutKeeps
  <2> DEFINE wide == [p EXCEPT !.sw = box[1], !.ne = box[2]]
             inner == GetFeedAreas(p)
             outer == GetFeedAreas(wide)
  <2>0. /\ p \in QueryString /\ wide \in QueryString
        /\ wide.timestamp = p.timestamp /\ wide.reason = p.reason
        /\ wide.channel = p.channel /\ wide.locVerified = p.locVerified
        /\ wide.needVerified = p.needVerified
    <3>1. box[1] \in Corner /\ box[2] \in Corner  BY QueryAssumption DEF QueryString
    <3>2. p \in QueryString  BY QueryAssumption
    <3> QED  BY ZenonT(60), <3>1, <3>2, OtherBox
  <2> HIDE DEF wide
  <2>1. inner.sw \in Place /\ inner.ne \in Place  BY <2>0, CornersAreNumbers
  <2>2. /\ outer.timestamp = inner.timestamp
        /\ outer.reason = inner.reason /\ outer.channel = inner.channel
        /\ outer.locVerified = inner.locVerified
        /\ outer.needVerified = inner.needVerified
    BY <2>0, QueryFields
  <2>3. outer.sw \in Place /\ outer.ne \in Place  BY <2>0, CornersAreNumbers
  <2>4. InBox(row, inner) /\ row # None  BY DEF GetLocations
  <2>7. Around(outer, inner)  BY DEF wide
  <2>5. InBox(row, outer)  BY <2>1, <2>3, <2>4, <2>7, AroundHolds DEF RowOK
  <2>6. GetLocations(inner) => GetLocations(outer)
    BY <2>2, <2>4, <2>5 DEF GetLocations, NoTime
  <2> QED  BY <2>6 DEF wide
<1> QED  BY <1>1, RowAlwaysOK, PTL

(***************************************************************************)
(* A correction is seen by is_location_verified alone: whatever the box,   *)
(* the time, the labels and the channels of a query, it lists the feed     *)
(* after a PATCH as it did before.                                         *)
(***************************************************************************)
THEOREM PatchIsVerification == QuerySpec => PatchOnlyVerifies
<1>1. QueryTypeOK /\ RowOK /\ PatchLocation
        => \A p \in Parameters :
              CASE p.locVerified = "true" -> Listed(p) => Listed(p)'
                [] p.locVerified = "false" -> ~Listed(p)'
                [] OTHER -> Listed(p)' <=> Listed(p)
  <2> SUFFICES ASSUME QueryTypeOK, RowOK, PatchLocation, NEW p \in Parameters
               PROVE  CASE p.locVerified = "true" -> Listed(p) => Listed(p)'
                        [] p.locVerified = "false" -> ~Listed(p)'
                        [] OTHER -> Listed(p)' <=> Listed(p)
    OBVIOUS
  <2> DEFINE q == GetFeedAreas(p)
             rest(f) ==
                 /\ NoBox(q) \/ InBox(f, q)
                 /\ NoTime(q) \/ f.epoch >= q.timestamp
                 /\ q.reason = <<>> \/ ILikeAny(f.reason, q.reason)
                 /\ q.channel = <<>> \/ ILikeAny(f.channel, q.channel)
                 /\ q.needVerified # "garbage"
                 /\ q.needVerified = "" \/ f.needVerified = ParseBool(q.needVerified)
                 /\ ~f.deleted
  <2>1. q.locVerified = p.locVerified /\ p.locVerified \in Flag
    <3>1. p \in QueryString  BY QueryAssumption
    <3> QED  BY <3>1, QueryFields DEF QueryString
  <2>2. row # None /\ row' # None
    <3>1. row \in Row  BY DEF PatchLocation, QueryTypeOK
    <3>2. row' \in Row  BY <3>1 DEF PatchLocation, Row
    <3> QED  BY <3>2, NoneAssumption DEF PatchLocation
  <2>3. /\ row'.box = row.box /\ row'.epoch = row.epoch /\ row'.reason = row.reason
        /\ row'.channel = row.channel /\ row'.needVerified = row.needVerified
        /\ row'.deleted = row.deleted /\ row'.locVerified = TRUE
    BY DEF PatchLocation, RowOK
  <2>4. GetFeedAreas(p)' = q
    BY DEF PatchLocation, GetFeedAreas, DefaultTimestamp
  <2> HIDE DEF q
  <2>5. rest(row') <=> rest(row)  BY Zenon, <2>3 DEF InBox
  <2>6. Listed(p)
          <=> /\ rest(row)
              /\ q.locVerified \in {"", "garbage"} \/ row.locVerified = ParseBool(q.locVerified)
    BY Zenon, <2>2 DEF Listed, GetLocations, q
  <2>7. Listed(p)'
          <=> /\ rest(row')
              /\ q.locVerified \in {"", "garbage"} \/ row'.locVerified = ParseBool(q.locVerified)
    BY Zenon, <2>2, <2>4 DEF Listed, GetLocations
  <2> HIDE DEF rest
  <2>8. CASE p.locVerified = "true"
    <3>1. Listed(p) => Listed(p)'  BY <2>1, <2>3, <2>5, <2>6, <2>7, <2>8 DEF ParseBool
    <3> QED  BY Zenon, <2>8, <3>1
  <2>9. CASE p.locVerified = "false"
    <3>1. ~Listed(p)'  BY <2>1, <2>3, <2>7, <2>9 DEF ParseBool
    <3> QED  BY Zenon, <2>9, <3>1
  <2>10. CASE p.locVerified \notin {"true", "false"}
    <3>1. q.locVerified \in {"", "garbage"}  BY <2>1, <2>10 DEF Flag
    <3>2. Listed(p)' <=> Listed(p)  BY Zenon, <2>5, <2>6, <2>7, <3>1
    <3> QED  BY Zenon, <2>10, <3>2
  <2> QED  BY <2>8, <2>9, <2>10
<1> QED  BY <1>1, QueryInvAlways, PTL DEF QuerySpec, QueryInv, PatchOnlyVerifies

(***************************************************************************)
(* Whatever the list of channels, its answer is the union of the answers   *)
(* for its channels, those with ahbap_location apart.                      *)
(***************************************************************************)
THEOREM ChannelsAreAsked == QuerySpec => []CommaListIsUnion
<1>1. CommaListIsUnion
  <2> SUFFICES ASSUME NEW p \in Parameters,
                      p.channel # <<>>, "ahbap_location" \notin ToSet(p.channel)
               PROVE  Listed(p) <=> \E s \in ToSet(p.channel) :
                                        Listed([p EXCEPT !.channel = <<s>>])
    BY DEF CommaListIsUnion
  <2> DEFINE q == GetFeedAreas(p)
             only(s) == GetFeedAreas([p EXCEPT !.channel = <<s>>])
  <2>0. p \in QueryString /\ p.channel \in Seq(STRING)
    BY QueryAssumption DEF QueryString
  <2>1. q.channel = p.channel  BY <2>0, QueryFields
  <2>2. \E s \in ToSet(p.channel) : TRUE
    <3>1. Len(p.channel) \in Nat /\ Len(p.channel) # 0 /\ DOMAIN p.channel = 1..Len(p.channel)
      BY <2>0
    <3>2. 1 \in DOMAIN p.channel  BY <3>1
    <3> QED  BY <3>2 DEF ToSet
  <2>3. p.channel # <<"ahbap_location">>
    <3>1. ToSet(<<"ahbap_location">>) = {"ahbap_location"}  BY DEF ToSet
    <3> QED  BY <3>1
  <2>4. ASSUME NEW s \in ToSet(p.channel)
        PROVE  /\ only(s).channel = <<s>> /\ only(s).timestamp = q.timestamp
               /\ only(s).sw = q.sw /\ only(s).ne = q.ne /\ only(s).reason = q.reason
               /\ only(s).locVerified = q.locVerified
               /\ only(s).needVerified = q.needVerified
               /\ <<s>> # <<"ahbap_location">> /\ <<s>> # <<>>
               /\ ToSet(<<s>>) = {s}
    <3> DEFINE one == [p EXCEPT !.channel = <<s>>]
    <3>1. s \in STRING /\ s # "ahbap_location"  BY <2>0, <2>4 DEF ToSet
    <3>2. /\ one \in QueryString /\ one.channel = <<s>>
          /\ one.timestamp = p.timestamp /\ one.sw = p.sw /\ one.ne = p.ne
          /\ one.reason = p.reason /\ one.locVerified = p.locVerified
          /\ one.needVerified = p.needVerified
      <4>1. <<s>> \in Seq(STRING)  BY <3>1
      <4> QED  BY <2>0, <4>1, OtherChannels
    <3>3. ToSet(<<s>>) = {s}  BY DEF ToSet
    <3> HIDE DEF one
    <3>4. /\ GetFeedAreas(one).channel = <<s>>
          /\ GetFeedAreas(one).timestamp = q.timestamp
          /\ GetFeedAreas(one).sw = q.sw /\ GetFeedAreas(one).ne = q.ne
          /\ GetFeedAreas(one).reason = q.reason
          /\ GetFeedAreas(one).locVerified = q.locVerified
          /\ GetFeedAreas(one).needVerified = q.needVerified
      BY ZenonT(60), <2>0, <3>2, QueryFields
    <3>5. <<s>> # <<"ahbap_location">> /\ <<s>> # <<>>  BY <3>1
    <3> QED  BY <3>3, <3>4, <3>5 DEF one
  <2> HIDE DEF q, only
  <2>5. ILikeAny(row.channel, p.channel)
          <=> \E s \in ToSet(p.channel) : ILikeAny(row.channel, <<s>>)
    BY ZenonT(60), <2>4 DEF ILikeAny
  <2>6. GetLocations(q) <=> \E s \in ToSet(p.channel) : GetLocations(only(s))
    BY ZenonT(60), <2>1, <2>2, <2>3, <2>4, <2>5 DEF GetLocations, NoTime, NoBox, InBox
  <2> QED  BY <2>6 DEF Listed, q, only
<1> QED  BY <1>1, PTL

(***************************************************************************)
(* No sequence of handlings and corrections brings back a feed that was    *)
(* taken out.                                                              *)
(***************************************************************************)
THEOREM OutForGood == QuerySpec => StaysOut
<1>1. RowOK /\ [QueryNext]_queryVars
        => [row # None /\ row.deleted => \A p \in Parameters : ~Listed(p)']_queryVars
  <2> SUFFICES ASSUME RowOK, QueryNext, row # None, row.deleted, NEW p \in Parameters
               PROVE  ~Listed(p)'
    OBVIOUS
  <2>1. row'.deleted
    <3>1. CASE HandleIntents
      <4>1. \/ row' = [row EXCEPT !.deleted = TRUE]
            \/ \E a \in Answers : row' = [row EXCEPT !.reason = Intents(a)]
        BY <3>1 DEF HandleIntents, Resolve
      <4> QED  BY <4>1 DEF RowOK
    <3>2. CASE PatchLocation  BY <3>2 DEF PatchLocation, RowOK
    <3>3. CASE Create \/ NextDay \/ OtherFeedIndexed
      BY <3>3 DEF Create, NextDay, OtherFeedIndexed
    <3> QED  BY <3>1, <3>2, <3>3 DEF QueryNext
  <2> QED  BY <2>1 DEF Listed, GetLocations
<1> QED  BY <1>1, RowAlwaysOK, PTL DEF QuerySpec, StaysOut

-----------------------------------------------------------------------------
(***************************************************************************)
(* However long the months and the year, a query without a timestamp       *)
(* leaves out no feed of the last year.                                    *)
(***************************************************************************)
THEOREM LastYearListed == QuerySpec => []LastYearAnswered
<1>1. RowOK /\ QueryTypeOK => LastYearAnswered
  <2> SUFFICES ASSUME RowOK, QueryTypeOK, NEW p \in Parameters,
                      p.timestamp = NoNumber, row # None,
                      row.epoch >= NumberOf([today EXCEPT !.year = @ - 1]),
                      Listed([p EXCEPT !.timestamp = 0])
               PROVE  Listed(p)
    BY DEF LastYearAnswered
  <2> DEFINE all == [p EXCEPT !.timestamp = 0]
             q == GetFeedAreas(p)
             r == GetFeedAreas(all)
  <2>1. p \in QueryString  BY QueryAssumption
  <2>2. /\ all \in QueryString
        /\ all.channel = p.channel /\ all.reason = p.reason
        /\ all.sw = p.sw /\ all.ne = p.ne
        /\ all.locVerified = p.locVerified /\ all.needVerified = p.needVerified
    BY <2>1 DEF QueryString
  <2> HIDE DEF all
  <2>3. /\ q.channel = r.channel /\ q.reason = r.reason
        /\ q.sw = r.sw /\ q.ne = r.ne
        /\ q.locVerified = r.locVerified /\ q.needVerified = r.needVerified
    BY ZenonT(60), <2>1, <2>2, QueryFields
  <2>4. q.timestamp = DefaultTimestamp  BY <2>1, QueryFields
  <2>5. row.epoch >= DefaultTimestamp
    <3> DEFINE y == today.year - 1
    <3>1. y \in Int /\ today.month \in 1..12 /\ today.day \in Int  BY DEF QueryTypeOK
    <3>2. NumberOf([today EXCEPT !.year = @ - 1]) = DayNumber(y, today.month, today.day)
      BY DEF NumberOf, QueryTypeOK
    <3>3. DefaultTimestamp = DayNumber(y, today.month - 1, today.day - 1)
      <4>1. /\ today.year + -1 = y /\ today.month + -1 = today.month - 1
            /\ today.day + -1 = today.day - 1
        BY <3>1
      <4> QED  BY <4>1 DEF DefaultTimestamp, AddDate
    <3> HIDE DEF y
    <3>4. row.epoch >= DayNumber(y, today.month, today.day)  BY <3>2
    <3>5. row.epoch \in Int  BY DEF RowOK
    <3> DEFINE now == DayNumber(y, today.month, today.day)
               back == DayNumber(y, today.month - 1, today.day - 1)
    <3>6. now \in Int /\ back \in Int /\ back + 29 <= now  BY <3>1, MonthBack
    <3> HIDE DEF now, back
    <3>7. row.epoch >= back  BY <3>4, <3>5, <3>6 DEF now
    <3> QED  BY <3>3, <3>7 DEF back
  <2>6. GetLocations(r)  BY DEF Listed, all
  <2> HIDE DEF q, r
  <2>7. GetLocations(q)
    BY <2>3, <2>4, <2>5, <2>6 DEF GetLocations, NoBox, InBox, NoTime
  <2> QED  BY <2>7 DEF Listed, q
<1> QED  BY <1>1, QueryInvAlways, PTL DEF QueryInv

(* The set of a sequence of one element, and the elements of a sequence. *)
LEMMA SetOfOne == ASSUME NEW x PROVE ToSet(<<x>>) = {x}
BY DEF ToSet

LEMMA ElementOf == ASSUME NEW S, NEW s \in Seq(S), NEW i \in 1..Len(s) PROVE s[i] \in S
OBVIOUS

(* A whole label is looked for alike in a column and in a field. *)
LEMMA LabelAgrees ==
    ASSUME NEW texts \in Seq(STRING), NEW column, texts # <<>>, WholeLabel(texts, column)
    PROVE  ILikeAny(column, texts) <=> Term(SplitColumn(column), texts)
<1>1. /\ Len(texts) = 1 /\ texts[1] # ""
      /\ \A t \in ToSet(SplitColumn(column)) : <<texts[1], t>> \in Like <=> texts[1] = t
  BY DEF WholeLabel
<1>2. ToSet(texts) = {texts[1]}
  <2>1. DOMAIN texts = 1..Len(texts)  OBVIOUS
  <2>2. 1..1 = {1}  OBVIOUS
  <2>3. DOMAIN texts = {1}  BY <1>1, <2>1, <2>2
  <2> QED  BY <2>3 DEF ToSet
<1>3. ILikeAny(column, texts)
        <=> column # None /\ \E t \in ToSet(column) : <<texts[1], t>> \in Like
  BY <1>1, <1>2 DEF ILikeAny
<1>4. Term(SplitColumn(column), texts) <=> texts[1] \in ToSet(SplitColumn(column))
  BY <1>1 DEF Term
<1>5. ToSet(<<>>) = {} /\ ToSet(<<"">>) = {""}
  <2>1. ToSet(<<>>) = {}  BY DEF ToSet
  <2>2. ToSet(<<"">>) = {""}  BY SetOfOne
  <2> QED  BY <2>1, <2>2
<1>6. CASE column = None
  <2>1. SplitColumn(column) = <<>>  BY <1>6 DEF SplitColumn
  <2> QED  BY <1>3, <1>4, <1>5, <1>6, <2>1
<1>7. CASE column # None /\ column = <<>>
  <2>1. SplitColumn(column) = <<"">>  BY <1>7 DEF SplitColumn
  <2> QED  BY <1>1, <1>3, <1>4, <1>5, <1>7, <2>1
<1>8. CASE column # None /\ column # <<>>
  <2>1. SplitColumn(column) = column  BY <1>8 DEF SplitColumn
  <2>2. \A t \in ToSet(column) : <<texts[1], t>> \in Like <=> texts[1] = t
    BY <1>1, <2>1
  <2>3. (\E t \in ToSet(column) : <<texts[1], t>> \in Like) <=> texts[1] \in ToSet(column)
    BY <2>2
  <2> QED  BY <1>3, <1>4, <1>8, <2>1, <2>3
<1> QED  BY <1>6, <1>7, <1>8

(***************************************************************************)
(* Where it is safe to, the index answers as the tables do: of every feed  *)
(* whose document is the last one written under its number, whatever the   *)
(* query's box and timestamp.                                              *)
(***************************************************************************)
THEOREM IndexMayBeRead == QuerySpec => []IndexAgrees
<1>1. QueryTypeOK /\ RowOK /\ DocumentOK => IndexAgrees
  <2> SUFFICES ASSUME QueryTypeOK, RowOK, DocumentOK, NEW p \in Parameters, indexed,
                      ~row.deleted, ~row.locVerified,
                      WholeLabel(p.reason, row.reason), WholeLabel(p.channel, row.channel),
                      p.locVerified # "garbage"
               PROVE  Listed(p) <=> ListedByIndex(p)
    BY DEF IndexAgrees
  <2> DEFINE q == GetFeedAreas(p)
  <2>1. /\ p \in QueryString
        /\ p.reason \in Seq(STRING) /\ p.channel \in Seq(STRING)
        /\ p.locVerified \in Flag /\ p.needVerified \in Flag
    BY QueryAssumption DEF QueryString
  <2>2. /\ q.reason = p.reason /\ q.channel = p.channel
        /\ q.locVerified = p.locVerified /\ q.needVerified = p.needVerified
    BY <2>1, QueryFields
  <2> HIDE DEF q
  <2>3. /\ row # None /\ document # None
        /\ document.box = row.box /\ document.epoch = row.epoch
        /\ document.reason = SplitColumn(row.reason)
        /\ document.channel = SplitColumn(row.channel)
        /\ document.locVerified = FALSE /\ document.needVerified = FALSE
        /\ row.needVerified = FALSE
    BY DEF RowOK, DocumentOK
  <2>4. row.locVerified = FALSE
    <3>1. row \in Row  BY <2>3 DEF QueryTypeOK
    <3>2. row.locVerified \in BOOLEAN  BY <3>1 DEF Row
    <3> QED  BY <3>2
  <2>5. q.reason = <<>> \/ ILikeAny(row.reason, q.reason)
          <=> q.reason = <<>> \/ Term(document.reason, q.reason)
    BY <2>1, <2>2, <2>3, LabelAgrees
  <2>6. q.channel = <<>> \/ ILikeAny(row.channel, q.channel)
          <=> q.channel = <<>> \/ Term(document.channel, q.channel)
    BY <2>1, <2>2, <2>3, LabelAgrees
  <2>7. NoBox(q) \/ InBox(row, q) <=> NoBox(q) \/ InBox(document, q)
    BY <2>3 DEF InBox
  <2>8. q.locVerified \in {"", "garbage"} \/ row.locVerified = ParseBool(q.locVerified)
          <=> q.locVerified = "" \/ document.locVerified = ParseBool(q.locVerified)
    BY <2>2, <2>3, <2>4
  <2>9. q.needVerified = "" \/ row.needVerified = ParseBool(q.needVerified)
          <=> q.needVerified = "" \/ document.needVerified = ParseBool(q.needVerified)
    BY <2>3
  <2>10. q.needVerified # "garbage" <=> Accepted(q)  BY <2>2 DEF Accepted
  <2>11. NoTime(q) \/ row.epoch >= q.timestamp <=> NoTime(q) \/ document.epoch >= q.timestamp
    BY <2>3
  <2>12. GetLocations(q) <=> IndexGetLocations(q)
    BY ZenonT(60), <2>3, <2>5, <2>6, <2>7, <2>8, <2>9, <2>10, <2>11
       DEF GetLocations, IndexGetLocations
  <2> QED  BY <2>12 DEF Listed, ListedByIndex, q
<1> QED  BY <1>1, QueryInvAlways, PTL DEF QueryInv

-----------------------------------------------------------------------------
(* A set of numbers that holds 0 and with each number the next holds all. *)
LEMMA Induction ==
    ASSUME NEW S \in SUBSET Nat, 0 \in S, \A n \in S : n + 1 \in S
    PROVE  S = Nat
<1> DEFINE T == Nat \ S
<1>1. ASSUME T # {} PROVE FALSE
  <2>1. PICK t \in T : \A u \in T : <<u, t>> \notin OpToRel(<, Nat)
    BY <1>1, NatLessThanWellFounded, WFMin
  <2>2. \A u \in T : ~(u < t)  BY <2>1 DEF OpToRel
  <2>3. t \in Nat /\ t # 0 /\ t - 1 \in Nat /\ t - 1 < t  OBVIOUS
  <2>4. t - 1 \in S  BY <2>2, <2>3
  <2>5. (t - 1) + 1 \in S  BY <2>4
  <2>6. t \in S  BY <2>3, <2>5
  <2> QED  BY <2>6
<1> QED  BY <1>1

(* The labels kept after each turn of the first n of the loop. *)
Kept(a, n, f) == f = [i \in 0..n |-> IF i = 0 THEN <<>> ELSE Keep(f[i - 1], a[i])]

(* There is such a function for every number of turns. *)
LEMMA KeptExists == ASSUME NEW a, NEW n \in Nat PROVE \E f : Kept(a, n, f)
<1> DEFINE S == {k \in Nat : \E f : Kept(a, k, f)}
<1>1. 0 \in S
  <2> DEFINE f == [i \in 0..0 |-> <<>>]
  <2>1. Kept(a, 0, f)
    <3>1. \A i \in 0..0 : i = 0  OBVIOUS
    <3> QED  BY <3>1 DEF Kept
  <2> QED  BY <2>1
<1>2. ASSUME NEW k \in S PROVE k + 1 \in S
  <2>0. k \in Nat /\ k + 1 \in Nat  OBVIOUS
  <2>1. PICK f : Kept(a, k, f)  OBVIOUS
  <2> DEFINE g == [i \in 0..(k + 1) |-> IF i = k + 1 THEN Keep(f[k], a[k + 1]) ELSE f[i]]
  <2>2. ASSUME NEW i \in 0..(k + 1)
        PROVE  g[i] = IF i = 0 THEN <<>> ELSE Keep(g[i - 1], a[i])
    <3>1. CASE i = k + 1
      <4>1. i # 0 /\ i - 1 = k /\ k \in 0..(k + 1) /\ k # k + 1  BY <2>0, <3>1
      <4>2. g[k] = f[k] /\ g[i] = Keep(f[k], a[k + 1])  BY <3>1, <4>1
      <4> QED  BY <3>1, <4>1, <4>2
    <3>2. CASE i # k + 1 /\ i # 0
      <4>1. /\ i \in 0..k /\ i - 1 \in 0..(k + 1) /\ i - 1 # k + 1
        BY <2>0, <3>2
      <4>2. g[i] = f[i] /\ g[i - 1] = f[i - 1]  BY <3>2, <4>1
      <4>3. f[i] = Keep(f[i - 1], a[i])
        <5> HIDE DEF g
        <5> QED  BY <2>1, <3>2, <4>1 DEF Kept
      <4> QED  BY <3>2, <4>2, <4>3
    <3>3. CASE i = 0
      <4>1. 0 \in 0..k /\ 0 # k + 1  BY <2>0
      <4>2. g[i] = f[0]  BY <3>3, <4>1
      <4>3. f[0] = <<>>
        <5> HIDE DEF g
        <5> QED  BY <2>1, <4>1 DEF Kept
      <4> QED  BY <3>3, <4>2, <4>3
    <3> QED  BY <3>1, <3>2, <3>3
  <2>3. g = [i \in 0..(k + 1) |-> g[i]]  OBVIOUS
  <2> HIDE DEF g
  <2>4. g = [i \in 0..(k + 1) |-> IF i = 0 THEN <<>> ELSE Keep(g[i - 1], a[i])]
    BY <2>2, <2>3
  <2>5. Kept(a, k + 1, g)  BY <2>4 DEF Kept
  <2> QED  BY <2>0, <2>5
<1> HIDE DEF S
<1>3. S = Nat
  <2>1. S \in SUBSET Nat  BY DEF S
  <2> QED  BY <1>1, <1>2, <2>1, Induction
<1> QED  BY <1>3 DEF S

Settles(intent) == intent.label = "Alakasiz" /\ intent.score >= 7

(* What the loop keeps of an answer that does not call the feed irrelevant. *)
KeptLabels(a, n, kept) ==
    /\ \A j \in 1..n : ~Settles(a[j])
    /\ kept \in Seq({Lower[l] : l \in DOMAIN Lower})
    /\ \A t : t \in ToSet(kept) <=> \E j \in 1..n : a[j].score >= 4 /\ Lower[a[j].label] = t

(* Appending an element adds it to the set of a sequence. *)
LEMMA AppendSet ==
    ASSUME NEW S, NEW s \in Seq(S), NEW x \in S
    PROVE  \A t : t \in ToSet(Append(s, x)) <=> t \in ToSet(s) \/ t = x
<1>1. /\ Len(s) \in Nat /\ DOMAIN s = 1..Len(s)
      /\ DOMAIN Append(s, x) = 1..(Len(s) + 1)
      /\ Append(s, x)[Len(s) + 1] = x
      /\ \A i \in 1..Len(s) : Append(s, x)[i] = s[i]
  OBVIOUS
<1>2. \A t : t \in ToSet(s) <=> \E i \in 1..Len(s) : s[i] = t
  BY <1>1 DEF ToSet
<1>3. \A t : t \in ToSet(Append(s, x)) <=> \E i \in 1..(Len(s) + 1) : Append(s, x)[i] = t
  <2> DEFINE r == Append(s, x)
  <2>1. DOMAIN r = 1..(Len(s) + 1)  BY <1>1
  <2> HIDE DEF r
  <2>2. \A t : t \in ToSet(r) <=> \E i \in 1..(Len(s) + 1) : r[i] = t
    BY <2>1 DEF ToSet
  <2> QED  BY <2>2 DEF r
<1>4. \A i : i \in 1..(Len(s) + 1) <=> i \in 1..Len(s) \/ i = Len(s) + 1
  BY <1>1
<1>5. ASSUME NEW t PROVE t \in ToSet(Append(s, x)) <=> t \in ToSet(s) \/ t = x
  <2>1. CASE t = x  BY <1>1, <1>3, <1>4, <2>1
  <2>2. CASE t # x  BY <1>1, <1>2, <1>3, <1>4, <2>2
  <2> QED  BY <2>1, <2>2
<1> QED  BY <1>5

(* One turn of the loop. *)
LEMMA KeepTurn ==
    ASSUME NEW a \in Answers, NEW n \in Nat, n + 1 \in 1..Len(a), NEW kept,
           kept = Irrelevant \/ KeptLabels(a, n, kept)
    PROVE  LET next == Keep(kept, a[n + 1])
           IN  next = Irrelevant \/ KeptLabels(a, n + 1, next)
<1> DEFINE x == a[n + 1]
<1>1. x.label \in DOMAIN Lower /\ x.score \in Int
  <2>1. a \in Seq([label : DOMAIN Lower, score : Int])  BY AnswersAssumption
  <2>2. a[n + 1] \in [label : DOMAIN Lower, score : Int]  BY <2>1, ElementOf
  <2> QED  BY <2>2
<1>2. \A j : j \in 1..(n + 1) <=> j \in 1..n \/ j = n + 1  OBVIOUS
<1>3. CASE kept = Irrelevant  BY <1>3 DEF Keep
<1>4. CASE kept # Irrelevant /\ x.score < 4
  <2>1. Keep(kept, x) = kept  BY <1>4 DEF Keep
  <2>2. ~Settles(x) /\ ~(x.score >= 4)  BY <1>1, <1>4 DEF Settles
  <2>3. KeptLabels(a, n, kept)  BY <1>4
  <2> HIDE DEF x
  <2>4. KeptLabels(a, n + 1, kept)
    <3>1. \A j \in 1..(n + 1) : ~Settles(a[j])  BY <1>2, <2>2, <2>3 DEF KeptLabels, x
    <3>2. ASSUME NEW t
          PROVE  (\E j \in 1..(n + 1) : a[j].score >= 4 /\ Lower[a[j].label] = t)
                   <=> \E j \in 1..n : a[j].score >= 4 /\ Lower[a[j].label] = t
      BY <1>2, <2>2 DEF x
    <3> QED  BY Zenon, <2>3, <3>1, <3>2 DEF KeptLabels
  <2> QED  BY <2>1, <2>4 DEF x
<1>5. CASE kept # Irrelevant /\ ~(x.score < 4) /\ Settles(x)
  BY <1>5 DEF Keep, Settles
<1>6. CASE kept # Irrelevant /\ ~(x.score < 4) /\ ~Settles(x)
  <2> DEFINE next == Append(kept, Lower[x.label])
  <2>1. Keep(kept, x) = next  BY <1>6 DEF Keep, Settles
  <2>2. x.score >= 4  BY <1>1, <1>6
  <2>3. KeptLabels(a, n, kept)  BY <1>6
  <2>4. next \in Seq({Lower[l] : l \in DOMAIN Lower})
    BY <1>1, <2>3 DEF KeptLabels
  <2>5. \A t : t \in ToSet(next) <=> t \in ToSet(kept) \/ t = Lower[x.label]
    BY <1>1, <2>3, AppendSet DEF KeptLabels
  <2> HIDE DEF next, x
  <2>6. KeptLabels(a, n + 1, next)
    <3>1. \A j \in 1..(n + 1) : ~Settles(a[j])  BY <1>2, <1>6, <2>3 DEF KeptLabels, x
    <3>2. ASSUME NEW t
          PROVE  (\E j \in 1..(n + 1) : a[j].score >= 4 /\ Lower[a[j].label] = t)
                   <=> \/ \E j \in 1..n : a[j].score >= 4 /\ Lower[a[j].label] = t
                       \/ t = Lower[x.label]
      BY <1>2, <2>2 DEF x
    <3> QED  BY Zenon, <2>3, <2>4, <2>5, <3>1, <3>2 DEF KeptLabels
  <2> QED  BY <2>1, <2>6 DEF x
<1> QED  BY <1>3, <1>4, <1>5, <1>6

(***************************************************************************)
(* The scan of an answer, whatever its length: it ends at the label that   *)
(* settles it, or keeps all labels with a score of 0.4 and no other.       *)
(***************************************************************************)
LEMMA ScanKeeps ==
    ASSUME NEW a \in Answers, Intents(a) # Irrelevant
    PROVE  KeptLabels(a, Len(a), Intents(a))
<1> DEFINE f == CHOOSE g : Kept(a, Len(a), g)
           S == {n \in Nat : n <= Len(a) => f[n] = Irrelevant \/ KeptLabels(a, n, f[n])}
<1>0. Len(a) \in Nat
  <2>1. a \in Seq([label : DOMAIN Lower, score : Int])  BY AnswersAssumption
  <2> QED  BY <2>1
<1>1. Kept(a, Len(a), f)  BY <1>0, KeptExists
<1>2. Intents(a) = f[Len(a)]  BY DEF Intents, Kept
<1> HIDE DEF f
<1>3. f[0] = <<>>  BY <1>0, <1>1 DEF Kept
<1>4. 0 \in S
  <2>1. \A j \in 1..0 : FALSE  OBVIOUS
  <2>2. ToSet(<<>>) = {}  BY DEF ToSet
  <2>3. <<>> \in Seq({Lower[l] : l \in DOMAIN Lower})  OBVIOUS
  <2>4. KeptLabels(a, 0, <<>>)  BY Zenon, <2>1, <2>2, <2>3 DEF KeptLabels
  <2> QED  BY <1>3, <2>4
<1>5. ASSUME NEW n \in S PROVE n + 1 \in S
  <2>0. n \in Nat /\ n + 1 \in Nat  OBVIOUS
  <2>1. CASE ~(n + 1 <= Len(a))  BY <2>0, <2>1
  <2>2. CASE n + 1 <= Len(a)
    <3>1. f[n] = Irrelevant \/ KeptLabels(a, n, f[n])  BY <1>0, <2>0, <2>2
    <3>2. n + 1 \in 1..Len(a) /\ n + 1 \in 0..Len(a) /\ (n + 1) - 1 = n /\ n + 1 # 0
      BY <1>0, <2>0, <2>2
    <3>3. f[n + 1] = Keep(f[n], a[n + 1])
      <4>1. f[n + 1] = Keep(f[(n + 1) - 1], a[n + 1])  BY <1>1, <3>2 DEF Kept
      <4> QED  BY <3>2, <4>1
    <3>4. f[n + 1] = Irrelevant \/ KeptLabels(a, n + 1, f[n + 1])
      BY <2>0, <3>1, <3>2, <3>3, KeepTurn
    <3> QED  BY <2>0, <3>4
  <2> QED  BY <2>1, <2>2
<1> HIDE DEF S
<1>6. S = Nat
  <2>1. S \in SUBSET Nat  BY DEF S
  <2> QED  BY <1>4, <1>5, <2>1, Induction
<1>7. f[Len(a)] = Irrelevant \/ KeptLabels(a, Len(a), f[Len(a)])
  BY <1>0, <1>6 DEF S
<1> QED  BY <1>2, <1>7

(***************************************************************************)
(* Whatever the classifier answers, a feed is found by the labels it gave  *)
(* a score of at least 0.4 and by nothing else.                            *)
(***************************************************************************)
THEOREM FoundByLabels == QuerySpec => []FoundByIntents
<1>1. QueryTypeOK => FoundByIntents
  <2> SUFFICES ASSUME QueryTypeOK, answer # None PROVE
        ~CalledIrrelevant(answer) /\ \A p \in Parameters :
            LET found == \E i \in 1..Len(answer), s \in ToSet(p.reason) :
                            answer[i].score >= 4 /\ <<s, Lower[answer[i].label]>> \in Like
            IN  p.reason # <<>> /\ "" \notin ToSet(p.reason) =>
                    Listed(p) <=> found /\ Listed([p EXCEPT !.reason = <<>>])
    BY DEF FoundByIntents
  <2>1. /\ answer \in Answers /\ Intents(answer) # Irrelevant /\ row # None
        /\ row.reason = Intents(answer) /\ row.reason # None
    BY NoneAssumption DEF QueryTypeOK, Labels
  <2>2. KeptLabels(answer, Len(answer), row.reason)  BY <2>1, ScanKeeps
  <2>3. ~CalledIrrelevant(answer)  BY <2>2 DEF KeptLabels, Settles, CalledIrrelevant
  <2>4. ASSUME NEW p \in Parameters, p.reason # <<>>, "" \notin ToSet(p.reason)
        PROVE  Listed(p)
                 <=> /\ \E i \in 1..Len(answer), s \in ToSet(p.reason) :
                           answer[i].score >= 4 /\ <<s, Lower[answer[i].label]>> \in Like
                     /\ Listed([p EXCEPT !.reason = <<>>])
    <3> DEFINE other == [p EXCEPT !.reason = <<>>]
               q == GetFeedAreas(p)
               r == GetFeedAreas(other)
               found == \E i \in 1..Len(answer), s \in ToSet(p.reason) :
                            answer[i].score >= 4 /\ <<s, Lower[answer[i].label]>> \in Like
    <3>1. p \in QueryString  BY QueryAssumption
    <3>2. /\ other \in QueryString /\ other.reason = <<>>
          /\ other.channel = p.channel /\ other.timestamp = p.timestamp
          /\ other.sw = p.sw /\ other.ne = p.ne
          /\ other.locVerified = p.locVerified /\ other.needVerified = p.needVerified
      <4>1. <<>> \in Seq(STRING)  OBVIOUS
      <4> QED  BY <3>1, <4>1 DEF QueryString
    <3> HIDE DEF other
    <3>3. /\ q.channel = r.channel /\ q.timestamp = r.timestamp
          /\ q.sw = r.sw /\ q.ne = r.ne
          /\ q.locVerified = r.locVerified /\ q.needVerified = r.needVerified
          /\ q.reason = p.reason /\ r.reason = <<>>
      BY ZenonT(60), <3>1, <3>2, QueryFields
    <3> HIDE DEF q, r
    <3>4. \A t : t \in ToSet(row.reason)
              <=> \E j \in 1..Len(answer) : answer[j].score >= 4 /\ Lower[answer[j].label] = t
      BY <2>2 DEF KeptLabels
    <3>5. ILikeAny(row.reason, p.reason) <=> found
      BY ZenonT(60), <2>1, <2>4, <3>4 DEF ILikeAny
    <3> HIDE DEF found
    <3>6. GetLocations(q) <=> found /\ GetLocations(r)
      BY ZenonT(60), <2>4, <3>3, <3>5 DEF GetLocations, NoBox, InBox, NoTime
    <3> QED  BY <3>6 DEF Listed, q, r, other, found
  <2> QED  BY <2>3, <2>4
<1> QED  BY <1>1, QueryTypeCorrect, PTL
=============================================================================
