--------------------------- MODULE LocationQueryMC ---------------------------
(* An instance of the queries for TLC. *)
EXTENDS LocationQuery

Point(lat, lng) == [lat |-> lat, lng |-> lng]
Box(a, b, c, d) == [sw |-> Point(a, b), ne |-> Point(c, d)]
Payload(p, box, age, reason, channel) ==
    [point |-> p, box |-> box, age |-> age, reason |-> reason, channel |-> channel]

(* Ages on both sides of a year and of the default window; a box that misses its
   point, none at all, and a payload no row is stored of. *)
TestPayloads ==
    {Payload(Point(1, 2), Box(1, 1, 2, 2), 365, None, <<"twitter">>),
     Payload(Point(3, 3), Box(3, 3, 3, 3), 366, <<"su">>, <<"ahbap">>),
     Payload(Point(2, 2), Box(1, 2, 2, 3), 396, <<>>, <<"ahbap_location">>),
     Payload(Point(2, 1), Box(0, 0, 0, 0), 400, <<"barinma", "su">>, None),
     Payload(Point(0, 1), Box(1, 1, 1, 1), 1, None, <<"twitter">>)}

(* Another feed, with another box, channel and day. *)
TestOthers == {p \in TestPayloads : p.age = 366}

Intent(label, score) == [label |-> label, score |-> score]

(* "Alakasiz" above, at and below the score that settles it. *)
TestAnswers ==
    {<<>>,
     <<Intent("Su", 4), Intent("Barinma", 3)>>,
     <<Intent("Alakasiz", 6), Intent("Su", 5), Intent("Barinma", 4)>>,
     <<Intent("Barinma", 9), Intent("Alakasiz", 7), Intent("Su", 4)>>}

TestPoints == {Point(9, 9)}

TestLower == [l \in {"Alakasiz", "Su", "Barinma"} |->
                 CASE l = "Su" -> "su" [] l = "Barinma" -> "barinma" [] OTHER -> "alakasiz"]

TestLike ==
    {<<t, t>> : t \in {"su", "barinma", "alakasiz", "twitter", "ahbap", "ahbap_location"}}
    \union {<<"SU", "su">>, <<"bar", "barinma">>, <<"ahbap", "ahbap_location">>}

(* The days around the end of February, of a long month and of a year. *)
Date(y, m, d) == [year |-> y, month |-> m, day |-> d]
TestDates == {Date(4, 2, 28), Date(5, 2, 28), Date(5, 3, 30), Date(5, 12, 31)}

Query(box, timestamp, reason, channel, locVerified, needVerified) ==
    [sw |-> box.sw, ne |-> box.ne, timestamp |-> timestamp, reason |-> reason,
     channel |-> channel, locVerified |-> locVerified, needVerified |-> needVerified]

Everywhere == Box(NoNumber, NoNumber, NoNumber, NoNumber)
Boxes == {Everywhere, Box(1, 1, 2, 2), Box(1, 1, 3, 3), Box(2, 1, 3, 9), Box(1, 1, 3, NoNumber)}
Reasons == {<<>>, <<"su">>, <<"SU">>, <<"bar", "su">>, <<"", "">>}
Channels == {<<>>, <<"twitter">>, <<"ahbap">>, <<"ahbap_location">>, <<"twitter", "ahbap">>,
             <<"ahbap_location", "twitter">>}
Flags == {"", "true", "false", "garbage"}

TestParameters ==
    {Query(b, t, <<>>, c, "", "") : b \in Boxes, t \in {NoNumber, 0, 1500},
                                    c \in {<<>>, <<"ahbap_location">>}}
    \union {Query(Everywhere, t, r, c, "", "") : t \in {NoNumber, 0}, r \in Reasons, c \in Channels}
    \union {Query(Everywhere, 0, r, <<>>, l, n) : r \in {<<>>, <<"su">>}, l \in Flags, n \in Flags}
=============================================================================
