----------------------------- MODULE MCHostTools -----------------------------
(* The inputs of the runs of HostTools. *)
EXTENDS HostTools, TLC

Upto(n, S) == UNION {[1..k -> S] : k \in 0..n}

(* Texts of up to three characters, one of each length in UTF-8 and of each
   value that a code unit's byte may not take, and long ones around MaxChars. *)
Letters == {65, 127, 128, 233, 2047, 2048, 8364, 65533}
Repeated(c, n) == [k \in 1..n |-> c]
Alphabet(n) == [k \in 1..n |-> 32 + (k % 95)]
SomeTexts == Upto(3, Letters) \cup {Alphabet(n) : n \in {17, 39, 40, 41, 60}}
             \cup {Alphabet(39) \o <<233>>, Alphabet(40) \o <<233>>}

(* The table of main.cpp, as many characters as its strings have; a long string,
   one that is not ASCII, and an id that is there twice. *)
GadgetStrings ==
    [n \in 1..6 |-> [id |-> n, s |-> Alphabet(<<28, 19, 4, 24, 23, 27>>[n])]]
    \o <<[id |-> 8, s |-> Alphabet(60)], [id |-> 9, s |-> <<65, 233>>], [id |-> 6, s |-> <<65>>]>>

Entry(dest, size, data) == [dest |-> dest, size |-> size, data |-> data]
Entries == {Entry(100, 8, <<51, 0>>), Entry(200, 5, <<0, 52>>), Entry(300, -12, <<>>)}
Code == {[kind |-> "code", words |-> w] : w \in {<<61>>, <<0, 0, 62>>}}
Pieces == Code \cup {[kind |-> "table", entries |-> e] : e \in Upto(2, Entries)}
SomeRoms == Upto(2, Pieces) \cup
    {<<[kind |-> "table", entries |-> e]>> : e \in [1..4 -> Entries] \cup [1..5 -> Entries]}

Junk1 == [end |-> TRUE, valid |-> TRUE, words |-> 3, bit4 |-> TRUE, bit15 |-> FALSE, is |-> ""]
Junk2 == [end |-> FALSE, valid |-> TRUE, words |-> 1, bit4 |-> FALSE, bit15 |-> TRUE, is |-> ""]
SomePlanes == Upto(3, [scaled : BOOLEAN, flip : BOOLEAN, looks : {Junk1, Junk2}])

(* Pages are small here; areas begin and end anywhere in two of them. *)
SomeAreas == [base : {0, 4, 16, 48, 60, 63, 64, 80, 127}, size : {1, 4, 16, 32, 64, 80, 127, 128}]

(* The header, and the unused timings, of main. *)
FixedBytes == [b \in 0..127 |-> IF b \in 1..6 THEN 255 ELSE IF b \in 38..53 THEN 1 ELSE 0]

SomeTimings ==
    [clock : {2700, 65535}, hactive : {255, 1440, 4095}, hfp : {40, 1023}, hsync : {118, 256},
     hbp : {118}, vactive : {240, 1080}, vfp : {0, 3, 15, 16, 63},
     vsync : {4, 15, 63}, vbp : {15, 255}, interlaced : BOOLEAN]
=============================================================================
