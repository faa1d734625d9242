-------------------------- MODULE MCEepromReaders --------------------------
(* The images of the runs of EepromReaders: up to MaxChunks chunks, of
   lengths that do and do not end on a boundary. *)
EXTENDS EepromReaders, TLC

CONSTANT MaxChunks

Chunk(magic, length) == [magic |-> magic, length |-> length]
(* Boot codes around where their footer gets too short, and where it is whole. *)
Samples == {Chunk("boot", n) : n \in {7, 8, 276, 277, 284}} \cup
           {Chunk("file", 16), Chunk("file", 23), Chunk("hashed", 48), Chunk("hashed", 61),
            Chunk("hashed", 52), Chunk("other", 0), Chunk("other", 8), Chunk("other", 510)}

Rounded(x) == CHOOSE y \in x..x + 7 : y % 8 = 0
Starts(chunks) ==
    LET s[k \in 1..Len(chunks) + 1] ==
            IF k = 1 THEN 0 ELSE Rounded(s[k - 1] + 8 + chunks[k - 1].length)
    IN  s
Image(chunks, size, marker) ==
    [chunks |-> chunks, start |-> Starts(chunks), size |-> size, marker |-> marker]

Layouts == UNION {[1..n -> Samples] : n \in 1..MaxChunks}
AllOf(chunks) == Starts(chunks)[Len(chunks) + 1]
LastByte(chunks) == Starts(chunks)[Len(chunks)] + 8 + chunks[Len(chunks)].length

MarkedImages == {Image(c, AllOf(c) + 8, TRUE) : c \in Layouts}
PaddedImages == MarkedImages \cup {Image(c, AllOf(c), FALSE) : c \in Layouts}
AnyImages == PaddedImages \cup {Image(c, LastByte(c), FALSE) : c \in Layouts}
=============================================================================
