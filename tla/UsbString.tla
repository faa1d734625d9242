------------------------------ MODULE UsbString ------------------------------
(***************************************************************************)
(* String descriptors, android-auto/usbstring.c: a C string in UTF-8 is    *)
(* looked up by its id and converted to UTF-16.  A string is a sequence of *)
(* bytes without a zero; the zero that ends it is what is read behind.     *)
(***************************************************************************)
EXTENDS Integers, SequencesExt

CONSTANT MaxChars    \* 126: a descriptor counts its bytes in one byte

ASSUME MaxCharsAssumption == MaxChars \in 0..126

Stall == <<-1>>      \* -EINVAL, for which ep0 stalls

ByteAt(s, p) == IF p <= Len(s) THEN s[p] ELSE 0

(* mutant: a byte that begins a sequence is not told from ASCII *)
UnitAtLatin(s, p) == [ok |-> TRUE, unit |-> ByteAt(s, p), next |-> p + 1]

(* A byte of a sequence after the first is taken when both its high bits are
   set; its lower six bits count. *)
Follows(b) == b >= 192
Surrogates == 55296..57343
SixBits(b) == b % 64

(* A character of one byte, of two, of three: whether it is correct, its code
   unit, and where the next one begins. *)
OneByte(s, p) == [ok |-> TRUE, unit |-> ByteAt(s, p), next |-> p + 1]
TwoBytes(s, p) ==
    [ok |-> Follows(ByteAt(s, p + 1)),
     unit |-> (ByteAt(s, p) % 32) * 64 + SixBits(ByteAt(s, p + 1)),
     next |-> p + 2]
ThreeUnit(s, p) ==
    (ByteAt(s, p) % 16) * 4096 + SixBits(ByteAt(s, p + 1)) * 64 + SixBits(ByteAt(s, p + 2))
ThreeBytes(s, p) ==
    [ok |-> /\ Follows(ByteAt(s, p + 1)) /\ Follows(ByteAt(s, p + 2))
            /\ ThreeUnit(s, p) \notin Surrogates,
     unit |-> ThreeUnit(s, p),
     next |-> p + 3]

UnitAt(s, p) ==
    LET b == ByteAt(s, p)
    IN  CASE b < 128              -> OneByte(s, p)
          [] b >= 192 /\ b < 224 -> TwoBytes(s, p)
          [] b >= 224 /\ b < 240 -> ThreeBytes(s, p)
          [] OTHER                -> [ok |-> FALSE, unit |-> 0, next |-> p + 1]

(* A round of the loop: the next character is converted, unless the string has
   ended, or one was not correct. *)
Convert(c, s) ==
    LET here == UnitAt(s, c.next)
    IN  IF c.units = Stall \/ c.next > Len(s) THEN c
        ELSE [next |-> here.next,
              units |-> IF here.ok THEN Append(c.units, here.unit) ELSE Stall]

(* utf8_to_utf16le: at most n rounds, or Stall when a character is not correct. *)
Utf8ToUtf16(s, n) ==
    FoldLeft(Convert, [next |-> 1, units |-> <<>>], [round \in 1..n |-> s]).units

LowHigh(unit) == <<unit % 256, unit \div 256>>
Bytes(units) == [n \in 1..(2 * Len(units)) |-> LowHigh(units[(n + 1) \div 2])[2 - (n % 2)]]

(* The descriptor of one string: its length, the tag, the text. *)
StringDescriptor(s) ==
    LET units == Utf8ToUtf16(s, IF Len(s) < MaxChars THEN Len(s) ELSE MaxChars)
    IN  IF units = Stall THEN Stall ELSE <<(Len(units) + 1) * 2, 3>> \o Bytes(units)

(* usb_gadget_get_string: 0 is the language, an id that is not in the table
   stalls, and the first entry with an id is the one that counts. *)
GetString(language, table, id) ==
    LET found == {n \in DOMAIN table : table[n].id = id}
        first == CHOOSE n \in found : \A m \in found : n <= m
    IN  CASE id = 0 -> <<4, 3>> \o LowHigh(language)
          [] id # 0 /\ found = {} -> Stall
          [] OTHER -> StringDescriptor(table[first].s)

-----------------------------------------------------------------------------
(* What must hold, of any table *)

(* The reference: UTF-8 of a sequence of characters below 2^16; 0 would end the
   string. *)
Characters == {c \in Nat : 0 < c /\ c < 65536}
Utf8Char(c) ==
    CASE c < 128  -> <<c>>
      [] c >= 128 /\ c < 2048 -> <<192 + (c \div 64), 128 + (c % 64)>>
      [] OTHER    -> <<224 + (c \div 4096), 128 + ((c \div 64) % 64), 128 + (c % 64)>>
Utf8(chars) == FlattenSeq([n \in DOMAIN chars |-> Utf8Char(chars[n])])

(* What a host reads from a descriptor: it believes the length, and nothing
   when that is not what was sent. *)
HostReads(d) ==
    IF d = Stall \/ d[1] # Len(d) \/ d[1] % 2 = 1 THEN Stall
    ELSE [n \in 1..((Len(d) \div 2) - 1) |-> d[2 * n + 1] + 256 * d[2 * n + 2]]
FirstChars(chars) == SubSeq(chars, 1, IF Len(chars) < MaxChars THEN Len(chars) ELSE MaxChars)
=============================================================================
