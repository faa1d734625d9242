--------------------------- MODULE EepromReaders ---------------------------
(***************************************************************************)
(* The three programs that take a Raspberry Pi 4 SPI flash image apart:    *)
(* unpack_eeprom (eeprom-v2/main.cpp), process_eeprom                      *)
(* (eeprom/extractor.js) and readEntry (eeprom/SpiFs.hs).  Each finds the  *)
(* next chunk in its own way.  An image is external: chunks of a magic and *)
(* a length, each at the first multiple of 8 after the one before, then    *)
(* either the marker 0xffffffff or the end of the file.                    *)
(***************************************************************************)
EXTENDS Integers, Sequences

CONSTANTS
    Images,   \* the images that are read
    JsWord    \* the mask of extractor.js keeps a length modulo 2^20

NameLength == 16
HashLength == 32
FooterSize == 284
Magics == {"boot",     \* 0x55aaf00f
           "file",     \* 0x55aaf11f, 0x55aaf22f: a name and the data
           "hashed",   \* 0x55aaf33f, 0x55aaf44f: a name, the data, and their hash
           "other"}    \* padding, 0x55aafeef, and what no reader knows
Chunks == [magic : Magics, length : Nat]

WellFormed(image) ==
    LET n == Len(image.chunks)
        end(k) == image.start[k] + 8 + image.chunks[k].length
    IN  /\ image.chunks \in Seq(Chunks)
        /\ image.start \in [1..n + 1 -> Nat] /\ image.start[1] = 0
        /\ image.size \in Nat /\ image.marker \in BOOLEAN
        /\ \A k \in 1..n : image.start[k + 1] \in end(k)..end(k) + 7 /\ image.start[k + 1] % 8 = 0
        /\ \A j \in 1..n, k \in 1..n + 1 : j < k => image.start[j] + 8 <= image.start[k]
        /\ \A k \in 1..n : /\ end(k) <= image.size
                           /\ image.chunks[k].magic = "file" => image.chunks[k].length >= NameLength
                           /\ image.chunks[k].magic = "hashed" =>
                                  image.chunks[k].length >= NameLength + HashLength
        /\ IF image.marker THEN image.start[n + 1] + 8 <= image.size
                           ELSE image.size <= image.start[n + 1]

ASSUME ConstantsAssumption ==
    /\ JsWord \in Nat \ {0} /\ JsWord % 8 = 0
    /\ \A image \in Images : WellFormed(image)

Readers == {"cpp", "js", "hs"}
VARIABLES
    image,
    keys,   \* there is a keys.js that the signature of a boot code is computed with
    at,     \* offset, pos and bytesRead
    found,  \* the chunks each reader has handled
    ended   \* how it ended, "no" while it has not
vars == <<image, keys, at, found, ended>>

Count == Len(image.chunks)
ChunkNumbers == 1..Count

(* One type invariant: every variable keeps to its domain. *)
TypeOK ==
    /\ image \in Images /\ keys \in BOOLEAN
    /\ at \in [Readers -> Nat]
    /\ found \in [Readers -> Seq(ChunkNumbers)]
    /\ ended \in [Readers -> {"no", "end", "marker", "lost", "threw"}]

Init ==
    /\ image \in Images /\ keys \in BOOLEAN
    /\ at = [r \in Readers |-> 0]
    /\ found = [r \in Readers |-> <<>>]
    /\ ended = [r \in Readers |-> "no"]

-----------------------------------------------------------------------------
(* Where the next chunk is *)

Clear3(x) == x - (x % 8)   \* x & ~7

(* ROUNDUP(offset + 8 + chunk_size, 8) *)
CppNext(a, length) == Clear3(a + 8 + length + 7)

(* pos += ((8+len-1) & 0xffff8) + 8 *)
JsNext(a, length) == a + Clear3((8 + length - 1) % JsWord) + 8

(* mutant: a chunk that ends on the boundary is padded too *)
HsNextPads(a, length) == (a + 8 + length) + (8 - ((a + 8 + length) % 8))

(* tailOffset and the padding that follows it *)
HsNext(a, length) ==
    LET tailOffset == a + 8 + length
        remainder == tailOffset % 8
    IN  tailOffset + (IF remainder = 0 THEN 0 ELSE 8 - remainder)

-----------------------------------------------------------------------------
(* parse_bootcode *)

(* slice(length - 284): what is left of it counts from the end when negative. *)
FooterLength(length) ==
    LET from  == length - FooterSize
        start == IF from < 0 THEN length + from ELSE from
    IN  length - (IF start < 0 THEN 0 ELSE start)

(* Two words are read at its start, and hmac_valid is made of a constant that
   is known in another block only, which is reached when there is a keys.js. *)
Throws(k) ==
    /\ image.chunks[k].magic = "boot"
    /\ keys \/ FooterLength(image.chunks[k].length) < 8

-----------------------------------------------------------------------------
(* The readers *)

ChunkAt(a) == {k \in ChunkNumbers : image.start[k] = a}
AtMarker(a) == image.marker /\ a = image.start[Count + 1]

(* What is written of a chunk is left out. *)
Finds(r, k, next) ==
    /\ found' = [found EXCEPT ![r] = Append(@, k)]
    /\ at' = [at EXCEPT ![r] = next]
    /\ UNCHANGED <<image, keys, ended>>
Ends(r, how) ==
    /\ ended' = [ended EXCEPT ![r] = how]
    /\ UNCHANGED <<image, keys, at, found>>

(* The loops of unpack_eeprom and of process_eeprom have the same form.  In
   the middle of a chunk they take its bytes for a header: all is lost. *)
Stops(r) ==
    /\ ended[r] = "no"
    /\ \/ at[r] >= image.size /\ Ends(r, "end")
       \/ at[r] < image.size /\ AtMarker(at[r]) /\ Ends(r, "marker")
       \/ /\ at[r] < image.size /\ ~AtMarker(at[r]) /\ ChunkAt(at[r]) = {}
          /\ Ends(r, "lost")

UnpackEeprom ==
    /\ ended["cpp"] = "no" /\ at["cpp"] < image.size
    /\ \E k \in ChunkAt(at["cpp"]) :
            Finds("cpp", k, CppNext(at["cpp"], image.chunks[k].length))

(* mutant: the exception is caught, and the chunk is left out *)
ProcessEepromSkips ==
    /\ ended["js"] = "no" /\ at["js"] < image.size
    /\ \E k \in ChunkAt(at["js"]) :
            LET next == JsNext(at["js"], image.chunks[k].length) IN
            \/ ~Throws(k) /\ Finds("js", k, next)
            \/ /\ Throws(k) /\ at' = [at EXCEPT !["js"] = next]
               /\ UNCHANGED <<image, keys, found, ended>>

(* Nothing catches what parse_bootcode throws: the program ends. *)
ProcessEeprom ==
    /\ ended["js"] = "no" /\ at["js"] < image.size
    /\ \E k \in ChunkAt(at["js"]) :
            \/ ~Throws(k) /\ Finds("js", k, JsNext(at["js"], image.chunks[k].length))
            \/ Throws(k) /\ Ends("js", "threw")

(* many readEntry: the entry is dropped when its padding is not there. *)
Fits(k) == HsNext(at["hs"], image.chunks[k].length) <= image.size
ReadEntry ==
    /\ ended["hs"] = "no"
    /\ \/ \E k \in ChunkAt(at["hs"]) : Fits(k) /\
            Finds("hs", k, HsNext(at["hs"], image.chunks[k].length))
       \/ (\A k \in ChunkAt(at["hs"]) : ~Fits(k)) /\ Ends("hs", "end")

Next == UnpackEeprom \/ Stops("cpp") \/ ProcessEeprom \/ Stops("js") \/ ReadEntry

Spec == Init /\ [][Next]_vars

-----------------------------------------------------------------------------
(* What must hold *)

(* A reader that has handled n chunks stands where the next one starts. *)
OnChunk(r) ==
    /\ Len(found[r]) <= Count
    /\ at[r] = image.start[Len(found[r]) + 1]
    /\ \A i \in DOMAIN found[r] : found[r][i] = i

(* The images extractor.js can read: no length reaches its mask. *)
JsReads == \A k \in ChunkNumbers : image.chunks[k].length + 7 < JsWord
(* The last chunk is followed by its padding. *)
Padded == image.start[Count + 1] <= image.size

(* The three different ways to find the next chunk never lose step. *)
AllOnChunk == \A r \in Readers : (r = "js" => JsReads) => OnChunk(r)

(* What each reader has handled when it ends, with or without a marker behind
   the last chunk: unpack_eeprom all chunks of any image; extractor.js those
   ahead of the first boot code that parse_bootcode does not take, which are all
   if there is none; SpiFs all but a last one whose padding the image lacks. *)
Handled(r, n) ==
    CASE r = "cpp" -> n = Count
      [] r = "js"  -> /\ \A k \in 1..n : ~Throws(k)
                      /\ n = Count \/ Throws(n + 1)
      [] r = "hs"  -> n = IF Padded THEN Count ELSE Count - 1
AllComplete ==
    \A r \in Readers :
        (r = "js" => JsReads) /\ ended[r] # "no" => Handled(r, Len(found[r]))
=============================================================================
