---------------------------- MODULE EepromProofs ----------------------------
(***************************************************************************)
(* The chunk loops of the three readers stay in step with every well-      *)
(* formed image, and each handles all the chunks that it can.              *)
(***************************************************************************)
EXTENDS EepromReaders, TLAPS

-----------------------------------------------------------------------------
(* Arithmetic: the three formulas find the first multiple of 8 that is not
   before the end of the chunk. *)

(* Clearing three bits of x + 7 gives the first multiple of 8 from x on. *)
LEMMA Clear3Finds ==
    ASSUME NEW x \in Nat, NEW s \in Nat, s % 8 = 0, x <= s, s <= x + 7
    PROVE  Clear3(x + 7) = s
BY SMT DEF Clear3

(* unpack_eeprom finds the start of the next chunk. *)
LEMMA CppNextFinds ==
    ASSUME NEW a \in Nat, NEW length \in Nat, NEW s \in Nat, s % 8 = 0,
           a + 8 + length <= s, s <= a + 8 + length + 7
    PROVE  CppNext(a, length) = s
<1>1. a + 8 + length \in Nat
  BY SMT
<1>2. Clear3((a + 8 + length) + 7) = s
  BY <1>1, Clear3Finds
<1> QED
  BY <1>2 DEF CppNext

(* extractor.js finds it, if the length stays below its mask. *)
LEMMA JsNextFinds ==
    ASSUME NEW a \in Nat, NEW length \in Nat, NEW s \in Nat, a % 8 = 0, s % 8 = 0,
           a + 8 + length <= s, s <= a + 8 + length + 7, length + 7 < JsWord
    PROVE  JsNext(a, length) = s
<1>1. JsWord \in Nat \ {0}
  BY ConstantsAssumption
<1>2. (8 + length - 1) % JsWord = length + 7
  BY <1>1, SMT
<1>3. /\ s - a - 8 \in Nat
      /\ (s - a - 8) % 8 = 0
      /\ length <= s - a - 8 /\ s - a - 8 <= length + 7
  BY SMT
<1>4. Clear3(length + 7) = s - a - 8
  BY <1>3, Clear3Finds
<1> QED
  BY <1>2, <1>4, SMT DEF JsNext

(* SpiFs finds it by the length of its padding. *)
LEMMA HsNextFinds ==
    ASSUME NEW a \in Nat, NEW length \in Nat, NEW s \in Nat, s % 8 = 0,
           a + 8 + length <= s, s <= a + 8 + length + 7
    PROVE  HsNext(a, length) = s
BY SMT DEF HsNext

-----------------------------------------------------------------------------
(* Images *)

(* What a well-formed image is, in the parts the steps need. *)
LEMMA ImageFacts ==
    ASSUME image \in Images
    PROVE  /\ Count \in Nat
           /\ image.size \in Nat
           /\ \A k \in 1..Count : image.chunks[k].length \in Nat
           /\ image.start[1] = 0
           /\ \A k \in 1..Count + 1 : image.start[k] \in Nat
           /\ \A k \in 1..Count : image.start[k + 1] % 8 = 0
           /\ \A k \in 1..Count :
                /\ image.start[k] + 8 + image.chunks[k].length <= image.start[k + 1]
                /\ image.start[k + 1] <= image.start[k] + 8 + image.chunks[k].length + 7
                /\ image.start[k] + 8 + image.chunks[k].length <= image.size
           /\ \A j \in 1..Count, k \in 1..Count + 1 : j < k => image.start[j] + 8 <= image.start[k]
<1>1. WellFormed(image)
  BY ConstantsAssumption
<1>2. image.chunks \in Seq(Chunks) /\ Count \in Nat
  BY <1>1 DEF WellFormed, Count
<1>3. \A k \in 1..Count : image.chunks[k].length \in Nat
  <2>1. \A k \in 1..Count : image.chunks[k] \in Chunks
    BY <1>2 DEF Count
  <2> QED
    BY <2>1 DEF Chunks
<1>4. \A k \in 1..Count + 1 : image.start[k] \in Nat
  BY <1>1 DEF WellFormed, Count
<1>5. \A k \in 1..Count : image.start[k + 1] \in
          (image.start[k] + 8 + image.chunks[k].length)..(image.start[k] + 8 + image.chunks[k].length + 7)
  BY <1>1 DEF WellFormed, Count
<1>6. ASSUME NEW k \in 1..Count
      PROVE  /\ image.start[k] + 8 + image.chunks[k].length <= image.start[k + 1]
             /\ image.start[k + 1] <= image.start[k] + 8 + image.chunks[k].length + 7
             /\ image.start[k] + 8 + image.chunks[k].length <= image.size
  <2>1. k + 1 \in 1..Count + 1 /\ k \in 1..Count + 1
    BY <1>2, SMT
  <2>2. image.start[k] \in Nat /\ image.start[k + 1] \in Nat /\ image.chunks[k].length \in Nat
    BY <1>3, <1>4, <2>1
  <2>3. image.start[k] + 8 + image.chunks[k].length <= image.size
    BY <1>1 DEF WellFormed, Count
  <2> QED
    BY <1>5, <2>2, <2>3, SMT
<1> QED
  BY <1>1, <1>2, <1>3, <1>4, <1>6 DEF WellFormed, Count

(* Two chunks, or a chunk and the end, never start at the same place. *)
LEMMA StartsDiffer ==
    ASSUME image \in Images, NEW j \in 1..Count + 1, NEW k \in 1..Count + 1,
           image.start[j] = image.start[k]
    PROVE  j = k
<1>1. CASE j < k
  <2>1. j \in 1..Count
    BY <1>1, ImageFacts, SMT
  <2> QED
    BY <1>1, <2>1, ImageFacts, SMT
<1>2. CASE k < j
  <2>1. k \in 1..Count
    BY <1>2, ImageFacts, SMT
  <2> QED
    BY <1>2, <2>1, ImageFacts, SMT
<1> QED
  BY <1>1, <1>2, ImageFacts, SMT

(* No chunk starts behind the end. *)
LEMMA StartsOrdered ==
    ASSUME image \in Images, NEW k \in 1..Count + 1
    PROVE  image.start[k] <= image.start[Count + 1]
<1>1. Count + 1 \in 1..Count + 1 /\ (k = Count + 1 \/ (k \in 1..Count /\ k < Count + 1))
  BY ImageFacts, SMT
<1>2. image.start[k] \in Nat /\ image.start[Count + 1] \in Nat
  BY <1>1, ImageFacts
<1>3. k # Count + 1 => image.start[k] + 8 <= image.start[Count + 1]
  BY <1>1, ImageFacts
<1> QED
  BY <1>2, <1>3, SMT

(* Every chunk starts at a multiple of 8. *)
LEMMA StartsAligned ==
    ASSUME image \in Images, NEW k \in 1..Count + 1
    PROVE  image.start[k] % 8 = 0
<1>1. CASE k = 1
  BY <1>1, ImageFacts, SMT
<1>2. CASE k # 1
  <2>1. k - 1 \in 1..Count /\ (k - 1) + 1 = k
    BY <1>2, ImageFacts, SMT
  <2>2. image.start[(k - 1) + 1] % 8 = 0
    BY <2>1, ImageFacts
  <2> QED
    BY <2>1, <2>2
<1> QED
  BY <1>1, <1>2

-----------------------------------------------------------------------------
(* The readers *)

(* Every reader starts on the first chunk. *)
LEMMA InitInStep == Init => TypeOK /\ \A r \in Readers : OnChunk(r)
<1> SUFFICES ASSUME Init
             PROVE  TypeOK /\ \A r \in Readers : OnChunk(r)
  OBVIOUS
<1>1. TypeOK
  BY DEF Init, TypeOK
<1>2. ASSUME NEW r \in Readers
      PROVE  OnChunk(r)
  <2>1. found[r] = <<>> /\ at[r] = 0
    BY DEF Init
  <2> QED
    BY <1>1, <2>1, ImageFacts, SMT DEF OnChunk, TypeOK, Count
<1> QED
  BY <1>1, <1>2

(* Whatever a reader finds, it keeps the types, and the others where they
   are. *)
LEMMA FindsTyped ==
    ASSUME TypeOK, NEW r \in Readers, NEW k \in ChunkAt(at[r]), NEW next \in Nat,
           Finds(r, k, next)
    PROVE  /\ TypeOK'
           /\ \A q \in Readers \ {r} : OnChunk(q) => OnChunk(q)'
<1>1. at' \in [Readers -> Nat] /\ image' \in Images /\ image' = image
  BY DEF Finds, TypeOK
<1>2. ChunkNumbers' = ChunkNumbers
  BY <1>1 DEF ChunkNumbers, Count
<1>3. found' \in [Readers -> Seq(ChunkNumbers)]
  <2>1. found[r] \in Seq(ChunkNumbers) /\ k \in ChunkNumbers
    BY DEF TypeOK, ChunkAt
  <2>2. Append(found[r], k) \in Seq(ChunkNumbers)
    BY <2>1
  <2> QED
    BY <2>2 DEF Finds, TypeOK
<1>4. ended' \in [Readers -> {"no", "end", "marker", "lost", "threw"}] /\ keys' \in BOOLEAN
  BY DEF Finds, TypeOK
<1>5. ASSUME NEW q \in Readers \ {r}, OnChunk(q)
      PROVE  OnChunk(q)'
  <2>1. found'[q] = found[q] /\ at'[q] = at[q] /\ image' = image
    BY DEF Finds, TypeOK
  <2> QED
    BY <1>5, <2>1 DEF OnChunk, Count
<1> QED
  BY <1>1, <1>2, <1>3, <1>4, <1>5 DEF TypeOK

(* A reader on a chunk that finds it, and knows where the next one is, comes
   to stand there. *)
LEMMA FindsNext ==
    ASSUME TypeOK, NEW r \in Readers, NEW k \in ChunkAt(at[r]), NEW next,
           next = image.start[k + 1], Finds(r, k, next)
    PROVE  /\ TypeOK'
           /\ OnChunk(r) => OnChunk(r)'
           /\ \A q \in Readers \ {r} : OnChunk(q) => OnChunk(q)'
<1>1. k \in 1..Count /\ image.start[k] = at[r] /\ Count \in Nat
  BY ImageFacts DEF ChunkAt, ChunkNumbers, TypeOK
<1>2. image.start[k + 1] \in Nat
  <2>1. k + 1 \in 1..Count + 1
    BY <1>1, SMT
  <2> QED
    BY <2>1, ImageFacts DEF TypeOK
<1>3. /\ TypeOK'
      /\ \A q \in Readers \ {r} : OnChunk(q) => OnChunk(q)'
  BY <1>2, FindsTyped
<1>4. ASSUME OnChunk(r)
      PROVE  OnChunk(r)'
  <2>1. Len(found[r]) \in Nat /\ Len(found[r]) <= Count /\ found[r] \in Seq(ChunkNumbers)
    BY <1>4 DEF OnChunk, TypeOK
  <2>2. Len(found[r]) + 1 \in 1..Count + 1 /\ k \in 1..Count + 1
    BY <1>1, <2>1, SMT
  <2>3. k = Len(found[r]) + 1
    BY <1>1, <1>4, <2>2, StartsDiffer DEF OnChunk, TypeOK
  <2>4. found'[r] = Append(found[r], k) /\ at'[r] = image.start[k + 1] /\ image' = image
    BY DEF Finds, TypeOK
  <2>5. Len(found'[r]) = k
    BY <2>1, <2>3, <2>4
  <2>6. ASSUME NEW i \in DOMAIN found'[r]
        PROVE  found'[r][i] = i
    <3>1. i \in 1..Len(found[r]) + 1
      BY <2>1, <2>4, <2>6
    <3>2. CASE i = Len(found[r]) + 1
      BY <2>1, <2>3, <2>4, <3>2
    <3>3. CASE i # Len(found[r]) + 1
      <4>1. i \in DOMAIN found[r]
        BY <2>1, <3>1, <3>3, SMT
      <4> QED
        BY <1>4, <2>1, <2>4, <4>1 DEF OnChunk
    <3> QED
      BY <3>2, <3>3
  <2>7. Count' = Count
    BY <2>4 DEF Count
  <2>8. Len(found'[r]) <= Count'
    BY <1>1, <2>5, <2>7, SMT
  <2> QED
    BY <2>4, <2>5, <2>6, <2>8 DEF OnChunk
<1> QED
  BY <1>3, <1>4

(* A reader that ends moves no reader. *)
LEMMA EndsStays ==
    ASSUME TypeOK, NEW r \in Readers, NEW how \in {"end", "marker", "lost", "threw"}, Ends(r, how)
    PROVE  TypeOK' /\ \A q \in Readers : OnChunk(q) => OnChunk(q)'
BY DEF TypeOK, Ends, OnChunk, Count, ChunkNumbers

(* Where each reader looks for the chunk after chunk k. *)
LEMMA NextChunks ==
    ASSUME image \in Images, NEW k \in 1..Count
    PROVE  /\ CppNext(image.start[k], image.chunks[k].length) = image.start[k + 1]
           /\ HsNext(image.start[k], image.chunks[k].length) = image.start[k + 1]
           /\ JsReads => JsNext(image.start[k], image.chunks[k].length) = image.start[k + 1]
<1>1. k \in 1..Count + 1 /\ k + 1 \in 1..Count + 1
  BY ImageFacts, SMT
<1>2. /\ image.start[k] \in Nat /\ image.start[k + 1] \in Nat /\ image.chunks[k].length \in Nat
      /\ image.start[k] + 8 + image.chunks[k].length <= image.start[k + 1]
      /\ image.start[k + 1] <= image.start[k] + 8 + image.chunks[k].length + 7
  BY <1>1, ImageFacts
<1>3. image.start[k] % 8 = 0 /\ image.start[k + 1] % 8 = 0
  BY <1>1, StartsAligned
<1>4. JsReads => image.chunks[k].length + 7 < JsWord
  BY DEF JsReads, ChunkNumbers
<1> QED
  BY <1>2, <1>3, <1>4, CppNextFinds, JsNextFinds, HsNextFinds

-----------------------------------------------------------------------------
(* What every step keeps *)

(* A step of unpack_eeprom keeps every reader on a chunk. *)
LEMMA UnpackStays ==
    ASSUME TypeOK, UnpackEeprom
    PROVE  TypeOK' /\ \A q \in Readers : OnChunk(q) => OnChunk(q)'
<1>1. PICK k \in ChunkAt(at["cpp"]) :
          Finds("cpp", k, CppNext(at["cpp"], image.chunks[k].length))
  BY DEF UnpackEeprom
<1>2. k \in 1..Count /\ image.start[k] = at["cpp"]
  BY DEF ChunkAt, ChunkNumbers
<1>3. CppNext(at["cpp"], image.chunks[k].length) = image.start[k + 1]
  BY <1>2, NextChunks DEF TypeOK
<1> QED
  BY <1>1, <1>3, FindsNext DEF Readers

(* A step of SpiFs keeps every reader on a chunk. *)
LEMMA ReadEntryStays ==
    ASSUME TypeOK, ReadEntry
    PROVE  TypeOK' /\ \A q \in Readers : OnChunk(q) => OnChunk(q)'
<1>1. CASE \E k \in ChunkAt(at["hs"]) : Fits(k) /\
              Finds("hs", k, HsNext(at["hs"], image.chunks[k].length))
  <2>1. PICK k \in ChunkAt(at["hs"]) :
            Finds("hs", k, HsNext(at["hs"], image.chunks[k].length))
    BY <1>1
  <2>2. k \in 1..Count /\ image.start[k] = at["hs"]
    BY DEF ChunkAt, ChunkNumbers
  <2>3. HsNext(at["hs"], image.chunks[k].length) = image.start[k + 1]
    BY <2>2, NextChunks DEF TypeOK
  <2> QED
    BY <2>1, <2>3, FindsNext DEF Readers
<1>2. CASE Ends("hs", "end")
  BY <1>2, EndsStays DEF Readers
<1> QED
  BY <1>1, <1>2 DEF ReadEntry

(* A reader that stops is one that ends. *)
LEMMA StopsStays ==
    ASSUME TypeOK, NEW r \in Readers, Stops(r)
    PROVE  TypeOK' /\ \A q \in Readers : OnChunk(q) => OnChunk(q)'
BY EndsStays DEF Stops

(* extractor.js stays on the chunks when they are short; the two others do
   whatever it does. *)
LEMMA ProcessStays ==
    ASSUME TypeOK, JsReads, ProcessEeprom
    PROVE  TypeOK' /\ \A q \in Readers : OnChunk(q) => OnChunk(q)'
<1> SUFFICES ASSUME NEW k \in ChunkAt(at["js"]),
                    Finds("js", k, JsNext(at["js"], image.chunks[k].length))
             PROVE  TypeOK' /\ \A q \in Readers : OnChunk(q) => OnChunk(q)'
  BY EndsStays DEF ProcessEeprom, Readers
<1>2. k \in 1..Count /\ image.start[k] = at["js"]
  BY DEF ChunkAt, ChunkNumbers
<1>3. JsNext(at["js"], image.chunks[k].length) = image.start[k + 1]
  BY <1>2, NextChunks DEF TypeOK
<1> QED
  BY <1>3, FindsNext DEF Readers

(* A step of extractor.js keeps the other two on a chunk, with any mask. *)
LEMMA ProcessTyped ==
    ASSUME TypeOK, ProcessEeprom
    PROVE  TypeOK' /\ \A q \in Readers \ {"js"} : OnChunk(q) => OnChunk(q)'
<1> SUFFICES ASSUME NEW k \in ChunkAt(at["js"]),
                    Finds("js", k, JsNext(at["js"], image.chunks[k].length))
             PROVE  TypeOK' /\ \A q \in Readers \ {"js"} : OnChunk(q) => OnChunk(q)'
  BY EndsStays DEF ProcessEeprom, Readers
<1>2. at["js"] \in Nat /\ image.chunks[k].length \in Nat /\ JsWord \in Nat \ {0}
  BY ConstantsAssumption, ImageFacts DEF TypeOK, ChunkAt, ChunkNumbers, Readers
<1>3. (8 + image.chunks[k].length - 1) % JsWord \in Nat
  BY <1>2, SMT
<1>4. JsNext(at["js"], image.chunks[k].length) \in Nat
  BY <1>2, <1>3, SMT DEF JsNext, Clear3
<1> QED
  BY <1>4, FindsTyped DEF Readers

(* Nothing moves without a step. *)
LEMMA StutterStays ==
    ASSUME TypeOK, UNCHANGED vars
    PROVE  TypeOK' /\ \A q \in Readers : OnChunk(q) => OnChunk(q)'
BY DEF TypeOK, vars, OnChunk, Count, ChunkNumbers

-----------------------------------------------------------------------------
(* AllOnChunk is inductive: what extractor.js does to lose step on an image it
   cannot read is nothing to the other two. *)
LEMMA OnChunkStep ==
    ASSUME TypeOK, AllOnChunk, [Next]_vars
    PROVE  TypeOK' /\ AllOnChunk'
<1>1. ASSUME TypeOK', \A q \in Readers : OnChunk(q) => OnChunk(q)', UNCHANGED image
      PROVE  AllOnChunk'
  BY <1>1 DEF AllOnChunk, JsReads, ChunkNumbers, Count
<1>2. CASE UnpackEeprom
  BY <1>1, <1>2, UnpackStays DEF UnpackEeprom, Finds
<1>3. CASE ProcessEeprom
  <2>1. UNCHANGED image
    BY <1>3 DEF ProcessEeprom, Finds, Ends
  <2>2. CASE JsReads
    BY <1>1, <1>3, <2>1, <2>2, ProcessStays
  <2>3. CASE ~JsReads
    <3>1. ~JsReads'
      BY <2>1, <2>3 DEF JsReads, ChunkNumbers, Count
    <3> QED
      BY <1>3, <3>1, ProcessTyped DEF AllOnChunk, Readers
  <2> QED
    BY <2>2, <2>3
<1>4. CASE ReadEntry
  BY <1>1, <1>4, ReadEntryStays DEF ReadEntry, Finds, Ends
<1>5. CASE Stops("cpp") \/ Stops("js")
  <2>1. UNCHANGED image
    BY <1>5 DEF Stops, Ends
  <2> QED
    BY <1>1, <1>5, <2>1, StopsStays DEF Readers
<1>6. CASE UNCHANGED vars
  BY <1>1, <1>6, StutterStays DEF vars
<1> QED
  BY <1>2, <1>3, <1>4, <1>5, <1>6 DEF Next

(* The invariant holds at first. *)
LEMMA OnChunkInit == Init => TypeOK /\ AllOnChunk
  BY InitInStep DEF AllOnChunk

(* Every variable keeps to its domain, for any images and any JsWord. *)
THEOREM TypeCorrect == Spec => []TypeOK
  BY OnChunkInit, OnChunkStep, PTL DEF Spec

(* Three ways to find the next chunk agree on every image, whatever its
   chunks: each reader is at the start of the chunk that follows those it has
   handled, extractor.js as long as no length reaches its mask. *)
THEOREM InStep == Spec => []AllOnChunk
  BY OnChunkInit, OnChunkStep, PTL DEF Spec

-----------------------------------------------------------------------------
(* A reader that is not behind the last chunk is at a chunk. *)
LEMMA AtNextChunk ==
    ASSUME TypeOK, NEW r \in Readers, OnChunk(r), Len(found[r]) # Count
    PROVE  /\ Len(found[r]) + 1 \in 1..Count
           /\ Len(found[r]) + 1 \in ChunkAt(at[r])
           /\ at[r] = image.start[Len(found[r]) + 1]
<1>1. Len(found[r]) \in Nat /\ Count \in Nat /\ Len(found[r]) < Count
  BY ImageFacts DEF OnChunk, TypeOK
<1>2. Len(found[r]) + 1 \in 1..Count
  BY <1>1, SMT
<1> QED
  BY <1>2 DEF OnChunk, ChunkAt, ChunkNumbers

(* The loops of unpack_eeprom and extractor.js stop behind the last chunk. *)
LEMMA StopsBehindLast ==
    ASSUME TypeOK, NEW r \in Readers, OnChunk(r), Stops(r)
    PROVE  Len(found[r]) = Count
<1> SUFFICES ASSUME Len(found[r]) # Count
             PROVE  FALSE
  OBVIOUS
<1> DEFINE k == Len(found[r]) + 1
<1>1. k \in 1..Count /\ k \in ChunkAt(at[r]) /\ at[r] = image.start[k] /\ Count \in Nat
  BY AtNextChunk, ImageFacts DEF TypeOK
<1> HIDE DEF k
<1>2. k \in 1..Count + 1 /\ Count + 1 \in 1..Count + 1 /\ k # Count + 1
  BY <1>1, SMT
<1>3. ~(at[r] >= image.size)
  <2>1. /\ image.start[k] \in Nat /\ image.chunks[k].length \in Nat /\ image.size \in Nat
        /\ image.start[k] + 8 + image.chunks[k].length <= image.size
    BY <1>1, <1>2, ImageFacts DEF TypeOK
  <2> QED
    BY <1>1, <2>1, SMT
<1>4. ~AtMarker(at[r])
  BY <1>1, <1>2, StartsDiffer DEF AtMarker, TypeOK
<1> QED
  BY <1>1, <1>3, <1>4 DEF Stops

(* readEntry takes every chunk that is followed by another, and the last one if
   the image has its padding. *)
LEMMA FitsWhen ==
    ASSUME TypeOK, NEW k \in 1..Count, at["hs"] = image.start[k]
    PROVE  Fits(k) <=> (k < Count \/ Padded)
<1>1. Count \in Nat /\ k \in Nat /\ image.size \in Nat
  BY ImageFacts DEF TypeOK
<1>2. HsNext(at["hs"], image.chunks[k].length) = image.start[k + 1]
  BY NextChunks DEF TypeOK
<1>3. CASE k = Count
  BY <1>1, <1>2, <1>3 DEF Fits, Padded
<1>4. CASE k < Count
  <2>1. k + 1 \in 1..Count /\ k + 1 \in 1..Count + 1
    BY <1>1, <1>4
  <2>2. /\ image.start[k + 1] \in Nat /\ image.chunks[k + 1].length \in Nat
        /\ image.start[k + 1] + 8 + image.chunks[k + 1].length <= image.size
    BY <2>1, ImageFacts DEF TypeOK
  <2>3. image.start[k + 1] <= image.size
    BY <1>1, <2>2
  <2> QED
    BY <1>2, <1>4, <2>3 DEF Fits
<1> QED
  BY <1>1, <1>3, <1>4

(* An image without chunks has the padding of its last one, which is none. *)
LEMMA SomeChunk ==
    ASSUME TypeOK, ~Padded
    PROVE  Count # 0
<1>1. image.start[1] = 0 /\ image.size \in Nat /\ Count \in Nat
  BY ImageFacts DEF TypeOK
<1> QED
  BY <1>1 DEF Padded

(* extractor.js has handled no chunk that it throws at, and readEntry no last
   chunk without its padding. *)
Taken ==
    /\ JsReads => \A k \in 1..Len(found["js"]) : ~Throws(k)
    /\ ~Padded => Len(found["hs"]) < Count

(* What a reader has handled grows by the chunk it stands on. *)
LEMMA Handles ==
    ASSUME TypeOK, NEW r \in Readers, OnChunk(r), NEW k \in ChunkAt(at[r]), NEW next,
           Finds(r, k, next)
    PROVE  /\ k \in 1..Count /\ k = Len(found[r]) + 1 /\ Len(found'[r]) = k
           /\ at[r] = image.start[k]
<1>1. k \in 1..Count /\ image.start[k] = at[r] /\ Count \in Nat
  BY ImageFacts DEF ChunkAt, ChunkNumbers, TypeOK
<1>2. Len(found[r]) \in Nat /\ Len(found[r]) <= Count /\ found[r] \in Seq(ChunkNumbers)
  BY DEF OnChunk, TypeOK
<1>3. Len(found[r]) + 1 \in 1..Count + 1 /\ k \in 1..Count + 1
  BY <1>1, <1>2
<1>4. k = Len(found[r]) + 1
  BY <1>1, <1>3, StartsDiffer DEF OnChunk, TypeOK
<1>5. found'[r] = Append(found[r], k)
  BY DEF Finds, TypeOK
<1>6. Len(found'[r]) = Len(found[r]) + 1
  BY <1>2, <1>5
<1> QED
  BY <1>1, <1>4, <1>6

(* Every step keeps that. *)
LEMMA TakenStep ==
    ASSUME TypeOK, AllOnChunk, Taken, [Next]_vars
    PROVE  Taken'
<1>1. UNCHANGED <<image, keys>>
  BY DEF Next, vars, UnpackEeprom, ProcessEeprom, ReadEntry, Stops, Finds, Ends
<1>2. UNCHANGED <<JsReads, Padded, Count>> /\ \A k : Throws(k)' <=> Throws(k)
  BY <1>1 DEF JsReads, Padded, ChunkNumbers, Count, Throws
<1>3. ASSUME found'["js"] = found["js"], found'["hs"] = found["hs"]
      PROVE  Taken'
  BY <1>2, <1>3 DEF Taken
<1>4. CASE ProcessEeprom
  <2>1. CASE UNCHANGED found
    BY <1>3, <2>1
  <2>2. CASE ~UNCHANGED found
    <3>1. PICK k \in ChunkAt(at["js"]) :
              ~Throws(k) /\ Finds("js", k, JsNext(at["js"], image.chunks[k].length))
      BY <1>4, <2>2 DEF ProcessEeprom, Ends
    <3>2. found'["hs"] = found["hs"]
      BY <3>1 DEF Finds, TypeOK, Readers
    <3>3. ASSUME JsReads, NEW j \in 1..Len(found'["js"])
          PROVE  ~Throws(j)
      <4>1. /\ k = Len(found["js"]) + 1 /\ Len(found'["js"]) = k
        BY <3>1, <3>3, Handles DEF AllOnChunk, Readers
      <4>2. Len(found["js"]) \in Nat
        BY DEF TypeOK, Readers
      <4>3. j = k \/ j \in 1..Len(found["js"])
        BY <4>1, <4>2
      <4> QED
        BY <3>1, <3>3, <4>3 DEF Taken
    <3> QED
      BY <1>2, <3>2, <3>3 DEF Taken
  <2> QED
    BY <2>1, <2>2
<1>5. CASE ReadEntry
  <2>1. CASE UNCHANGED found
    BY <1>3, <2>1
  <2>2. CASE ~UNCHANGED found
    <3>1. PICK k \in ChunkAt(at["hs"]) :
              Fits(k) /\ Finds("hs", k, HsNext(at["hs"], image.chunks[k].length))
      BY <1>5, <2>2 DEF ReadEntry, Ends
    <3>2. found'["js"] = found["js"]
      BY <3>1 DEF Finds, TypeOK, Readers
    <3>3. /\ k \in 1..Count /\ Len(found'["hs"]) = k /\ at["hs"] = image.start[k]
      BY <3>1, Handles DEF AllOnChunk, Readers
    <3>4. ~Padded => k < Count
      BY <3>1, <3>3, FitsWhen
    <3> QED
      BY <1>2, <3>2, <3>3, <3>4 DEF Taken
  <2> QED
    BY <2>1, <2>2
<1>6. CASE UnpackEeprom
  <2>1. found'["js"] = found["js"] /\ found'["hs"] = found["hs"]
    BY <1>6 DEF UnpackEeprom, Finds, TypeOK, Readers
  <2> QED
    BY <1>3, <2>1
<1>7. CASE Stops("cpp") \/ Stops("js") \/ UNCHANGED vars
  BY <1>3, <1>7 DEF Stops, Ends, vars
<1> QED
  BY <1>4, <1>5, <1>6, <1>7 DEF Next

(* readEntry fails behind the last chunk, or at one that lacks its padding. *)
LEMMA EntriesEnd ==
    ASSUME TypeOK, OnChunk("hs"), Taken, \A k \in ChunkAt(at["hs"]) : ~Fits(k)
    PROVE  Handled("hs", Len(found["hs"]))
<1> DEFINE n == Len(found["hs"])
<1>1. n \in Nat /\ n <= Count /\ Count \in Nat
  BY ImageFacts DEF OnChunk, TypeOK, Readers
<1>2. CASE n = Count
  BY <1>1, <1>2 DEF Taken, Handled
<1>3. CASE n # Count
  <2>1. n + 1 \in 1..Count /\ n + 1 \in ChunkAt(at["hs"]) /\ at["hs"] = image.start[n + 1]
    BY <1>3, AtNextChunk DEF Readers
  <2>2. ~Fits(n + 1)
    BY <2>1
  <2>3. ~Padded /\ ~(n + 1 < Count)
    BY <2>1, <2>2, FitsWhen
  <2> QED
    BY <1>1, <1>3, <2>3 DEF Handled
<1> QED
  BY <1>2, <1>3

(* A reader that stops has handled what it can. *)
LEMMA StopsHandled ==
    ASSUME TypeOK, Taken, NEW r \in {"cpp", "js"}, r = "js" => JsReads, OnChunk(r), Stops(r)
    PROVE  Handled(r, Len(found[r]))
<1>1. Len(found[r]) = Count
  BY StopsBehindLast DEF Readers
<1> QED
  BY <1>1 DEF Handled, Taken

(* extractor.js throws at the chunk that it stands on. *)
LEMMA ThrowsHandled ==
    ASSUME TypeOK, Taken, JsReads, OnChunk("js"), NEW k \in ChunkAt(at["js"]), Throws(k)
    PROVE  Handled("js", Len(found["js"]))
<1> DEFINE n == Len(found["js"])
<1>1. k \in 1..Count /\ image.start[k] = at["js"] /\ Count \in Nat
  BY ImageFacts DEF ChunkAt, ChunkNumbers, TypeOK
<1>2. n \in Nat /\ n <= Count
  BY DEF OnChunk, TypeOK, Readers
<1>3. n + 1 \in 1..Count + 1 /\ k \in 1..Count + 1
  BY <1>1, <1>2
<1>4. k = n + 1
  BY <1>1, <1>3, StartsDiffer DEF OnChunk, TypeOK
<1> QED
  BY <1>4 DEF Handled, Taken

(* A reader that has ended handles no more, and one that ends has handled what
   it can. *)
LEMMA CompleteStep ==
    ASSUME TypeOK, AllOnChunk, Taken, AllComplete, [Next]_vars
    PROVE  AllComplete'
<1>1. UNCHANGED <<image, keys>>
  BY DEF Next, vars, UnpackEeprom, ProcessEeprom, ReadEntry, Stops, Finds, Ends
<1>2. UNCHANGED <<JsReads, Padded, Count>> /\ \A k : Throws(k)' <=> Throws(k)
  BY <1>1 DEF JsReads, Padded, ChunkNumbers, Count, Throws
<1>3. \A r, n : Handled(r, n)' <=> Handled(r, n)
  BY <1>2 DEF Handled
<1> SUFFICES ASSUME NEW r \in Readers, r = "js" => JsReads, ended'[r] # "no"
             PROVE  Handled(r, Len(found'[r]))
  BY <1>2, <1>3 DEF AllComplete
<1>4. OnChunk(r)
  BY DEF AllOnChunk
<1>5. ended[r] # "no" => Handled(r, Len(found[r]))
  BY DEF AllComplete
<1>6. ASSUME NEW q \in Readers, NEW k, NEW next, ended[q] = "no", Finds(q, k, next)
      PROVE  Handled(r, Len(found'[r]))
  <2>1. ended' = ended /\ q # r
    BY <1>6 DEF Finds
  <2>2. found'[r] = found[r]
    BY <1>6, <2>1 DEF Finds, TypeOK
  <2> QED
    BY <1>5, <2>1, <2>2
<1>7. ASSUME NEW q \in Readers, NEW how, Ends(q, how), q = r => Handled(r, Len(found[r]))
      PROVE  Handled(r, Len(found'[r]))
  <2>1. found' = found /\ (q # r => ended'[r] = ended[r])
    BY <1>7 DEF Ends, TypeOK
  <2> QED
    BY <1>5, <1>7, <2>1
<1>8. CASE UnpackEeprom
  BY <1>6, <1>8 DEF UnpackEeprom, Readers
<1>9. CASE ProcessEeprom
  <2>1. CASE \E k \in ChunkAt(at["js"]) :
                Finds("js", k, JsNext(at["js"], image.chunks[k].length))
    BY <1>6, <1>9, <2>1 DEF ProcessEeprom, Readers
  <2>2. CASE \E k \in ChunkAt(at["js"]) : Throws(k) /\ Ends("js", "threw")
    BY <1>4, <1>7, <2>2, ThrowsHandled DEF Readers
  <2> QED
    BY <1>9, <2>1, <2>2 DEF ProcessEeprom
<1>10. ASSUME NEW q \in {"cpp", "js"}, Stops(q)
       PROVE  Handled(r, Len(found'[r]))
  <2>1. q = r => Handled(r, Len(found[r]))
    BY <1>4, <1>10, StopsHandled
  <2> QED
    BY <1>7, <1>10, <2>1 DEF Stops, Readers
<1>11. CASE ReadEntry
  <2>1. CASE \E k \in ChunkAt(at["hs"]) : Fits(k) /\
                Finds("hs", k, HsNext(at["hs"], image.chunks[k].length))
    BY <1>6, <1>11, <2>1 DEF ReadEntry, Readers
  <2>2. CASE (\A k \in ChunkAt(at["hs"]) : ~Fits(k)) /\ Ends("hs", "end")
    BY <1>4, <1>7, <2>2, EntriesEnd DEF Readers
  <2> QED
    BY <1>11, <2>1, <2>2 DEF ReadEntry
<1>12. CASE UNCHANGED vars
  BY <1>5, <1>12 DEF vars
<1> QED
  BY <1>8, <1>9, <1>10, <1>11, <1>12 DEF Next

(* What each reader has handled when it has ended, of every image: unpack_eeprom
   all chunks, extractor.js, if no length reaches its mask, those ahead of the
   first boot code that parse_bootcode throws at, SpiFs all but a last one
   without its padding. *)
THEOREM HandlesAll == Spec => []AllComplete
<1>1. Init => TypeOK /\ Taken /\ AllComplete
  <2> SUFFICES ASSUME Init
               PROVE  TypeOK /\ Taken /\ AllComplete
    OBVIOUS
  <2>1. TypeOK
    BY OnChunkInit
  <2>2. AllComplete
    BY DEF Init, AllComplete
  <2>3. /\ found["js"] = <<>> /\ found["hs"] = <<>>
        /\ Count \in Nat
    BY <2>1, ImageFacts DEF Init, Readers, TypeOK
  <2> QED
    BY <2>1, <2>2, <2>3, SomeChunk DEF Taken
<1>2. TypeOK /\ AllOnChunk /\ Taken /\ AllComplete /\ [Next]_vars => Taken' /\ AllComplete'
  BY TakenStep, CompleteStep
<1> QED
  BY <1>1, <1>2, TypeCorrect, InStep, PTL DEF Spec
=============================================================================
