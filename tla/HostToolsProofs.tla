--------------------------- MODULE HostToolsProofs ---------------------------
(***************************************************************************)
(* Proofs about the tools of HostTools: the test of tearing against the    *)
(* kernel, the windows into memory, the hash of a message of any length,   *)
(* what a display reads of a timing, the strings a host reads, the words   *)
(* of a display list, and the tables of a boot ROM.                        *)
(***************************************************************************)
EXTENDS HostTools, SequenceTheorems, FiniteSetTheorems, TLAPS

-----------------------------------------------------------------------------
(* Each tool leaves the others alone *)

(* A step of the tools is one of each of the machines, or leaves it as it is. *)
LEMMA OthersStay ==
    ASSUME [Next]_vars
    PROVE  /\ [FlipNext]_flipVars
           /\ [ShaNext]_shaVars
           /\ UNCHANGED job
<1>1. ASSUME NEW tool, NEW result, Run(tool, result)
      PROVE  UNCHANGED <<job, shaVars, flipVars>>
  BY <1>1 DEF Run
<1>2. CASE RunUsbString \/ RunElfTool \/ RunPvDumper \/ RunMapMem \/ RunRamDumper \/ RunEdid
  BY <1>1, <1>2 DEF RunUsbString, RunElfTool, RunPvDumper, RunMapMem, RunRamDumper, RunEdid
<1>3. CASE RunSha256
  BY <1>3 DEF RunSha256, toolVars
<1>4. CASE RunTearing
  BY <1>4 DEF RunTearing, toolVars
<1>5. CASE UNCHANGED vars
  BY <1>5 DEF vars, shaVars, flipVars
<1>6. QED
  BY <1>2, <1>3, <1>4, <1>5 DEF Next

-----------------------------------------------------------------------------
(* What the tools put out *)

(* What a tool has put out is what its operation gives for the job. *)
OutputInv ==
    /\ job \in Jobs
    /\ Ran("usbstring") => output = StringDescriptor(Utf8(job.chars))
    /\ Ran("stringtab") => output = GetString(Language, Encoded(StringTable), job.id)
    /\ Ran("elf-tool") => output = Headers(Layout(job.pieces), 0)
    /\ Ran("pv_dumper") =>
          output = DumpHvs(ListAt(job.planes, job.pi4, job.start), job.enabled, job.pi4, job.start)
    /\ Ran("mapmem") => output = MapMem(job.area.base, job.area.size)
    /\ Ran("ramdumper") => output = RamDumper(job.area.base, job.area.size)
    /\ Ran("edid") => output = EdidBlock(job.timing)

(* A tool puts out its result once, and nothing changes it after. *)
LEMMA OutputStep ==
    ASSUME OutputInv, [Next]_vars
    PROVE  OutputInv'
<1>1. ASSUME NEW tool, NEW result, Run(tool, result)
      PROVE  job.tool = tool /\ UNCHANGED job /\ output' = result
  BY <1>1 DEF Run
<1>2. UNCHANGED job => job' \in Jobs'
  BY DEF OutputInv, Jobs, Ids
<1>3. CASE RunUsbString
  <2>1. UNCHANGED job /\
        \/ job.tool = "usbstring" /\ output' = StringDescriptor(Utf8(job.chars))
        \/ job.tool = "stringtab" /\ output' = GetString(Language, Encoded(StringTable), job.id)
    BY <1>1, <1>3 DEF RunUsbString
  <2>2. QED
    BY <1>2, <2>1 DEF OutputInv, Ran
<1>4. CASE RunElfTool
  <2>1. UNCHANGED job /\ job.tool = "elf-tool" /\ output' = Headers(Layout(job.pieces), 0)
    BY <1>1, <1>4 DEF RunElfTool
  <2>2. QED
    BY <1>2, <2>1 DEF OutputInv, Ran
<1>5. CASE RunPvDumper
  <2>1. /\ UNCHANGED job /\ job.tool = "pv_dumper"
        /\ output' = DumpHvs(ListAt(job.planes, job.pi4, job.start), job.enabled, job.pi4,
                             job.start)
    BY <1>1, <1>5 DEF RunPvDumper
  <2>2. QED
    BY <1>2, <2>1 DEF OutputInv, Ran
<1>6. CASE RunMapMem
  <2>1. UNCHANGED job /\ job.tool = "mapmem" /\ output' = MapMem(job.area.base, job.area.size)
    BY <1>1, <1>6 DEF RunMapMem
  <2>2. QED
    BY <1>2, <2>1 DEF OutputInv, Ran
<1>7. CASE RunRamDumper
  <2>1. /\ UNCHANGED job /\ job.tool = "ramdumper"
        /\ output' = RamDumper(job.area.base, job.area.size)
    BY <1>1, <1>7 DEF RunRamDumper
  <2>2. QED
    BY <1>2, <2>1 DEF OutputInv, Ran
<1>8. CASE RunEdid
  <2>1. UNCHANGED job /\ job.tool = "edid" /\ output' = EdidBlock(job.timing)
    BY <1>1, <1>8 DEF RunEdid
  <2>2. QED
    BY <1>2, <2>1 DEF OutputInv, Ran
<1>9. CASE RunSha256 \/ RunTearing \/ UNCHANGED vars
  <2>1. UNCHANGED <<job, ran, output>>
    BY <1>9 DEF RunSha256, RunTearing, toolVars, vars
  <2>2. QED
    BY <1>2, <2>1 DEF OutputInv, Ran, Encoded
<1>10. QED
  BY <1>3, <1>4, <1>5, <1>6, <1>7, <1>8, <1>9 DEF Next

(* Nothing has been put out at first. *)
LEMMA OutputInitial == Init => OutputInv
BY DEF Init, OutputInv, Ran

-----------------------------------------------------------------------------
(* The test of tearing *)

(* A flip that was asked for is pending, or its event is there, or it was
   refused and there is nothing to wait for. *)
Flipping(fb) ==
    \/ pending = fb /\ events = 0
    \/ pending = None /\ events = 1 /\ screen = fb
    \/ pending = None /\ events = 0 /\ refused
Before == {"create0", "create1", "draw", "first"}
FlipInv ==
    /\ FlipTypeOK
    /\ at \in Before => pending = None /\ events = 0 /\ i = 0
    /\ at \in {"show0", "read0", "show1", "read1"} => i < Rounds
    /\ at = "read0" => Flipping("fb0")
    /\ at = "read1" => Flipping("fb1")
    /\ FlipsInTurn

(* No flip is asked for at first. *)
LEMMA FlipInitial == FlipInit => FlipInv
<1> SUFFICES ASSUME FlipInit PROVE FlipInv
  OBVIOUS
<1>1. refused \in BOOLEAN
  BY Zenon DEF FlipInit
<1>2. FlipTypeOK
  BY <1>1, RoundsAssumption DEF FlipInit, FlipTypeOK
<1>3. QED
  BY <1>2 DEF FlipInit, FlipInv, FlipsInTurn, Before

(* A refusal is remembered. *)
LEMMA RefusedStep ==
    ASSUME refused \in BOOLEAN, [FlipNext]_flipVars
    PROVE  refused' \in BOOLEAN /\ (refused => refused')
BY Zenon DEF FlipNext, CreateFrameBuffer, Draw, ShowFirstFrame, Fatal, Show0, Show1, Show, ShowFrame,
             Read0, Read1, VerticalBlank, flipVars

(* A flip is asked for when the one before has been waited for. *)
LEMMA FlipStep ==
    ASSUME FlipInv, [FlipNext]_flipVars
    PROVE  FlipInv'
<1>0. refused' \in BOOLEAN /\ (refused => refused')
  BY RefusedStep DEF FlipInv, FlipTypeOK
<1> USE RoundsAssumption DEF FlipInv, FlipTypeOK, FlipsInTurn, Flipping, Before, Gone, Buffers, None
<1>1. CASE CreateFrameBuffer \/ Draw
  BY <1>0, <1>1 DEF CreateFrameBuffer, Draw, Fatal
<1>2. CASE ShowFirstFrame
  <2>1. /\ pending = None /\ events = 0 /\ i = 0
        /\ UNCHANGED <<i, frames, pending, events>>
        /\ \/ screen' = "fb1" /\ at' = (IF Rounds > 0 THEN "show0" ELSE "done")
           \/ screen' = screen /\ at' = "exited"
    BY <1>2 DEF ShowFirstFrame, Fatal
  <2>2. QED
    BY <1>0, <2>1
<1>3. CASE Show0 \/ Show1
  <2>1. /\ pending = None /\ events = 0 /\ i < Rounds
        /\ UNCHANGED <<i, frames, screen, events>>
        /\ (at = "show0" /\ at' = "read0") \/ (at = "show1" /\ at' = "read1")
    BY <1>3 DEF Show0, Show1, Show, ShowFrame
  <2>2. \/ pending' = (IF at = "show0" THEN "fb0" ELSE "fb1")
        \/ refused' /\ pending' = None
    <3>1. CASE UNCHANGED pending
      <4>1. refused'
        BY <1>3, <2>1, <3>1 DEF Show0, Show1, Show, ShowFrame
      <4>2. QED
        BY <2>1, <3>1, <4>1
    <3>2. CASE ~UNCHANGED pending
      BY <1>3, <3>2 DEF Show0, Show1, Show, ShowFrame
    <3>3. QED
      BY <3>1, <3>2
  <2>3. QED
    BY <1>0, <2>1, <2>2
<1>4. CASE Read0
  BY <1>0, <1>4 DEF Read0, ReadEvent
<1>5. CASE Read1
  BY <1>0, <1>5 DEF Read1, ReadEvent
<1>6. CASE VerticalBlank
  BY <1>0, <1>6 DEF VerticalBlank
<1>7. CASE UNCHANGED flipVars
  BY <1>7 DEF flipVars
<1>8. QED
  BY <1>1, <1>2, <1>3, <1>4, <1>5, <1>6, <1>7 DEF FlipNext

(* For any number of rounds, and whatever the kernel refuses. *)
THEOREM InTurn == Spec => []FlipsInTurn
<1>1. Init => FlipInv
  BY FlipInitial DEF Init
<1>2. FlipInv /\ [Next]_vars => FlipInv'
  BY FlipStep, OthersStay
<1>3. FlipInv => FlipsInTurn
  BY DEF FlipInv
<1>4. QED
  BY <1>1, <1>2, <1>3, PTL DEF Spec

-----------------------------------------------------------------------------
(* The windows into memory *)

(* A job of one of the two tools has an area. *)
LEMMA AreaOf ==
    ASSUME job \in Jobs, job.tool \in {"mapmem", "ramdumper"}
    PROVE  job.area.base \in Nat /\ job.area.size \in Nat
<1>1. job.area \in Areas
  BY DEF Jobs
<1>2. QED
  BY <1>1, AreasAssumption

(* An address and the offset of it in its page. *)
LEMMA PageOf ==
    ASSUME NEW a \in Nat
    PROVE  /\ a % PageSize \in 0..(PageSize - 1)
           /\ a = PageSize * (a \div PageSize) + (a % PageSize)
           /\ a - (a % PageSize) \in Nat
           /\ a \div PageSize \in Nat
<1>1. PageSize \in Nat /\ PageSize > 0
  BY PageAssumption
<1>2. a % PageSize \in 0..(PageSize - 1) /\ a = PageSize * (a \div PageSize) + (a % PageSize)
  BY <1>1
<1>3. a \div PageSize \in Nat
  BY <1>1
<1>4. PageSize * (a \div PageSize) \in Nat
  BY <1>1, <1>3
<1>5. QED
  BY <1>2, <1>3, <1>4

(* A window over the pages from that of an address on holds what is behind it. *)
LEMMA Holds ==
    ASSUME NEW base \in Nat, NEW size \in Nat, NEW address,
           NEW a \in base..(base + size - 1)
    PROVE  Mapped(Window(base - (base % PageSize), size + (base % PageSize), address), a)
<1> DEFINE offset == base % PageSize
<1>1. offset \in Nat
  BY PageOf
<1>2. base - offset + (size + offset) - 1 = base + size - 1
  BY <1>1
<1>3. a \in (base - offset)..(base - offset + (size + offset) - 1)
  BY <1>1
<1> HIDE DEF offset
<1>4. a \div PageSize \in Pages(base - offset, size + offset)
  BY <1>3 DEF Pages
<1>5. QED
  BY <1>4 DEF Mapped, Window, offset

(* mapmem: the whole area, at its address, and all of it is unmapped again. *)
LEMMA MapHolds ==
    ASSUME OutputInv, Ran("mapmem")
    PROVE  MappingHolds
<1> DEFINE base == job.area.base
           size == job.area.size
           offset == base % PageSize
<1>1. base \in Nat /\ size \in Nat
  BY AreaOf DEF OutputInv, Ran
<1>2. output = Window(base - offset, size + offset, base - offset + offset)
  BY DEF OutputInv, MapMem
<1> HIDE DEF base, size
<1>3. offset \in Nat /\ base - offset + offset = base
  BY <1>1, PageOf
<1>4. output = Window(base - offset, size + offset, base)
  BY <1>2, <1>3
<1>5. \A a \in base..(base + size - 1) : Mapped(output, a)
  BY <1>1, <1>4, Holds
<1>6. output.address = base /\ output.pages = Pages(base - offset, size + offset)
  BY <1>4 DEF Window
<1>7. UnmapMem(output, size) = output.pages
  BY <1>6 DEF UnmapMem
<1>8. QED
  BY <1>5, <1>6, <1>7 DEF MappingHolds, base, size

(* The bytes of a dump of whole lines are those of the area, each with its own
   address. *)
LEMMA DumpOfLines ==
    ASSUME NEW from \in Nat, NEW count \in Nat, count % 16 = 0
    PROVE  /\ {shown.says : shown \in HexdumpRam(from, from, count)} = from..(from + count - 1)
           /\ \A shown \in HexdumpRam(from, from, count) :
                 shown.reads = shown.says /\ shown.reads \in from..(from + count - 1)
<1> DEFINE dump == HexdumpRam(from, from, count)
           lines == count \div 16
<1>1. lines \in Nat /\ count = 16 * lines /\ (count + 15) \div 16 = lines
  OBVIOUS
<1>2. Lines(count) = {16 * n : n \in 0..(lines - 1)}
  BY <1>1 DEF Lines
<1> HIDE DEF lines
<1>3. ASSUME NEW shown \in dump
      PROVE  shown.reads = shown.says /\ shown.says \in from..(from + count - 1)
  <2>1. PICK line \in Lines(count), k \in 0..15 :
           shown = [says |-> from + line + k, reads |-> from + line + k]
    BY <1>3 DEF HexdumpRam
  <2>2. PICK n \in 0..(lines - 1) : line = 16 * n
    BY <1>2, <2>1
  <2>3. from + line + k \in from..(from + count - 1)
    BY <1>1, <2>2
  <2>4. QED
    BY <2>1, <2>3
<1>4. ASSUME NEW a \in from..(from + count - 1)
      PROVE  \E shown \in dump : shown.says = a
  <2> DEFINE n == (a - from) \div 16
             k == (a - from) % 16
  <2>1. a - from \in 0..(16 * lines - 1)
    BY <1>1
  <2>2. k \in 0..15 /\ a - from = 16 * n + k /\ n \in 0..(lines - 1)
    BY <1>1, <2>1
  <2> HIDE DEF n, k
  <2>3. 16 * n \in Lines(count)
    BY <1>2, <2>2
  <2>4. [says |-> from + 16 * n + k, reads |-> from + 16 * n + k] \in dump
    BY <2>2, <2>3 DEF HexdumpRam
  <2>5. from + 16 * n + k = a
    BY <2>2
  <2>6. QED
    BY <2>4, <2>5
<1> HIDE DEF dump
<1>5. {shown.says : shown \in dump} = from..(from + count - 1)
  BY <1>3, <1>4
<1>6. QED
  BY <1>3, <1>5 DEF dump

(* ramdumper: the offset into the page is read from and reported alike. *)
LEMMA DumpHolds ==
    ASSUME OutputInv, Ran("ramdumper"), WholeLines
    PROVE  DumpIsTrue
<1> DEFINE base == job.area.base
           size == job.area.size
           offset == base % PageSize
           start == (base \div PageSize) * PageSize
           window == Window(start, size + offset, start)
<1>1. base \in Nat /\ size \in Nat
  BY AreaOf DEF OutputInv, Ran
<1>2. output = [window |-> window,
                dump |-> HexdumpRam(window.address + offset, start + offset, size)]
  BY DEF OutputInv, RamDumper
<1>3. size % 16 = 0
  BY DEF WholeLines
<1> HIDE DEF base, size
<1>4. start + offset = base /\ start = base - offset /\ offset \in Nat
  BY <1>1, PageOf, PageAssumption
<1>5. window.address = start
  BY DEF Window
<1> HIDE DEF start
<1>6. output.window = window /\ output.dump = HexdumpRam(base, base, size)
  BY <1>2, <1>4, <1>5
<1>7. \A a \in base..(base + size - 1) : Mapped(output.window, a)
  BY <1>1, <1>4, <1>6, Holds
<1>8. QED
  BY <1>1, <1>3, <1>6, <1>7, DumpOfLines DEF DumpIsTrue, base, size

(* For every area and every size of a page. *)
THEOREM Windows == Spec => []WindowHolds
<1>1. Init => OutputInv
  BY OutputInitial
<1>2. OutputInv /\ [Next]_vars => OutputInv'
  BY OutputStep
<1>3. OutputInv => WindowHolds
  BY MapHolds, DumpHolds DEF WindowHolds
<1>4. QED
  BY <1>1, <1>2, <1>3, PTL DEF Spec

-----------------------------------------------------------------------------
(* Recursion over data: a flat sequence, and the bytes of a length *)

Concat(s, t) == s \o t
Cat == INSTANCE FoldTheorems WITH Op <- Concat

Halved(n, k) == n \div 256
Down == INSTANCE FoldTheorems WITH Op <- Halved

(* FlattenSeq puts one sequence behind the other. *)
LEMMA FlattenIsFold ==
    ASSUME NEW S, NEW seqs \in Seq(Seq(S))
    PROVE  FlattenSeq(seqs) = Cat!Fold(<<>>, seqs)
<1> DEFINE n == Len(seqs)
           Rec(h) == [k \in 1..n |-> IF k = 1 THEN seqs[k] ELSE h[k - 1] \o seqs[k]]
           flatten == CHOOSE h : h = Rec(h)
<1>1. n \in Nat /\ DOMAIN seqs = 1..n
  OBVIOUS
<1>2. \A k \in 1..n : seqs[k] \in Seq(S)
  OBVIOUS
<1>3. FlattenSeq(seqs) = IF n = 0 THEN seqs ELSE flatten[n]
  BY DEF FlattenSeq
<1>4. n = 0 => seqs = <<>>
  OBVIOUS
<1> HIDE DEF n
<1>5. PICK g : Cat!Trace(g, <<>>, seqs, n) /\ Cat!Fold(<<>>, seqs) = g[n]
  BY <1>1, Cat!FoldLeftTrace
<1>6. g[0] = <<>> /\ \A k \in 1..n : g[k] = g[k - 1] \o seqs[k]
  BY <1>5 DEF Cat!Trace, Concat
<1>7. CASE n = 0
  BY <1>3, <1>4, <1>5, <1>6, <1>7
<1>8. CASE n > 0
  <2> DEFINE h == [k \in 1..n |-> g[k]]
  <2>1. 1 \in 1..n /\ n \in 1..n
    BY <1>1, <1>8
  <2>2. g[1] = seqs[1]
    <3>1. PICK k \in 1..n : k = 1
      BY <2>1
    <3>2. g[k] = g[k - 1] \o seqs[k]
      BY <1>6
    <3>3. k - 1 = 0
      BY <3>1
    <3>4. g[k] = <<>> \o seqs[k] /\ seqs[k] \in Seq(S)
      BY <1>2, <1>6, <3>2, <3>3
    <3>5. QED
      BY <3>1, <3>4
  <2>3. h = Rec(h)
    <3>1. ASSUME NEW k \in 1..n
          PROVE  h[k] = IF k = 1 THEN seqs[k] ELSE h[k - 1] \o seqs[k]
      <4>1. CASE k = 1
        BY <2>2, <4>1
      <4>2. CASE k # 1
        <5>1. k - 1 \in 1..n
          BY <1>1, <4>2
        <5>2. g[k] = g[k - 1] \o seqs[k]
          BY <1>6
        <5>3. h[k] = g[k] /\ h[k - 1] = g[k - 1]
          BY <5>1
        <5>4. QED
          BY <4>2, <5>2, <5>3
      <4>3. QED
        BY <4>1, <4>2
    <3>2. QED
      BY <3>1
  <2>4. flatten = Rec(flatten)
    BY <2>3
  <2> HIDE DEF flatten, h
  <2>5. \A k \in 1..n : flatten[k] = IF k = 1 THEN seqs[k] ELSE flatten[k - 1] \o seqs[k]
    BY <2>4
  <2> DEFINE Same == {k \in Nat : k + 1 <= n => flatten[k + 1] = g[k + 1]}
  <2>6. 0 \in Same
    BY <2>1, <2>2, <2>5
  <2>7. ASSUME NEW m \in Same
        PROVE  m + 1 \in Same
    <3>1. SUFFICES ASSUME m + 1 + 1 <= n PROVE flatten[m + 1 + 1] = g[m + 1 + 1]
      OBVIOUS
    <3>2. PICK k \in 1..n : k = m + 1 + 1
      BY <1>1, <3>1
    <3>3. k # 1 /\ k - 1 = m + 1 /\ flatten[m + 1] = g[m + 1]
      BY <1>1, <3>1, <3>2
    <3>4. flatten[k] = flatten[k - 1] \o seqs[k] /\ g[k] = g[k - 1] \o seqs[k]
      BY <1>6, <2>5, <3>3
    <3>5. QED
      BY <3>2, <3>3, <3>4
  <2>8. Same \in SUBSET Nat
    OBVIOUS
  <2> HIDE DEF Same
  <2>9. Same = Nat
    BY <2>6, <2>7, <2>8, Cat!SetInduction
  <2>10. n - 1 \in Nat /\ n - 1 + 1 = n
    BY <1>1, <1>8
  <2>11. flatten[n - 1 + 1] = g[n - 1 + 1]
    BY <2>9, <2>10 DEF Same
  <2>12. QED
    BY <1>3, <1>5, <1>8, <2>10, <2>11
<1>9. QED
  BY <1>1, <1>7, <1>8

(* One more sequence goes behind what there is. *)
LEMMA FlattenAppend ==
    ASSUME NEW S, NEW seqs \in Seq(Seq(S)), NEW d \in Seq(S)
    PROVE  FlattenSeq(Append(seqs, d)) = FlattenSeq(seqs) \o d
<1>1. Append(seqs, d) \in Seq(Seq(S))
  OBVIOUS
<1>2. FlattenSeq(Append(seqs, d)) = Cat!Fold(<<>>, Append(seqs, d))
  BY <1>1, FlattenIsFold
<1>3. Cat!Fold(<<>>, Append(seqs, d)) = Concat(Cat!Fold(<<>>, seqs), d)
  BY Cat!FoldAppend
<1>4. FlattenSeq(seqs) = Cat!Fold(<<>>, seqs)
  BY FlattenIsFold
<1>5. QED
  BY <1>2, <1>3, <1>4 DEF Concat

(* A number shifted by bytes is a number. *)
LEMMA ShiftedNat ==
    ASSUME NEW bits \in Nat, NEW bytes \in 0..LengthSize
    PROVE  Shifted(bits, bytes) \in Nat
<1> DEFINE seq == [k \in 1..LengthSize |-> k]
           Rec(h) == [n \in 0..LengthSize |-> IF n = 0 THEN bits ELSE h[n - 1] \div 256]
           down == CHOOSE h : h = Rec(h)
<1>1. LengthSize \in Nat
  BY DEF LengthSize
<1>2. PICK g : Down!Trace(g, bits, seq, LengthSize)
  BY <1>1, Down!FoldLeftTrace
<1>3. /\ g[0] = bits
      /\ \A n \in 1..LengthSize : g[n] = g[n - 1] \div 256
  BY <1>2 DEF Down!Trace, Halved
<1> DEFINE h == [n \in 0..LengthSize |-> g[n]]
<1>4. h = Rec(h)
  <2>1. ASSUME NEW n \in 0..LengthSize
        PROVE  h[n] = IF n = 0 THEN bits ELSE h[n - 1] \div 256
    BY <1>1, <1>3
  <2>2. QED
    BY <2>1
<1>5. down = Rec(down)
  BY <1>4
<1>6. Shifted(bits, bytes) = down[bytes]
  BY DEF Shifted
<1> HIDE DEF down, h
<1> DEFINE Nats == {n \in 0..LengthSize : down[n] \in Nat}
<1>7. 0 \in Nats
  BY <1>1, <1>5
<1>8. ASSUME NEW n \in 0..(LengthSize - 1), n \in Nats
      PROVE  n + 1 \in Nats
  <2>1. PICK k \in 0..LengthSize : k = n + 1
    BY <1>1
  <2>2. down[k] = down[n] \div 256
    BY <1>1, <1>5, <2>1
  <2>3. down[k] \in Nat
    BY <1>8, <2>2
  <2>4. QED
    BY <2>1, <2>3
<1> HIDE DEF Nats
<1>9. \A n \in 0..LengthSize : n \in Nats
  BY <1>1, <1>7, <1>8, Down!IntervalInduction
<1>10. QED
  BY <1>6, <1>9 DEF Nats

-----------------------------------------------------------------------------
(* The hash *)

(* What has been transformed, as one sequence. *)
Sequences(blocks) == [b \in DOMAIN blocks |-> AsSequence(blocks[b])]
Hashed == FlattenSeq(Sequences(transformed))
Octets == Int
Block == [Index -> Octets]

(* Of what was taken, the whole blocks are transformed and counted, and the
   rest is in the buffer; sha256_final puts the padding behind. *)
ShaInv ==
    /\ hashed \in BOOLEAN
    /\ ~hashed =>
          /\ ctx_data \in Block /\ transformed \in Seq(Block)
          /\ datalen \in Index /\ taken \in Nat /\ bitlen \in Nat
          /\ \E q \in Nat : taken = BlockSize * q + datalen
          /\ bitlen = 8 * (taken - datalen)
          /\ Hashed = Message(taken - datalen)
          /\ \A k \in 0..(datalen - 1) : ctx_data[k] = MessageByte(taken - datalen + k + 1)
    /\ DigestOfPadded

(* The sizes of a block and of the length at its end. *)
LEMMA SizesOf ==
    /\ BlockSize \in Nat /\ LengthSize = 8 /\ BlockSize > 8
    /\ Index = 0..(BlockSize - 1) /\ PadAt = BlockSize - 8
BY BlockAssumption DEF LengthSize, Index, PadAt

(* A remainder is what it was made from. *)
LEMMA RestOf ==
    ASSUME NEW b \in Nat, b > 0, NEW q \in Nat, NEW d \in 0..(b - 1)
    PROVE  (b * q + d) % b = d
<1> DEFINE n == b * q + d
           p == n \div b
           r == n % b
<1>1. b * q \in Nat
  OBVIOUS
<1>2. n \in Nat
  BY <1>1
<1> HIDE DEF n
<1>3. n = b * p + r /\ r \in 0..(b - 1) /\ p \in Nat
  BY <1>2
<1> HIDE DEF p, r
<1>4. b * q + d = b * p + r
  BY <1>3 DEF n
<1>5. CASE p > q
  <2>1. b * p >= b * (q + 1)
    BY <1>3, <1>5
  <2>2. b * (q + 1) = b * q + b
    OBVIOUS
  <2>3. b * p \in Nat
    BY <1>3
  <2>4. QED
    BY <1>1, <1>3, <1>4, <2>1, <2>2, <2>3
<1>6. CASE p < q
  <2>1. b * q >= b * (p + 1)
    BY <1>3, <1>6
  <2>2. b * (p + 1) = b * p + b
    BY <1>3
  <2>3. b * p \in Nat
    BY <1>3
  <2>4. QED
    BY <1>1, <1>3, <1>4, <2>1, <2>2, <2>3
<1>7. CASE p = q
  <2>1. r = d
    BY <1>1, <1>3, <1>4, <1>7
  <2>2. QED
    BY <2>1 DEF r, n
<1>8. QED
  BY <1>3, <1>5, <1>6, <1>7

(* A block as a sequence, of its bytes. *)
LEMMA BlockSequence ==
    ASSUME NEW data \in Block
    PROVE  /\ AsSequence(data) \in Seq(Octets) /\ Len(AsSequence(data)) = BlockSize
           /\ \A k \in 1..BlockSize : AsSequence(data)[k] = data[k - 1]
<1>1. \A k \in 1..BlockSize : data[k - 1] \in Octets
  BY SizesOf DEF Block
<1>2. QED
  BY <1>1, SizesOf DEF AsSequence

(* The message of n bytes, byte by byte. *)
LEMMA MessageSequence ==
    ASSUME NEW n \in Nat
    PROVE  /\ Message(n) \in Seq(Octets) /\ Len(Message(n)) = n
           /\ \A k \in 1..n : Message(n)[k] = MessageByte(k)
<1>1. \A k \in 1..n : MessageByte(k) \in Octets
  BY DEF MessageByte, Octets
<1>2. QED
  BY <1>1 DEF Message

(* A block that is transformed goes behind what was. *)
LEMMA Transform ==
    ASSUME NEW blocks \in Seq(Block), NEW data \in Block
    PROVE  /\ Append(blocks, data) \in Seq(Block)
           /\ FlattenSeq(Sequences(Append(blocks, data)))
                 = FlattenSeq(Sequences(blocks)) \o AsSequence(data)
<1>1. Append(blocks, data) \in Seq(Block)
  OBVIOUS
<1>2. AsSequence(data) \in Seq(Octets)
  BY BlockSequence
<1>3. Sequences(blocks) \in Seq(Seq(Octets)) /\ Len(Sequences(blocks)) = Len(blocks)
  <2>1. \A b \in 1..Len(blocks) : AsSequence(blocks[b]) \in Seq(Octets)
    BY BlockSequence
  <2>2. DOMAIN blocks = 1..Len(blocks) /\ Len(blocks) \in Nat
    OBVIOUS
  <2>3. QED
    BY <2>1, <2>2 DEF Sequences
<1>4. Sequences(Append(blocks, data)) = Append(Sequences(blocks), AsSequence(data))
  <2> DEFINE n == Len(blocks)
  <2>1. n \in Nat /\ DOMAIN Append(blocks, data) = 1..(n + 1)
        /\ DOMAIN blocks = 1..n
    OBVIOUS
  <2>2. Append(blocks, data)[n + 1] = data
        /\ \A b \in 1..n : Append(blocks, data)[b] = blocks[b]
    OBVIOUS
  <2>3. DOMAIN Sequences(Append(blocks, data)) = 1..(n + 1)
        /\ \A b \in 1..(n + 1) : Sequences(Append(blocks, data))[b]
                                   = AsSequence(Append(blocks, data)[b])
    BY <2>1 DEF Sequences
  <2>4. \A b \in 1..n : Sequences(blocks)[b] = AsSequence(blocks[b])
    BY <2>1 DEF Sequences
  <2> DEFINE left == Sequences(Append(blocks, data))
             right == Append(Sequences(blocks), AsSequence(data))
  <2>5. DOMAIN right = 1..(n + 1) /\ right[n + 1] = AsSequence(data)
        /\ \A b \in 1..n : right[b] = Sequences(blocks)[b]
    BY <1>2, <1>3
  <2>6. right = [b \in 1..(n + 1) |-> right[b]]
    <3>1. right \in Seq(Seq(Octets)) /\ Len(right) = n + 1
      BY <1>2, <1>3
    <3> HIDE DEF right, n
    <3>2. right = [b \in 1..Len(right) |-> right[b]]
      BY <3>1
    <3>3. QED
      BY <3>1, <3>2
  <2>7. left = [b \in 1..(n + 1) |-> left[b]]
    BY <2>1 DEF Sequences
  <2>8. \A b \in 1..(n + 1) : left[b] = right[b]
    <3> HIDE DEF n, left, right
    <3>1. TAKE b \in 1..(n + 1)
    <3>2. CASE b = n + 1
      BY <2>1, <2>2, <2>3, <2>5, <3>2 DEF left
    <3>3. CASE b # n + 1
      <4>1. b \in 1..n
        BY <2>1, <3>3
      <4>2. QED
        BY <2>2, <2>3, <2>4, <2>5, <4>1 DEF left
    <3>4. QED
      BY <3>2, <3>3
  <2> HIDE DEF left, right, n
  <2>9. left = right
    BY <2>6, <2>7, <2>8
  <2>10. QED
    BY <2>9 DEF left, right
<1>5. QED
  BY <1>1, <1>2, <1>3, <1>4, FlattenAppend

(* u is s, of length n, and t, of length m, behind it. *)
Joins(u, s, t, n, m) ==
    /\ u \in Seq(Octets) /\ Len(u) = n + m
    /\ \A k \in 1..(n + m) : u[k] = IF k <= n THEN s[k] ELSE t[k - n]

(* What a concatenation is, for two sequences of octets. *)
LEMMA Behind ==
    ASSUME NEW n \in Nat, NEW m \in Nat,
           NEW s \in Seq(Octets), Len(s) = n, NEW t \in Seq(Octets), Len(t) = m
    PROVE  Joins(s \o t, s, t, n, m)
BY ConcatProperties DEF Joins

(* Two sequences of one length with the same octets are one. *)
LEMMA SameOctets ==
    ASSUME NEW s \in Seq(Octets), NEW t \in Seq(Octets), Len(s) = Len(t),
           \A k \in 1..Len(s) : s[k] = t[k]
    PROVE  s = t
BY SeqEqual

(* Zeros between the first byte of padding and the length. *)
Zeros(n) == (2 * BlockSize - 1 - LengthSize - (n % BlockSize)) % BlockSize

(* The padding: 128, zeros, and the bits of the message in eight bytes. *)
LEMMA PaddingSequence ==
    ASSUME NEW n \in Nat, Zeros(n) \in Nat
    PROVE  /\ Padding(n) \in Seq(Octets) /\ Len(Padding(n)) = Zeros(n) + 9
           /\ Padding(n)[1] = 128
           /\ \A k \in 2..(Zeros(n) + 1) : Padding(n)[k] = 0
           /\ \A k \in (Zeros(n) + 2)..(Zeros(n) + 9) :
                 Padding(n)[k] = Shifted(8 * n, Zeros(n) + 9 - k) % 256
<1> DEFINE zeros == Zeros(n)
           first == <<128>>
           rest == [k \in 1..zeros |-> 0]
           length == [k \in 1..LengthSize |-> Shifted(8 * n, LengthSize - k) % 256]
<1>1. Padding(n) = first \o rest \o length
  BY DEF Padding, Zeros
<1>2. zeros \in Nat /\ LengthSize = 8
  BY DEF LengthSize
<1>3. first \in Seq(Octets) /\ Len(first) = 1 /\ first[1] = 128
  BY DEF Octets
<1>4. rest \in Seq(Octets) /\ Len(rest) = zeros /\ \A k \in 1..zeros : rest[k] = 0
  BY <1>2 DEF Octets
<1>5. /\ length \in Seq(Octets) /\ Len(length) = 8
      /\ \A k \in 1..8 : length[k] = Shifted(8 * n, 8 - k) % 256
  <2>1. ASSUME NEW k \in 1..8
        PROVE  Shifted(8 * n, 8 - k) \in Nat
    <3>1. 8 * n \in Nat /\ 8 - k \in 0..LengthSize
      BY <1>2
    <3>2. QED
      BY <3>1, ShiftedNat
  <2>2. \A k \in 1..8 : Shifted(8 * n, 8 - k) % 256 \in Octets
    BY <2>1 DEF Octets
  <2>3. length = [k \in 1..8 |-> Shifted(8 * n, 8 - k) % 256]
    BY <1>2
  <2> HIDE DEF length
  <2>4. QED
    BY <2>2, <2>3
<1> HIDE DEF zeros, first, rest, length
<1> DEFINE front == first \o rest
<1>6. Joins(front, first, rest, 1, zeros)
  <2>1. 1 \in Nat
    OBVIOUS
  <2>2. QED
    BY <1>2, <1>3, <1>4, <2>1, Behind, Zenon
<1> HIDE DEF front
<1>7. Joins(front \o length, front, length, 1 + zeros, 8)
  <2>1. 1 + zeros \in Nat /\ 8 \in Nat
    BY <1>2
  <2>2. front \in Seq(Octets) /\ Len(front) = 1 + zeros
    BY <1>6, Zenon DEF Joins
  <2>3. QED
    BY <1>5, <2>1, <2>2, Behind, Zenon
<1>8. Padding(n) = front \o length
  BY <1>1 DEF front
<1>9. /\ Padding(n) \in Seq(Octets) /\ Len(Padding(n)) = zeros + 9
      /\ \A k \in 1..(zeros + 9) :
            Padding(n)[k] = IF k <= zeros + 1 THEN front[k] ELSE length[k - (zeros + 1)]
  <2>1. (1 + zeros) + 8 = zeros + 9 /\ 1 + zeros = zeros + 1
    BY <1>2
  <2>2. QED
    BY <1>7, <1>8, <2>1, Zenon DEF Joins
<1>10. Padding(n)[1] = 128
  <2>1. 1 \in 1..(1 + zeros) /\ 1 \in 1..(zeros + 9) /\ 1 <= zeros + 1 /\ 1 <= 1
    BY <1>2
  <2>2. Padding(n)[1] = front[1]
    BY <1>9, <2>1, Zenon
  <2>3. front[1] = first[1]
    BY <1>6, <2>1, Zenon DEF Joins
  <2>4. QED
    BY <1>3, <2>2, <2>3
<1>11. ASSUME NEW k \in 2..(zeros + 1)
       PROVE  Padding(n)[k] = 0
  <2>1. /\ k \in 1..(1 + zeros) /\ k \in 1..(zeros + 9) /\ k <= zeros + 1 /\ ~(k <= 1)
        /\ k - 1 \in 1..zeros
    BY <1>2
  <2>2. Padding(n)[k] = front[k]
    BY <1>9, <2>1, Zenon
  <2>3. front[k] = rest[k - 1]
    BY <1>6, <2>1, Zenon DEF Joins
  <2>4. QED
    BY <1>4, <2>1, <2>2, <2>3
<1>12. ASSUME NEW k \in (zeros + 2)..(zeros + 9)
       PROVE  Padding(n)[k] = Shifted(8 * n, zeros + 9 - k) % 256
  <2>1. k - (zeros + 1) \in 1..8 /\ 8 - (k - (zeros + 1)) = zeros + 9 - k
    BY <1>2
  <2>2. Padding(n)[k] = length[k - (zeros + 1)]
    BY <1>2, <1>9
  <2>3. QED
    BY <1>5, <2>1, <2>2
<1>13. QED
  BY <1>9, <1>10, <1>11, <1>12 DEF zeros

(* The message and what is behind it, byte by byte. *)
LEMMA MessageThenPadding ==
    ASSUME NEW n \in Nat, Zeros(n) \in Nat
    PROVE  Joins(Message(n) \o Padding(n), Message(n), Padding(n), n, Zeros(n) + 9)
<1>1. Zeros(n) + 9 \in Nat
  OBVIOUS
<1>2. Message(n) \in Seq(Octets) /\ Len(Message(n)) = n
  BY MessageSequence
<1>3. Padding(n) \in Seq(Octets) /\ Len(Padding(n)) = Zeros(n) + 9
  BY PaddingSequence
<1>4. QED
  BY <1>1, <1>2, <1>3, Behind, Zenon

(* How to tell a padded message: byte by byte. *)
LEMMA PaddedMessage ==
    ASSUME NEW n \in Nat, Zeros(n) \in Nat,
           NEW s \in Seq(Octets), Len(s) = n + Zeros(n) + 9,
           \A k \in 1..n : s[k] = MessageByte(k),
           s[n + 1] = 128,
           \A k \in (n + 2)..(n + Zeros(n) + 1) : s[k] = 0,
           \A k \in (n + Zeros(n) + 2)..(n + Zeros(n) + 9) :
              s[k] = Shifted(8 * n, n + Zeros(n) + 9 - k) % 256
    PROVE  s = Message(n) \o Padding(n)
<1> DEFINE zeros == Zeros(n)
           t == Message(n) \o Padding(n)
<1>1. /\ t \in Seq(Octets) /\ Len(t) = n + (zeros + 9)
      /\ \A k \in 1..(n + (zeros + 9)) :
            t[k] = IF k <= n THEN Message(n)[k] ELSE Padding(n)[k - n]
  BY MessageThenPadding DEF Joins
<1> HIDE DEF t
<1>2. ASSUME NEW k \in 1..Len(s)
      PROVE  s[k] = t[k]
  <2>1. k \in 1..(n + (zeros + 9))
    OBVIOUS
  <2>2. CASE k <= n
    <3>1. k \in 1..n
      BY <2>1, <2>2
    <3>2. t[k] = Message(n)[k]
      BY <1>1, <2>1, <2>2
    <3>3. QED
      BY <3>1, <3>2, MessageSequence
  <2>3. CASE k > n
    <3> DEFINE m == k - n
    <3>1. m \in 1..(zeros + 9) /\ k = n + m
      BY <2>1, <2>3
    <3>2. t[k] = Padding(n)[m]
      BY <1>1, <2>1, <2>3
    <3> HIDE DEF m
    <3>3. CASE m = 1
      <4>1. Padding(n)[m] = 128
        BY <3>3, PaddingSequence
      <4>2. k = n + 1
        BY <3>1, <3>3
      <4>3. QED
        BY <3>2, <4>1, <4>2
    <3>4. CASE m \in 2..(zeros + 1)
      <4>1. Padding(n)[m] = 0
        BY <3>4, PaddingSequence
      <4>2. k \in (n + 2)..(n + zeros + 1)
        BY <3>1, <3>4
      <4>3. QED
        BY <3>2, <4>1, <4>2
    <3>5. CASE m \in (zeros + 2)..(zeros + 9)
      <4>1. Padding(n)[m] = Shifted(8 * n, zeros + 9 - m) % 256
        BY <3>5, PaddingSequence
      <4>2. k \in (n + zeros + 2)..(n + zeros + 9) /\ n + zeros + 9 - k = zeros + 9 - m
        BY <3>1, <3>5
      <4>3. s[k] = Shifted(8 * n, n + zeros + 9 - k) % 256
        BY <4>2
      <4>4. QED
        BY <3>2, <4>1, <4>2, <4>3
    <3>6. QED
      BY <3>1, <3>3, <3>4, <3>5
  <2>4. QED
    BY <2>2, <2>3
<1>3. QED
  <2>1. Len(s) = Len(t) /\ t \in Seq(Octets)
    BY <1>1
  <2>2. s = t
    BY <1>2, <2>1, SameOctets, Zenon
  <2>3. QED
    BY <2>2 DEF t

(* The whole blocks and one more. *)
LEMMA MessageThenBlock ==
    ASSUME NEW n \in Nat, NEW data \in Block
    PROVE  Joins(Message(n) \o AsSequence(data), Message(n), AsSequence(data), n, BlockSize)
<1>1. Message(n) \in Seq(Octets) /\ Len(Message(n)) = n
  BY MessageSequence
<1>2. AsSequence(data) \in Seq(Octets) /\ Len(AsSequence(data)) = BlockSize /\ BlockSize \in Nat
  BY BlockSequence, SizesOf
<1>3. QED
  BY <1>1, <1>2, Behind, Zenon

(* A byte of the message. *)
LEMMA UpdateStep ==
    ASSUME ShaInv, ShaUpdate
    PROVE  ShaInv'
<1> DEFINE d == datalen
           n == taken - datalen
           data == [ctx_data EXCEPT ![datalen] = MessageByte(taken + 1)]
<1> USE SizesOf
<1>1. /\ ctx_data \in Block /\ transformed \in Seq(Block)
      /\ d \in 0..(BlockSize - 1) /\ taken \in Nat /\ bitlen \in Nat /\ ~hashed /\ hashed \in BOOLEAN
      /\ bitlen = 8 * n
      /\ Hashed = Message(n)
      /\ \A k \in 0..(d - 1) : ctx_data[k] = MessageByte(n + k + 1)
  BY DEF ShaInv, ShaUpdate
<1>2. PICK q \in Nat : taken = BlockSize * q + d
  BY <1>1 DEF ShaInv
<1>3. n = BlockSize * q /\ n \in Nat
  BY <1>1, <1>2
<1>4. /\ ~hashed' /\ hashed' \in BOOLEAN
      /\ taken' = taken + 1 /\ ctx_data' = data
  BY <1>1 DEF ShaUpdate
<1>5. data \in Block
  BY <1>1 DEF MessageByte, Block, Octets
<1>6. \A k \in 0..d : data[k] = MessageByte(n + k + 1)
  <2>1. ASSUME NEW k \in 0..d
        PROVE  data[k] = MessageByte(n + k + 1)
    <3>1. k \in Index
      BY <1>1
    <3>2. CASE k = d
      BY <1>1, <3>1, <3>2 DEF Block
    <3>3. CASE k # d
      BY <1>1, <3>1, <3>3 DEF Block
    <3>4. QED
      BY <3>2, <3>3
  <2>2. QED
    BY <2>1
<1>7. DigestOfPadded'
  BY <1>4 DEF DigestOfPadded
<1>8. CASE d + 1 = BlockSize
  <2>1. /\ transformed' = Append(transformed, data)
        /\ bitlen' = bitlen + 8 * BlockSize
        /\ datalen' = 0
    BY <1>8 DEF ShaUpdate
  <2>2. transformed' \in Seq(Block) /\ Hashed' = Hashed \o AsSequence(data)
    BY <1>1, <1>5, <2>1, Transform DEF Hashed
  <2>3. taken' - datalen' = n + BlockSize /\ n + BlockSize \in Nat
    BY <1>1, <1>3, <1>4, <1>8, <2>1
  <2> HIDE DEF n, data
  <2>4. Message(n) \o AsSequence(data) = Message(n + BlockSize)
    <3> DEFINE s == Message(n) \o AsSequence(data)
               t == Message(n + BlockSize)
    <3>1. /\ s \in Seq(Octets) /\ Len(s) = n + BlockSize
          /\ \A k \in 1..(n + BlockSize) :
                s[k] = IF k <= n THEN Message(n)[k] ELSE AsSequence(data)[k - n]
      BY <1>3, <1>5, MessageThenBlock, Zenon DEF Joins
    <3>2. /\ t \in Seq(Octets) /\ Len(t) = n + BlockSize
          /\ \A k \in 1..(n + BlockSize) : t[k] = MessageByte(k)
      BY <2>3, MessageSequence
    <3> HIDE DEF s, t
    <3>3. ASSUME NEW k \in 1..Len(s)
          PROVE  s[k] = t[k]
      <4>1. k \in 1..(n + BlockSize)
        BY <3>1
      <4>2. CASE k <= n
        <5>1. k \in 1..n
          BY <4>1, <4>2
        <5>2. s[k] = Message(n)[k] /\ t[k] = MessageByte(k)
          BY <3>1, <3>2, <4>1, <4>2
        <5>3. QED
          BY <1>3, <5>1, <5>2, MessageSequence
      <4>3. CASE k > n
        <5> DEFINE m == k - n
        <5>1. m \in 1..BlockSize /\ k = n + m
          BY <1>3, <4>1, <4>3
        <5>2. s[k] = AsSequence(data)[m]
          BY <1>3, <3>1, <4>1, <4>3
        <5> HIDE DEF m
        <5>3. AsSequence(data)[m] = data[m - 1]
          BY <1>5, <5>1, BlockSequence
        <5>4. m - 1 \in 0..d /\ n + (m - 1) + 1 = k
          BY <1>1, <1>3, <1>8, <5>1
        <5>5. data[m - 1] = MessageByte(k)
          BY <1>6, <5>4
        <5>6. QED
          BY <3>2, <4>1, <5>2, <5>3, <5>5
      <4>4. QED
        BY <1>3, <4>2, <4>3
    <3>4. QED
      <4>1. Len(s) = Len(t)
        BY <3>1, <3>2
      <4>2. s = t
        BY <3>1, <3>2, <3>3, <4>1, SameOctets, Zenon
      <4>3. QED
        BY <4>2 DEF s, t
  <2>5. Hashed' = Message(taken' - datalen')
    BY <1>1, <2>2, <2>3, <2>4
  <2>6. bitlen' = 8 * (taken' - datalen') /\ bitlen' \in Nat
    BY <1>1, <1>3, <2>1, <2>3
  <2>7. \E p \in Nat : taken' = BlockSize * p + datalen'
    <3>1. taken' = BlockSize * (q + 1) + 0
      BY <1>1, <1>2, <1>4, <1>8
    <3>2. QED
      BY <2>1, <3>1
  <2>8. datalen' \in Index' /\ taken' \in Nat /\ ctx_data' \in Block'
    BY <1>1, <1>4, <1>5, <2>1 DEF Index, Block, data
  <2>9. \A k \in 0..(datalen' - 1) : ctx_data'[k] = MessageByte(taken' - datalen' + k + 1)
    BY <2>1
  <2>10. transformed' \in Seq(Block')
    BY <2>2 DEF Block, Index, Octets
  <2>11. QED
    BY <1>4, <1>7, <2>5, <2>6, <2>7, <2>8, <2>9, <2>10, Zenon DEF ShaInv
<1>9. CASE d + 1 # BlockSize
  <2>1. datalen' = d + 1 /\ UNCHANGED <<transformed, bitlen>>
    BY <1>9 DEF ShaUpdate
  <2>2. taken' - datalen' = n
    BY <1>1, <1>4, <2>1
  <2>3. Hashed' = Message(taken' - datalen')
    BY <1>1, <2>1, <2>2 DEF Hashed
  <2>4. \E p \in Nat : taken' = BlockSize * p + datalen'
    BY <1>1, <1>2, <1>4, <2>1
  <2>5. ASSUME NEW k \in 0..(datalen' - 1)
        PROVE  ctx_data'[k] = MessageByte(taken' - datalen' + k + 1)
    <3>1. k \in 0..d
      BY <1>1, <2>1
    <3>2. QED
      BY <1>4, <1>6, <2>2, <3>1
  <2>6. datalen' \in Index' /\ taken' \in Nat /\ ctx_data' \in Block'
    BY <1>1, <1>4, <1>5, <1>9, <2>1 DEF Index, Block
  <2>7. QED
    <3>1. bitlen' = 8 * (taken' - datalen') /\ bitlen' \in Nat /\ transformed' \in Seq(Block)
      BY <1>1, <2>1, <2>2
    <3>2. Block' = Block
      BY DEF Block, Index, Octets
    <3>3. \A k \in 0..(datalen' - 1) : ctx_data'[k] = MessageByte(taken' - datalen' + k + 1)
      BY <2>5
    <3>4. ctx_data' \in Block' /\ transformed' \in Seq(Block')
      BY <2>6, <3>1, <3>2
    <3>5. QED
      BY <1>4, <1>7, <2>3, <2>4, <2>6, <3>1, <3>3, <3>4, Zenon DEF ShaInv
<1>10. QED
  BY <1>8, <1>9

(* What sha256_final puts behind the whole blocks: the rest of the message, and
   its padding in one block or in two. *)
LEMMA FinalOne ==
    ASSUME ShaInv, ShaFinal, datalen < PadAt
    PROVE  Hashed' = Message(taken) \o Padding(taken)
<1> DEFINE d == datalen
           n == taken - datalen
           bits == bitlen + 8 * datalen
           data == WithLength(PaddedTo(PadAt), bits)
<1> USE SizesOf
<1>1. /\ ctx_data \in Block /\ transformed \in Seq(Block)
      /\ d \in 0..(BlockSize - 9) /\ taken \in Nat /\ ~hashed
      /\ bits = 8 * taken
      /\ Hashed = Message(n)
      /\ \A k \in 0..(d - 1) : ctx_data[k] = MessageByte(n + k + 1)
  BY DEF ShaInv, ShaFinal
<1>2. PICK q \in Nat : taken = BlockSize * q + d
  BY <1>1 DEF ShaInv
<1>3. n \in Nat /\ taken % BlockSize = d /\ taken = n + d
  <2>1. BlockSize * q \in Nat
    OBVIOUS
  <2>2. n \in Nat /\ taken = n + d
    BY <1>1, <1>2, <2>1
  <2>3. d \in 0..(BlockSize - 1)
    BY <1>1
  <2> HIDE DEF d
  <2>4. (BlockSize * q + d) % BlockSize = d
    BY <2>3, RestOf
  <2>5. QED
    BY <1>2, <2>2, <2>4
<1>4. Zeros(taken) = BlockSize - 9 - d
  <2>1. 2 * BlockSize - 1 - LengthSize - d = BlockSize * 1 + (BlockSize - 9 - d)
    BY <1>1
  <2>2. BlockSize - 9 - d \in 0..(BlockSize - 1)
    BY <1>1
  <2>3. QED
    BY <1>3, <2>1, <2>2, RestOf DEF Zeros
<1>5. transformed' = Append(transformed, data)
  BY DEF ShaFinal
<1>6. ASSUME NEW k \in 0..(BlockSize - 1)
      PROVE  /\ k < d => data[k] = MessageByte(n + k + 1)
             /\ k = d => data[k] = 128
             /\ k > d /\ k < PadAt => data[k] = 0
             /\ k >= PadAt => data[k] = Shifted(8 * taken, BlockSize - 1 - k) % 256
  BY <1>1, <1>6 DEF WithLength, PaddedTo, LengthByte
<1>7. data \in Block
  <2>1. ASSUME NEW k \in Index
        PROVE  data[k] \in Octets
    <3>1. k >= PadAt => Shifted(8 * taken, BlockSize - 1 - k) \in Nat
      <4>1. SUFFICES ASSUME k >= PadAt PROVE Shifted(8 * taken, BlockSize - 1 - k) \in Nat
        OBVIOUS
      <4>2. BlockSize - 1 - k \in 0..LengthSize /\ 8 * taken \in Nat
        BY <1>1, <4>1
      <4>3. QED
        BY <4>2, ShiftedNat
    <3>2. CASE k >= PadAt
      <4>1. data[k] = Shifted(8 * taken, BlockSize - 1 - k) % 256
        BY <1>1, <1>6, <3>2
      <4>2. QED
        BY <3>1, <3>2, <4>1 DEF Octets
    <3>3. CASE k < PadAt
      <4>1. data[k] \in {MessageByte(n + k + 1), 128, 0}
        BY <1>1, <1>6, <3>3
      <4>2. MessageByte(n + k + 1) \in Int
        BY <1>3 DEF MessageByte
      <4>3. QED
        BY <4>1, <4>2 DEF Octets
    <3>4. QED
      BY <3>2, <3>3
  <2>2. data = [k \in Index |-> data[k]]
    BY DEF WithLength
  <2> HIDE DEF data
  <2>3. QED
    BY <2>1, <2>2 DEF Block
<1>8. Hashed' = Message(n) \o AsSequence(data)
  BY <1>1, <1>5, <1>7, Transform DEF Hashed
<1> HIDE DEF data, bits, n, d
<1> DEFINE s == Message(n) \o AsSequence(data)
<1>9. /\ s \in Seq(Octets) /\ Len(s) = n + BlockSize
      /\ \A k \in 1..(n + BlockSize) :
            s[k] = IF k <= n THEN Message(n)[k] ELSE AsSequence(data)[k - n]
  BY <1>3, <1>7, MessageThenBlock, Zenon DEF Joins
<1> HIDE DEF s
<1>10. /\ d \in 0..(BlockSize - 9) /\ taken \in Nat /\ n \in Nat /\ taken = n + d
       /\ Zeros(taken) = BlockSize - 9 - d
  BY <1>1, <1>3, <1>4
<1>11. Len(s) = taken + Zeros(taken) + 9 /\ Zeros(taken) \in Nat
  <2>1. Len(s) = n + BlockSize
    BY <1>9
  <2>2. QED
    BY <1>10, <2>1
<1>12. ASSUME NEW k \in 1..(n + BlockSize), k <= n
       PROVE  s[k] = MessageByte(k)
  <2>1. s[k] = Message(n)[k]
    BY <1>9, <1>12
  <2>2. k \in 1..n
    BY <1>12
  <2>3. QED
    BY <1>3, <2>1, <2>2, MessageSequence
<1>13. ASSUME NEW j \in 0..(BlockSize - 1)
       PROVE  s[n + 1 + j] = data[j]
  <2> DEFINE k == n + 1 + j
  <2>1. k \in 1..(n + BlockSize) /\ k > n /\ k - n \in 1..BlockSize /\ k - n - 1 = j
    BY <1>10
  <2> HIDE DEF k
  <2>2. s[k] = AsSequence(data)[k - n]
    BY <1>9, <1>10, <2>1
  <2>3. AsSequence(data)[k - n] = data[k - n - 1]
    BY <1>7, <2>1, BlockSequence
  <2>4. QED
    BY <2>1, <2>2, <2>3 DEF k
<1>14. \A k \in 1..taken : s[k] = MessageByte(k)
  <2>1. ASSUME NEW k \in 1..taken
        PROVE  s[k] = MessageByte(k)
    <3>1. CASE k <= n
      BY <1>10, <1>12, <3>1
    <3>2. CASE k > n
      <4> DEFINE j == k - n - 1
      <4>1. j \in 0..(BlockSize - 1) /\ j < d /\ n + 1 + j = k /\ n + j + 1 = k
        BY <1>10, <3>2
      <4> HIDE DEF j
      <4>2. s[n + 1 + j] = data[j] /\ data[j] = MessageByte(n + j + 1)
        BY <1>6, <1>10, <1>13, <4>1
      <4>3. QED
        BY <4>1, <4>2
    <3>3. QED
      BY <1>10, <3>1, <3>2
  <2>2. QED
    BY <2>1
<1>15. s[taken + 1] = 128
  <2>1. d \in 0..(BlockSize - 1) /\ n + 1 + d = taken + 1
    BY <1>10
  <2>2. s[n + 1 + d] = data[d]
    BY <1>13, <2>1
  <2>3. data[d] = 128
    BY <1>6, <1>10, <2>1
  <2>4. QED
    BY <2>1, <2>2, <2>3
<1>16. \A k \in (taken + 2)..(taken + Zeros(taken) + 1) : s[k] = 0
  <2>1. ASSUME NEW k \in (taken + 2)..(taken + Zeros(taken) + 1)
        PROVE  s[k] = 0
    <3> DEFINE j == k - n - 1
    <3>1. j \in 0..(BlockSize - 1) /\ j > d /\ j < PadAt /\ n + 1 + j = k
      BY <1>10
    <3> HIDE DEF j
    <3>2. s[n + 1 + j] = data[j]
      BY <1>13, <3>1
    <3>3. data[j] = 0
      BY <1>6, <1>10, <3>1
    <3>4. QED
      BY <3>1, <3>2, <3>3
  <2>2. QED
    BY <2>1
<1>17. \A k \in (taken + Zeros(taken) + 2)..(taken + Zeros(taken) + 9) :
          s[k] = Shifted(8 * taken, taken + Zeros(taken) + 9 - k) % 256
  <2>1. ASSUME NEW k \in (taken + Zeros(taken) + 2)..(taken + Zeros(taken) + 9)
        PROVE  s[k] = Shifted(8 * taken, taken + Zeros(taken) + 9 - k) % 256
    <3> DEFINE j == k - n - 1
    <3>1. /\ j \in 0..(BlockSize - 1) /\ j > d /\ j >= PadAt /\ n + 1 + j = k
          /\ BlockSize - 1 - j = taken + Zeros(taken) + 9 - k
      BY <1>10
    <3> HIDE DEF j
    <3>2. s[n + 1 + j] = data[j]
      BY <1>13, <3>1
    <3>3. data[j] = Shifted(8 * taken, BlockSize - 1 - j) % 256
      BY <1>6, <1>10, <3>1
    <3>4. QED
      BY <3>1, <3>2, <3>3
  <2>2. QED
    BY <2>1
<1>18. s = Message(taken) \o Padding(taken)
  BY <1>9, <1>10, <1>11, <1>14, <1>15, <1>16, <1>17, PaddedMessage
<1>19. QED
  BY <1>8, <1>18 DEF s

(* sha256_final with no room for the length: two blocks are transformed. *)
LEMMA FinalTwo ==
    ASSUME ShaInv, ShaFinal, datalen >= PadAt
    PROVE  Hashed' = Message(taken) \o Padding(taken)
<1> DEFINE d == datalen
           n == taken - datalen
           bits == bitlen + 8 * datalen
           rest == PaddedTo(BlockSize)
           last == WithLength([k \in Index |-> 0], bits)
<1> USE SizesOf
<1>1. /\ ctx_data \in Block /\ transformed \in Seq(Block)
      /\ d \in (BlockSize - 8)..(BlockSize - 1) /\ taken \in Nat /\ ~hashed
      /\ bits = 8 * taken
      /\ Hashed = Message(n)
      /\ \A k \in 0..(d - 1) : ctx_data[k] = MessageByte(n + k + 1)
  BY DEF ShaInv, ShaFinal
<1>2. PICK q \in Nat : taken = BlockSize * q + d
  BY <1>1 DEF ShaInv
<1>3. n \in Nat /\ taken % BlockSize = d /\ taken = n + d
  <2>1. BlockSize * q \in Nat
    OBVIOUS
  <2>2. n \in Nat /\ taken = n + d
    BY <1>1, <1>2, <2>1
  <2>3. d \in 0..(BlockSize - 1)
    BY <1>1
  <2> HIDE DEF d
  <2>4. (BlockSize * q + d) % BlockSize = d
    BY <2>3, RestOf
  <2>5. QED
    BY <1>2, <2>2, <2>4
<1>4. Zeros(taken) = 2 * BlockSize - 9 - d
  <2>1. 2 * BlockSize - 1 - LengthSize - d = 2 * BlockSize - 9 - d
    BY <1>1
  <2>2. 2 * BlockSize - 9 - d \in 0..(BlockSize - 1)
    BY <1>1
  <2>3. (2 * BlockSize - 9 - d) % BlockSize = 2 * BlockSize - 9 - d
    BY <2>2
  <2>4. QED
    BY <1>3, <2>1, <2>3 DEF Zeros
<1>5. transformed' = transformed \o <<rest, last>>
  <2>1. ~(datalen < PadAt)
    BY <1>1
  <2>2. ctx_data' = last /\ transformed' = transformed \o <<rest, ctx_data'>>
    BY <2>1 DEF ShaFinal
  <2>3. QED
    BY <2>2
<1>6. ASSUME NEW k \in 0..(BlockSize - 1)
      PROVE  /\ k < d => rest[k] = MessageByte(n + k + 1)
             /\ k = d => rest[k] = 128
             /\ k > d => rest[k] = 0
  BY <1>1, <1>6 DEF PaddedTo
<1>7. ASSUME NEW k \in 0..(BlockSize - 1)
      PROVE  /\ k < PadAt => last[k] = 0
             /\ k >= PadAt => last[k] = Shifted(8 * taken, BlockSize - 1 - k) % 256
  BY <1>1, <1>7 DEF WithLength, LengthByte
<1>8. rest \in Block
  <2>1. ASSUME NEW k \in Index
        PROVE  rest[k] \in Octets
    <3>1. rest[k] \in {MessageByte(n + k + 1), 128, 0}
      BY <1>1, <1>6
    <3>2. MessageByte(n + k + 1) \in Int
      BY <1>3 DEF MessageByte
    <3>3. QED
      BY <3>1, <3>2 DEF Octets
  <2>2. rest = [k \in Index |-> rest[k]]
    BY DEF PaddedTo
  <2> HIDE DEF rest
  <2>3. QED
    BY <2>1, <2>2 DEF Block
<1>9. last \in Block
  <2>1. ASSUME NEW k \in Index
        PROVE  last[k] \in Octets
    <3>1. CASE k >= PadAt
      <4>1. BlockSize - 1 - k \in 0..LengthSize /\ 8 * taken \in Nat
        BY <1>1, <3>1
      <4>2. Shifted(8 * taken, BlockSize - 1 - k) \in Nat
        BY <4>1, ShiftedNat
      <4>3. last[k] = Shifted(8 * taken, BlockSize - 1 - k) % 256
        BY <1>7, <3>1
      <4>4. QED
        BY <4>2, <4>3 DEF Octets
    <3>2. CASE k < PadAt
      BY <1>7, <3>2 DEF Octets
    <3>3. QED
      BY <3>1, <3>2
  <2>2. last = [k \in Index |-> last[k]]
    BY DEF WithLength
  <2> HIDE DEF last
  <2>3. QED
    BY <2>1, <2>2 DEF Block
<1> HIDE DEF rest, last, bits, n, d
<1> DEFINE front == Message(n) \o AsSequence(rest)
           s == front \o AsSequence(last)
<1>10. Hashed' = s
  <2> DEFINE first == Append(transformed, rest)
  <2>1. first \in Seq(Block) /\ FlattenSeq(Sequences(first)) = Hashed \o AsSequence(rest)
    BY <1>1, <1>8, Transform DEF Hashed
  <2>2. transformed \o <<rest, last>> = Append(first, last)
    BY <1>1, <1>8, <1>9
  <2> HIDE DEF first
  <2>3. FlattenSeq(Sequences(Append(first, last)))
          = FlattenSeq(Sequences(first)) \o AsSequence(last)
    BY <1>9, <2>1, Transform
  <2>4. QED
    BY <1>1, <1>5, <2>1, <2>2, <2>3 DEF Hashed
<1>11. /\ front \in Seq(Octets) /\ Len(front) = n + BlockSize
       /\ \A k \in 1..(n + BlockSize) :
             front[k] = IF k <= n THEN Message(n)[k] ELSE AsSequence(rest)[k - n]
  BY <1>3, <1>8, MessageThenBlock, Zenon DEF Joins
<1>12. /\ s \in Seq(Octets) /\ Len(s) = n + BlockSize + BlockSize
       /\ \A k \in 1..(n + BlockSize + BlockSize) :
             s[k] = IF k <= n + BlockSize THEN front[k] ELSE AsSequence(last)[k - (n + BlockSize)]
  <2>1. n + BlockSize \in Nat /\ BlockSize \in Nat
    BY <1>3
  <2>2. front \in Seq(Octets) /\ Len(front) = n + BlockSize
    BY <1>11, Zenon
  <2>3. AsSequence(last) \in Seq(Octets) /\ Len(AsSequence(last)) = BlockSize
    BY <1>9, BlockSequence
  <2> HIDE DEF front
  <2>4. Joins(s, front, AsSequence(last), n + BlockSize, BlockSize)
    BY <2>1, <2>2, <2>3, Behind, Zenon
  <2>5. QED
    BY <2>4, Zenon DEF Joins
<1> HIDE DEF s, front
<1>13. /\ d \in (BlockSize - 8)..(BlockSize - 1) /\ taken \in Nat /\ n \in Nat /\ taken = n + d
       /\ Zeros(taken) = 2 * BlockSize - 9 - d
  BY <1>1, <1>3, <1>4
<1>14. Len(s) = taken + Zeros(taken) + 9 /\ Zeros(taken) \in Nat
  <2>1. Len(s) = n + BlockSize + BlockSize
    BY <1>12
  <2>2. QED
    BY <1>13, <2>1
<1>15. ASSUME NEW k \in 1..(n + BlockSize), k <= n
       PROVE  s[k] = MessageByte(k)
  <2>1. front[k] = Message(n)[k]
    BY <1>11, <1>15
  <2>2. k \in 1..n
    BY <1>15
  <2>3. k \in 1..(n + BlockSize + BlockSize) /\ k <= n + BlockSize
    BY <1>13
  <2>4. s[k] = front[k]
    BY <1>12, <2>3
  <2>5. QED
    BY <1>3, <2>1, <2>2, <2>4, MessageSequence
<1>16. ASSUME NEW j \in 0..(BlockSize - 1)
       PROVE  s[n + 1 + j] = rest[j] /\ s[n + 1 + BlockSize + j] = last[j]
  <2> DEFINE k == n + 1 + j
             l == n + 1 + BlockSize + j
  <2>1. /\ k \in 1..(n + BlockSize) /\ k > n /\ k - n \in 1..BlockSize /\ k - n - 1 = j
        /\ k \in 1..(n + BlockSize + BlockSize) /\ k <= n + BlockSize
    BY <1>13
  <2>2. /\ l \in 1..(n + BlockSize + BlockSize) /\ ~(l <= n + BlockSize)
        /\ l - (n + BlockSize) \in 1..BlockSize /\ l - (n + BlockSize) - 1 = j
    BY <1>13
  <2> HIDE DEF k, l
  <2>3. front[k] = AsSequence(rest)[k - n]
    BY <1>11, <1>13, <2>1
  <2>4. AsSequence(rest)[k - n] = rest[k - n - 1]
    BY <1>8, <2>1, BlockSequence
  <2>5. s[k] = front[k]
    BY <1>12, <2>1
  <2>6. s[l] = AsSequence(last)[l - (n + BlockSize)]
    BY <1>12, <2>2
  <2>7. AsSequence(last)[l - (n + BlockSize)] = last[l - (n + BlockSize) - 1]
    BY <1>9, <2>2, BlockSequence
  <2>8. QED
    BY <2>1, <2>2, <2>3, <2>4, <2>5, <2>6, <2>7 DEF k, l
<1>17. \A k \in 1..taken : s[k] = MessageByte(k)
  <2>1. ASSUME NEW k \in 1..taken
        PROVE  s[k] = MessageByte(k)
    <3>1. CASE k <= n
      BY <1>13, <1>15, <3>1
    <3>2. CASE k > n
      <4> DEFINE j == k - n - 1
      <4>1. j \in 0..(BlockSize - 1) /\ j < d /\ n + 1 + j = k /\ n + j + 1 = k
        BY <1>13, <3>2
      <4> HIDE DEF j
      <4>2. s[n + 1 + j] = rest[j] /\ rest[j] = MessageByte(n + j + 1)
        BY <1>6, <1>13, <1>16, <4>1
      <4>3. QED
        BY <4>1, <4>2
    <3>3. QED
      BY <1>13, <3>1, <3>2
  <2>2. QED
    BY <2>1
<1>18. s[taken + 1] = 128
  <2>1. d \in 0..(BlockSize - 1) /\ n + 1 + d = taken + 1
    BY <1>13
  <2>2. s[n + 1 + d] = rest[d]
    BY <1>16, <2>1
  <2>3. rest[d] = 128
    BY <1>6, <1>13, <2>1
  <2>4. QED
    BY <2>1, <2>2, <2>3
<1>19. \A k \in (taken + 2)..(taken + Zeros(taken) + 1) : s[k] = 0
  <2>1. ASSUME NEW k \in (taken + 2)..(taken + Zeros(taken) + 1)
        PROVE  s[k] = 0
    <3>1. CASE k <= n + BlockSize
      <4> DEFINE j == k - n - 1
      <4>1. j \in 0..(BlockSize - 1) /\ j > d /\ n + 1 + j = k
        BY <1>13, <3>1
      <4> HIDE DEF j
      <4>2. s[n + 1 + j] = rest[j]
        BY <1>16, <4>1
      <4>3. rest[j] = 0
        BY <1>6, <1>13, <4>1
      <4>4. QED
        BY <4>1, <4>2, <4>3
    <3>2. CASE k > n + BlockSize
      <4> DEFINE j == k - n - 1 - BlockSize
      <4>1. j \in 0..(BlockSize - 1) /\ j < PadAt /\ n + 1 + BlockSize + j = k
        BY <1>13, <3>2
      <4> HIDE DEF j
      <4>2. s[n + 1 + BlockSize + j] = last[j]
        BY <1>16, <4>1
      <4>3. last[j] = 0
        BY <1>7, <1>13, <4>1
      <4>4. QED
        BY <4>1, <4>2, <4>3
    <3>3. QED
      BY <1>13, <3>1, <3>2
  <2>2. QED
    BY <2>1
<1>20. \A k \in (taken + Zeros(taken) + 2)..(taken + Zeros(taken) + 9) :
          s[k] = Shifted(8 * taken, taken + Zeros(taken) + 9 - k) % 256
  <2>1. ASSUME NEW k \in (taken + Zeros(taken) + 2)..(taken + Zeros(taken) + 9)
        PROVE  s[k] = Shifted(8 * taken, taken + Zeros(taken) + 9 - k) % 256
    <3> DEFINE j == k - n - 1 - BlockSize
    <3>1. /\ j \in 0..(BlockSize - 1) /\ j >= PadAt /\ n + 1 + BlockSize + j = k
          /\ BlockSize - 1 - j = taken + Zeros(taken) + 9 - k
      BY <1>13
    <3> HIDE DEF j
    <3>2. s[n + 1 + BlockSize + j] = last[j]
      BY <1>16, <3>1
    <3>3. last[j] = Shifted(8 * taken, BlockSize - 1 - j) % 256
      BY <1>7, <1>13, <3>1
    <3>4. QED
      BY <3>1, <3>2, <3>3
  <2>2. QED
    BY <2>1
<1>21. s = Message(taken) \o Padding(taken)
  BY <1>12, <1>13, <1>14, <1>17, <1>18, <1>19, <1>20, PaddedMessage
<1>22. QED
  BY <1>10, <1>21

(* In either case the message with its padding has been transformed. *)
LEMMA FinalStep ==
    ASSUME ShaInv, ShaFinal
    PROVE  ShaInv'
<1>1. Hashed' = Message(taken) \o Padding(taken)
  <2>1. datalen < PadAt \/ datalen >= PadAt
    BY SizesOf DEF ShaInv, ShaFinal
  <2>2. QED
    BY <2>1, FinalOne, FinalTwo
<1>2. hashed' = TRUE /\ UNCHANGED <<datalen, taken>>
  BY DEF ShaFinal
<1>3. DigestOfPadded'
  BY <1>1, <1>2 DEF DigestOfPadded, Hashed, Sequences
<1>4. QED
  BY <1>2, <1>3 DEF ShaInv

(* No byte has been taken at first. *)
LEMMA ShaInitial == ShaInit => ShaInv
<1> SUFFICES ASSUME ShaInit PROVE ShaInv
  OBVIOUS
<1>1. ctx_data \in Block /\ transformed = <<>> /\ datalen = 0 /\ bitlen = 0 /\ taken = 0 /\ ~hashed
      /\ hashed \in BOOLEAN
  <2>1. ctx_data \in Block
    BY DEF ShaInit, Block, Octets, Junk
  <2>2. transformed = <<>> /\ datalen = 0 /\ bitlen = 0 /\ taken = 0 /\ hashed = FALSE
    BY DEF ShaInit
  <2>3. QED
    BY <2>1, <2>2, Zenon
<1>2. transformed \in Seq(Block)
  BY <1>1
<1>3. datalen \in Index /\ taken = BlockSize * 0 + datalen
  BY <1>1, SizesOf
<1>4. Hashed = <<>> /\ Message(0) = <<>>
  <2>1. Sequences(transformed) = <<>>
    BY <1>1 DEF Sequences
  <2>2. FlattenSeq(<<>>) = <<>>
    BY DEF FlattenSeq
  <2>3. QED
    BY <2>1, <2>2 DEF Hashed, Message
<1>5. \E q \in Nat : taken = BlockSize * q + datalen
  BY <1>3
<1>6. taken - datalen = 0 /\ bitlen = 8 * (taken - datalen) /\ taken \in Nat /\ bitlen \in Nat
  BY <1>1
<1>7. \A k \in 0..(datalen - 1) : ctx_data[k] = MessageByte(taken - datalen + k + 1)
  BY <1>1
<1>8. QED
  BY <1>1, <1>2, <1>3, <1>4, <1>5, <1>6, <1>7, Zenon DEF ShaInv, DigestOfPadded

(* Every byte that sha256_update takes, and sha256_final, keep the invariant. *)
LEMMA ShaStep ==
    ASSUME ShaInv, [ShaNext]_shaVars
    PROVE  ShaInv'
<1>1. CASE UNCHANGED shaVars
  BY <1>1 DEF shaVars, ShaInv, DigestOfPadded, Hashed, Sequences
<1>2. QED
  BY <1>1, UpdateStep, FinalStep DEF ShaNext

(* For a message of any length, in blocks of any size. *)
THEOREM Digest == Spec => []DigestOfPadded
<1>1. Init => ShaInv
  BY ShaInitial DEF Init
<1>2. ShaInv /\ [Next]_vars => ShaInv'
  BY ShaStep, OthersStay
<1>3. ShaInv => DigestOfPadded
  BY DEF ShaInv
<1>4. QED
  BY <1>1, <1>2, <1>3, PTL DEF Spec

-----------------------------------------------------------------------------
(* The timing of a display *)

Plus(x, y) == x + y
Total == INSTANCE FoldTheorems WITH Op <- Plus

(* A sum grows by what is put in for a zero. *)
LEMMA SumGrows ==
    ASSUME NEW D, IsFiniteSet(D), NEW f \in [D -> Nat], NEW a \in D, f[a] = 0, NEW v \in Nat
    PROVE  /\ Total!FoldedFunction(0, f) \in Nat
           /\ Total!FoldedFunction(0, [f EXCEPT ![a] = v]) = Total!FoldedFunction(0, f) + v
<1> DEFINE g == [f EXCEPT ![a] = v]
<1>1. D = DOMAIN f /\ D = DOMAIN g
  OBVIOUS
<1>2. \A x \in D : f[x] \in Nat /\ g[x] = f[x] + (IF x = a THEN v ELSE 0)
  OBVIOUS
<1> HIDE DEF g
<1>12. Total!IsFiniteSet(DOMAIN f) /\ Total!IsFiniteSet(DOMAIN g)
  <2>1. Total!IsFiniteSet(D)
    BY DEF IsFiniteSet, Total!IsFiniteSet
  <2>2. QED
    BY <1>1, <2>1, Zenon
<1>3. PICK hf : Total!Takes(hf, 0, f) /\ Total!FoldedFunction(0, f) = hf[DOMAIN f]
  BY <1>12, Total!FoldFunctionIs, Zenon
<1>4. PICK hg : Total!Takes(hg, 0, g) /\ Total!FoldedFunction(0, g) = hg[DOMAIN g]
  BY <1>12, Total!FoldFunctionIs, Zenon
<1> DEFINE Right(s) == hf[s] \in Nat /\ hg[s] = hf[s] + (IF a \in s THEN v ELSE 0)
           S == {m \in Nat : \A s \in SUBSET D : Cardinality(s) <= m => Right(s)}
<1>5. ASSUME NEW s \in SUBSET D
      PROVE  IsFiniteSet(s) /\ Cardinality(s) \in Nat /\ Cardinality(s) <= Cardinality(D)
  BY FS_Subset, FS_CardinalityType
<1>6. Right({})
  <2>1. hf[{}] = Total!Taking(hf, 0, f, {}) /\ hg[{}] = Total!Taking(hg, 0, g, {})
    BY <1>3, <1>4 DEF Total!Takes
  <2>2. QED
    BY <2>1 DEF Total!Taking
<1>7. 0 \in S
  <2>1. ASSUME NEW s \in SUBSET D, Cardinality(s) <= 0
        PROVE  s = {}
    BY <1>5, <2>1, FS_EmptySet
  <2> HIDE DEF Right
  <2>2. QED
    BY <1>6, <2>1
<1>8. ASSUME NEW m \in S
      PROVE  m + 1 \in S
  <2>1. ASSUME NEW s \in SUBSET D, Cardinality(s) <= m + 1, s # {}
        PROVE  Right(s)
    <3> DEFINE x == Total!Choice(s)
               t == s \ {x}
    <3>1. x \in s
      BY <2>1 DEF Total!Choice
    <3>2. t \in SUBSET D /\ Cardinality(t) = Cardinality(s) - 1
      BY <1>5, <3>1, FS_RemoveElement
    <3>3. Cardinality(t) <= m
      BY <1>5, <2>1, <3>2
    <3>4. Right(t)
      BY <3>2, <3>3
    <3>5. hf[s] = Total!Taking(hf, 0, f, s) /\ hg[s] = Total!Taking(hg, 0, g, s)
      <4>1. s \in SUBSET DOMAIN f /\ s \in SUBSET DOMAIN g
        BY <1>1
      <4>2. QED
        BY <1>3, <1>4, <4>1, Zenon DEF Total!Takes
    <3>6. hf[s] = f[x] + hf[t] /\ hg[s] = g[x] + hg[t]
      BY <2>1, <3>5 DEF Total!Taking, Plus
    <3>7. x \in D /\ (a \in s <=> a = x \/ a \in t) /\ x \notin t
      BY <3>1
    <3> HIDE DEF x, t
    <3>8. f[x] \in Nat /\ g[x] = f[x] + (IF x = a THEN v ELSE 0)
      BY <1>2, <3>7
    <3>9. QED
      BY <3>4, <3>6, <3>7, <3>8
  <2> HIDE DEF Right
  <2>2. \A s \in SUBSET D : Cardinality(s) <= m + 1 => Right(s)
    BY <1>6, <2>1
  <2>3. QED
    BY <2>2
<1>9. S = Nat
  <2>1. S \in SUBSET Nat
    OBVIOUS
  <2> HIDE DEF S
  <2>2. QED
    BY <1>7, <1>8, <2>1, Total!SetInduction
<1>10. Right(D)
  <2>1. Cardinality(D) \in S /\ D \in SUBSET D
    BY <1>5, <1>9
  <2> HIDE DEF Right
  <2>2. QED
    BY <1>5, <2>1
<1>11. QED
  BY <1>3, <1>4, <1>10 DEF g

(* The sum of a block is that of its bytes, in whatever order. *)
LEMMA SumIs ==
    ASSUME NEW block
    PROVE  FoldFunction(LAMBDA x, y : x + y, 0, block) = Total!FoldedFunction(0, block)
BY DEF FoldFunction, FoldFunctionOnSet, MapThenFoldSet, Plus, Total!FoldedFunction,
       Total!FoldFunction, Total!FoldFunctionOnSet, Total!MapThenFoldSet

(* A number from its low byte and what is above it. *)
LEMMA FromBytes ==
    ASSUME NEW n \in Nat
    PROVE  /\ (n % 256) + 256 * (n \div 256) = n
           /\ n \div 256 \in Nat
           /\ n < 65536 => (n \div 256) % 256 = n \div 256
           /\ n < 4096 => n \div 256 < 16
           /\ n < 1024 => n \div 256 < 4
<1>1. (n % 256) + 256 * (n \div 256) = n /\ n \div 256 \in Nat
  OBVIOUS
<1>2. n < 65536 => (n \div 256) % 256 = n \div 256
  OBVIOUS
<1>3. (n < 4096 => n \div 256 < 16) /\ (n < 1024 => n \div 256 < 4)
  OBVIOUS
<1>4. QED
  BY <1>1, <1>2, <1>3

(* Two numbers in a byte. *)
LEMMA TwoNibbles ==
    ASSUME NEW a \in Nat, NEW b \in Nat, b < 16
    PROVE  (16 * a + b) \div 16 = a /\ (16 * a + b) % 16 = b
OBVIOUS

(* The upper bits of two numbers in a byte, with their low bytes. *)
LEMMA FromNibbles ==
    ASSUME NEW m \in Nat, m < 4096, NEW n \in Nat, n < 4096,
           NEW d, d = 16 * (m \div 256) + (n \div 256)
    PROVE  (m % 256) + 256 * (d \div 16) = m /\ (n % 256) + 256 * (d % 16) = n
<1> DEFINE a == m \div 256
           b == n \div 256
<1>1. /\ a \in Nat /\ b \in Nat /\ b < 16
      /\ (m % 256) + 256 * a = m /\ (n % 256) + 256 * b = n /\ d = 16 * a + b
  BY FromBytes
<1> HIDE DEF a, b
<1>2. d \div 16 = a /\ d % 16 = b
  BY <1>1, TwoNibbles
<1>3. (m % 256) + 256 * (d \div 16) = m
  BY <1>1, <1>2
<1>4. (n % 256) + 256 * (d % 16) = n
  BY <1>1, <1>2
<1>5. QED
  BY <1>3, <1>4

(* The same for two pairs of upper bits, which leave the four lowest bits clear. *)
LEMMA FromPairs ==
    ASSUME NEW m \in Nat, m < 1024, NEW n \in Nat, n < 1024,
           NEW d, d = 64 * (m \div 256) + 16 * (n \div 256)
    PROVE  /\ (m % 256) + 256 * (d \div 64) = m
           /\ (n % 256) + 256 * ((d \div 16) % 4) = n
           /\ (d \div 4) % 4 = 0 /\ d % 4 = 0
<1> DEFINE a == m \div 256
           b == n \div 256
<1>1. /\ a \in Nat /\ b \in Nat /\ b < 4
      /\ (m % 256) + 256 * a = m /\ (n % 256) + 256 * b = n /\ d = 64 * a + 16 * b
  BY FromBytes
<1> HIDE DEF a, b
<1>2. d \div 64 = a
  BY <1>1
<1>3. d \div 16 = 4 * a + b /\ d \div 4 = 16 * a + 4 * b
  BY <1>1
<1>4. (4 * a + b) % 4 = b
  BY <1>1
<1>5. (16 * a + 4 * b) % 4 = 0
  BY <1>1
<1>6. d % 4 = 0
  BY <1>1
<1>7. (m % 256) + 256 * (d \div 64) = m
  BY <1>1, <1>2
<1>8. (n % 256) + 256 * ((d \div 16) % 4) = n
  BY <1>1, <1>3, <1>4
<1>9. QED
  BY <1>3, <1>5, <1>6, <1>7, <1>8

(* What a display reads in the bytes of a detailed timing. *)
Clock(d) == d[0] + 256 * d[1]
HActive(d) == d[2] + 256 * (d[4] \div 16)
HBlank(d) == d[3] + 256 * (d[4] % 16)
VActive(d) == d[5] + 256 * (d[7] \div 16)
VBlank(d) == d[6] + 256 * (d[7] % 16)
HFrontPorch(d) == d[8] + 256 * (d[11] \div 64)
HSync(d) == d[9] + 256 * ((d[11] \div 16) % 4)
VFrontPorch(d) == (d[10] \div 16) + 16 * ((d[11] \div 4) % 4)
VSync(d) == (d[10] % 16) + 16 * (d[11] % 4)
Interlaced(d) == d[17] >= 128

(* The reading of a block in these terms. *)
LEMMA FieldsRead ==
    ASSUME NEW block, NEW d, \A b \in 0..17 : block[54 + b] = d[b]
    PROVE  ReadTiming(block) =
              [clock |-> Clock(d), hactive |-> HActive(d), hfp |-> HFrontPorch(d),
               hsync |-> HSync(d), hbp |-> HBlank(d) - HFrontPorch(d) - HSync(d),
               vactive |-> VActive(d), vfp |-> VFrontPorch(d), vsync |-> VSync(d),
               vbp |-> VBlank(d) - VFrontPorch(d) - VSync(d), interlaced |-> Interlaced(d)]
<1>1. \A b \in 0..17 : block[54 + b] = d[b]
  OBVIOUS
<1>2. /\ block[54 + 0] = d[0] /\ block[54 + 1] = d[1] /\ block[54 + 2] = d[2]
      /\ block[54 + 3] = d[3] /\ block[54 + 4] = d[4] /\ block[54 + 5] = d[5]
      /\ block[54 + 6] = d[6] /\ block[54 + 7] = d[7] /\ block[54 + 8] = d[8]
      /\ block[54 + 9] = d[9] /\ block[54 + 10] = d[10] /\ block[54 + 11] = d[11]
      /\ block[54 + 17] = d[17]
  BY <1>1
<1>3. QED
  BY <1>2, ZenonT(60) DEF ReadTiming, Clock, HActive, HBlank, VActive, VBlank, HFrontPorch,
                          HSync, VFrontPorch, VSync, Interlaced

(* A pair of numbers with their low bytes, whose upper bits share the byte d. *)
Twelve(n) == n \in Nat /\ n < 4096
Ten(n) == n \in Nat /\ n < 1024
UpperNibbles(m, n) == 16 * (m \div 256) + (n \div 256)
UpperPairs(m, n) == 64 * (m \div 256) + 16 * (n \div 256)

(* Both are read back from a byte with four bits of each. *)
LEMMA NibblesRead ==
    ASSUME NEW m, NEW n, Twelve(m), Twelve(n)
    PROVE  /\ Low(m) + 256 * (UpperNibbles(m, n) \div 16) = m
           /\ Low(n) + 256 * (UpperNibbles(m, n) % 16) = n
BY FromNibbles DEF Twelve, UpperNibbles, Low

(* Both are read back from a byte with two bits of each. *)
LEMMA PairsRead ==
    ASSUME NEW m, NEW n, Ten(m), Ten(n)
    PROVE  /\ Low(m) + 256 * (UpperPairs(m, n) \div 64) = m
           /\ Low(n) + 256 * ((UpperPairs(m, n) \div 16) % 4) = n
           /\ (UpperPairs(m, n) \div 4) % 4 = 0 /\ UpperPairs(m, n) % 4 = 0
BY FromPairs DEF Ten, UpperPairs, Low
(* One truth value for another. *)
LEMMA SameTruth ==
    ASSUME NEW p \in BOOLEAN, NEW q \in BOOLEAN, p <=> q
    PROVE  p = q
OBVIOUS

(* A timing that the fields have room for. *)
Fits(t) ==
    /\ t \in [clock : Nat, hactive : Nat, hfp : Nat, hsync : Nat, hbp : Nat,
              vactive : Nat, vfp : Nat, vsync : Nat, vbp : Nat, interlaced : BOOLEAN]
    /\ t.clock < 65536 /\ t.hactive < 4096 /\ t.vactive < 4096
    /\ t.hfp < 1024 /\ t.hsync < 1024 /\ t.vfp < 64 /\ t.vsync < 64
    /\ t.vbp < 256 /\ t.hfp + t.hsync + t.hbp < 4096

(* What arrives of it. *)
Received(t) ==
    [clock |-> t.clock, hactive |-> t.hactive, hfp |-> t.hfp, hsync |-> t.hsync,
     hbp |-> t.hbp, vactive |-> t.vactive, vfp |-> t.vfp % 16, vsync |-> t.vsync % 16,
     vbp |-> (t.vfp + t.vsync + t.vbp) - (t.vfp % 16) - (t.vsync % 16),
     interlaced |-> t.interlaced]

(* Its fields, one by one: the provers take them better than the record. *)
LEMMA FieldTypes ==
    ASSUME NEW t, Fits(t)
    PROVE  /\ t.clock \in Nat /\ t.hactive \in Nat /\ t.vactive \in Nat
           /\ t.hfp \in Nat /\ t.hsync \in Nat /\ t.hbp \in Nat
           /\ t.vfp \in Nat /\ t.vsync \in Nat /\ t.vbp \in Nat
           /\ t.hfp + t.hsync + t.hbp \in Nat /\ t.vfp + t.vsync + t.vbp \in Nat
           /\ t.clock < 65536 /\ t.hactive < 4096 /\ t.vactive < 4096
           /\ t.hfp < 1024 /\ t.hsync < 1024 /\ t.vfp < 64 /\ t.vsync < 64 /\ t.vbp % 256 = t.vbp
           /\ t.hfp + t.hsync + t.hbp < 4096 /\ t.vfp + t.vsync + t.vbp < 4096
BY DEF Fits

(* The upper bits of a number that has no more. *)
LEMMA Nibbles ==
    ASSUME NEW n \in Nat
    PROVE  /\ n < 4096 => HighNibble(n) = n \div 256
           /\ n < 1024 => HighPair(n) = n \div 256 /\ n \div 256 \in Nat
           /\ n < 64 => HighPair(n) = 0
BY DEF HighNibble, HighPair

(* The bytes of a detailed timing. *)
LEMMA DetailedBytes ==
    ASSUME NEW t, Fits(t), NEW hblank, hblank = t.hfp + t.hsync + t.hbp,
           NEW vblank, vblank = t.vfp + t.vsync + t.vbp,
           NEW d, d = AddDetailed(t)
    PROVE  /\ d[0] = Low(t.clock) /\ d[1] = Low(t.clock \div 256)
           /\ d[2] = Low(t.hactive) /\ d[3] = Low(hblank)
           /\ d[4] = UpperNibbles(t.hactive, hblank)
           /\ d[5] = Low(t.vactive) /\ d[6] = Low(vblank)
           /\ d[7] = UpperNibbles(t.vactive, vblank)
           /\ d[8] = Low(t.hfp) /\ d[9] = Low(t.hsync)
           /\ d[10] = 16 * (t.vfp % 16) + (t.vsync % 16)
           /\ d[11] = UpperPairs(t.hfp, t.hsync)
           /\ d[17] = (IF t.interlaced THEN 128 ELSE 0) + 24
<1>1. \A n \in Nat : n < 4096 => HighNibble(n) = n \div 256
  BY Nibbles
<1>2. \A n \in Nat : n < 1024 => HighPair(n) = n \div 256 /\ n \div 256 \in Nat
  BY Nibbles
<1>3. \A n \in Nat : n < 64 => HighPair(n) = 0
  BY Nibbles
<1>4. hblank \in Nat /\ hblank < 4096 /\ vblank \in Nat /\ vblank < 4096
  BY FieldTypes
<1>0. t.vbp % 256 = t.vbp
  BY FieldTypes
<1>5. /\ d[0] = Low(t.clock) /\ d[1] = Low(t.clock \div 256)
      /\ d[2] = Low(t.hactive) /\ d[3] = Low(hblank)
      /\ d[4] = 16 * HighNibble(t.hactive) + HighNibble(hblank)
      /\ d[5] = Low(t.vactive) /\ d[6] = Low(vblank)
      /\ d[7] = 16 * HighNibble(t.vactive) + HighNibble(vblank)
      /\ d[8] = Low(t.hfp) /\ d[9] = Low(t.hsync)
      /\ d[10] = 16 * (t.vfp % 16) + (t.vsync % 16)
      /\ d[11] = 64 * HighPair(t.hfp) + 16 * HighPair(t.hsync) + 4 * HighPair(t.vfp)
                   + 2 * (HighPair(t.vsync) \div 2)
      /\ d[17] = (IF t.interlaced THEN 128 ELSE 0) + 24
  BY <1>0 DEF AddDetailed
<1>6. HighPair(t.vfp) = 0 /\ HighPair(t.vsync) = 0
  BY <1>3, FieldTypes
<1>7. /\ HighPair(t.hfp) = t.hfp \div 256 /\ HighPair(t.hsync) = t.hsync \div 256
      /\ t.hfp \div 256 \in Nat /\ t.hsync \div 256 \in Nat
  BY <1>2, FieldTypes
<1>8. /\ HighNibble(t.hactive) = t.hactive \div 256 /\ HighNibble(hblank) = hblank \div 256
      /\ HighNibble(t.vactive) = t.vactive \div 256 /\ HighNibble(vblank) = vblank \div 256
  BY <1>1, <1>4, FieldTypes
<1>9. d[11] = UpperPairs(t.hfp, t.hsync)
  BY <1>5, <1>6, <1>7 DEF UpperPairs
<1>10. d[4] = UpperNibbles(t.hactive, hblank) /\ d[7] = UpperNibbles(t.vactive, vblank)
  BY <1>5, <1>8 DEF UpperNibbles
<1>11. QED
  BY <1>5, <1>9, <1>10, Zenon

(* Every byte of the block before its checksum is a natural number. *)
LEMMA FieldsAreBytes ==
    ASSUME NEW t, Fits(t)
    PROVE  /\ Fields(t) \in [0..127 -> Nat] /\ Fields(t)[127] = 0
           /\ \A b \in 0..17 : Fields(t)[54 + b] = AddDetailed(t)[b]
<1> DEFINE hblank == t.hfp + t.hsync + t.hbp
           vblank == t.vfp + t.vsync + t.vbp
<1>1. /\ t.clock \in Nat /\ t.hactive \in Nat /\ t.hfp \in Nat /\ t.hsync \in Nat
      /\ t.vactive \in Nat /\ t.vfp \in Nat /\ t.vsync \in Nat /\ t.clock \div 256 \in Nat
      /\ hblank \in Nat /\ vblank \in Nat
  BY FieldTypes
<1> HIDE DEF hblank, vblank
<1>2. \A n \in Nat : Low(n) \in Nat /\ HighNibble(n) \in Nat /\ HighPair(n) \in Nat
                     /\ HighPair(n) \div 2 \in Nat /\ n % 16 \in Nat
  BY DEF Low, HighNibble, HighPair
<1>3. ASSUME NEW b \in 0..17
      PROVE  AddDetailed(t)[b] \in Nat
  <2>0. t.vbp % 256 = t.vbp
    BY FieldTypes
  <2>1. /\ HighNibble(t.hactive) \in Nat /\ HighNibble(hblank) \in Nat
        /\ HighNibble(t.vactive) \in Nat /\ HighNibble(vblank) \in Nat
        /\ HighPair(t.hfp) \in Nat /\ HighPair(t.hsync) \in Nat /\ HighPair(t.vfp) \in Nat
        /\ HighPair(t.vsync) \div 2 \in Nat /\ t.vfp % 16 \in Nat /\ t.vsync % 16 \in Nat
    BY <1>1, <1>2
  <2>2. /\ Low(t.clock) \in Nat /\ Low(t.clock \div 256) \in Nat /\ Low(t.hactive) \in Nat
        /\ Low(hblank) \in Nat /\ Low(t.vactive) \in Nat /\ Low(vblank) \in Nat
        /\ Low(t.hfp) \in Nat /\ Low(t.hsync) \in Nat
    BY <1>1, <1>2
  <2>3. AddDetailed(t)[b] \in
           {Low(t.clock), Low(t.clock \div 256), Low(t.hactive), Low(hblank), Low(t.vactive),
            Low(vblank), Low(t.hfp), Low(t.hsync), 40, 30, 0,
            16 * HighNibble(t.hactive) + HighNibble(hblank),
            16 * HighNibble(t.vactive) + HighNibble(vblank),
            16 * (t.vfp % 16) + (t.vsync % 16),
            64 * HighPair(t.hfp) + 16 * HighPair(t.hsync) + 4 * HighPair(t.vfp)
              + 2 * (HighPair(t.vsync) \div 2),
            (IF t.interlaced THEN 128 ELSE 0) + 24}
    BY <2>0 DEF AddDetailed, hblank, vblank
  <2>4. QED
    BY <2>1, <2>2, <2>3
<1>4. ASSUME NEW b \in 0..127
      PROVE  Fields(t)[b] \in Nat
  <2>1. b \in 54..71 => b - 54 \in 0..17
    OBVIOUS
  <2>2. b \in 54..71 => AddDetailed(t)[b - 54] \in Nat
    BY <1>3, <2>1
  <2>3. Fixed[b] \in Nat
    <3>1. \A c \in 0..127 : Fixed[c] \in 0..255
      BY FixedAssumption, Zenon
    <3>2. Fixed[b] \in 0..255
      BY <3>1
    <3>3. QED
      BY <3>2
  <2>4. QED
    BY <2>2, <2>3 DEF Fields
<1>5. Fields(t) = [b \in 0..127 |-> Fields(t)[b]]
  BY DEF Fields
<1>6. Fields(t) \in [0..127 -> Nat]
  BY <1>4, <1>5
<1>7. Fields(t)[127] = 0
  <2>1. Fixed[127] = 0
    BY FixedAssumption, Zenon
  <2>2. 127 \in 0..127 /\ 127 \notin 54..71
    OBVIOUS
  <2>3. Fields(t)[127] = Fixed[127]
    BY <2>2, Zenon DEF Fields
  <2>4. QED
    BY <2>1, <2>3, Zenon
<1>8. ASSUME NEW b \in 0..17
      PROVE  Fields(t)[54 + b] = AddDetailed(t)[b]
  <2>1. 54 + b \in 0..127 /\ 54 + b \in 54..71 /\ 54 + b - 54 = b
    OBVIOUS
  <2>2. QED
    BY <2>1 DEF Fields
<1>9. QED
  BY <1>6, <1>7, <1>8

(* A display reads every field back, but takes what it misses of the vertical
   porch and sync for back porch. *)
LEMMA ReadBack ==
    ASSUME NEW t, Fits(t), NEW block, \A b \in 0..17 : block[54 + b] = AddDetailed(t)[b]
    PROVE  ReadTiming(block) = Received(t)
<1> DEFINE hblank == t.hfp + t.hsync + t.hbp
           vblank == t.vfp + t.vsync + t.vbp
           d == AddDetailed(t)
           r == ReadTiming(block)
<1>1. /\ t.hfp \in Nat /\ t.hsync \in Nat /\ t.hbp \in Nat
      /\ t.vfp \in Nat /\ t.vsync \in Nat /\ t.vbp \in Nat
  BY FieldTypes
<1>2. hblank - t.hfp - t.hsync = t.hbp
  BY <1>1
<1>3. Received(t) =
        [clock |-> t.clock, hactive |-> t.hactive, hfp |-> t.hfp, hsync |-> t.hsync,
         hbp |-> t.hbp, vactive |-> t.vactive, vfp |-> t.vfp % 16, vsync |-> t.vsync % 16,
         vbp |-> vblank - (t.vfp % 16) - (t.vsync % 16), interlaced |-> t.interlaced]
  BY DEF Received
<1>4. /\ Twelve(t.hactive) /\ Twelve(hblank) /\ Twelve(t.vactive) /\ Twelve(vblank)
      /\ Ten(t.hfp) /\ Ten(t.hsync)
  BY FieldTypes DEF Twelve, Ten
<1>5. /\ d[0] = Low(t.clock) /\ d[1] = Low(t.clock \div 256)
      /\ d[2] = Low(t.hactive) /\ d[3] = Low(hblank)
      /\ d[4] = UpperNibbles(t.hactive, hblank)
      /\ d[5] = Low(t.vactive) /\ d[6] = Low(vblank)
      /\ d[7] = UpperNibbles(t.vactive, vblank)
      /\ d[8] = Low(t.hfp) /\ d[9] = Low(t.hsync)
      /\ d[10] = 16 * (t.vfp % 16) + (t.vsync % 16)
      /\ d[11] = UpperPairs(t.hfp, t.hsync)
      /\ d[17] = (IF t.interlaced THEN 128 ELSE 0) + 24
  BY DetailedBytes
<1>6. \A b \in 0..17 : block[54 + b] = d[b]
  OBVIOUS
<1>7. t.clock \in Nat /\ t.clock < 65536
  BY FieldTypes
<1>8. t.interlaced \in BOOLEAN
  BY DEF Fits
<1> HIDE DEF hblank, vblank, d
<1>9. Clock(d) = t.clock
  BY <1>5, <1>7, FromBytes DEF Clock, Low
<1>10. HActive(d) = t.hactive /\ HBlank(d) = hblank
  <2>1. /\ Low(t.hactive) + 256 * (UpperNibbles(t.hactive, hblank) \div 16) = t.hactive
        /\ Low(hblank) + 256 * (UpperNibbles(t.hactive, hblank) % 16) = hblank
    BY <1>4, NibblesRead
  <2>2. QED
    BY <1>5, <2>1, Zenon DEF HActive, HBlank
<1>11. VActive(d) = t.vactive /\ VBlank(d) = vblank
  <2>1. /\ Low(t.vactive) + 256 * (UpperNibbles(t.vactive, vblank) \div 16) = t.vactive
        /\ Low(vblank) + 256 * (UpperNibbles(t.vactive, vblank) % 16) = vblank
    BY <1>4, NibblesRead
  <2>2. QED
    BY <1>5, <2>1, Zenon DEF VActive, VBlank
<1>12. /\ HFrontPorch(d) = t.hfp /\ HSync(d) = t.hsync
       /\ (d[11] \div 4) % 4 = 0 /\ d[11] % 4 = 0
  <2>1. /\ Low(t.hfp) + 256 * (UpperPairs(t.hfp, t.hsync) \div 64) = t.hfp
        /\ Low(t.hsync) + 256 * ((UpperPairs(t.hfp, t.hsync) \div 16) % 4) = t.hsync
        /\ (UpperPairs(t.hfp, t.hsync) \div 4) % 4 = 0 /\ UpperPairs(t.hfp, t.hsync) % 4 = 0
    BY <1>4, PairsRead
  <2>2. QED
    BY <1>5, <2>1, Zenon DEF HFrontPorch, HSync
<1>13. VFrontPorch(d) = t.vfp % 16 /\ VSync(d) = t.vsync % 16
  <2> DEFINE porch == t.vfp % 16
             sync == t.vsync % 16
  <2>1. porch \in Nat /\ sync \in Nat /\ sync < 16 /\ d[10] = 16 * porch + sync
    BY <1>1, <1>5
  <2> HIDE DEF porch, sync
  <2>2. d[10] \div 16 = porch /\ d[10] % 16 = sync
    <3>1. (16 * porch + sync) \div 16 = porch /\ (16 * porch + sync) % 16 = sync
      BY <2>1, TwoNibbles
    <3>2. QED
      BY <2>1, <3>1, Zenon
  <2>3. VFrontPorch(d) = porch /\ VSync(d) = sync
    BY <1>12, <2>1, <2>2 DEF VFrontPorch, VSync
  <2>4. QED
    BY <2>3 DEF porch, sync
<1>14. Interlaced(d) = t.interlaced
  <2>1. ASSUME t.interlaced
        PROVE  Interlaced(d)
    <3>1. d[17] = 152
      BY <1>5, <2>1
    <3>2. QED
      BY <3>1 DEF Interlaced
  <2>2. ASSUME ~t.interlaced
        PROVE  ~Interlaced(d)
    <3>1. d[17] = 24
      BY <1>5, <2>2
    <3>2. QED
      BY <3>1 DEF Interlaced
  <2>3. Interlaced(d) \in BOOLEAN
    BY DEF Interlaced
  <2>4. Interlaced(d) <=> t.interlaced
    BY <2>1, <2>2, Zenon
  <2>5. QED
    BY <1>8, <2>3, <2>4, SameTruth
<1>15. r = [clock |-> t.clock, hactive |-> t.hactive, hfp |-> t.hfp, hsync |-> t.hsync,
            hbp |-> hblank - t.hfp - t.hsync, vactive |-> t.vactive, vfp |-> t.vfp % 16,
            vsync |-> t.vsync % 16, vbp |-> vblank - (t.vfp % 16) - (t.vsync % 16),
            interlaced |-> t.interlaced]
  <2>1. r = [clock |-> Clock(d), hactive |-> HActive(d), hfp |-> HFrontPorch(d),
             hsync |-> HSync(d), hbp |-> HBlank(d) - HFrontPorch(d) - HSync(d),
             vactive |-> VActive(d), vfp |-> VFrontPorch(d), vsync |-> VSync(d),
             vbp |-> VBlank(d) - VFrontPorch(d) - VSync(d), interlaced |-> Interlaced(d)]
    BY <1>6, FieldsRead
  <2> HIDE DEF r
  <2>2. QED
    BY <1>9, <1>10, <1>11, <1>12, <1>13, <1>14, <2>1, Zenon
<1>16. r = Received(t)
  BY <1>2, <1>3, <1>15, Zenon
<1>17. QED
  BY <1>16, Zenon DEF r

(* The sum of a block with its checksum is zero. *)
LEMMA SumsToZero ==
    ASSUME NEW t, Fits(t)
    PROVE  FoldFunction(LAMBDA x, y : x + y, 0, EdidBlock(t)) % 256 = 0
<1> DEFINE D == 0..127
           f == Fields(t)
           sum == Total!FoldedFunction(0, f)
           v == (256 - (sum % 256)) % 256
<1>1. IsFiniteSet(D) /\ f \in [D -> Nat] /\ 127 \in D /\ f[127] = 0
  <2>1. f \in [D -> Nat] /\ f[127] = 0
    BY FieldsAreBytes
  <2>2. IsFiniteSet(0..127)
    <3>1. \A lo, hi \in Int : IsFiniteSet(lo..hi)
      BY FS_Interval
    <3>2. 0 \in Int /\ 127 \in Int
      OBVIOUS
    <3>3. QED
      BY <3>1, <3>2, Zenon
  <2>3. QED
    BY <2>1, <2>2
<1>2. Sum(f) = sum % 256
  BY SumIs DEF Sum
<1>3. EdidBlock(t) = [f EXCEPT ![127] = v]
  <2>1. EdidBlock(t) = [f EXCEPT ![127] = (256 - Sum(f)) % 256]
    BY Zenon DEF EdidBlock
  <2>2. QED
    BY <1>2, <2>1, Zenon
<1> HIDE DEF D, f
<1>4. sum \in Nat
  BY <1>1, SumGrows
<1>5. v \in Nat
  BY <1>4
<1>6. (sum + v) % 256 = 0
  BY <1>4
<1> HIDE DEF v, sum
<1>7. Total!FoldedFunction(0, [f EXCEPT ![127] = v]) = sum + v
  BY <1>1, <1>5, SumGrows DEF sum
<1>8. QED
  BY <1>3, <1>6, <1>7, SumIs

(* The block of a timing is that of its fields with the checksum put in, so
   that the bytes of the detailed timing are where they were. *)
LEMMA DetailedStays ==
    ASSUME NEW t, Fits(t), NEW b \in 0..17
    PROVE  EdidBlock(t)[54 + b] = AddDetailed(t)[b]
<1>1. 54 + b # 127 /\ 54 + b \in 0..127
  OBVIOUS
<1>2. EdidBlock(t)[54 + b] = Fields(t)[54 + b]
  BY <1>1, FieldsAreBytes DEF EdidBlock
<1>3. QED
  BY <1>2, FieldsAreBytes

(* What arrives is what was asked for, but for the vertical blanking, whose
   length stays. *)
LEMMA ReceivedIs ==
    ASSUME NEW t, Fits(t), NEW read, read = Received(t)
    PROVE  /\ \A field \in DOMAIN t \ {"vfp", "vsync", "vbp"} : read[field] = t[field]
           /\ read.vfp + read.vsync + read.vbp = t.vfp + t.vsync + t.vbp
           /\ t.vfp < 16 /\ t.vsync < 16 => read = t
<1>1. t = [clock |-> t.clock, hactive |-> t.hactive, hfp |-> t.hfp, hsync |-> t.hsync,
           hbp |-> t.hbp, vactive |-> t.vactive, vfp |-> t.vfp, vsync |-> t.vsync,
           vbp |-> t.vbp, interlaced |-> t.interlaced]
  BY DEF Fits
<1>2. t.vfp \in Nat /\ t.vsync \in Nat /\ t.vbp \in Nat
  BY FieldTypes
<1> DEFINE back == (t.vfp + t.vsync + t.vbp) - (t.vfp % 16) - (t.vsync % 16)
<1>3. read.vfp = t.vfp % 16 /\ read.vsync = t.vsync % 16 /\ read.vbp = back
  BY DEF Received
<1>4. read = [clock |-> t.clock, hactive |-> t.hactive, hfp |-> t.hfp, hsync |-> t.hsync,
              hbp |-> t.hbp, vactive |-> t.vactive, vfp |-> read.vfp, vsync |-> read.vsync,
              vbp |-> read.vbp, interlaced |-> t.interlaced]
  BY <1>3 DEF Received
<1>5. read.vfp + read.vsync + read.vbp = t.vfp + t.vsync + t.vbp
  BY <1>2, <1>3
<1>6. t.vfp < 16 /\ t.vsync < 16 => read.vfp = t.vfp /\ read.vsync = t.vsync /\ read.vbp = t.vbp
  BY <1>2, <1>3
<1>7. ASSUME NEW field \in DOMAIN t \ {"vfp", "vsync", "vbp"}
      PROVE  read[field] = t[field]
  <2>1. field \in {"clock", "hactive", "hfp", "hsync", "hbp", "vactive", "interlaced"}
    BY <1>1
  <2>2. /\ read["clock"] = t["clock"] /\ read["hactive"] = t["hactive"]
        /\ read["hfp"] = t["hfp"] /\ read["hsync"] = t["hsync"] /\ read["hbp"] = t["hbp"]
        /\ read["vactive"] = t["vactive"] /\ read["interlaced"] = t["interlaced"]
    BY <1>4
  <2>3. QED
    BY <2>1, <2>2
<1>8. t.vfp < 16 /\ t.vsync < 16 => read = t
  BY <1>1, <1>4, <1>6, Zenon
<1>9. QED
  BY <1>5, <1>7, <1>8

(* For every timing that the fields have room for, and whatever else is in the
   block: all is read back but upper bits of the vertical porch and sync, the
   vertical total is kept, and the bytes sum up to zero. *)
THEOREM ReadsBack == Spec => []TimingReadBack
<1>1. OutputInv => TimingReadBack
  <2> SUFFICES ASSUME OutputInv, Ran("edid")
               PROVE  TimingReadBack
    BY DEF TimingReadBack
  <2>1. output = EdidBlock(job.timing) /\ job.timing \in Timings
    BY DEF OutputInv, Ran, Jobs, Run
  <2>2. Fits(job.timing)
    BY <2>1, TimingsAssumption DEF Fits
  <2>3. ReadTiming(output) = Received(job.timing)
    BY <2>1, <2>2, DetailedStays, ReadBack
  <2>4. FoldFunction(LAMBDA x, y : x + y, 0, output) % 256 = 0
    BY <2>1, <2>2, SumsToZero
  <2> DEFINE read == ReadTiming(output)
  <2>5. /\ \A field \in DOMAIN job.timing \ {"vfp", "vsync", "vbp"} :
              read[field] = job.timing[field]
        /\ read.vfp + read.vsync + read.vbp = job.timing.vfp + job.timing.vsync + job.timing.vbp
        /\ job.timing.vfp < 16 /\ job.timing.vsync < 16 => read = job.timing
    BY <2>2, <2>3, ReceivedIs
  <2>6. QED
    BY <2>4, <2>5, Zenon DEF TimingReadBack
<1>2. QED
  BY <1>1, OutputInitial, OutputStep, PTL DEF Spec

-----------------------------------------------------------------------------
(* Sequences of sequences *)

(* What is where in one sequence behind another. *)
LEMMA Concatenated ==
    ASSUME NEW S, NEW s \in Seq(S), NEW t \in Seq(S)
    PROVE  /\ s \o t \in Seq(S) /\ Len(s \o t) = Len(s) + Len(t)
           /\ \A k \in 1..Len(s) : (s \o t)[k] = s[k]
           /\ \A k \in 1..Len(t) : (s \o t)[Len(s) + k] = t[k]
<1>1. /\ s \o t \in Seq(S) /\ Len(s \o t) = Len(s) + Len(t)
      /\ \A k \in 1..(Len(s) + Len(t)) :
            (s \o t)[k] = IF k <= Len(s) THEN s[k] ELSE t[k - Len(s)]
  BY ConcatProperties
<1>2. Len(s) \in Nat /\ Len(t) \in Nat
  OBVIOUS
<1>3. ASSUME NEW k \in 1..Len(t)
      PROVE  (s \o t)[Len(s) + k] = t[k]
  <2>1. PICK m \in 1..(Len(s) + Len(t)) : m = Len(s) + k
    BY <1>2
  <2>2. ~(m <= Len(s)) /\ m - Len(s) = k
    BY <1>2, <2>1
  <2>3. QED
    BY <1>1, <2>1, <2>2
<1>4. ASSUME NEW k \in 1..Len(s)
      PROVE  (s \o t)[k] = s[k]
  BY <1>1, <1>2
<1>5. QED
  BY <1>1, <1>3, <1>4

(* The same of a sequence that is known as two others. *)
LEMMA JoinedAs ==
    ASSUME NEW S, NEW s \in Seq(S), NEW t \in Seq(S), NEW u, u = s \o t
    PROVE  /\ u \in Seq(S) /\ Len(u) = Len(s) + Len(t)
           /\ \A k \in 1..Len(s) : u[k] = s[k]
           /\ \A k \in 1..Len(t) : u[Len(s) + k] = t[k]
BY Concatenated

(* Where each of some sequences ends when they are flattened. *)
Ends(seqs) == [n \in 0..Len(seqs) |-> Len(FlattenSeq(SubSeq(seqs, 1, n)))]

(* The first n of them are in place. *)
Placed(flat, seqs, ends, n) ==
    /\ Len(flat) = ends[n] /\ ends[n] \in Nat
    /\ \A m \in 1..n :
          /\ ends[m - 1] \in Nat
          /\ ends[m] = ends[m - 1] + Len(seqs[m])
          /\ ends[m] <= ends[n]
          /\ \A k \in 1..Len(seqs[m]) : flat[ends[m - 1] + k] = seqs[m][k]

(* One more of them. *)
LEMMA PlacedStep ==
    ASSUME NEW S, NEW seqs \in Seq(Seq(S)), NEW ends, NEW n \in 0..(Len(seqs) - 1),
           NEW flat \in Seq(S), Placed(flat, seqs, ends, n),
           ends[n + 1] = Len(flat \o seqs[n + 1])
    PROVE  Placed(flat \o seqs[n + 1], seqs, ends, n + 1)
<1> DEFINE d == seqs[n + 1]
           long == flat \o d
<1>1. d \in Seq(S) /\ n \in Nat /\ Len(d) \in Nat
  OBVIOUS
<1> HIDE DEF d
<1>2. /\ Len(long) = Len(flat) + Len(d)
      /\ \A k \in 1..Len(flat) : long[k] = flat[k]
      /\ \A k \in 1..Len(d) : long[Len(flat) + k] = d[k]
  BY <1>1, Concatenated
<1> SUFFICES Placed(long, seqs, ends, n + 1)
  BY DEF d
<1>3. ends[n + 1] = Len(long)
  BY DEF d
<1> HIDE DEF long
<1>4. Len(flat) = ends[n] /\ ends[n] \in Nat
  BY DEF Placed
<1>5. ends[n + 1] = ends[n] + Len(d) /\ ends[n + 1] \in Nat /\ ends[n] <= ends[n + 1]
  BY <1>1, <1>2, <1>3, <1>4
<1>6. ASSUME NEW m \in 1..n
      PROVE  /\ ends[m - 1] \in Nat
             /\ ends[m] = ends[m - 1] + Len(seqs[m])
             /\ ends[m] <= ends[n + 1]
             /\ \A k \in 1..Len(seqs[m]) : long[ends[m - 1] + k] = seqs[m][k]
  <2>1. /\ ends[m - 1] \in Nat
        /\ ends[m] = ends[m - 1] + Len(seqs[m])
        /\ ends[m] <= ends[n]
        /\ \A k \in 1..Len(seqs[m]) : flat[ends[m - 1] + k] = seqs[m][k]
    BY DEF Placed
  <2>2. Len(seqs[m]) \in Nat
    BY <1>1
  <2>3. ASSUME NEW k \in 1..Len(seqs[m])
        PROVE  long[ends[m - 1] + k] = seqs[m][k]
    <3>1. PICK h \in 1..Len(flat) : h = ends[m - 1] + k
      <4> DEFINE l == Len(seqs[m])
                 from == ends[m - 1]
      <4>1. from \in Nat /\ l \in Nat /\ ends[m] = from + l /\ ends[m] <= ends[n] /\ k \in 1..l
        BY <2>1, <2>2
      <4> HIDE DEF l, from
      <4>2. from + k \in 1..ends[n]
        BY <1>4, <4>1
      <4>3. QED
        BY <1>4, <4>2 DEF from
    <3>2. long[h] = flat[h]
      BY <1>2
    <3>3. QED
      BY <2>1, <3>1, <3>2
  <2>4. ends[m] <= ends[n + 1]
    <3> DEFINE x == ends[m]
               y == ends[n]
               z == ends[n + 1]
    <3>1. x \in Nat
      BY <2>1, <2>2
    <3>2. x <= y /\ y \in Nat /\ y <= z /\ z \in Nat
      BY <1>4, <1>5, <2>1
    <3> HIDE DEF x, y, z
    <3>3. x <= z
      BY <3>1, <3>2
    <3>4. QED
      BY <3>3 DEF x, z
  <2>5. QED
    BY <2>1, <2>3, <2>4
<1>7. /\ ends[(n + 1) - 1] \in Nat
      /\ ends[n + 1] = ends[(n + 1) - 1] + Len(seqs[n + 1])
      /\ ends[n + 1] <= ends[n + 1]
      /\ \A k \in 1..Len(seqs[n + 1]) : long[ends[(n + 1) - 1] + k] = seqs[n + 1][k]
  <2>1. (n + 1) - 1 = n
    BY <1>1
  <2>2. QED
    BY <1>2, <1>4, <1>5, <2>1 DEF d
<1>8. ASSUME NEW m \in 1..(n + 1)
      PROVE  /\ ends[m - 1] \in Nat
             /\ ends[m] = ends[m - 1] + Len(seqs[m])
             /\ ends[m] <= ends[n + 1]
             /\ \A k \in 1..Len(seqs[m]) : long[ends[m - 1] + k] = seqs[m][k]
  <2>1. m \in 1..n \/ m = n + 1
    BY <1>1
  <2>2. QED
    BY <1>6, <1>7, <2>1
<1>9. QED
  BY <1>3, <1>5, <1>8 DEF Placed

(* Every one of them is where the one before it ends. *)
LEMMA FlattenPlaced ==
    ASSUME NEW S, NEW seqs \in Seq(Seq(S))
    PROVE  /\ FlattenSeq(seqs) \in Seq(S)
           /\ Placed(FlattenSeq(seqs), seqs, Ends(seqs), Len(seqs))
           /\ Ends(seqs)[0] = 0
           /\ \A m \in 0..Len(seqs) : Ends(seqs)[m] \in Nat
<1> DEFINE n == Len(seqs)
           Flat(m) == FlattenSeq(SubSeq(seqs, 1, m))
           e == Ends(seqs)
           P == {m \in 0..n : Flat(m) \in Seq(S) /\ Placed(Flat(m), seqs, e, m)}
<1>1. n \in Nat /\ \A m \in 1..n : seqs[m] \in Seq(S)
  OBVIOUS
<1>2. \A m \in 0..n : e[m] = Len(Flat(m))
  BY DEF Ends
<1>3. Flat(0) = <<>>
  <2>1. SubSeq(seqs, 1, 0) = <<>>
    OBVIOUS
  <2>2. FlattenSeq(<<>>) = <<>>
    BY DEF FlattenSeq
  <2>3. QED
    BY <2>1, <2>2
<1>4. \A m \in 0..(n - 1) : Flat(m + 1) = Flat(m) \o seqs[m + 1]
  <2> SUFFICES ASSUME NEW m \in 0..(n - 1)
               PROVE  Flat(m + 1) = Flat(m) \o seqs[m + 1]
    OBVIOUS
  <2> DEFINE pre == SubSeq(seqs, 1, m)
  <2>1. m \in Nat /\ m + 1 \in 1..n /\ seqs[m + 1] \in Seq(S)
    BY <1>1
  <2>2. pre \in Seq(Seq(S))
    BY <1>1, <2>1
  <2>3. SubSeq(seqs, 1, m + 1) = Append(pre, seqs[m + 1])
    BY <1>1, <2>1
  <2> HIDE DEF pre
  <2>4. FlattenSeq(Append(pre, seqs[m + 1])) = FlattenSeq(pre) \o seqs[m + 1]
    BY <2>1, <2>2, FlattenAppend
  <2>5. QED
    BY <2>3, <2>4 DEF pre
<1>5. SubSeq(seqs, 1, n) = seqs
  BY <1>1
<1> HIDE DEF Flat, e, n
<1>6. 0 \in P
  <2>1. Len(Flat(0)) = 0 /\ Flat(0) \in Seq(S)
    <3>1. Len(<<>>) = 0 /\ <<>> \in Seq(S)
      OBVIOUS
    <3>2. QED
      BY <1>3, <3>1, Zenon
  <2>2. e[0] = 0
    BY <1>1, <1>2, <2>1
  <2>3. Placed(Flat(0), seqs, e, 0)
    BY <2>1, <2>2 DEF Placed
  <2>4. QED
    BY <1>1, <2>1, <2>3
<1>7. ASSUME NEW m \in 0..(n - 1), m \in P
      PROVE  m + 1 \in P
  <2>1. Flat(m) \in Seq(S) /\ Placed(Flat(m), seqs, e, m) /\ m + 1 \in 0..n /\ m + 1 \in 1..n
    BY <1>1, <1>7
  <2>2. e[m + 1] = Len(Flat(m) \o seqs[m + 1])
    BY <1>2, <1>4, <2>1
  <2>3. Placed(Flat(m) \o seqs[m + 1], seqs, e, m + 1)
    <3>1. m \in 0..(Len(seqs) - 1)
      BY DEF n
    <3>2. QED
      BY <2>1, <2>2, <3>1, PlacedStep
  <2>4. Flat(m) \o seqs[m + 1] \in Seq(S)
    BY <1>1, <2>1, Concatenated
  <2>5. QED
    BY <1>4, <2>1, <2>3, <2>4
<1> HIDE DEF P
<1>8. \A m \in 0..n : m \in P
  BY <1>1, <1>6, <1>7, Cat!IntervalInduction
<1>9. ASSUME NEW m \in 0..n
      PROVE  e[m] \in Nat /\ Flat(m) \in Seq(S) /\ Placed(Flat(m), seqs, e, m)
  BY <1>8 DEF P, Placed
<1>10. e[0] = 0
  BY <1>1, <1>2, <1>3
<1>11. n \in 0..n
  BY <1>1
<1>12. Flat(n) = FlattenSeq(seqs)
  BY <1>5 DEF Flat, n
<1>13. QED
  BY <1>9, <1>10, <1>11, <1>12 DEF e, n

(* One that ends later does not end before. *)
LEMMA EndsGrow ==
    ASSUME NEW S, NEW seqs \in Seq(Seq(S)), NEW a \in 0..Len(seqs), NEW b \in a..Len(seqs)
    PROVE  Ends(seqs)[a] <= Ends(seqs)[b]
<1> DEFINE n == Len(seqs)
           e == Ends(seqs)
           T == {k \in 0..(n - a) : e[a] <= e[a + k]}
<1>1. n \in Nat /\ a \in 0..n /\ b \in a..n /\ n - a \in Nat
  OBVIOUS
<1>2. \A m \in 0..n : e[m] \in Nat
  BY FlattenPlaced
<1>3. \A m \in 1..n : e[m - 1] <= e[m]
  <2> SUFFICES ASSUME NEW m \in 1..n PROVE e[m - 1] <= e[m]
    OBVIOUS
  <2>1. e[m - 1] \in Nat /\ e[m] = e[m - 1] + Len(seqs[m])
    BY FlattenPlaced DEF Placed
  <2>2. Len(seqs[m]) \in Nat
    OBVIOUS
  <2>3. QED
    BY <2>1, <2>2
<1> HIDE DEF n, e
<1>4. 0 \in T
  BY <1>1, <1>2
<1>5. ASSUME NEW k \in 0..((n - a) - 1), k \in T
      PROVE  k + 1 \in T
  <2>1. PICK m \in 1..n : m = a + k + 1
    BY <1>1
  <2>2. e[a] <= e[m - 1] /\ m - 1 = a + k /\ a + (k + 1) = m
    BY <1>1, <1>5, <2>1
  <2>3. e[m - 1] <= e[m] /\ e[m - 1] \in Nat /\ e[m] \in Nat /\ e[a] \in Nat
    BY <1>1, <1>2, <1>3, <2>1
  <2>4. k + 1 \in 0..(n - a)
    BY <1>1
  <2>5. QED
    BY <2>2, <2>3, <2>4
<1> HIDE DEF T
<1>6. \A k \in 0..(n - a) : k \in T
  BY <1>1, <1>4, <1>5, Cat!IntervalInduction
<1>7. b - a \in 0..(n - a) /\ a + (b - a) = b
  BY <1>1
<1>8. QED
  BY <1>6, <1>7 DEF T, e

(* Short sequences, and what is where in them. *)
LEMMA OneOf ==
    ASSUME NEW S, NEW a \in S
    PROVE  <<a>> \in Seq(S) /\ Len(<<a>>) = 1 /\ <<a>>[1] = a
OBVIOUS

(* Two elements, three, four and five. *)
LEMMA TwoOf ==
    ASSUME NEW S, NEW a \in S, NEW b \in S
    PROVE  <<a, b>> \in Seq(S) /\ Len(<<a, b>>) = 2 /\ <<a, b>>[1] = a /\ <<a, b>>[2] = b
OBVIOUS

LEMMA ThreeOf ==
    ASSUME NEW S, NEW a \in S, NEW b \in S, NEW c \in S
    PROVE  /\ <<a, b, c>> \in Seq(S) /\ Len(<<a, b, c>>) = 3
           /\ <<a, b, c>>[1] = a /\ <<a, b, c>>[2] = b /\ <<a, b, c>>[3] = c
OBVIOUS

LEMMA FourOf ==
    ASSUME NEW S, NEW a \in S, NEW b \in S, NEW c \in S, NEW d \in S
    PROVE  /\ <<a, b, c, d>> \in Seq(S) /\ Len(<<a, b, c, d>>) = 4
           /\ <<a, b, c, d>>[1] = a /\ <<a, b, c, d>>[2] = b
           /\ <<a, b, c, d>>[3] = c /\ <<a, b, c, d>>[4] = d
OBVIOUS

LEMMA FiveOf ==
    ASSUME NEW S, NEW a \in S, NEW b \in S, NEW c \in S, NEW d \in S, NEW e \in S
    PROVE  <<a, b, c, d, e>> \in Seq(S) /\ Len(<<a, b, c, d, e>>) = 5
OBVIOUS

(* Sequences with the same elements are the same. *)
LEMMA SameSequence ==
    ASSUME NEW S, NEW s \in Seq(S), NEW t \in Seq(S), Len(s) = Len(t),
           \A k \in 1..Len(s) : s[k] = t[k]
    PROVE  s = t
BY SeqEqual

(* Short sequences, put together. *)
LEMMA TwoAndOne ==
    ASSUME NEW S, NEW a \in S, NEW b \in S, NEW c \in S
    PROVE  <<a, b>> \o <<c>> = <<a, b, c>>
<1> DEFINE s == <<a, b>>
           t == <<c>>
           u == s \o t
           v == <<a, b, c>>
<1>1. /\ s \in Seq(S) /\ Len(s) = 2 /\ s[1] = a /\ s[2] = b
      /\ t \in Seq(S) /\ Len(t) = 1 /\ t[1] = c
  BY OneOf, TwoOf
<1>2. v \in Seq(S) /\ Len(v) = 3 /\ v[1] = a /\ v[2] = b /\ v[3] = c
  BY ThreeOf
<1> HIDE DEF s, t, v
<1>3. /\ u \in Seq(S) /\ Len(u) = Len(s) + Len(t)
      /\ \A k \in 1..Len(s) : u[k] = s[k]
      /\ \A k \in 1..Len(t) : u[Len(s) + k] = t[k]
  BY <1>1, Concatenated
<1> HIDE DEF u
<1>4. u[1] = a /\ u[2] = b /\ u[2 + 1] = c /\ Len(u) = 3
  BY <1>1, <1>3
<1>5. \A k \in 1..3 : u[k] = v[k]
  BY <1>2, <1>4
<1>6. u = v
  BY <1>2, <1>3, <1>4, <1>5, SameSequence
<1>7. QED
  BY <1>6 DEF u, s, t, v

LEMMA TwoAndTwo ==
    ASSUME NEW S, NEW a \in S, NEW b \in S, NEW c \in S, NEW d \in S
    PROVE  <<a, b>> \o <<c, d>> = <<a, b, c, d>>
<1> DEFINE s == <<a, b>>
           t == <<c, d>>
           u == s \o t
           v == <<a, b, c, d>>
<1>1. /\ s \in Seq(S) /\ Len(s) = 2 /\ s[1] = a /\ s[2] = b
      /\ t \in Seq(S) /\ Len(t) = 2 /\ t[1] = c /\ t[2] = d
  BY TwoOf
<1>2. v \in Seq(S) /\ Len(v) = 4 /\ v[1] = a /\ v[2] = b /\ v[3] = c /\ v[4] = d
  BY FourOf
<1> HIDE DEF s, t, v
<1>3. /\ u \in Seq(S) /\ Len(u) = Len(s) + Len(t)
      /\ \A k \in 1..Len(s) : u[k] = s[k]
      /\ \A k \in 1..Len(t) : u[Len(s) + k] = t[k]
  <2>1. s \in Seq(S) /\ t \in Seq(S)
    BY <1>1
  <2>2. QED
    BY <2>1, Concatenated
<1> HIDE DEF u
<1>4. u[1] = a /\ u[2] = b /\ u[2 + 1] = c /\ u[2 + 2] = d /\ Len(u) = 4
  BY <1>1, <1>3
<1>5. \A k \in 1..4 : u[k] = v[k]
  BY <1>2, <1>4
<1>6. u = v
  BY <1>2, <1>3, <1>4, <1>5, SameSequence
<1>7. QED
  BY <1>6 DEF u, s, t, v

LEMMA OneAndOne ==
    ASSUME NEW S, NEW a \in S, NEW b \in S
    PROVE  <<a>> \o <<b>> = <<a, b>>
<1> DEFINE s == <<a>>
           t == <<b>>
           u == s \o t
           v == <<a, b>>
<1>1. /\ s \in Seq(S) /\ Len(s) = 1 /\ s[1] = a
      /\ t \in Seq(S) /\ Len(t) = 1 /\ t[1] = b
  BY OneOf
<1>2. v \in Seq(S) /\ Len(v) = 2 /\ v[1] = a /\ v[2] = b
  BY TwoOf
<1> HIDE DEF s, t, v
<1>3. /\ u \in Seq(S) /\ Len(u) = Len(s) + Len(t)
      /\ \A k \in 1..Len(s) : u[k] = s[k]
      /\ \A k \in 1..Len(t) : u[Len(s) + k] = t[k]
  BY <1>1, Concatenated
<1> HIDE DEF u
<1>4. u[1] = a /\ u[1 + 1] = b /\ Len(u) = 2
  BY <1>1, <1>3
<1>5. \A k \in 1..2 : u[k] = v[k]
  BY <1>2, <1>4
<1>6. u = v
  BY <1>2, <1>3, <1>4, <1>5, SameSequence
<1>7. QED
  BY <1>6 DEF u, s, t, v

-----------------------------------------------------------------------------
(* Strings *)

Chars == INSTANCE FoldTheorems WITH Op <- Convert

(* The bytes of a character that is not ASCII: the first, and those behind it. *)
Begins(b) == b \in Nat /\ b >= 192 /\ b < 240
Goes(b) == b \in Nat /\ b >= 128 /\ b < 192

(* Sequences of one to three bytes. *)
LEMMA OneOctet == \A a \in Nat : <<a>> \in Seq(Octets) /\ Len(<<a>>) = 1 /\ <<a>>[1] = a
BY DEF Octets

LEMMA TwoOctets ==
    ASSUME NEW a, Begins(a), NEW b, Goes(b)
    PROVE  <<a, b>> \in Seq(Octets) /\ Len(<<a, b>>) = 2 /\ <<a, b>>[1] = a /\ <<a, b>>[2] = b
BY DEF Octets, Begins, Goes

LEMMA ThreeOctets ==
    ASSUME NEW a, Begins(a), NEW b, Goes(b), NEW d \in Int
    PROVE  /\ <<a, b, d>> \in Seq(Octets) /\ Len(<<a, b, d>>) = 3
           /\ <<a, b, d>>[1] = a /\ <<a, b, d>>[2] = b
BY DEF Octets, Begins, Goes

(* Which bytes a character has. *)
LEMMA AsciiByte == \A c \in Nat : c < 128 => Utf8Char(c) = <<c>>
BY DEF Utf8Char

LEMMA CharOfTwo ==
    \A c \in Nat : c >= 128 /\ c < 2048 => Utf8Char(c) = <<192 + (c \div 64), 128 + (c % 64)>>
BY DEF Utf8Char

LEMMA CharOfThree ==
    \A c \in Nat : c >= 2048 =>
        Utf8Char(c) = <<224 + (c \div 4096), 128 + ((c \div 64) % 64), 128 + (c % 64)>>
BY DEF Utf8Char

(* What there is to know of them. *)
LEMMA CharBytes ==
    ASSUME NEW c \in Characters, NEW e, e = Utf8Char(c)
    PROVE  /\ e \in Seq(Octets) /\ Len(e) \in Nat /\ Len(e) >= 1
           /\ c < 128 => Len(e) = 1 /\ e[1] = c
           /\ c >= 128 => Len(e) >= 2 /\ Begins(e[1]) /\ Goes(e[2])
<1>1. c \in Nat /\ c < 65536
  BY DEF Characters
<1>2. CASE c < 128
  <2>1. e = <<c>>
    BY <1>1, <1>2, AsciiByte
  <2>2. QED
    BY <1>1, <1>2, <2>1, OneOctet
<1>3. CASE c >= 128 /\ c < 2048
  <2> DEFINE a == 192 + (c \div 64)
             b == 128 + (c % 64)
  <2>1. e = <<a, b>>
    BY <1>1, <1>3, CharOfTwo
  <2>2. Begins(a) /\ Goes(b)
    BY <1>1, <1>3 DEF Begins, Goes
  <2> HIDE DEF a, b
  <2>3. ~(c < 128)
    BY <1>1, <1>3
  <2>4. QED
    BY <2>1, <2>2, <2>3, TwoOctets
<1>4. CASE c >= 2048
  <2> DEFINE a == 224 + (c \div 4096)
             b == 128 + ((c \div 64) % 64)
             d == 128 + (c % 64)
  <2>1. e = <<a, b, d>>
    BY <1>1, <1>4, CharOfThree
  <2>2. Begins(a)
    BY <1>1, <1>4 DEF Begins
  <2>3. Goes(b) /\ d \in Int
    <3>1. (c \div 64) % 64 \in 0..63
      BY <1>1
    <3>2. QED
      BY <1>1, <3>1 DEF Goes
  <2> HIDE DEF a, b, d
  <2>4. ~(c < 128)
    BY <1>1, <1>4
  <2>5. QED
    BY <2>1, <2>2, <2>3, <2>4, ThreeOctets
<1>5. QED
  BY <1>1, <1>2, <1>3, <1>4

(* What the conversion makes of the character at p. *)
LEMMA UnitOfAscii ==
    ASSUME NEW s, NEW p, NEW b \in Nat, b < 128, ByteAt(s, p) = b
    PROVE  UnitAt(s, p) = [ok |-> TRUE, unit |-> b, next |-> p + 1]
<1>1. UnitAt(s, p) = OneByte(s, p)
  BY DEF UnitAt
<1>2. QED
  BY <1>1 DEF OneByte

(* A byte that begins a longer character, and one that goes on, are refused. *)
LEMMA UnitOfOther ==
    ASSUME NEW s, NEW p, Begins(ByteAt(s, p)), Goes(ByteAt(s, p + 1))
    PROVE  ~UnitAt(s, p).ok
<1> DEFINE b == ByteAt(s, p)
           d == ByteAt(s, p + 1)
<1>1. ~(b < 128) /\ b \in Nat /\ ~(d >= 192) /\ b >= 192 /\ b < 240
  BY DEF Begins, Goes
<1>2. ~Follows(d)
  BY <1>1 DEF Follows
<1>3. TwoBytes(s, p).ok => FALSE
  BY <1>2 DEF TwoBytes
<1>4. ThreeBytes(s, p).ok => FALSE
  BY <1>2 DEF ThreeBytes
<1>5. CASE b < 224
  <2>1. UnitAt(s, p) = TwoBytes(s, p)
    BY <1>1, <1>5 DEF UnitAt
  <2>2. QED
    BY <1>3, <2>1
<1>6. CASE b >= 224
  <2>1. UnitAt(s, p) = ThreeBytes(s, p)
    BY <1>1, <1>6 DEF UnitAt
  <2>2. QED
    BY <1>4, <2>1
<1>7. QED
  BY <1>1, <1>5, <1>6

(* A character is a number, ASCII or not. *)
LEMMA CharacterType == \A c \in Characters : c \in Nat /\ (c < 128 \/ c >= 128)
BY DEF Characters

(* The characters before the first that is not ASCII. *)
Leading(chars, lead) ==
    /\ lead \in 0..Len(chars)
    /\ \A j \in 1..lead : chars[j] < 128
    /\ lead < Len(chars) => chars[lead + 1] >= 128

Led(chars, k) == (\E lead : Leading(chars, lead)) \/ \A j \in 1..k : chars[j] < 128

(* Every text has a first character that is not ASCII, or none. *)
LEMMA LeadingExists ==
    ASSUME NEW chars \in Seq(Characters)
    PROVE  \E lead : Leading(chars, lead)
<1> DEFINE n == Len(chars)
           S == {k \in 0..n : Led(chars, k)}
<1>1. n \in Nat /\ \A j \in 1..n : chars[j] \in Characters
  OBVIOUS
<1>2. 0 \in S
  BY <1>1 DEF Led
<1>3. ASSUME NEW k \in 0..(n - 1), k \in S
      PROVE  k + 1 \in S
  <2>1. k + 1 \in 1..n /\ k + 1 \in 0..n /\ chars[k + 1] \in Characters
    BY <1>1
  <2>2. CASE \E lead : Leading(chars, lead)
    BY <2>1, <2>2 DEF Led
  <2>3. CASE (\A j \in 1..k : chars[j] < 128) /\ chars[k + 1] < 128
    <3>1. \A j \in 1..(k + 1) : chars[j] < 128
      BY <2>1, <2>3
    <3>2. Led(chars, k + 1)
      BY <3>1 DEF Led
    <3>3. QED
      BY <2>1, <3>2
  <2>4. CASE (\A j \in 1..k : chars[j] < 128) /\ chars[k + 1] >= 128
    <3>1. Leading(chars, k)
      BY <1>1, <2>1, <2>4 DEF Leading
    <3>2. Led(chars, k + 1)
      BY <3>1, Zenon DEF Led
    <3>3. QED
      BY <2>1, <3>2
  <2>5. chars[k + 1] < 128 \/ chars[k + 1] >= 128
    BY <2>1, CharacterType
  <2>6. QED
    BY <1>3, <2>2, <2>3, <2>4, <2>5 DEF Led
<1>4. n \in S
  <2> HIDE DEF S
  <2>1. \A k \in 0..n : k \in S
    BY <1>1, <1>2, <1>3, Chars!IntervalInduction
  <2>2. QED
    BY <1>1, <2>1
<1>5. CASE \A j \in 1..n : chars[j] < 128
  <2>1. Leading(chars, n)
    BY <1>1, <1>5 DEF Leading
  <2>2. QED
    BY <2>1
<1>6. QED
  BY <1>4, <1>5 DEF Led

(* What the bytes of a string are, as far as its first character that is not
   ASCII. *)
BytesOf(u, chars, lead, m) ==
    /\ u \in Seq(Octets) /\ Len(u) \in Nat /\ Len(u) >= m
    /\ m <= lead => Len(u) = m
    /\ \A j \in 1..m : j <= lead => u[j] = chars[j]
    /\ m > lead =>
          /\ Len(u) >= lead + 2
          /\ Begins(u[lead + 1]) /\ Goes(u[lead + 2])

(* One more character. *)
LEMMA BytesGrow ==
    ASSUME NEW chars \in Seq(Characters), NEW lead, Leading(chars, lead),
           NEW m \in 0..(Len(chars) - 1), NEW u, BytesOf(u, chars, lead, m)
    PROVE  BytesOf(u \o Utf8Char(chars[m + 1]), chars, lead, m + 1)
<1> DEFINE e == Utf8Char(chars[m + 1])
           v == u \o e
           l == Len(u)
           k == Len(e)
           c == chars[m + 1]
<1> SUFFICES BytesOf(v, chars, lead, m + 1)
  OBVIOUS
<1>1. m \in Nat /\ lead \in Nat /\ c \in Characters /\ m + 1 \in 1..Len(chars)
  BY DEF Leading
<1>2. /\ e \in Seq(Octets) /\ k \in Nat /\ k >= 1
      /\ c < 128 => k = 1 /\ e[1] = c
      /\ c >= 128 => k >= 2 /\ Begins(e[1]) /\ Goes(e[2])
  BY <1>1, CharBytes
<1>3. u \in Seq(Octets) /\ l \in Nat /\ l >= m
  BY DEF BytesOf
<1> HIDE DEF e, k, l
<1>4. Joins(v, u, e, l, k)
  BY <1>2, <1>3, Behind DEF k, l
<1> HIDE DEF v
<1>5. /\ v \in Seq(Octets) /\ Len(v) = l + k
      /\ \A j \in 1..(l + k) : v[j] = IF j <= l THEN u[j] ELSE e[j - l]
  BY <1>4 DEF Joins
<1>6. CASE m < lead
  <2>1. l = m /\ c < 128
    BY <1>1, <1>6 DEF BytesOf, Leading, l
  <2>2. \A j \in 1..m : u[j] = chars[j]
    BY <1>1, <1>6 DEF BytesOf
  <2>3. v[m + 1] = chars[m + 1]
    <3>1. PICK j \in 1..(l + k) : j = m + 1
      BY <1>1, <1>2, <2>1
    <3>2. v[j] = e[j - l] /\ j - l = 1
      BY <1>1, <1>5, <2>1, <3>1
    <3>3. QED
      BY <1>2, <2>1, <3>1, <3>2
  <2>4. \A j \in 1..m : v[j] = chars[j]
    BY <1>1, <1>2, <1>5, <2>1, <2>2
  <2>5. \A j \in 1..(m + 1) : v[j] = chars[j]
    BY <1>1, <2>3, <2>4
  <2>6. Len(v) = m + 1 /\ m + 1 <= lead
    BY <1>1, <1>2, <1>5, <1>6, <2>1
  <2> HIDE DEF c
  <2>7. QED
    BY <1>1, <1>5, <2>5, <2>6 DEF BytesOf
<1>7. CASE m = lead
  <2>1. l = m
    BY <1>1, <1>7 DEF BytesOf, l
  <2>2. c >= 128
    BY <1>1, <1>7 DEF Leading
  <2>3. \A j \in 1..m : u[j] = chars[j]
    BY <1>1, <1>7 DEF BytesOf
  <2>4. v[lead + 1] = e[1] /\ v[lead + 2] = e[2]
    <3>1. PICK j \in 1..(l + k) : j = lead + 1
      BY <1>1, <1>2, <1>7, <2>1
    <3>2. v[j] = e[j - l] /\ j - l = 1
      BY <1>1, <1>5, <1>7, <2>1, <3>1
    <3>3. PICK h \in 1..(l + k) : h = lead + 2
      BY <1>1, <1>2, <1>7, <2>1, <2>2
    <3>4. v[h] = e[h - l] /\ h - l = 2
      BY <1>1, <1>5, <1>7, <2>1, <3>3
    <3>5. QED
      BY <3>1, <3>2, <3>3, <3>4
  <2>5. \A j \in 1..(m + 1) : j <= lead => v[j] = chars[j]
    BY <1>1, <1>2, <1>5, <1>7, <2>1, <2>3
  <2>6. Len(v) >= lead + 2 /\ Len(v) >= m + 1 /\ m + 1 > lead /\ Len(v) \in Nat
    BY <1>1, <1>2, <1>3, <1>5, <1>7, <2>1, <2>2
  <2>7. QED
    BY <1>1, <1>2, <1>5, <2>2, <2>4, <2>5, <2>6 DEF BytesOf
<1>8. CASE m > lead
  <2>1. /\ l >= lead + 2
        /\ Begins(u[lead + 1]) /\ Goes(u[lead + 2])
    BY <1>8 DEF BytesOf, l
  <2>2. \A j \in 1..m : j <= lead => u[j] = chars[j]
    BY DEF BytesOf
  <2>3. \A j \in 1..l : v[j] = u[j]
    BY <1>2, <1>3, <1>5
  <2>4. lead + 1 \in 1..l /\ lead + 2 \in 1..l
    BY <1>1, <1>3, <2>1
  <2>5. v[lead + 1] = u[lead + 1] /\ v[lead + 2] = u[lead + 2]
    BY <2>3, <2>4
  <2>6. \A j \in 1..(m + 1) : j <= lead => v[j] = chars[j]
    BY <1>1, <1>3, <1>8, <2>1, <2>2, <2>3
  <2>7. Len(v) >= lead + 2 /\ Len(v) >= m + 1 /\ m + 1 > lead /\ Len(v) \in Nat
    BY <1>1, <1>2, <1>3, <1>5, <1>8, <2>1
  <2>8. QED
    BY <1>1, <1>5, <2>1, <2>5, <2>6, <2>7 DEF BytesOf
<1>9. QED
  BY <1>1, <1>6, <1>7, <1>8

(* The bytes of a whole text. *)
LEMMA Utf8Is ==
    ASSUME NEW chars \in Seq(Characters), NEW lead, Leading(chars, lead)
    PROVE  BytesOf(Utf8(chars), chars, lead, Len(chars))
<1> DEFINE n == Len(chars)
           seqs == [k \in 1..n |-> Utf8Char(chars[k])]
<1>1. n \in Nat /\ DOMAIN chars = 1..n /\ \A k \in 1..n : chars[k] \in Characters
  OBVIOUS
<1>2. \A k \in 1..n : Utf8Char(chars[k]) \in Seq(Octets)
  BY <1>1, CharBytes
<1>3. /\ seqs \in Seq(Seq(Octets)) /\ DOMAIN seqs = 1..n
      /\ \A k \in 1..n : seqs[k] = Utf8Char(chars[k])
  BY <1>1, <1>2
<1>4. Utf8(chars) = FlattenSeq(seqs)
  BY <1>1 DEF Utf8
<1> HIDE DEF seqs, n
<1>5. PICK g : Cat!Trace(g, <<>>, seqs, n) /\ Cat!Fold(<<>>, seqs) = g[n]
  BY <1>1, <1>3, Cat!FoldLeftTrace
<1>6. g[0] = <<>> /\ \A k \in 1..n : g[k] = g[k - 1] \o seqs[k]
  BY <1>5 DEF Cat!Trace, Concat
<1>7. Utf8(chars) = g[n]
  BY <1>3, <1>4, <1>5, FlattenIsFold
<1> DEFINE S == {m \in 0..n : BytesOf(g[m], chars, lead, m)}
<1>8. 0 \in S
  <2>1. BytesOf(<<>>, chars, lead, 0)
    BY DEF BytesOf, Leading
  <2>2. QED
    BY <1>1, <1>6, <2>1
<1>9. ASSUME NEW m \in 0..(n - 1), m \in S
      PROVE  m + 1 \in S
  <2>1. PICK k \in 1..n : k = m + 1
    BY <1>1
  <2>2. g[k] = g[m] \o Utf8Char(chars[m + 1])
    <3>1. g[k] = g[k - 1] \o seqs[k]
      BY <1>6
    <3>2. k - 1 = m /\ seqs[k] = Utf8Char(chars[m + 1])
      BY <1>1, <1>3, <2>1
    <3>3. QED
      BY <3>1, <3>2
  <2>3. BytesOf(g[m] \o Utf8Char(chars[m + 1]), chars, lead, m + 1)
    <3>1. BytesOf(g[m], chars, lead, m)
      BY <1>9
    <3>2. m \in 0..(Len(chars) - 1)
      BY DEF n
    <3>3. QED
      BY <3>1, <3>2, BytesGrow
  <2>4. m + 1 \in 0..n
    BY <1>1
  <2>5. QED
    BY <2>1, <2>2, <2>3, <2>4
<1>10. n \in S
  <2> HIDE DEF S
  <2>1. \A k \in 0..n : k \in S
    BY <1>1, <1>8, <1>9, Cat!IntervalInduction
  <2>2. QED
    BY <1>1, <2>1
<1>11. QED
  BY <1>7, <1>10 DEF n

(* The conversion before its first round. *)
Begun == [next |-> 1, units |-> <<>>]

(* Where the conversion is after k rounds: it has taken k characters, unless it
   came to one that is not ASCII. *)
Reached(c, chars, lead, k) ==
    /\ k <= lead =>
          /\ c.next = k + 1
          /\ c.units \in Seq(Characters) /\ Len(c.units) = k
          /\ \A j \in 1..k : c.units[j] = chars[j]
    /\ k > lead => c.units = Stall

(* Text is never taken for a stall. *)
LEMMA TextNoStall == \A units \in Seq(Characters) : units # Stall
<1>1. -1 \notin Characters
  BY DEF Characters
<1>2. Len(Stall) = 1 /\ Stall[1] = -1
  BY DEF Stall
<1>3. SUFFICES ASSUME NEW units \in Seq(Characters), units = Stall
               PROVE  FALSE
  OBVIOUS
<1>4. units[1] \in Characters
  BY <1>2, <1>3
<1>5. QED
  BY <1>1, <1>2, <1>3, <1>4

(* One round. *)
LEMMA ConvertStep ==
    ASSUME NEW chars \in Seq(Characters), NEW lead, Leading(chars, lead),
           NEW s, BytesOf(s, chars, lead, Len(chars)),
           NEW k \in Nat, k < Len(s), NEW c, Reached(c, chars, lead, k)
    PROVE  Reached(Convert(c, s), chars, lead, k + 1)
<1> DEFINE here == UnitAt(s, c.next)
<1>1. /\ lead \in Nat /\ Len(s) \in Nat /\ Len(chars) \in Nat
      /\ lead <= Len(chars) /\ Len(chars) <= Len(s)
      /\ Len(chars) <= lead => Len(s) = Len(chars)
      /\ \A j \in 1..lead : s[j] = chars[j] /\ chars[j] < 128
      /\ \A j \in 1..lead : chars[j] \in Characters
  BY DEF Leading, BytesOf
<1>2. CASE k < lead
  <2>1. /\ c.next = k + 1 /\ c.units \in Seq(Characters) /\ Len(c.units) = k
        /\ \A j \in 1..k : c.units[j] = chars[j]
    BY <1>1, <1>2 DEF Reached
  <2> DEFINE b == chars[k + 1]
  <2>2. k + 1 \in 1..lead
    BY <1>1, <1>2
  <2>3. b \in Characters /\ b \in Nat /\ b < 128 /\ s[k + 1] = b
    BY <1>1, <2>2, CharacterType
  <2>4. ByteAt(s, c.next) = b
    BY <1>1, <2>1, <2>3 DEF ByteAt
  <2> HIDE DEF b
  <2>5. here = [ok |-> TRUE, unit |-> b, next |-> c.next + 1]
    BY <2>3, <2>4, UnitOfAscii
  <2>6. c.units # Stall /\ ~(c.next > Len(s))
    BY <1>1, <2>1, TextNoStall
  <2>7. Convert(c, s) = [next |-> here.next,
                         units |-> IF here.ok THEN Append(c.units, here.unit) ELSE Stall]
    BY <2>6 DEF Convert
  <2> HIDE DEF here
  <2>8. Convert(c, s).next = k + 1 + 1 /\ Convert(c, s).units = Append(c.units, b)
    BY <2>1, <2>5, <2>7
  <2> DEFINE units == Append(c.units, b)
  <2>9. units \in Seq(Characters) /\ Len(units) = k + 1
    BY <2>1, <2>3
  <2>10. \A j \in 1..(k + 1) : units[j] = chars[j]
    BY <2>1, <2>3 DEF b
  <2> HIDE DEF units
  <2>11. k + 1 <= lead /\ ~(k + 1 > lead)
    BY <1>1, <1>2
  <2>12. Convert(c, s).units = units
    BY <2>8 DEF units
  <2>13. QED
    BY <2>8, <2>9, <2>10, <2>11, <2>12 DEF Reached
<1>3. CASE k = lead
  <2>1. c.next = lead + 1 /\ c.units \in Seq(Characters)
    BY <1>1, <1>3 DEF Reached
  <2>2. Len(chars) > lead
    BY <1>1, <1>3
  <2>3. Begins(s[lead + 1]) /\ Goes(s[lead + 2]) /\ Len(s) >= lead + 2
    BY <2>2 DEF BytesOf
  <2>4. ByteAt(s, c.next) = s[lead + 1] /\ ByteAt(s, c.next + 1) = s[lead + 2]
    BY <1>1, <2>1, <2>3 DEF ByteAt
  <2>5. ~here.ok
    BY <2>3, <2>4, UnitOfOther
  <2>6. c.units # Stall /\ ~(c.next > Len(s))
    BY <1>1, <1>3, <2>1, TextNoStall
  <2>7. Convert(c, s) = [next |-> here.next,
                         units |-> IF here.ok THEN Append(c.units, here.unit) ELSE Stall]
    BY <2>6 DEF Convert
  <2> HIDE DEF here
  <2>8. Convert(c, s).units = Stall
    BY <2>5, <2>7
  <2>9. k + 1 > lead /\ ~(k + 1 <= lead)
    BY <1>1, <1>3
  <2>10. QED
    BY <2>8, <2>9 DEF Reached
<1>4. CASE k > lead
  <2>1. c.units = Stall
    BY <1>4 DEF Reached
  <2>2. Convert(c, s) = c
    BY <2>1 DEF Convert
  <2>3. k + 1 > lead /\ ~(k + 1 <= lead)
    BY <1>1, <1>4
  <2>4. QED
    BY <2>1, <2>2, <2>3 DEF Reached
<1>5. QED
  BY <1>1, <1>2, <1>3, <1>4

(* All rounds. *)
LEMMA Converts ==
    ASSUME NEW chars \in Seq(Characters), NEW lead, Leading(chars, lead),
           NEW s, BytesOf(s, chars, lead, Len(chars)), NEW n \in Nat, n <= Len(s)
    PROVE  \E c : Reached(c, chars, lead, n) /\ Utf8ToUtf16(s, n) = c.units
<1> DEFINE rounds == [round \in 1..n |-> s]
<1>1. DOMAIN rounds = 1..n /\ \A k \in 1..n : rounds[k] = s
  OBVIOUS
<1>2. Utf8ToUtf16(s, n) = Chars!Fold(Begun, rounds).units
  <2>1. FoldLeft(Convert, Begun, rounds) = Chars!Fold(Begun, rounds)
    BY DEF Chars!Fold, Chars!FoldLeft, FoldLeft, MapThenFoldSet, Chars!MapThenFoldSet, Max, Chars!Max
  <2>2. Utf8ToUtf16(s, n) = FoldLeft(Convert, Begun, rounds).units
    BY DEF Utf8ToUtf16, Begun
  <2>3. QED
    BY <2>1, <2>2
<1> HIDE DEF rounds
<1>3. PICK g : Chars!Trace(g, Begun, rounds, n) /\ Chars!Fold(Begun, rounds) = g[n]
  BY <1>1, Chars!FoldLeftTrace
<1>4. g[0] = Begun /\ \A k \in 1..n : g[k] = Convert(g[k - 1], s)
  BY <1>1, <1>3 DEF Chars!Trace
<1> DEFINE S == {k \in 0..n : Reached(g[k], chars, lead, k)}
<1>5. 0 \in S
  <2>1. Reached(Begun, chars, lead, 0)
    BY DEF Reached, Begun, Leading
  <2>2. QED
    BY <1>4, <2>1
<1>6. ASSUME NEW k \in 0..(n - 1), k \in S
      PROVE  k + 1 \in S
  <2>1. PICK m \in 1..n : m = k + 1
    OBVIOUS
  <2>2. g[m] = Convert(g[m - 1], s) /\ m - 1 = k
    BY <1>4, <2>1
  <2>3. k \in Nat /\ k < Len(s) /\ Len(s) \in Nat
    BY DEF BytesOf
  <2>4. Reached(g[k], chars, lead, k)
    BY <1>6
  <2>5. Reached(Convert(g[k], s), chars, lead, k + 1)
    BY <2>3, <2>4, ConvertStep
  <2>6. QED
    BY <2>1, <2>2, <2>5
<1>7. n \in S
  <2> HIDE DEF S
  <2>1. \A k \in 0..n : k \in S
    BY <1>5, <1>6, Chars!IntervalInduction
  <2>2. QED
    BY <2>1
<1>8. QED
  BY <1>2, <1>3, <1>7

(* The descriptor of a text of code units. *)
Units == Nat

(* The units of a text are among the bytes and numbers of a descriptor. *)
LEMMA UnitTypes ==
    /\ \A x \in Units : x \in Octets
    /\ \A x \in Characters : x \in Units
BY DEF Units, Octets, Characters

(* A unit is its low and its high byte. *)
LEMMA UnitBytes ==
    ASSUME NEW x \in Units
    PROVE  x % 256 \in Int /\ x \div 256 \in Int /\ (x % 256) + 256 * (x \div 256) = x
BY DEF Units

(* Two bytes for each unit, the low one first. *)
LEMMA BytesAre ==
    ASSUME NEW units \in Seq(Units)
    PROVE  /\ Bytes(units) \in Seq(Octets) /\ Len(Bytes(units)) = 2 * Len(units)
           /\ \A j \in 1..Len(units) :
                 Bytes(units)[2 * j - 1] + 256 * Bytes(units)[2 * j] = units[j]
<1> DEFINE n == Len(units)
           B(k) == LowHigh(units[(k + 1) \div 2])[2 - (k % 2)]
<1>1. n \in Nat /\ \A j \in 1..n : units[j] \in Units
  OBVIOUS
<1>2. Bytes(units) = [k \in 1..(2 * n) |-> B(k)]
  BY DEF Bytes
<1> HIDE DEF n
<1>3. ASSUME NEW k \in 1..(2 * n)
      PROVE  B(k) \in Octets
  <2>1. (k + 1) \div 2 \in 1..n
    BY <1>1
  <2> DEFINE x == units[(k + 1) \div 2]
  <2>2. x \in Units
    BY <1>1, <2>1
  <2> HIDE DEF x
  <2>3. LowHigh(x)[1] = x % 256 /\ LowHigh(x)[2] = x \div 256
    BY DEF LowHigh
  <2>4. 2 - (k % 2) = 1 \/ 2 - (k % 2) = 2
    BY <1>1
  <2>5. LowHigh(x)[1] \in Octets /\ LowHigh(x)[2] \in Octets
    BY <2>2, <2>3, UnitBytes DEF Octets
  <2> DEFINE half == 2 - (k % 2)
  <2>6. half = 1 \/ half = 2
    BY <2>4
  <2> HIDE DEF half
  <2>7. LowHigh(x)[half] \in Octets
    BY <2>5, <2>6
  <2>8. QED
    BY <2>7 DEF x, half
<1>4. ASSUME NEW j \in 1..n
      PROVE  /\ 2 * j - 1 \in 1..(2 * n) /\ 2 * j \in 1..(2 * n)
             /\ B(2 * j - 1) + 256 * B(2 * j) = units[j]
  <2>1. 2 * j - 1 \in 1..(2 * n) /\ 2 * j \in 1..(2 * n)
    BY <1>1
  <2>2. /\ ((2 * j - 1) + 1) \div 2 = j /\ 2 - ((2 * j - 1) % 2) = 1
        /\ (2 * j + 1) \div 2 = j /\ 2 - ((2 * j) % 2) = 2
    BY <1>1
  <2>3. LowHigh(units[j])[1] = units[j] % 256 /\ LowHigh(units[j])[2] = units[j] \div 256
    BY DEF LowHigh
  <2>4. B(2 * j - 1) = units[j] % 256 /\ B(2 * j) = units[j] \div 256
    BY <2>2, <2>3
  <2> HIDE DEF B
  <2>5. QED
    BY <1>1, <2>1, <2>4, UnitBytes
<1> HIDE DEF B
<1>5. Bytes(units) \in Seq(Octets) /\ Len(Bytes(units)) = 2 * n
  BY <1>1, <1>2, <1>3
<1>6. ASSUME NEW j \in 1..n
      PROVE  Bytes(units)[2 * j - 1] + 256 * Bytes(units)[2 * j] = units[j]
  BY <1>2, <1>4
<1>7. QED
  BY <1>5, <1>6 DEF n

(* A host reads back what a descriptor was made of. *)
LEMMA HostReadsText ==
    ASSUME NEW units \in Seq(Units)
    PROVE  HostReads(<<(Len(units) + 1) * 2, 3>> \o Bytes(units)) = units
<1> DEFINE n == Len(units)
           t == Bytes(units)
           h == <<(n + 1) * 2, 3>>
           d == h \o t
<1>1. n \in Nat
  OBVIOUS
<1>2. t \in Seq(Octets) /\ Len(t) = 2 * n
  BY BytesAre
<1>3. \A j \in 1..n : t[2 * j - 1] + 256 * t[2 * j] = units[j]
  BY BytesAre
<1>4. units \in Seq(Octets)
  BY UnitTypes
<1>5. h \in Seq(Octets) /\ Len(h) = 2 /\ h[1] = (n + 1) * 2
  BY <1>1 DEF Octets
<1> HIDE DEF n, t, h
<1>6. Joins(d, h, t, 2, 2 * n)
  <2>1. 2 \in Nat /\ 2 * n \in Nat
    BY <1>1
  <2>2. QED
    BY <1>2, <1>5, <2>1, Behind
<1> HIDE DEF d
<1>7. /\ d \in Seq(Octets) /\ Len(d) = 2 + 2 * n
      /\ \A k \in 1..(2 + 2 * n) : d[k] = IF k <= 2 THEN h[k] ELSE t[k - 2]
  BY <1>6 DEF Joins
<1>8. d[1] = Len(d) /\ d[1] % 2 = 0 /\ Len(d) >= 2 /\ (Len(d) \div 2) - 1 = n
  <2>1. PICK k \in 1..(2 + 2 * n) : k = 1
    BY <1>1
  <2>2. d[1] = (n + 1) * 2
    BY <1>5, <1>7, <2>1
  <2>3. QED
    BY <1>1, <1>7, <2>2
<1>9. d # Stall
  <2>1. Len(Stall) = 1
    BY DEF Stall
  <2>2. Len(d) # 1
    BY <1>1, <1>7
  <2>3. QED
    BY <2>1, <2>2
<1>10. \A j \in 1..n : d[2 * j + 1] + 256 * d[2 * j + 2] = units[j]
  <2>1. ASSUME NEW j \in 1..n
        PROVE  d[2 * j + 1] = t[2 * j - 1] /\ d[2 * j + 2] = t[2 * j]
    <3>1. PICK k \in 1..(2 + 2 * n) : k = 2 * j + 1
      BY <1>1
    <3>2. PICK m \in 1..(2 + 2 * n) : m = 2 * j + 2
      BY <1>1
    <3>3. ~(k <= 2) /\ k - 2 = 2 * j - 1 /\ ~(m <= 2) /\ m - 2 = 2 * j
      BY <1>1, <3>1, <3>2
    <3>4. QED
      BY <1>7, <3>1, <3>2, <3>3
  <2>2. QED
    BY <1>3, <2>1
<1>11. HostReads(d) = [j \in 1..n |-> d[2 * j + 1] + 256 * d[2 * j + 2]]
  <2>1. ~(d = Stall \/ d[1] # Len(d) \/ d[1] % 2 = 1)
    BY <1>8, <1>9
  <2>2. HostReads(d) = [j \in 1..((Len(d) \div 2) - 1) |-> d[2 * j + 1] + 256 * d[2 * j + 2]]
    BY <2>1 DEF HostReads
  <2>3. QED
    BY <1>8, <2>2
<1>12. HostReads(d) = [j \in 1..n |-> units[j]]
  BY <1>10, <1>11
<1>13. units = [j \in 1..n |-> units[j]]
  BY DEF n
<1>14. QED
  BY <1>12, <1>13 DEF d, h, t, n

(* What the descriptor of a text is. *)
LEMMA TextDescriptor ==
    ASSUME NEW chars \in Seq(Characters)
    PROVE  LET d == StringDescriptor(Utf8(chars))
           IN  \/ HostReads(d) = FirstChars(chars)
               \/ /\ d = Stall
                  /\ \E n \in DOMAIN FirstChars(chars) : FirstChars(chars)[n] >= 128
<1> DEFINE s == Utf8(chars)
           d == StringDescriptor(s)
           n == IF Len(s) < MaxChars THEN Len(s) ELSE MaxChars
           units == Utf8ToUtf16(s, n)
<1>1. PICK lead : Leading(chars, lead)
  BY LeadingExists
<1>2. BytesOf(s, chars, lead, Len(chars))
  BY <1>1, Utf8Is
<1> HIDE DEF s
<1>3. /\ lead \in Nat /\ Len(s) \in Nat /\ Len(chars) \in Nat /\ MaxChars \in Nat
      /\ lead <= Len(chars) /\ Len(chars) <= Len(s)
      /\ Len(chars) <= lead => Len(s) = Len(chars)
  BY <1>1, <1>2, MaxCharsAssumption DEF Leading, BytesOf
<1>4. n \in Nat /\ n <= Len(s)
  BY <1>3
<1>5. PICK c : Reached(c, chars, lead, n) /\ units = c.units
  BY <1>1, <1>2, <1>4, Converts
<1>6. d = IF units = Stall THEN Stall ELSE <<(Len(units) + 1) * 2, 3>> \o Bytes(units)
  BY DEF StringDescriptor
<1> HIDE DEF units, d
<1>7. CASE n <= lead
  <2>1. units \in Seq(Characters) /\ Len(units) = n /\ \A j \in 1..n : units[j] = chars[j]
    BY <1>5, <1>7 DEF Reached
  <2>2. units # Stall
    BY <2>1, TextNoStall
  <2>3. units \in Seq(Units)
    BY <2>1, UnitTypes
  <2>4. HostReads(d) = units
    BY <1>6, <2>2, <2>3, HostReadsText
  <2>5. n = IF Len(chars) < MaxChars THEN Len(chars) ELSE MaxChars
    BY <1>3, <1>7
  <2> HIDE DEF n
  <2>6. FirstChars(chars) = SubSeq(chars, 1, n)
    BY <2>5 DEF FirstChars
  <2>7. n <= Len(chars)
    BY <1>3, <1>4, <1>7
  <2>8. SubSeq(chars, 1, n) = [j \in 1..n |-> chars[j]]
    BY <1>3, <1>4, <2>7
  <2>9. units = [j \in 1..n |-> chars[j]]
    BY <2>1
  <2>10. QED
    BY <2>4, <2>6, <2>8, <2>9 DEF d, s
<1>8. CASE n > lead
  <2>1. units = Stall
    BY <1>5, <1>8 DEF Reached
  <2>2. d = Stall
    BY <1>6, <2>1
  <2>3. lead < Len(chars)
    BY <1>3, <1>4, <1>8
  <2>4. chars[lead + 1] >= 128
    BY <1>1, <1>3, <2>3 DEF Leading
  <2>5. PICK k \in Nat : k = IF Len(chars) < MaxChars THEN Len(chars) ELSE MaxChars
    BY <1>3
  <2>6. k <= Len(chars) /\ lead + 1 \in 1..k
    BY <1>3, <1>8, <2>3, <2>5
  <2>7. FirstChars(chars) = [j \in 1..k |-> chars[j]]
    <3>1. FirstChars(chars) = SubSeq(chars, 1, k)
      BY <2>5 DEF FirstChars
    <3>2. SubSeq(chars, 1, k) = [j \in 1..k |-> chars[j]]
      BY <2>6
    <3>3. QED
      BY <3>1, <3>2
  <2>8. lead + 1 \in DOMAIN FirstChars(chars) /\ FirstChars(chars)[lead + 1] >= 128
    BY <2>4, <2>6, <2>7
  <2>9. QED
    BY <2>2, <2>8 DEF d, s
<1>9. QED
  BY <1>3, <1>4, <1>7, <1>8

(* Of some positions one is the first. *)
LEMMA FirstOf ==
    ASSUME NEW F \in SUBSET Nat, F # {}
    PROVE  \E n \in F : \A m \in F : n <= m
<1> SUFFICES ASSUME ~ \E n \in F : \A m \in F : n <= m PROVE FALSE
  OBVIOUS
<1> DEFINE T == {k \in Nat : \A m \in F : m >= k}
<1>1. 0 \in T /\ T \in SUBSET Nat
  OBVIOUS
<1>2. ASSUME NEW k \in T
      PROVE  k + 1 \in T
  OBVIOUS
<1> HIDE DEF T
<1>3. T = Nat
  BY <1>1, <1>2, Cat!SetInduction
<1>4. PICK m \in F : m \in Nat
  OBVIOUS
<1>5. m + 1 \in T
  BY <1>3, <1>4
<1>6. QED
  BY <1>4, <1>5 DEF T

(* What is in the table. *)
LEMMA TableType ==
    /\ Language \in Nat /\ DOMAIN StringTable \subseteq Nat
    /\ \A n \in DOMAIN StringTable :
          StringTable[n].id \in Nat \ {0} /\ StringTable[n].s \in Seq(Characters)
<1> DEFINE R == [id : Nat \ {0}, s : Seq(Characters)]
<1>1. StringTable \in Seq(R)
  BY StringsAssumption
<1>2. \A r \in R : r.id \in Nat \ {0} /\ r.s \in Seq(Characters)
  OBVIOUS
<1> HIDE DEF R
<1>3. DOMAIN StringTable \subseteq Nat /\ \A n \in DOMAIN StringTable : StringTable[n] \in R
  BY <1>1
<1>4. QED
  BY <1>2, <1>3, StringsAssumption

(* The language is read from the descriptor of id 0. *)
LEMMA LanguageText == HostReads(<<4, 3>> \o LowHigh(Language)) = <<Language>>
<1> DEFINE d == <<4, 3, Language % 256, Language \div 256>>
<1>1. <<4, 3>> \o LowHigh(Language) = d
  <2>1. Language % 256 \in Int /\ Language \div 256 \in Int
    BY TableType
  <2>2. QED
    BY <2>1, TwoAndTwo DEF LowHigh
<1>2. Language \in Nat
  BY TableType
<1>3. Language \in Units
  BY <1>2 DEF Units
<1>4. Len(d) = 4 /\ d[1] = 4 /\ d[3] = Language % 256 /\ d[4] = Language \div 256
  OBVIOUS
<1>5. d # Stall
  BY DEF Stall
<1> HIDE DEF d
<1>6. ~(d = Stall \/ d[1] # Len(d) \/ d[1] % 2 = 1)
  BY <1>4, <1>5
<1>7. HostReads(d) = [n \in 1..((Len(d) \div 2) - 1) |-> d[2 * n + 1] + 256 * d[2 * n + 2]]
  BY <1>6 DEF HostReads
<1>8. (Len(d) \div 2) - 1 = 1
  BY <1>4
<1>9. d[2 * 1 + 1] + 256 * d[2 * 1 + 2] = Language
  BY <1>3, <1>4, UnitBytes
<1>10. HostReads(d) = [n \in 1..1 |-> Language]
  BY <1>7, <1>8, <1>9
<1>11. [n \in 1..1 |-> Language] = <<Language>>
  OBVIOUS
<1>12. QED
  BY <1>1, <1>10, <1>11, Zenon DEF d

(* What an id is answered with. *)
LEMMA TableAnswers ==
    ASSUME NEW id
    PROVE  LET d == GetString(Language, Encoded(StringTable), id)
           IN  CASE id = 0 -> HostReads(d) = <<Language>>
                 [] id \in Ids -> \E n \in DOMAIN StringTable :
                       StringTable[n].id = id
                       /\ d = StringDescriptor(Utf8(StringTable[n].s))
                 [] OTHER -> d = Stall
<1> DEFINE table == Encoded(StringTable)
           d == GetString(Language, table, id)
           found == {n \in DOMAIN table : table[n].id = id}
           first == CHOOSE n \in found : \A m \in found : n <= m
<1>1. /\ DOMAIN table = DOMAIN StringTable
      /\ \A n \in DOMAIN StringTable :
            table[n].id = StringTable[n].id /\ table[n].s = Utf8(StringTable[n].s)
  BY DEF Encoded
<1>2. DOMAIN StringTable \subseteq Nat /\ 0 \notin Ids
  BY TableType DEF Ids
<1> HIDE DEF table
<1>3. CASE id = 0
  <2>1. d = <<4, 3>> \o LowHigh(Language)
    BY <1>3 DEF GetString
  <2>2. id \notin Ids
    BY <1>2, <1>3
  <2> HIDE DEF d
  <2>3. QED
    BY <1>3, <2>1, <2>2, LanguageText DEF d, table
<1>4. CASE id # 0 /\ found = {}
  <2>1. d = Stall
    BY <1>4 DEF GetString
  <2>2. id \notin Ids
    BY <1>1, <1>4 DEF Ids
  <2>3. QED
    BY <1>4, <2>1, <2>2 DEF table
<1>5. CASE id # 0 /\ found # {}
  <2>1. d = StringDescriptor(table[first].s)
    BY <1>5 DEF GetString
  <2>2. found \subseteq Nat
    BY <1>1, <1>2
  <2>3. first \in found
    BY <1>5, <2>2, FirstOf
  <2>4. first \in DOMAIN StringTable /\ StringTable[first].id = id
    BY <1>1, <2>3
  <2>5. id \in Ids
    BY <2>4 DEF Ids
  <2> HIDE DEF first, d, found
  <2>6. d = StringDescriptor(Utf8(StringTable[first].s))
    BY <1>1, <2>1, <2>4
  <2>7. QED
    BY <1>5, <2>4, <2>5, <2>6 DEF d, table
<1>6. QED
  BY <1>3, <1>4, <1>5

(* Whatever the text, and whatever the table: a host reads the characters that
   fit, or gets a stall, and that only when one of those is not ASCII; and so for
   every id of the table: StringsServed. *)
THEOREM Served == Spec => []StringsServed
<1>1. OutputInv => StringsServed
  <2> SUFFICES ASSUME OutputInv PROVE StringsServed
    OBVIOUS
  <2>1. ASSUME NEW chars \in Seq(Characters), output = StringDescriptor(Utf8(chars))
        PROVE  TextServed(chars)
    BY <2>1, TextDescriptor DEF TextServed
  <2>2. Ran("usbstring") => TextServed(job.chars)
    <3> SUFFICES ASSUME Ran("usbstring") PROVE TextServed(job.chars)
      OBVIOUS
    <3>1. output = StringDescriptor(Utf8(job.chars)) /\ job \in Jobs /\ job.tool = "usbstring"
      BY DEF OutputInv, Ran
    <3>2. job.chars \in Texts
      BY <3>1 DEF Jobs
    <3>3. job.chars \in Seq(Characters)
      BY <3>2, TextsAssumption
    <3>4. QED
      BY <2>1, <3>1, <3>3
  <2>3. Ran("stringtab") => TableServed
    <3> SUFFICES ASSUME Ran("stringtab") PROVE TableServed
      OBVIOUS
    <3>1. output = GetString(Language, Encoded(StringTable), job.id)
      BY DEF OutputInv
    <3>2. CASE job.id = 0
      <4>1. output = <<4, 3>> \o LowHigh(Language)
        BY <3>1, <3>2 DEF GetString
      <4>2. 0 \notin Ids
        BY TableType DEF Ids
      <4>3. QED
        BY <3>2, <4>1, <4>2, LanguageText, Zenon DEF TableServed
    <3>3. CASE job.id # 0 /\ job.id \in Ids
      <4>1. PICK n \in DOMAIN StringTable :
               StringTable[n].id = job.id
               /\ output = StringDescriptor(Utf8(StringTable[n].s))
        BY <3>1, <3>3, TableAnswers
      <4>2. TextServed(StringTable[n].s)
        BY <2>1, <4>1, TableType
      <4>3. QED
        BY <3>3, <4>1, <4>2 DEF TableServed
    <3>4. CASE job.id # 0 /\ job.id \notin Ids
      BY <3>1, <3>4, TableAnswers DEF TableServed
    <3>5. QED
      BY <3>2, <3>3, <3>4
  <2>4. QED
    BY <2>2, <2>3 DEF StringsServed
<1>2. QED
  BY <1>1, OutputInitial, OutputStep, PTL DEF Spec

-----------------------------------------------------------------------------
(* Display lists *)

Walks == INSTANCE FoldTheorems WITH Op <- Visit

ElementsOf(s) == {s[n] : n \in DOMAIN s}

(* The elements of a sequence behind another. *)
LEMMA ElementsBehind ==
    ASSUME NEW S, NEW s \in Seq(S), NEW t \in Seq(S)
    PROVE  ElementsOf(s \o t) = ElementsOf(s) \cup ElementsOf(t)
<1> DEFINE u == s \o t
<1>1. /\ u \in Seq(S) /\ Len(u) = Len(s) + Len(t)
      /\ \A k \in 1..Len(s) : u[k] = s[k]
      /\ \A k \in 1..Len(t) : u[Len(s) + k] = t[k]
  BY Concatenated
<1>2. Len(s) \in Nat /\ Len(t) \in Nat
  OBVIOUS
<1> HIDE DEF u
<1>3. ASSUME NEW k \in 1..Len(u)
      PROVE  u[k] \in ElementsOf(s) \cup ElementsOf(t)
  <2>1. CASE k <= Len(s)
    <3>1. k \in 1..Len(s)
      BY <1>1, <1>2, <2>1
    <3>2. QED
      BY <1>1, <3>1 DEF ElementsOf
  <2>2. CASE k > Len(s)
    <3>1. PICK m \in 1..Len(t) : k = Len(s) + m
      <4>1. k - Len(s) \in 1..Len(t) /\ k = Len(s) + (k - Len(s))
        BY <1>1, <1>2, <2>2
      <4>2. QED
        BY <4>1
    <3>2. u[k] = t[m]
      BY <1>1, <3>1
    <3>3. QED
      BY <3>2 DEF ElementsOf
  <2>3. QED
    BY <1>1, <1>2, <2>1, <2>2
<1>4. ASSUME NEW k \in 1..Len(s)
      PROVE  s[k] \in ElementsOf(u)
  <2>1. k \in 1..Len(u)
    BY <1>1, <1>2
  <2>2. QED
    BY <1>1, <2>1 DEF ElementsOf
<1>5. ASSUME NEW k \in 1..Len(t)
      PROVE  t[k] \in ElementsOf(u)
  <2>1. PICK m \in 1..Len(u) : m = Len(s) + k
    BY <1>1, <1>2
  <2>2. QED
    BY <1>1, <2>1 DEF ElementsOf
<1>6. ElementsOf(u) \subseteq ElementsOf(s) \cup ElementsOf(t)
  BY <1>1, <1>3 DEF ElementsOf
<1>7. ElementsOf(s) \subseteq ElementsOf(u) /\ ElementsOf(t) \subseteq ElementsOf(u)
  BY <1>4, <1>5 DEF ElementsOf
<1>8. QED
  BY <1>6, <1>7 DEF u

SomePlane == [scaled : BOOLEAN, flip : BOOLEAN, looks : ListWords]

(* The kinds of a plane's words. *)
Names == {"control0", "position0", "control2", "word1", "position2", "position3", "pointer0",
          "pointerctx0", "pitch0"}

(* Each of them is one. *)
LEMMA NamesAre ==
    /\ "control0" \in Names /\ "position0" \in Names /\ "control2" \in Names /\ "word1" \in Names
    /\ "position2" \in Names /\ "position3" \in Names /\ "pointer0" \in Names
    /\ "pointerctx0" \in Names /\ "pitch0" \in Names
BY DEF Names

(* The five last words of a plane. *)
LEMMA PlacingIs == Placing \in Seq(Names) /\ Len(Placing) = 5
BY NamesAre, FiveOf, Zenon DEF Placing

(* What is printed ahead of the five last words is the control word, and the
   plane's own. *)
PrintedAhead(w, pi4) == <<"control0", "position0">> \o Scaling(w, pi4)

(* What is printed ahead of them, behind the control word, is what is there. *)
LEMMA AheadIs ==
    ASSUME NEW pi4 \in BOOLEAN, NEW scaled \in BOOLEAN, NEW w, Unity(w, pi4) = ~scaled
    PROVE  LET s == PrintedAhead(w, pi4)
               t == Ahead(pi4, scaled)
           IN  /\ s \in Seq(Names) /\ t \in Seq(Names)
               /\ Len(s) = 1 + Len(t) /\ Len(t) = PlaneLength(pi4, scaled) - 6
               /\ s[1] = "control0" /\ \A k \in 1..Len(t) : s[1 + k] = t[k]
<1> DEFINE s == PrintedAhead(w, pi4)
           t == Ahead(pi4, scaled)
           a == "control0"
           b == "position0"
           c == "control2"
           d == "word1"
           Scale(x, y) == (IF x THEN <<c>> ELSE <<>>) \o (IF y THEN <<>> ELSE <<d>>)
<1>1. a \in Names /\ b \in Names /\ c \in Names /\ d \in Names
  BY NamesAre
<1>2. s = <<a, b>> \o Scale(pi4, ~scaled)
  BY DEF PrintedAhead, Scaling
<1>3. t = CASE pi4 /\ scaled   -> <<b, c, d>>
            [] pi4 /\ ~scaled  -> <<b, c>>
            [] ~pi4 /\ scaled  -> <<b, d>>
            [] ~pi4 /\ ~scaled -> <<b>>
  BY DEF Ahead
<1> HIDE DEF s, t, a, b, c, d
<1>4. CASE pi4 /\ scaled
  <2>1. s = <<a, b, c, d>>
    <3>1. Scale(pi4, ~scaled) = <<c, d>>
      <4>1. Scale(pi4, ~scaled) = <<c>> \o <<d>>
        BY <1>4
      <4>2. QED
        BY <1>1, <4>1, OneAndOne
    <3>2. s = <<a, b>> \o <<c, d>>
      BY <1>2, <3>1, Zenon
    <3>3. QED
      BY <1>1, <3>2, TwoAndTwo
  <2>2. t = <<b, c, d>>
    BY <1>3, <1>4, Zenon
  <2>3. /\ s \in Seq(Names) /\ Len(s) = 4
        /\ s[1] = a /\ s[2] = b /\ s[3] = c /\ s[4] = d
    BY <1>1, <2>1, FourOf
  <2>4. t \in Seq(Names) /\ Len(t) = 3 /\ t[1] = b /\ t[2] = c /\ t[3] = d
    BY <1>1, <2>2, ThreeOf
  <2>5. PlaneLength(pi4, scaled) - 6 = 3
    BY <1>4 DEF PlaneLength
  <2>6. QED
    BY <2>3, <2>4, <2>5 DEF s, t, a
<1>5. CASE pi4 /\ ~scaled
  <2>1. s = <<a, b, c>>
    <3>1. Scale(pi4, ~scaled) = <<c>>
      BY <1>1, <1>5
    <3>2. QED
      BY <1>1, <1>2, <3>1, TwoAndOne
  <2>2. t = <<b, c>>
    BY <1>3, <1>5, Zenon
  <2>3. s \in Seq(Names) /\ Len(s) = 3 /\ s[1] = a /\ s[2] = b /\ s[3] = c
    BY <1>1, <2>1, ThreeOf
  <2>4. t \in Seq(Names) /\ Len(t) = 2 /\ t[1] = b /\ t[2] = c
    BY <1>1, <2>2, TwoOf
  <2>5. PlaneLength(pi4, scaled) - 6 = 2
    BY <1>5 DEF PlaneLength
  <2>6. QED
    BY <2>3, <2>4, <2>5 DEF s, t, a
<1>6. CASE ~pi4 /\ scaled
  <2>1. s = <<a, b, d>>
    <3>1. Scale(pi4, ~scaled) = <<d>>
      BY <1>1, <1>6
    <3>2. QED
      BY <1>1, <1>2, <3>1, TwoAndOne
  <2>2. t = <<b, d>>
    BY <1>3, <1>6, Zenon
  <2>3. s \in Seq(Names) /\ Len(s) = 3 /\ s[1] = a /\ s[2] = b /\ s[3] = d
    BY <1>1, <2>1, ThreeOf
  <2>4. t \in Seq(Names) /\ Len(t) = 2 /\ t[1] = b /\ t[2] = d
    BY <1>1, <2>2, TwoOf
  <2>5. PlaneLength(pi4, scaled) - 6 = 2
    BY <1>6 DEF PlaneLength
  <2>6. QED
    BY <2>3, <2>4, <2>5 DEF s, t, a
<1>7. CASE ~pi4 /\ ~scaled
  <2>1. s = <<a, b>>
    BY <1>1, <1>2, <1>7, TwoOf
  <2>2. t = <<b>>
    BY <1>3, <1>7, Zenon
  <2>3. s \in Seq(Names) /\ Len(s) = 2 /\ s[1] = a /\ s[2] = b
    BY <1>1, <2>1, TwoOf
  <2>4. t \in Seq(Names) /\ Len(t) = 1 /\ t[1] = b
    BY <1>1, <2>2, OneOf
  <2>5. PlaneLength(pi4, scaled) - 6 = 1
    BY <1>7 DEF PlaneLength
  <2>6. QED
    BY <2>3, <2>4, <2>5 DEF s, t, a
<1>8. QED
  BY <1>4, <1>5, <1>6, <1>7

(* The words of a display list, each named as the scaler takes it. *)
NamedWords == [end : BOOLEAN, valid : BOOLEAN, words : Nat, bit4 : BOOLEAN, bit15 : BOOLEAN,
               is : Names]

(* A plane: its control word, and those behind it with their names. *)
LEMMA PlaneIs ==
    ASSUME NEW plane \in SomePlane, NEW pi4 \in BOOLEAN
    PROVE  LET p == PlaneWords(plane, pi4)
               n == PlaneLength(pi4, plane.scaled)
               w == p[1]
           IN  /\ p \in Seq(NamedWords) /\ Len(p) = n /\ n \in 7..9
               /\ w.end = FALSE /\ w.valid = TRUE /\ w.words = n /\ w.is = "control0"
               /\ Unity(w, pi4) = ~plane.scaled
               /\ \A k \in 1..(n - 1) : p[1 + k].is = PlaneParts(pi4, plane.scaled)[k]
<1> DEFINE p == PlaneWords(plane, pi4)
           scaled == plane.scaled
           n == PlaneLength(pi4, scaled)
           parts == PlaneParts(pi4, scaled)
           first == Control(n, IF pi4 THEN plane.flip ELSE ~scaled,
                               IF pi4 THEN ~scaled ELSE plane.flip)
           rest == [k \in 1..(n - 1) |-> [plane.looks EXCEPT !.is = parts[k]]]
<1>1. scaled \in BOOLEAN /\ plane.flip \in BOOLEAN /\ plane.looks \in ListWords
  BY DEF SomePlane
<1>2. n \in 7..9
  BY <1>1 DEF PlaneLength
<1>3. \A k \in 1..(n - 1) : parts[k] \in Names
  <2> DEFINE t == Ahead(pi4, scaled)
             w == [bit4 |-> ~scaled, bit15 |-> ~scaled]
  <2>1. Unity(w, pi4) = ~scaled
    BY DEF Unity
  <2>2. t \in Seq(Names) /\ Len(t) = n - 6
    BY <1>1, <2>1, AheadIs
  <2>3. parts = t \o Placing
    BY DEF PlaneParts
  <2> HIDE DEF t, parts, n
  <2>4. parts \in Seq(Names) /\ Len(parts) = (n - 6) + 5
    <3>1. t \in Seq(Names) /\ Placing \in Seq(Names)
      BY <2>2, PlacingIs
    <3>2. t \o Placing \in Seq(Names) /\ Len(t \o Placing) = Len(t) + Len(Placing)
      BY <3>1, Concatenated
    <3>3. QED
      BY <2>2, <2>3, <3>2, PlacingIs
  <2>5. Len(parts) = n - 1
    BY <1>2, <2>4
  <2>6. QED
    BY <2>4, <2>5
<1>4. p = <<first>> \o rest
  BY DEF PlaneWords
<1>5. /\ first \in NamedWords
      /\ first.end = FALSE /\ first.valid = TRUE /\ first.words = n /\ first.is = "control0"
      /\ Unity(first, pi4) = ~scaled
  <2> DEFINE x == IF pi4 THEN plane.flip ELSE ~scaled
             y == IF pi4 THEN ~scaled ELSE plane.flip
  <2>1. x \in BOOLEAN /\ y \in BOOLEAN
    BY <1>1
  <2>2. (IF pi4 THEN y ELSE x) = ~scaled
    BY <1>1
  <2>3. first = [end |-> FALSE, valid |-> TRUE, words |-> n, bit4 |-> x, bit15 |-> y,
                 is |-> "control0"]
    BY DEF Control
  <2> HIDE DEF x, y, n, first, scaled
  <2>4. /\ first.end = FALSE /\ first.valid = TRUE /\ first.words = n /\ first.is = "control0"
        /\ first.bit4 = x /\ first.bit15 = y
    BY <2>3
  <2>5. Unity(first, pi4) = ~scaled
    BY <2>2, <2>4 DEF Unity
  <2>6. first \in NamedWords
    BY <1>2, <2>1, <2>3, NamesAre DEF NamedWords
  <2>7. QED
    BY <2>4, <2>5, <2>6
<1> HIDE DEF first, parts, n
<1>6. /\ rest \in Seq(NamedWords) /\ Len(rest) = n - 1
      /\ \A k \in 1..(n - 1) : rest[k].is = parts[k]
  <2>1. \A k \in 1..(n - 1) : /\ [plane.looks EXCEPT !.is = parts[k]] \in NamedWords
                              /\ [plane.looks EXCEPT !.is = parts[k]].is = parts[k]
    BY <1>1, <1>3 DEF ListWords, NamedWords
  <2> DEFINE m == n - 1
             W(k) == [plane.looks EXCEPT !.is = parts[k]]
  <2>2. m \in Nat
    BY <1>2
  <2>3. rest = [k \in 1..m |-> W(k)] /\ \A k \in 1..m : W(k) \in NamedWords
    BY <2>1
  <2>4. \A k \in 1..m : W(k).is = parts[k]
    BY <2>1
  <2> HIDE DEF W, m, rest
  <2>5. rest \in Seq(NamedWords) /\ Len(rest) = m /\ \A k \in 1..m : rest[k] = W(k)
    BY <2>2, <2>3
  <2>6. QED
    BY <2>4, <2>5 DEF m
<1> HIDE DEF rest
<1>7. <<first>> \in Seq(NamedWords) /\ Len(<<first>>) = 1 /\ <<first>>[1] = first
  BY <1>5, OneOf
<1>8. /\ p \in Seq(NamedWords) /\ Len(p) = 1 + (n - 1)
      /\ p[1] = first /\ \A k \in 1..(n - 1) : p[1 + k] = rest[k]
  <2> DEFINE s == <<first>>
  <2> HIDE DEF s
  <2>1. s \in Seq(NamedWords) /\ Len(s) = 1 /\ s[1] = first /\ p = s \o rest
    BY <1>4, <1>7 DEF s
  <2> HIDE DEF p
  <2>2. /\ p \in Seq(NamedWords) /\ Len(p) = Len(s) + Len(rest)
        /\ \A k \in 1..Len(s) : p[k] = s[k]
        /\ \A k \in 1..Len(rest) : p[Len(s) + k] = rest[k]
    <3>1. s \in Seq(NamedWords) /\ rest \in Seq(NamedWords)
      BY <1>6, <2>1
    <3>2. p = s \o rest
      BY <2>1
    <3>3. QED
      BY <3>1, <3>2, JoinedAs
  <2>3. QED
    BY <1>6, <2>1, <2>2
<1> HIDE DEF p
<1>9. Len(p) = n
  BY <1>2, <1>8
<1>10. \A k \in 1..(n - 1) : p[1 + k].is = parts[k]
  BY <1>6, <1>8
<1>11. QED
  BY <1>2, <1>5, <1>8, <1>9, <1>10 DEF p, n, parts, scaled

(* What is printed of a plane is what its words are. *)
LEMMA PlanePrinted ==
    ASSUME NEW plane \in SomePlane, NEW pi4 \in BOOLEAN
    PROVE  LET p == PlaneWords(plane, pi4)
           IN  /\ Printed(p[1], pi4) \in Seq(Names) /\ Len(Printed(p[1], pi4)) = Len(p)
               /\ \A k \in 1..Len(p) : Printed(p[1], pi4)[k] = p[k].is
<1> DEFINE p == PlaneWords(plane, pi4)
           scaled == plane.scaled
           n == PlaneLength(pi4, scaled)
           w == p[1]
           s == PrintedAhead(w, pi4)
           t == Ahead(pi4, scaled)
           u == s \o Placing
           v == t \o Placing
<1>1. /\ Len(p) = n /\ n \in 7..9
      /\ w.end = FALSE /\ w.valid = TRUE /\ w.is = "control0"
      /\ Unity(w, pi4) = ~scaled
      /\ \A k \in 1..(n - 1) : p[1 + k].is = PlaneParts(pi4, scaled)[k]
  BY PlaneIs
<1>2. PlaneParts(pi4, scaled) = v
  BY DEF PlaneParts
<1>3. Printed(w, pi4) = u
  BY <1>1, Zenon DEF Printed, PrintedAhead, Placing
<1>4. scaled \in BOOLEAN
  BY DEF SomePlane
<1>5. /\ s \in Seq(Names) /\ t \in Seq(Names)
      /\ Len(s) = 1 + Len(t) /\ Len(t) = n - 6
      /\ s[1] = "control0" /\ \A k \in 1..Len(t) : s[1 + k] = t[k]
  BY <1>1, <1>4, AheadIs
<1> HIDE DEF s, t, w, n, p, u, v
<1>6. /\ u \in Seq(Names) /\ Len(u) = Len(s) + 5
      /\ \A k \in 1..Len(s) : u[k] = s[k]
      /\ \A k \in 1..5 : u[Len(s) + k] = Placing[k]
  <2>1. s \in Seq(Names) /\ Placing \in Seq(Names) /\ Len(Placing) = 5
    BY <1>5, PlacingIs
  <2> HIDE DEF u
  <2>2. /\ u \in Seq(Names) /\ Len(u) = Len(s) + Len(Placing)
        /\ \A k \in 1..Len(s) : u[k] = s[k]
        /\ \A k \in 1..Len(Placing) : u[Len(s) + k] = Placing[k]
    <3>1. u = s \o Placing
      BY DEF u
    <3>2. s \in Seq(Names) /\ Placing \in Seq(Names)
      BY <2>1
    <3>3. QED
      BY <3>1, <3>2, JoinedAs
  <2>3. QED
    BY <2>1, <2>2
<1>7. /\ v \in Seq(Names) /\ Len(v) = Len(t) + 5
      /\ \A k \in 1..Len(t) : v[k] = t[k]
      /\ \A k \in 1..5 : v[Len(t) + k] = Placing[k]
  <2>1. t \in Seq(Names) /\ Placing \in Seq(Names) /\ Len(Placing) = 5
    BY <1>5, PlacingIs
  <2> HIDE DEF v
  <2>2. /\ v \in Seq(Names) /\ Len(v) = Len(t) + Len(Placing)
        /\ \A k \in 1..Len(t) : v[k] = t[k]
        /\ \A k \in 1..Len(Placing) : v[Len(t) + k] = Placing[k]
    <3>1. v = t \o Placing
      BY DEF v
    <3>2. t \in Seq(Names) /\ Placing \in Seq(Names)
      BY <2>1
    <3>3. QED
      BY <3>1, <3>2, JoinedAs
  <2>3. QED
    BY <2>1, <2>2
<1>8. Len(t) \in Nat /\ Len(s) \in Nat /\ n \in Nat
  BY <1>1, <1>5
<1>9. Len(u) = n
  BY <1>1, <1>5, <1>6, <1>8
<1>10. u[1] = w.is
  <2>1. 1 \in 1..Len(s)
    BY <1>5, <1>8
  <2>2. QED
    BY <1>1, <1>5, <1>6, <2>1
<1>11. ASSUME NEW k \in 1..(n - 1)
       PROVE  u[1 + k] = v[k]
  <2>1. CASE k <= Len(t)
    <3>1. k \in 1..Len(t) /\ 1 + k \in 1..Len(s)
      BY <1>5, <1>8, <2>1
    <3>2. QED
      BY <1>5, <1>6, <1>7, <3>1
  <2>2. CASE k > Len(t)
    <3>1. PICK m \in 1..5 : k = Len(t) + m
      <4>1. k - Len(t) \in 1..5 /\ k = Len(t) + (k - Len(t))
        BY <1>5, <1>8, <2>2
      <4>2. QED
        BY <4>1
    <3>2. 1 + k = Len(s) + m
      BY <1>5, <1>8, <3>1
    <3>3. QED
      BY <1>6, <1>7, <3>1, <3>2
  <2>3. QED
    BY <1>8, <2>1, <2>2
<1>12. ASSUME NEW k \in 1..n
       PROVE  u[k] = p[k].is
  <2>1. CASE k = 1
    BY <1>10, <2>1 DEF w
  <2>2. CASE k # 1
    <3>1. PICK m \in 1..(n - 1) : k = 1 + m
      <4>1. k - 1 \in 1..(n - 1) /\ k = 1 + (k - 1)
        BY <1>8, <2>2
      <4>2. QED
        BY <4>1
    <3>2. u[1 + m] = v[m] /\ p[1 + m].is = v[m]
      BY <1>1, <1>2, <1>11
    <3>3. QED
      BY <3>1, <3>2
  <2>3. QED
    BY <2>1, <2>2
<1>13. QED
  BY <1>1, <1>3, <1>6, <1>9, <1>12 DEF w, p

(* The last word of a list. *)
LEMMA EndIs ==
    /\ <<EndWord>> \in Seq(NamedWords) /\ Len(<<EndWord>>) = 1 /\ <<EndWord>>[1] = EndWord
    /\ EndWord.end = TRUE /\ EndWord.is = "control0"
<1>1. EndWord \in NamedWords
  BY NamesAre DEF EndWord, NamedWords
<1>2. EndWord.end = TRUE /\ EndWord.is = "control0"
  BY DEF EndWord
<1>3. QED
  BY <1>1, <1>2, OneOf

(* The parts of a list. *)
LEMMA PartsOfList ==
    ASSUME NEW planes \in Seq(SomePlane), NEW pi4 \in BOOLEAN
    PROVE  LET parts == Parts(planes, pi4)
               n == Len(planes)
           IN  /\ parts \in Seq(Seq(NamedWords)) /\ Len(parts) = n + 1
               /\ \A k \in 1..n : parts[k] = PlaneWords(planes[k], pi4)
               /\ parts[n + 1] = <<EndWord>>
<1> DEFINE n == Len(planes)
           P(k) == PlaneWords(planes[k], pi4)
           s == [k \in 1..n |-> P(k)]
           last == <<EndWord>>
           t == <<last>>
           parts == s \o t
<1>1. n \in Nat /\ \A k \in 1..n : planes[k] \in SomePlane
  OBVIOUS
<1>2. \A k \in 1..n : P(k) \in Seq(NamedWords)
  BY <1>1, PlaneIs
<1>3. Parts(planes, pi4) = parts
  <2>1. DOMAIN planes = 1..n
    OBVIOUS
  <2>2. QED
    BY <2>1 DEF Parts
<1> HIDE DEF n, P
<1>4. s \in Seq(Seq(NamedWords)) /\ Len(s) = n /\ \A k \in 1..n : s[k] = P(k)
  BY <1>1, <1>2
<1>5. last \in Seq(NamedWords)
  BY EndIs
<1> HIDE DEF last, s
<1>6. t \in Seq(Seq(NamedWords)) /\ Len(t) = 1 /\ t[1] = last
  BY <1>5, OneOf
<1> HIDE DEF t, parts
<1>7. /\ parts \in Seq(Seq(NamedWords)) /\ Len(parts) = Len(s) + Len(t)
      /\ \A k \in 1..Len(s) : parts[k] = s[k]
      /\ \A k \in 1..Len(t) : parts[Len(s) + k] = t[k]
  <2>1. parts = s \o t
    BY DEF parts
  <2>2. s \in Seq(Seq(NamedWords)) /\ t \in Seq(Seq(NamedWords))
    BY <1>4, <1>6
  <2>3. QED
    BY <2>1, <2>2, JoinedAs
<1>8. Len(parts) = n + 1 /\ \A k \in 1..n : parts[k] = P(k)
  BY <1>1, <1>4, <1>6, <1>7
<1>9. parts[n + 1] = last
  BY <1>1, <1>4, <1>6, <1>7
<1>10. QED
  BY <1>3, <1>7, <1>8, <1>9 DEF n, P, last

(* What is to be said of the nth part, and of the first q of them. *)
Marks == Nat \X Names
PartSaid(parts, start, n) ==
    {<<start + Ends(parts)[n - 1] + k - 1, parts[n][k].is>> : k \in DOMAIN parts[n]}
SaidUpto(parts, start, q) ==
    UNION {PartSaid(parts, start, n) : n \in {x \in 1..q : Ends(parts)[x - 1] < ListWindow}}

(* What there is to be said of the list is what is said of all parts. *)
LEMMA WordsSeenIs ==
    ASSUME NEW planes \in Seq(SomePlane), NEW pi4 \in BOOLEAN, NEW start
    PROVE  LET parts == Parts(planes, pi4)
           IN  WordsSeen(planes, pi4, start) = SaidUpto(parts, start, Len(parts))
<1> DEFINE parts == Parts(planes, pi4)
           m == Len(parts)
           from(n) == Len(FlattenSeq(SubSeq(parts, 1, n - 1)))
           Said(n) == {<<start + from(n) + k - 1, parts[n][k].is>> : k \in DOMAIN parts[n]}
<1>1. parts \in Seq(Seq(NamedWords))
  BY PartsOfList
<1>2. DOMAIN parts = 1..m /\ m \in Nat
  BY <1>1
<1>3. WordsSeen(planes, pi4, start) = UNION {Said(n) : n \in {x \in DOMAIN parts : from(x) < ListWindow}}
  BY DEF WordsSeen
<1>4. \A n \in 1..m : from(n) = Ends(parts)[n - 1]
  <2> SUFFICES ASSUME NEW n \in 1..m PROVE from(n) = Ends(parts)[n - 1]
    OBVIOUS
  <2>1. n - 1 \in 0..Len(parts)
    BY <1>2
  <2>2. QED
    BY <2>1 DEF Ends
<1> HIDE DEF parts, m, from
<1>5. \A n \in 1..m : Said(n) = PartSaid(parts, start, n)
  BY <1>4 DEF PartSaid
<1>6. {x \in DOMAIN parts : from(x) < ListWindow} = {x \in 1..m : Ends(parts)[x - 1] < ListWindow}
  BY <1>2, <1>4
<1> DEFINE X == {x \in 1..m : Ends(parts)[x - 1] < ListWindow}
<1>7. \A n \in X : Said(n) = PartSaid(parts, start, n)
  BY <1>5
<1>8. {Said(n) : n \in X} = {PartSaid(parts, start, n) : n \in X}
  <2> HIDE DEF X, Said
  <2>1. QED
    BY <1>7
<1>9. SaidUpto(parts, start, m) = UNION {PartSaid(parts, start, n) : n \in X}
  BY DEF SaidUpto
<1>10. WordsSeen(planes, pi4, start) = UNION {Said(n) : n \in X}
  BY <1>3, <1>6
<1>11. QED
  BY <1>8, <1>9, <1>10 DEF parts, m

(* A part behind the window says nothing more. *)
LEMMA SaidBehind ==
    ASSUME NEW S, NEW parts \in Seq(Seq(S)), NEW start, NEW k \in 0..Len(parts),
           Ends(parts)[k] >= ListWindow
    PROVE  SaidUpto(parts, start, Len(parts)) = SaidUpto(parts, start, k)
<1> DEFINE m == Len(parts)
           X(q) == {x \in 1..q : Ends(parts)[x - 1] < ListWindow}
<1>1. m \in Nat /\ k \in 0..m
  OBVIOUS
<1>2. ASSUME NEW x \in 1..m, x > k
      PROVE  ~(Ends(parts)[x - 1] < ListWindow)
  <2>1. x - 1 \in k..Len(parts)
    BY <1>1, <1>2
  <2>2. Ends(parts)[k] <= Ends(parts)[x - 1]
    BY <2>1, EndsGrow
  <2>3. Ends(parts)[k] \in Nat /\ Ends(parts)[x - 1] \in Nat
    <3>1. x - 1 \in 0..Len(parts)
      BY <1>1, <2>1
    <3>2. QED
      BY <3>1, FlattenPlaced
  <2>4. QED
    BY <2>2, <2>3, PlanesAssumption
<1>3. X(m) = X(k)
  BY <1>1, <1>2
<1> HIDE DEF X
<1>4. QED
  BY <1>3 DEF SaidUpto, X

(* One more part. *)
LEMMA SaidNext ==
    ASSUME NEW parts, NEW start, NEW k \in Nat, Ends(parts)[k] < ListWindow
    PROVE  SaidUpto(parts, start, k + 1)
             = SaidUpto(parts, start, k) \cup PartSaid(parts, start, k + 1)
<1> DEFINE X(q) == {x \in 1..q : Ends(parts)[x - 1] < ListWindow}
<1>1. (k + 1) - 1 = k
  OBVIOUS
<1>2. X(k + 1) = X(k) \cup {k + 1}
  BY <1>1
<1> HIDE DEF X
<1>3. \A q : SaidUpto(parts, start, q) = UNION {PartSaid(parts, start, n) : n \in X(q)}
  BY DEF SaidUpto, X
<1>4. UNION {PartSaid(parts, start, n) : n \in X(k) \cup {k + 1}}
        = (UNION {PartSaid(parts, start, n) : n \in X(k)}) \cup PartSaid(parts, start, k + 1)
  OBVIOUS
<1>5. QED
  BY <1>2, <1>3, <1>4

(* A word of a list that is followed by others. *)
LEMMA WordWithin ==
    ASSUME NEW start \in Nat, NEW from \in Nat, NEW total \in Nat, NEW w \in Nat, from < total
    PROVE  /\ start + from \in start..(start + total + w)
           /\ start + from < start + total /\ (start + from) - start = from
OBVIOUS

(* A function on the first numbers is a sequence. *)
LEMMA SequenceOf ==
    ASSUME NEW S, NEW m \in Nat, NEW f, f = [k \in 1..m |-> f[k]], \A k \in 1..m : f[k] \in S
    PROVE  f \in Seq(S)
OBVIOUS

(* The word that a part of the list in memory begins with. *)
LEMMA BeginsAt ==
    ASSUME NEW planes \in Seq(SomePlane), NEW pi4 \in BOOLEAN, NEW start \in Nat,
           NEW n \in 1..Len(Parts(planes, pi4)), Len(Parts(planes, pi4)[n]) >= 1
    PROVE  LET parts == Parts(planes, pi4)
           IN  ListAt(planes, pi4, start)[start + Ends(parts)[n - 1]] = parts[n][1]
<1> DEFINE parts == Parts(planes, pi4)
           words == FlattenSeq(parts)
           total == Len(words)
           from == Ends(parts)[n - 1]
           p == parts[n]
           W(k) == IF k < start + total THEN words[k - start + 1] ELSE Beyond
           last == start + total + ListWindow
<1>1. parts \in Seq(Seq(NamedWords))
  BY PartsOfList
<1>2. Len(parts) \in Nat /\ p \in Seq(NamedWords)
  BY <1>1
<1>3. /\ words \in Seq(NamedWords) /\ total = Ends(parts)[Len(parts)]
      /\ from \in Nat /\ Ends(parts)[n] = from + Len(p)
      /\ Ends(parts)[n] <= Ends(parts)[Len(parts)]
      /\ \A k \in 1..Len(p) : words[from + k] = p[k]
  BY <1>1, FlattenPlaced DEF Placed
<1>4. ListAt(planes, pi4, start) = [k \in start..last |-> W(k)]
  BY DEF ListAt
<1>5. Len(p) \in Nat /\ total \in Nat /\ ListWindow \in Nat
  BY <1>2, <1>3, PlanesAssumption
<1>6. Len(p) >= 1
  OBVIOUS
<1> HIDE DEF parts, words, total, from, p, W, last
<1>7. from < total
  BY <1>3, <1>5, <1>6
<1>8. start + from \in start..last /\ start + from < start + total /\ (start + from) - start = from
  BY <1>3, <1>5, <1>7, WordWithin, Zenon DEF last
<1>9. ListAt(planes, pi4, start)[start + from] = W(start + from)
  BY <1>4, <1>8
<1>10. W(start + from) = words[from + 1]
  BY <1>8 DEF W
<1>11. words[from + 1] = p[1]
  BY <1>3, <1>5, <1>6
<1>12. QED
  BY <1>9, <1>10, <1>11 DEF from, p, parts

(* What is printed at the beginning of a part is what is to be said of it. *)
LEMMA PrintedIs ==
    ASSUME NEW parts \in Seq(Seq(NamedWords)), NEW start \in Nat, NEW n \in 1..Len(parts),
           NEW pi4, Printed(parts[n][1], pi4) \in Seq(Names),
           Len(Printed(parts[n][1], pi4)) = Len(parts[n]),
           \A k \in 1..Len(parts[n]) : Printed(parts[n][1], pi4)[k] = parts[n][k].is
    PROVE  LET s == PrintedAt(parts[n][1], pi4, start + Ends(parts)[n - 1])
           IN  s \in Seq(Marks) /\ ElementsOf(s) = PartSaid(parts, start, n)
<1> DEFINE p == parts[n]
           from == Ends(parts)[n - 1]
           names == Printed(p[1], pi4)
           m == Len(p)
           s == PrintedAt(p[1], pi4, start + from)
           M(k) == <<start + from + k - 1, p[k].is>>
<1>1. p \in Seq(NamedWords) /\ m \in Nat
  OBVIOUS
<1>2. from \in Nat
  BY FlattenPlaced DEF Placed
<1>3. DOMAIN names = 1..m /\ \A k \in 1..m : names[k] = p[k].is /\ names[k] \in Names
  OBVIOUS
<1>4. s = [k \in DOMAIN names |-> <<start + from + k - 1, names[k]>>]
  BY DEF PrintedAt
<1>5. DOMAIN p = 1..m
  BY <1>1
<1> HIDE DEF from, names, m, s, p
<1>6. s = [k \in 1..m |-> M(k)]
  BY <1>3, <1>4
<1>7. \A k \in 1..m : M(k) \in Marks
  BY <1>1, <1>2, <1>3 DEF Marks
<1>8. PartSaid(parts, start, n) = {M(k) : k \in 1..m}
  BY <1>5 DEF PartSaid, from, p
<1> HIDE DEF M
<1>9. s \in Seq(Marks) /\ DOMAIN s = 1..m /\ \A k \in 1..m : s[k] = M(k)
  <2>1. DOMAIN s = 1..m /\ \A k \in 1..m : s[k] = M(k)
    BY <1>6, Zenon
  <2>2. s = [k \in 1..m |-> s[k]]
    BY <1>6, <2>1, Zenon
  <2>3. \A k \in 1..m : s[k] \in Marks
    BY <1>7, <2>1, Zenon
  <2>4. QED
    BY <1>1, <2>1, <2>2, <2>3, SequenceOf, Zenon
<1>10. ElementsOf(s) = {M(k) : k \in 1..m}
  BY <1>9 DEF ElementsOf
<1>11. QED
  BY <1>8, <1>9, <1>10 DEF s, p, from

(* Where the walk is after k rounds: at the beginning of a part, with all parts
   before it said, or out of the window with nothing left to say. *)
Outside(walk, parts, start) ==
    /\ walk.at \in Nat /\ walk.at >= start + ListWindow
    /\ ElementsOf(walk.said) = SaidUpto(parts, start, Len(parts))
AtPart(walk, parts, start, k) ==
    /\ k < Len(parts) /\ k <= Ends(parts)[k]
    /\ walk.at = start + Ends(parts)[k]
    /\ ElementsOf(walk.said) = SaidUpto(parts, start, k)
Reading(walk, parts, start, k) ==
    /\ walk.said \in Seq(Marks)
    /\ Outside(walk, parts, start) \/ AtPart(walk, parts, start, k)

(* A round at a part that begins within the window. *)
LEMMA VisitPart ==
    ASSUME NEW planes \in Seq(SomePlane), NEW pi4 \in BOOLEAN, NEW start \in Nat,
           NEW n \in 1..Len(Parts(planes, pi4)),
           Ends(Parts(planes, pi4))[n - 1] < ListWindow,
           NEW walk, walk.said \in Seq(Marks), AtPart(walk, Parts(planes, pi4), start, n - 1)
    PROVE  LET d == [list |-> ListAt(planes, pi4, start), pi4 |-> pi4, stop |-> start + ListWindow]
           IN  Reading(Visit(walk, d), Parts(planes, pi4), start, n)
<1> DEFINE parts == Parts(planes, pi4)
           q == Len(planes)
           p == parts[n]
           from == Ends(parts)[n - 1]
           stop == start + ListWindow
           list == ListAt(planes, pi4, start)
           d == [list |-> list, pi4 |-> pi4, stop |-> stop]
           w == p[1]
           s == PrintedAt(w, pi4, start + from)
<1>1. /\ parts \in Seq(Seq(NamedWords)) /\ Len(parts) = q + 1 /\ q \in Nat
      /\ \A k \in 1..q : parts[k] = PlaneWords(planes[k], pi4)
      /\ parts[q + 1] = <<EndWord>>
  BY PartsOfList
<1>2. n \in 1..(q + 1) /\ n \in Nat /\ n - 1 \in 0..Len(parts) /\ n \in 0..Len(parts)
  BY <1>1
<1>3. /\ from \in Nat /\ Ends(parts)[n] = from + Len(p) /\ from < ListWindow
  BY <1>1, FlattenPlaced DEF Placed
<1>4. ListWindow \in Nat
  BY PlanesAssumption
<1>5. /\ n - 1 <= from /\ walk.at = start + from
      /\ ElementsOf(walk.said) = SaidUpto(parts, start, n - 1)
  BY DEF AtPart
<1>6. /\ d.list = list /\ d.pi4 = pi4 /\ d.stop = stop
  OBVIOUS
<1>7. SaidUpto(parts, start, n) = SaidUpto(parts, start, n - 1) \cup PartSaid(parts, start, n)
  <2> DEFINE k == n - 1
  <2>1. k \in Nat /\ k + 1 = n /\ Ends(parts)[k] < ListWindow
    BY <1>2, <1>3
  <2> HIDE DEF k
  <2>2. SaidUpto(parts, start, k + 1) = SaidUpto(parts, start, k) \cup PartSaid(parts, start, k + 1)
    BY <2>1, SaidNext
  <2>3. QED
    BY <2>1, <2>2 DEF k
<1>8. ASSUME Len(p) >= 1, Printed(w, pi4) \in Seq(Names), Len(Printed(w, pi4)) = Len(p),
             \A k \in 1..Len(p) : Printed(w, pi4)[k] = p[k].is
      PROVE  /\ Visit(walk, d).at = IF w.end THEN stop ELSE NextControl(w, start + from)
             /\ Visit(walk, d).said \in Seq(Marks)
             /\ ElementsOf(Visit(walk, d).said) = SaidUpto(parts, start, n)
  <2>1. list[start + from] = w
    BY <1>8, BeginsAt
  <2>2. s \in Seq(Marks) /\ ElementsOf(s) = PartSaid(parts, start, n)
    BY <1>1, <1>8, PrintedIs
  <2> HIDE DEF parts, w, list, from, p, d
  <2>3. ~(walk.at >= d.stop)
    BY <1>3, <1>4, <1>5, <1>6
  <2>4. Visit(walk, d) = [at |-> IF w.end THEN stop ELSE NextControl(w, start + from),
                          said |-> walk.said \o s]
    <3>1. d.list[walk.at] = w
      BY <1>5, <1>6, <2>1
    <3>2. QED
      BY <1>5, <1>6, <2>3, <3>1 DEF Visit
  <2> HIDE DEF s
  <2>5. Visit(walk, d).said = walk.said \o s
    BY <2>4
  <2>6. walk.said \o s \in Seq(Marks)
    BY <2>2, Concatenated
  <2>7. ElementsOf(walk.said \o s) = ElementsOf(walk.said) \cup ElementsOf(s)
    BY <2>2, ElementsBehind
  <2>8. QED
    BY <1>5, <1>7, <2>2, <2>4, <2>5, <2>6, <2>7
<1>9. CASE n \in 1..q
  <2> DEFINE plane == planes[n]
  <2>1. plane \in SomePlane /\ p = PlaneWords(plane, pi4)
    BY <1>1, <1>9
  <2>2. /\ Len(p) \in 7..9 /\ w.end = FALSE /\ w.valid = TRUE /\ w.words = Len(p)
    <3> DEFINE v == PlaneWords(plane, pi4)
               l == PlaneLength(pi4, plane.scaled)
    <3>1. /\ Len(v) = l /\ l \in 7..9
          /\ v[1].end = FALSE /\ v[1].valid = TRUE /\ v[1].words = l
      BY <2>1, PlaneIs
    <3>2. p = v
      BY <2>1
    <3> HIDE DEF v, l, p
    <3>3. QED
      BY <3>1, <3>2
  <2>3. /\ Printed(w, pi4) \in Seq(Names) /\ Len(Printed(w, pi4)) = Len(p)
        /\ \A k \in 1..Len(p) : Printed(w, pi4)[k] = p[k].is
    BY <2>1, PlanePrinted
  <2>4. /\ Visit(walk, d).at = IF w.end THEN stop ELSE NextControl(w, start + from)
        /\ Visit(walk, d).said \in Seq(Marks)
        /\ ElementsOf(Visit(walk, d).said) = SaidUpto(parts, start, n)
    <3>1. Len(p) >= 1
      BY <2>2
    <3>2. QED
      BY <1>8, <2>3, <3>1
  <2> HIDE DEF parts, d, w, p, from, plane, s
  <2>5. Visit(walk, d).at = (start + from) + Len(p)
    <3>1. Len(p) > 1
      <4> DEFINE l == Len(p)
      <4>1. l \in 7..9
        BY <2>2
      <4> HIDE DEF l
      <4>2. l > 1
        BY <4>1
      <4>3. QED
        BY <4>2 DEF l
    <3>2. NextControl(w, start + from) = (start + from) + w.words
      BY <2>2, <3>1 DEF NextControl
    <3>3. QED
      BY <2>2, <2>4, <3>2
  <2>6. Visit(walk, d).at = start + Ends(parts)[n] /\ n <= Ends(parts)[n] /\ n < Len(parts)
    <3> DEFINE l == Len(p)
               e == Ends(parts)[n]
               here == Visit(walk, d).at
    <3>1. l \in 7..9 /\ e = from + l /\ here = (start + from) + l
      BY <1>3, <2>2, <2>5
    <3>2. n < Len(parts)
      BY <1>1, <1>9
    <3> HIDE DEF l, e, here
    <3>3. here = start + e
      BY <1>3, <3>1
    <3>4. n <= e
      BY <1>2, <1>3, <1>5, <3>1
    <3>5. QED
      BY <3>2, <3>3, <3>4 DEF here, e
  <2>7. QED
    BY <2>4, <2>6 DEF Reading, AtPart, d, parts, list, stop
<1>10. CASE n = q + 1
  <2>1. p = <<EndWord>>
    BY <1>1, <1>10
  <2>2. Len(p) = 1 /\ w = EndWord /\ w.end = TRUE /\ w.is = "control0"
    BY <2>1, EndIs
  <2>3. Printed(w, pi4) = <<"control0">>
    BY <2>2 DEF Printed
  <2>4. /\ Printed(w, pi4) \in Seq(Names) /\ Len(Printed(w, pi4)) = 1
        /\ Printed(w, pi4)[1] = "control0"
    BY <2>3, NamesAre, OneOf
  <2>5. \A k \in 1..Len(p) : Printed(w, pi4)[k] = p[k].is
    <3>1. \A k \in 1..Len(p) : k = 1
      BY <2>2
    <3>2. QED
      BY <2>2, <2>4, <3>1
  <2>6. /\ Visit(walk, d).at = IF w.end THEN stop ELSE NextControl(w, start + from)
        /\ Visit(walk, d).said \in Seq(Marks)
        /\ ElementsOf(Visit(walk, d).said) = SaidUpto(parts, start, n)
    <3>1. Len(p) >= 1
      BY <2>2
    <3>2. QED
      BY <1>8, <2>2, <2>4, <2>5, <3>1
  <2> HIDE DEF parts, d, w, p, from, s
  <2>7. n = Len(parts)
    BY <1>1, <1>10
  <2>8. Visit(walk, d).at = stop /\ stop \in Nat /\ stop >= start + ListWindow
    BY <1>4, <2>2, <2>6
  <2>9. Outside(Visit(walk, d), parts, start)
    BY <2>6, <2>7, <2>8 DEF Outside
  <2>10. QED
    BY <2>6, <2>9 DEF Reading, d, parts, list, stop
<1>11. QED
  BY <1>2, <1>9, <1>10

(* A round. *)
LEMMA VisitStep ==
    ASSUME NEW planes \in Seq(SomePlane), NEW pi4 \in BOOLEAN, NEW start \in Nat,
           NEW n \in Nat \ {0}, NEW walk, Reading(walk, Parts(planes, pi4), start, n - 1)
    PROVE  LET d == [list |-> ListAt(planes, pi4, start), pi4 |-> pi4, stop |-> start + ListWindow]
           IN  Reading(Visit(walk, d), Parts(planes, pi4), start, n)
<1> DEFINE parts == Parts(planes, pi4)
           d == [list |-> ListAt(planes, pi4, start), pi4 |-> pi4, stop |-> start + ListWindow]
<1>1. d.stop = start + ListWindow
  OBVIOUS
<1>2. walk.said \in Seq(Marks)
  BY DEF Reading
<1>3. parts \in Seq(Seq(NamedWords)) /\ Len(parts) \in Nat
  BY PartsOfList
<1>4. ListWindow \in Nat
  BY PlanesAssumption
<1>5. CASE Outside(walk, parts, start)
  <2> HIDE DEF parts, d
  <2>1. walk.at >= d.stop
    BY <1>1, <1>5 DEF Outside
  <2>2. Visit(walk, d) = walk
    BY <2>1 DEF Visit
  <2>3. Reading(walk, parts, start, n)
    BY <1>2, <1>5 DEF Reading
  <2>4. QED
    BY <2>2, <2>3 DEF d, parts
<1>6. CASE AtPart(walk, parts, start, n - 1)
  <2> DEFINE e == Ends(parts)[n - 1]
  <2>1. n - 1 < Len(parts) /\ walk.at = start + e
        /\ ElementsOf(walk.said) = SaidUpto(parts, start, n - 1)
    BY <1>6 DEF AtPart
  <2>2. n \in 1..Len(parts) /\ n - 1 \in 0..Len(parts)
    BY <1>3, <2>1
  <2>3. e \in Nat
    BY <1>3, <2>2, FlattenPlaced
  <2>4. CASE e < ListWindow
    BY <1>2, <1>6, <2>2, <2>4, VisitPart
  <2>5. CASE e >= ListWindow
    <3>1. SaidUpto(parts, start, Len(parts)) = SaidUpto(parts, start, n - 1)
      BY <1>3, <2>2, <2>5, SaidBehind
    <3> HIDE DEF parts, d, e
    <3>2. walk.at \in Nat /\ walk.at >= start + ListWindow
      BY <1>4, <2>1, <2>3, <2>5
    <3>3. Visit(walk, d) = walk
      BY <1>1, <3>2 DEF Visit
    <3>4. Outside(walk, parts, start)
      BY <2>1, <3>1, <3>2 DEF Outside
    <3>5. Reading(walk, parts, start, n)
      BY <1>2, <3>4 DEF Reading
    <3>6. QED
      BY <3>3, <3>5 DEF d, parts
  <2>6. QED
    BY <1>4, <2>3, <2>4, <2>5
<1>7. QED
  BY <1>5, <1>6 DEF Reading

(* The walk begins at the first part. *)
LEMMA WalkBegins ==
    ASSUME NEW planes \in Seq(SomePlane), NEW pi4 \in BOOLEAN, NEW start \in Nat
    PROVE  Reading([at |-> start, said |-> <<>>], Parts(planes, pi4), start, 0)
<1> DEFINE parts == Parts(planes, pi4)
           walk == [at |-> start, said |-> <<>>]
<1>1. parts \in Seq(Seq(NamedWords)) /\ Len(parts) = Len(planes) + 1 /\ Len(planes) \in Nat
  BY PartsOfList
<1>2. Ends(parts)[0] = 0
  BY <1>1, FlattenPlaced
<1> HIDE DEF parts
<1>3. walk.at = start /\ walk.said = <<>>
  OBVIOUS
<1>4. <<>> \in Seq(Marks) /\ ElementsOf(<<>>) = {}
  BY DEF ElementsOf
<1>5. SaidUpto(parts, start, 0) = {}
  BY DEF SaidUpto
<1> HIDE DEF walk
<1>6. AtPart(walk, parts, start, 0)
  <2>1. ElementsOf(walk.said) = SaidUpto(parts, start, 0)
    BY <1>3, <1>4, <1>5, Zenon
  <2>2. 0 < Len(parts)
    BY <1>1
  <2>3. start + 0 = start /\ 0 <= 0
    OBVIOUS
  <2>4. walk.at = start + Ends(parts)[0] /\ 0 <= Ends(parts)[0]
    BY <1>2, <1>3, <2>3
  <2>5. QED
    BY <2>1, <2>2, <2>4 DEF AtPart
<1>7. QED
  BY <1>3, <1>4, <1>6 DEF Reading, walk, parts

(* The whole walk says what there is to be said. *)
LEMMA Walked ==
    ASSUME NEW planes \in Seq(SomePlane), NEW pi4 \in BOOLEAN, NEW start \in Nat
    PROVE  ElementsOf(DumpHvs(ListAt(planes, pi4, start), TRUE, pi4, start))
             = WordsSeen(planes, pi4, start)
<1> DEFINE parts == Parts(planes, pi4)
           d == [list |-> ListAt(planes, pi4, start), pi4 |-> pi4, stop |-> start + ListWindow]
           n == ListWindow
           rounds == [round \in 1..n |-> d]
           first == [at |-> start, said |-> <<>>]
           dump == DumpHvs(ListAt(planes, pi4, start), TRUE, pi4, start)
<1>1. DOMAIN rounds = 1..n /\ \A k \in 1..n : rounds[k] = d
  OBVIOUS
<1>2. dump = Walks!Fold(first, rounds).said
  <2>1. FoldLeft(Visit, first, rounds) = Walks!Fold(first, rounds)
    BY DEF Walks!Fold, Walks!FoldLeft, FoldLeft, MapThenFoldSet, Walks!MapThenFoldSet, Max, Walks!Max
  <2>2. dump = FoldLeft(Visit, first, rounds).said
    BY DEF DumpHvs
  <2>3. QED
    BY <2>1, <2>2
<1>3. n \in Nat
  BY PlanesAssumption
<1>4. Reading(first, parts, start, 0)
  BY WalkBegins
<1>5. \A k \in 1..n : \A walk :
        Reading(walk, parts, start, k - 1) => Reading(Visit(walk, d), parts, start, k)
  <2> SUFFICES ASSUME NEW k \in 1..n, NEW walk, Reading(walk, parts, start, k - 1)
               PROVE  Reading(Visit(walk, d), parts, start, k)
    OBVIOUS
  <2>1. k \in Nat \ {0}
    OBVIOUS
  <2>2. QED
    BY <2>1, VisitStep
<1>6. parts \in Seq(Seq(NamedWords)) /\ Len(parts) \in Nat
  BY PartsOfList
<1>7. WordsSeen(planes, pi4, start) = SaidUpto(parts, start, Len(parts))
  BY WordsSeenIs
<1> HIDE DEF parts, d, rounds, first, dump
<1>8. PICK g : Walks!Trace(g, first, rounds, n) /\ Walks!Fold(first, rounds) = g[n]
  BY <1>1, <1>3, Walks!FoldLeftTrace
<1>9. g[0] = first /\ \A k \in 1..n : g[k] = Visit(g[k - 1], d)
  BY <1>1, <1>8 DEF Walks!Trace
<1> DEFINE S == {k \in 0..n : Reading(g[k], parts, start, k)}
<1>10. 0 \in S
  BY <1>3, <1>4, <1>9
<1>11. ASSUME NEW k \in 0..(n - 1), k \in S
       PROVE  k + 1 \in S
  <2>1. PICK m \in 1..n : m = k + 1
    BY <1>3
  <2>2. g[m] = Visit(g[m - 1], d) /\ m - 1 = k
    BY <1>9, <2>1
  <2>3. Reading(g[m - 1], parts, start, m - 1)
    BY <1>11, <2>2
  <2>4. Reading(g[m], parts, start, m)
    BY <1>5, <2>2, <2>3
  <2>5. m \in 0..n
    BY <1>3
  <2>6. QED
    BY <2>1, <2>4, <2>5
<1>12. n \in S
  <2> HIDE DEF S
  <2>1. \A k \in 0..n : k \in S
    BY <1>3, <1>10, <1>11, Cat!IntervalInduction
  <2>2. n \in 0..n
    BY <1>3
  <2>3. QED
    BY <2>1, <2>2
<1> DEFINE walk == g[n]
<1>13. Reading(walk, parts, start, n)
  BY <1>12
<1> HIDE DEF walk, S
<1>14. ElementsOf(walk.said) = SaidUpto(parts, start, Len(parts))
  <2>1. CASE Outside(walk, parts, start)
    BY <2>1 DEF Outside
  <2>2. CASE AtPart(walk, parts, start, n)
    <3>1. n < Len(parts) /\ n <= Ends(parts)[n]
          /\ ElementsOf(walk.said) = SaidUpto(parts, start, n)
      BY <2>2 DEF AtPart
    <3>2. n \in 0..Len(parts)
      BY <1>3, <1>6, <3>1
    <3>3. Ends(parts)[n] \in Nat
      BY <1>6, <3>2, FlattenPlaced
    <3>4. Ends(parts)[n] >= ListWindow
      BY <1>3, <3>1, <3>3
    <3>5. SaidUpto(parts, start, Len(parts)) = SaidUpto(parts, start, n)
      BY <1>6, <3>2, <3>4, SaidBehind
    <3>6. QED
      BY <3>1, <3>5
  <2>3. QED
    BY <1>13, <2>1, <2>2 DEF Reading
<1>15. QED
  BY <1>2, <1>7, <1>8, <1>14 DEF dump, walk, parts

(* The dump of every display list, on both models and from every start, names
   each word of it as the scaler takes it, and a channel that is off has no
   dump: PlanesNamed. *)
THEOREM Named == Spec => []PlanesNamed
<1>1. OutputInv => PlanesNamed
  <2> SUFFICES ASSUME OutputInv, Ran("pv_dumper")
               PROVE  {output[n] : n \in DOMAIN output} =
                         IF job.enabled THEN WordsSeen(job.planes, job.pi4, job.start) ELSE {}
    BY DEF PlanesNamed
  <2>1. /\ output = DumpHvs(ListAt(job.planes, job.pi4, job.start), job.enabled, job.pi4,
                            job.start)
        /\ job \in Jobs /\ job.tool = "pv_dumper"
    BY DEF OutputInv, Ran
  <2>2. /\ job.planes \in Planes /\ job.pi4 \in BOOLEAN /\ job.start \in ListStarts
        /\ job.enabled \in BOOLEAN
    BY <2>1 DEF Jobs
  <2>3. job.planes \in Seq(SomePlane) /\ job.start \in Nat
    BY <2>2, PlanesAssumption DEF SomePlane
  <2>4. CASE job.enabled
    <3>1. output = DumpHvs(ListAt(job.planes, job.pi4, job.start), TRUE, job.pi4, job.start)
      BY <2>1, <2>2, <2>4
    <3>2. ElementsOf(output) = WordsSeen(job.planes, job.pi4, job.start)
      BY <2>2, <2>3, <3>1, Walked
    <3>3. QED
      BY <2>4, <3>2 DEF ElementsOf
  <2>5. CASE ~job.enabled
    <3>1. output = <<>>
      BY <2>1, <2>5 DEF DumpHvs
    <3>2. {output[n] : n \in DOMAIN output} = {}
      BY <3>1
    <3>3. QED
      BY <2>5, <3>2
  <2>6. QED
    BY <2>4, <2>5
<1>2. QED
  BY <1>1, OutputInitial, OutputStep, PTL DEF Spec

-----------------------------------------------------------------------------
(* Tables of a boot ROM *)

(* Some sequences, flattened up to the nth. *)
Upto(seqs, n) == FlattenSeq(SubSeq(seqs, 1, n))

(* One more is one behind. *)
LEMMA UptoNext ==
    ASSUME NEW S, NEW seqs \in Seq(Seq(S))
    PROVE  /\ Upto(seqs, 0) = <<>> /\ Upto(seqs, Len(seqs)) = FlattenSeq(seqs)
           /\ \A n \in 0..(Len(seqs) - 1) : Upto(seqs, n + 1) = Upto(seqs, n) \o seqs[n + 1]
<1>1. Len(seqs) \in Nat /\ \A m \in 1..Len(seqs) : seqs[m] \in Seq(S)
  OBVIOUS
<1>2. Upto(seqs, 0) = <<>>
  <2>1. SubSeq(seqs, 1, 0) = <<>>
    OBVIOUS
  <2>2. FlattenSeq(<<>>) = <<>>
    BY DEF FlattenSeq
  <2>3. QED
    BY <2>1, <2>2 DEF Upto
<1>3. SubSeq(seqs, 1, Len(seqs)) = seqs
  BY <1>1
<1>4. ASSUME NEW n \in 0..(Len(seqs) - 1)
      PROVE  Upto(seqs, n + 1) = Upto(seqs, n) \o seqs[n + 1]
  <2> DEFINE pre == SubSeq(seqs, 1, n)
  <2>1. n \in Nat /\ n + 1 \in 1..Len(seqs) /\ seqs[n + 1] \in Seq(S)
    BY <1>1
  <2>2. pre \in Seq(Seq(S))
    BY <1>1, <2>1
  <2>3. SubSeq(seqs, 1, n + 1) = Append(pre, seqs[n + 1])
    BY <1>1, <2>1
  <2> HIDE DEF pre
  <2>4. FlattenSeq(Append(pre, seqs[n + 1])) = FlattenSeq(pre) \o seqs[n + 1]
    BY <2>1, <2>2, FlattenAppend
  <2>5. QED
    BY <2>3, <2>4 DEF pre, Upto
<1>5. QED
  BY <1>2, <1>3, <1>4 DEF Upto

(* The words of an entry. *)
LEMMA EntryIs ==
    ASSUME NEW e \in TableEntries
    PROVE  LET words == EntryWords(e)
           IN  /\ words \in Seq(Plain) /\ Len(words) = 2 + Len(e.data)
               /\ words[1] = e.dest /\ words[2] = e.size
               /\ \A k \in 1..Len(e.data) : words[2 + k] = e.data[k]
<1> DEFINE words == EntryWords(e)
           s == <<e.dest, e.size>>
           data == e.data
<1>1. e.dest \in Plain /\ e.size \in Plain /\ data \in Seq(Plain)
  BY DEF TableEntries
<1>2. s \in Seq(Plain) /\ Len(s) = 2 /\ s[1] = e.dest /\ s[2] = e.size
  BY <1>1, TwoOf
<1>3. words = s \o data
  BY DEF EntryWords
<1> HIDE DEF s, words, data
<1>4. /\ words \in Seq(Plain) /\ Len(words) = Len(s) + Len(data)
      /\ \A k \in 1..Len(s) : words[k] = s[k]
      /\ \A k \in 1..Len(data) : words[Len(s) + k] = data[k]
  <2>1. s \in Seq(Plain) /\ data \in Seq(Plain)
    BY <1>1, <1>2
  <2>2. QED
    BY <1>3, <2>1, JoinedAs
<1>5. QED
  BY <1>2, <1>4 DEF words, data

(* The words of all entries of a table. *)
EntriesWords(entries) == [n \in DOMAIN entries |-> EntryWords(entries[n])]

(* They are sequences of plain words. *)
LEMMA EntriesAre ==
    ASSUME NEW entries \in Seq(TableEntries)
    PROVE  /\ EntriesWords(entries) \in Seq(Seq(Plain))
           /\ Len(EntriesWords(entries)) = Len(entries)
           /\ \A n \in 1..Len(entries) : EntriesWords(entries)[n] = EntryWords(entries[n])
<1> DEFINE m == Len(entries)
           W(n) == EntryWords(entries[n])
<1>1. m \in Nat /\ DOMAIN entries = 1..m /\ \A n \in 1..m : entries[n] \in TableEntries
  OBVIOUS
<1>2. \A n \in 1..m : W(n) \in Seq(Plain)
  BY <1>1, EntryIs
<1>3. EntriesWords(entries) = [n \in 1..m |-> W(n)]
  BY <1>1 DEF EntriesWords
<1> HIDE DEF W, m
<1>4. /\ EntriesWords(entries) \in Seq(Seq(Plain)) /\ Len(EntriesWords(entries)) = m
      /\ \A n \in 1..m : EntriesWords(entries)[n] = W(n)
  BY <1>1, <1>2, <1>3
<1>5. QED
  BY <1>4 DEF W, m

(* A table: the magic, where the words of each entry are, and two words of 0.
   The magic is nowhere else. *)
LEMMA TableWordsAre ==
    ASSUME NEW entries \in Seq(TableEntries)
    PROVE  LET p == TableWords(entries)
               words == EntriesWords(entries)
               n == Len(entries)
           IN  /\ p \in Seq(Int) /\ Len(p) = 3 + Ends(words)[n] /\ p[1] = Magic
               /\ \A k \in 2..Len(p) : p[k] # Magic
               /\ \A m \in 1..n : \A k \in 1..Len(words[m]) :
                     p[1 + Ends(words)[m - 1] + k] = words[m][k]
               /\ p[2 + Ends(words)[n]] = 0
<1> DEFINE p == TableWords(entries)
           words == EntriesWords(entries)
           n == Len(entries)
           flat == FlattenSeq(words)
           ends == Ends(words)
           s == <<Magic>>
           t == <<0, 0>>
           u == s \o flat
           l == Len(flat)
<1>1. n \in Nat /\ words \in Seq(Seq(Plain)) /\ Len(words) = n
  BY EntriesAre
<1>2. flat \in Seq(Plain) /\ Placed(flat, words, ends, n)
  BY <1>1, FlattenPlaced
<1>3. s \in Seq(Int) /\ Len(s) = 1 /\ s[1] = Magic
  BY RomsAssumption, OneOf
<1>4. t \in Seq(Int) /\ Len(t) = 2 /\ t[1] = 0 /\ t[2] = 0
  BY TwoOf
<1>5. p = u \o t
  BY DEF TableWords, EntriesWords
<1>6. Plain \subseteq Int /\ Magic \notin Plain /\ Magic # 0
  BY RomsAssumption DEF Plain
<1>7. l \in Nat /\ l = ends[n]
  BY <1>2 DEF Placed
<1> HIDE DEF flat, s, t, u, p, words, ends, n
<1>8. flat \in Seq(Int) /\ \A k \in 1..l : flat[k] # Magic
  <2>1. flat \in [1..l -> Plain]
    BY <1>2
  <2> HIDE DEF l
  <2>2. \A k \in 1..l : flat[k] \in Plain
    BY <2>1
  <2>3. flat \in [1..l -> Int]
    BY <1>6, <2>1
  <2>4. flat \in Seq(Int)
    BY <1>7, <2>3
  <2>5. QED
    BY <1>6, <2>2, <2>4
<1>9. /\ u \in Seq(Int) /\ Len(u) = 1 + l
      /\ u[1] = Magic /\ \A k \in 1..l : u[1 + k] = flat[k]
  <2>1. s \in Seq(Int) /\ flat \in Seq(Int)
    BY <1>3, <1>8
  <2>2. u = s \o flat
    BY DEF u
  <2>3. /\ u \in Seq(Int) /\ Len(u) = Len(s) + Len(flat)
        /\ \A k \in 1..Len(s) : u[k] = s[k]
        /\ \A k \in 1..Len(flat) : u[Len(s) + k] = flat[k]
    BY <2>1, <2>2, JoinedAs
  <2>4. QED
    BY <1>3, <2>3
<1>10. /\ p \in Seq(Int) /\ Len(p) = Len(u) + Len(t)
       /\ \A k \in 1..Len(u) : p[k] = u[k]
       /\ \A k \in 1..Len(t) : p[Len(u) + k] = t[k]
  <2>1. u \in Seq(Int) /\ t \in Seq(Int)
    BY <1>4, <1>9
  <2>2. QED
    BY <1>5, <2>1, JoinedAs
<1> HIDE DEF l
<1>11. Len(p) = 3 + l /\ p[1] = Magic
  <2>1. Len(u) = 1 + l /\ Len(t) = 2 /\ Len(p) = Len(u) + Len(t)
    BY <1>4, <1>9, <1>10
  <2>2. 1 \in 1..Len(u)
    BY <1>7, <1>9
  <2>3. p[1] = Magic
    BY <1>9, <1>10, <2>2
  <2>4. Len(p) = 3 + l
    BY <1>7, <2>1
  <2>5. QED
    BY <2>3, <2>4
<1>12. ASSUME NEW k \in 1..l
       PROVE  p[1 + k] = flat[k]
  <2>1. PICK h \in 1..Len(u) : h = 1 + k
    BY <1>7, <1>9
  <2>2. QED
    BY <1>9, <1>10, <2>1
<1>13. p[2 + l] = 0 /\ p[3 + l] = 0
  <2>1. p[Len(u) + 1] = 0 /\ p[Len(u) + 2] = 0
    BY <1>4, <1>10
  <2>2. Len(u) + 1 = 2 + l /\ Len(u) + 2 = 3 + l
    BY <1>7, <1>9
  <2>3. QED
    BY <2>1, <2>2
<1>14. ASSUME NEW k \in 2..Len(p)
       PROVE  p[k] # Magic
  <2>1. CASE k <= 1 + l
    <3>1. PICK h \in 1..l : k = 1 + h
      <4>1. k - 1 \in 1..l /\ k = 1 + (k - 1)
        BY <1>7, <2>1
      <4>2. QED
        BY <4>1
    <3>2. QED
      BY <1>8, <1>12, <3>1 DEF l
  <2>2. CASE k > 1 + l
    <3>1. k = 2 + l \/ k = 3 + l
      BY <1>7, <1>11, <2>2
    <3>2. QED
      BY <1>6, <1>13, <3>1
  <2>3. QED
    BY <1>7, <2>1, <2>2
<1>15. ASSUME NEW m \in 1..n, NEW k \in 1..Len(words[m])
       PROVE  p[1 + ends[m - 1] + k] = words[m][k]
  <2>1. /\ ends[m - 1] \in Nat /\ ends[m] = ends[m - 1] + Len(words[m]) /\ ends[m] <= ends[n]
        /\ flat[ends[m - 1] + k] = words[m][k]
    BY <1>2 DEF Placed
  <2>2. Len(words[m]) \in Nat
    BY <1>1
  <2>3. PICK h \in 1..l : h = ends[m - 1] + k
    <3> DEFINE x == Len(words[m])
               e == ends[m - 1]
    <3>1. x \in Nat /\ e \in Nat /\ ends[m] = e + x /\ k \in 1..x
      BY <2>1, <2>2
    <3> HIDE DEF x, e
    <3>2. e + k \in 1..l
      BY <1>7, <2>1, <3>1
    <3>3. QED
      BY <3>2 DEF e
  <2>4. 1 + ends[m - 1] + k = 1 + h
    BY <2>1, <2>3
  <2>5. QED
    BY <1>12, <2>1, <2>3, <2>4
<1>16. QED
  BY <1>7, <1>10, <1>11, <1>13, <1>14, <1>15 DEF p, words, n, ends

(* A slot that fits an entry has its address and its size, and tells where its
   data are. *)
Slot == [dest : Int, size : Int, src : Int]
SlotFits(rom, slot, e) ==
    /\ slot.dest = e.dest /\ slot.size = e.size
    /\ e.size > 0 => \E x \in Nat :
          /\ slot.src = 4 * x /\ x + Len(e.data) <= Len(rom)
          /\ \A k \in 1..Len(e.data) : rom[x + k] = e.data[k]

(* Slots are those of the entries, or as many as fail the assert. *)
Matches(rom, slots, entries) ==
    /\ slots \in Seq(Slot)
    /\ Len(entries) <= MaxSlots =>
          /\ Len(slots) = Len(entries)
          /\ \A n \in 1..Len(entries) : SlotFits(rom, slots[n], entries[n])
    /\ Len(entries) > MaxSlots => Len(slots) > MaxSlots

(* Words p are in the ROM from i. *)
InPlace(rom, from, p) == from + Len(p) <= Len(rom) /\ \A k \in 1..Len(p) : rom[from + k] = p[k]

(* What the loop over a table has found after q entries. *)
Found(rom, entries, from, table, q) ==
    /\ table.load = from + 1 + Ends(EntriesWords(entries))[q]
    /\ table.slots \in Seq(Slot) /\ Len(table.slots) = q
    /\ \A n \in 1..q : SlotFits(rom, table.slots[n], entries[n])

(* A round with an entry. *)
LEMMA EntryFound ==
    ASSUME NEW rom \in Seq(Int), NEW entries \in Seq(TableEntries), NEW x \in Nat,
           InPlace(rom, x, TableWords(entries)), NEW n \in 1..Len(entries),
           NEW table, Found(rom, entries, x, table, n - 1)
    PROVE  Found(rom, entries, x, NextSlot(table, [rom |-> rom, beyond |-> 0]), n)
<1> DEFINE bin == [rom |-> rom, beyond |-> 0]
           words == EntriesWords(entries)
           m == Len(entries)
           e == entries[n]
           d == Len(e.data)
           from == Ends(words)[n - 1]
           load == x + 1 + from
           p == TableWords(entries)
           l == Len(rom)
           slot == [dest |-> e.dest, size |-> e.size, src |-> 4 * (load + 2)]
           next == NextSlot(table, bin)
<1>1. e \in TableEntries /\ m \in Nat /\ l \in Nat
  OBVIOUS
<1>2. /\ e.dest \in Int /\ e.size \in Int /\ e.dest # 0 /\ e.size # 0 /\ e.data \in Seq(Plain)
      /\ d = IF e.size > 0 THEN (e.size + 3) \div 4 ELSE 0
  BY <1>1 DEF TableEntries, Plain
<1>3. words \in Seq(Seq(Plain)) /\ Len(words) = m /\ words[n] = EntryWords(e)
  BY EntriesAre
<1>4. /\ from \in Nat /\ Ends(words)[n] = from + Len(words[n]) /\ Ends(words)[n] <= Ends(words)[m]
      /\ Ends(words)[m] \in Nat
  BY <1>3, FlattenPlaced DEF Placed
<1>5. /\ Len(words[n]) = 2 + d /\ words[n][1] = e.dest /\ words[n][2] = e.size
      /\ \A k \in 1..d : words[n][2 + k] = e.data[k]
  BY <1>1, <1>3, EntryIs
<1>6. Len(p) = 3 + Ends(words)[m] /\ \A k \in 1..Len(words[n]) : p[1 + from + k] = words[n][k]
  BY TableWordsAre
<1>7. x + Len(p) <= l /\ \A k \in 1..Len(p) : rom[x + k] = p[k]
  BY DEF InPlace
<1>8. /\ table.load = load /\ table.slots \in Seq(Slot) /\ Len(table.slots) = n - 1
      /\ \A k \in 1..(n - 1) : SlotFits(rom, table.slots[k], entries[k])
  BY DEF Found
<1>9. d \in Nat
  BY <1>2
<1>10. bin.rom = rom /\ bin.beyond = 0
  OBVIOUS
<1> HIDE DEF bin, words, m, e, d, from, p, l
<1>11. ASSUME NEW k \in 1..(2 + d)
       PROVE  rom[load + k] = words[n][k] /\ load + k <= l
  <2>1. PICK h \in 1..Len(p) : h = 1 + from + k
    BY <1>4, <1>5, <1>6, <1>9
  <2>2. x + h = load + k /\ x + h <= l
    BY <1>1, <1>4, <1>6, <1>7, <2>1
  <2>3. rom[x + h] = p[h] /\ p[1 + from + k] = words[n][k]
    BY <1>5, <1>6, <1>7
  <2>4. QED
    BY <2>1, <2>2, <2>3
<1>12. load \in Nat
  BY <1>4
<1>13. load + 2 <= l /\ rom[load + 1] = e.dest /\ rom[load + 2] = e.size
  <2>1. 1 \in 1..(2 + d) /\ 2 \in 1..(2 + d)
    BY <1>9
  <2>2. QED
    BY <1>5, <1>11, <2>1
<1>14. x + 1 + Ends(words)[n] = load + 2 + d
  <2> DEFINE z == Ends(words)[n]
             w == Len(words[n])
  <2>1. z = from + w /\ w = 2 + d
    BY <1>4, <1>5
  <2> HIDE DEF z, w
  <2>2. x + 1 + z = load + 2 + d
    BY <1>4, <1>9, <2>1
  <2>3. QED
    BY <2>2 DEF z
<1> HIDE DEF load
<1>15. Word(bin.rom, bin.beyond, table.load) = e.dest
  BY <1>1, <1>8, <1>10, <1>12, <1>13 DEF Word, l
<1>16. Word(bin.rom, bin.beyond, table.load + 1) = e.size
  <2>1. load + 1 < l /\ (load + 1) + 1 = load + 2
    BY <1>1, <1>12, <1>13
  <2>2. QED
    BY <1>8, <1>10, <1>13, <2>1 DEF Word, l
<1>17. next = [load |-> After(load, e.size), slots |-> Append(table.slots, slot)]
  BY <1>2, <1>8, <1>15, <1>16 DEF NextSlot
<1>18. After(load, e.size) = load + 2 + d
  BY <1>2, <1>12 DEF After
<1>19. slot \in Slot /\ slot.dest = e.dest /\ slot.size = e.size /\ slot.src = 4 * (load + 2)
  <2>1. 4 * (load + 2) \in Int
    BY <1>12
  <2>2. QED
    BY <1>2, <2>1 DEF Slot
<1> HIDE DEF slot, next
<1>20. SlotFits(rom, slot, e)
  <2> DEFINE y == load + 2
  <2>1. y \in Nat
    BY <1>12
  <2>2. y + d <= l
    <3>1. 2 + d \in 1..(2 + d) /\ load + (2 + d) = y + d
      BY <1>9, <1>12
    <3>2. QED
      BY <1>11, <3>1
  <2>3. ASSUME NEW k \in 1..d
        PROVE  rom[y + k] = e.data[k]
    <3>1. PICK h \in 1..(2 + d) : h = 2 + k
      BY <1>9
    <3>2. load + h = y + k
      BY <1>12, <3>1
    <3>3. QED
      BY <1>5, <1>11, <3>1, <3>2
  <2>4. slot.src = 4 * y
    BY <1>19
  <2> HIDE DEF y
  <2>5. \E z \in Nat : /\ slot.src = 4 * z /\ z + d <= l
                       /\ \A k \in 1..d : rom[z + k] = e.data[k]
    BY <2>1, <2>2, <2>3, <2>4
  <2>6. QED
    BY <1>19, <2>5 DEF SlotFits, d, l
<1>21. /\ next.slots \in Seq(Slot) /\ Len(next.slots) = n
       /\ \A k \in 1..(n - 1) : next.slots[k] = table.slots[k]
       /\ next.slots[n] = slot
  <2>1. next.slots = Append(table.slots, slot)
    BY <1>17
  <2>2. QED
    BY <1>8, <1>19, <2>1
<1>22. next.load = x + 1 + Ends(words)[n]
  BY <1>14, <1>17, <1>18
<1>23. ASSUME NEW k \in 1..n
       PROVE  SlotFits(rom, next.slots[k], entries[k])
  <2>1. k \in 1..(n - 1) \/ k = n
    OBVIOUS
  <2>2. QED
    BY <1>8, <1>20, <1>21, <2>1 DEF e
<1>24. QED
  BY <1>21, <1>22, <1>23 DEF Found, next, bin, words

(* A round at the end of the table. *)
LEMMA TableEnded ==
    ASSUME NEW rom \in Seq(Int), NEW entries \in Seq(TableEntries), NEW x \in Nat,
           InPlace(rom, x, TableWords(entries)),
           NEW table, Found(rom, entries, x, table, Len(entries))
    PROVE  NextSlot(table, [rom |-> rom, beyond |-> 0]) = table
<1> DEFINE bin == [rom |-> rom, beyond |-> 0]
           words == EntriesWords(entries)
           m == Len(entries)
           p == TableWords(entries)
           e == Ends(words)[m]
           l == Len(rom)
<1>1. words \in Seq(Seq(Plain)) /\ Len(words) = m /\ m \in Nat
  BY EntriesAre
<1>2. e \in Nat
  BY <1>1, FlattenPlaced DEF Placed
<1>3. Len(p) = 3 + e /\ p[2 + e] = 0
  BY TableWordsAre
<1>4. x + Len(p) <= l /\ \A k \in 1..Len(p) : rom[x + k] = p[k]
  BY DEF InPlace
<1>5. table.load = x + 1 + e /\ bin.rom = rom /\ bin.beyond = 0
  BY DEF Found
<1>6. l \in Nat
  OBVIOUS
<1> HIDE DEF bin, words, m, p, e, l
<1>7. PICK h \in 1..Len(p) : h = 2 + e
  BY <1>2, <1>3
<1>8. rom[x + h] = 0 /\ table.load < l /\ table.load + 1 = x + h
  BY <1>2, <1>3, <1>4, <1>5, <1>6, <1>7
<1>9. Word(bin.rom, bin.beyond, table.load) = 0
  BY <1>5, <1>8 DEF Word, l
<1>10. NextSlot(table, bin) = table
  BY <1>9 DEF NextSlot
<1>11. QED
  BY <1>10 DEF bin

Tables == INSTANCE FoldTheorems WITH Op <- NextSlot

(* All rounds of the loop over a table. *)
LEMMA TableMatches ==
    ASSUME NEW rom \in Seq(Int), NEW entries \in Seq(TableEntries), NEW x \in Nat,
           InPlace(rom, x, TableWords(entries))
    PROVE  Matches(rom, Table(rom, 0, x), entries)
<1> DEFINE bin == [rom |-> rom, beyond |-> 0]
           n == MaxSlots + 1
           m == Len(entries)
           rounds == [slot \in 1..n |-> bin]
           first == [load |-> x + 1, slots |-> <<>>]
           slots == Table(rom, 0, x)
           Q(k) == IF k <= m THEN k ELSE m
<1>1. DOMAIN rounds = 1..n /\ \A k \in 1..n : rounds[k] = bin
  OBVIOUS
<1>2. slots = Tables!Fold(first, rounds).slots
  <2>1. FoldLeft(NextSlot, first, rounds) = Tables!Fold(first, rounds)
    BY DEF Tables!Fold, Tables!FoldLeft, FoldLeft, MapThenFoldSet, Tables!MapThenFoldSet,
           Max, Tables!Max
  <2>2. slots = FoldLeft(NextSlot, first, rounds).slots
    BY DEF Table
  <2>3. QED
    BY <2>1, <2>2
<1>3. n \in Nat /\ m \in Nat
  BY SlotsAssumption
<1>4. Found(rom, entries, x, first, 0)
  <2>1. Ends(EntriesWords(entries))[0] = 0
    BY EntriesAre, FlattenPlaced
  <2>2. <<>> \in Seq(Slot) /\ Len(<<>>) = 0
    OBVIOUS
  <2>3. first.load = x + 1 + 0 /\ first.slots = <<>>
    OBVIOUS
  <2> HIDE DEF first
  <2>4. first.slots \in Seq(Slot) /\ Len(first.slots) = 0
    BY <2>2, <2>3, Zenon
  <2>5. QED
    BY <2>1, <2>3, <2>4 DEF Found
<1>5. ASSUME NEW k \in 1..n, NEW table, Found(rom, entries, x, table, Q(k - 1))
      PROVE  Found(rom, entries, x, NextSlot(table, bin), Q(k))
  <2>1. CASE k <= m
    <3>1. k \in 1..m /\ Q(k - 1) = k - 1 /\ Q(k) = k
      BY <1>3, <2>1
    <3> HIDE DEF Q
    <3>2. QED
      BY <1>5, <3>1, EntryFound
  <2>2. CASE k > m
    <3>1. Q(k - 1) = m /\ Q(k) = m
      BY <1>3, <2>2
    <3> HIDE DEF Q
    <3>2. NextSlot(table, bin) = table
      BY <1>5, <3>1, TableEnded
    <3>3. QED
      BY <1>5, <3>1, <3>2
  <2>3. QED
    BY <1>3, <2>1, <2>2
<1>6. Q(0) = 0 /\ Q(n) = IF n <= m THEN n ELSE m
  BY <1>3
<1> HIDE DEF bin, rounds, first, slots, Q
<1>7. PICK g : Tables!Trace(g, first, rounds, n) /\ Tables!Fold(first, rounds) = g[n]
  BY <1>1, <1>3, Tables!FoldLeftTrace
<1>8. g[0] = first /\ \A k \in 1..n : g[k] = NextSlot(g[k - 1], bin)
  BY <1>1, <1>7 DEF Tables!Trace
<1> HIDE DEF n
<1> DEFINE S == {k \in 0..n : Found(rom, entries, x, g[k], Q(k))}
<1>9. 0 \in S
  BY <1>3, <1>4, <1>6, <1>8
<1>10. ASSUME NEW k \in 0..(n - 1), k \in S
       PROVE  k + 1 \in S
  <2>1. PICK j \in 1..n : j = k + 1
    BY <1>3
  <2>2. g[j] = NextSlot(g[j - 1], bin) /\ j - 1 = k
    BY <1>8, <2>1
  <2>3. Found(rom, entries, x, g[j - 1], Q(j - 1))
    BY <1>10, <2>2
  <2>4. Found(rom, entries, x, g[j], Q(j))
    BY <1>5, <2>2, <2>3
  <2>5. j \in 0..n
    BY <1>3
  <2>6. QED
    BY <2>1, <2>4, <2>5
<1>11. n \in S
  <2> HIDE DEF S
  <2>1. \A k \in 0..n : k \in S
    BY <1>3, <1>9, <1>10, Cat!IntervalInduction
  <2>2. n \in 0..n
    BY <1>3
  <2>3. QED
    BY <2>1, <2>2
<1>12. Found(rom, entries, x, g[n], Q(n)) /\ slots = g[n].slots
  BY <1>2, <1>7, <1>11
<1>13. slots \in Seq(Slot) /\ Len(slots) = Q(n)
       /\ \A k \in 1..Q(n) : SlotFits(rom, slots[k], entries[k])
  BY <1>12 DEF Found
<1>14. n = MaxSlots + 1 /\ MaxSlots \in Nat
  BY SlotsAssumption DEF n
<1>15. CASE m <= MaxSlots
  <2>1. Q(n) = m /\ ~(m > MaxSlots)
    BY <1>3, <1>6, <1>14, <1>15
  <2>2. QED
    BY <1>13, <1>15, <2>1 DEF Matches, slots
<1>16. CASE m > MaxSlots
  <2>1. Q(n) = n /\ n > MaxSlots /\ ~(m <= MaxSlots)
    BY <1>3, <1>6, <1>14, <1>16
  <2>2. Len(slots) > MaxSlots
    BY <1>13, <2>1
  <2>3. QED
    BY <1>13, <2>1, <2>2 DEF Matches, slots
<1>17. QED
  BY <1>3, <1>14, <1>15, <1>16

(* Slots of one table behind those of another. *)
LEMMA MatchesBoth ==
    ASSUME NEW S, NEW rom, NEW slots, NEW more, NEW entries \in Seq(S), NEW others \in Seq(S),
           Matches(rom, slots, entries), Matches(rom, more, others)
    PROVE  Matches(rom, slots \o more, entries \o others)
<1> DEFINE s == slots \o more
           e == entries \o others
           m == Len(entries)
           n == Len(others)
<1>1. slots \in Seq(Slot) /\ more \in Seq(Slot)
  BY DEF Matches
<1>2. /\ s \in Seq(Slot) /\ Len(s) = Len(slots) + Len(more)
      /\ \A k \in 1..Len(slots) : s[k] = slots[k]
      /\ \A k \in 1..Len(more) : s[Len(slots) + k] = more[k]
  BY <1>1, Concatenated
<1>3. /\ Len(e) = m + n
      /\ \A k \in 1..m : e[k] = entries[k]
      /\ \A k \in 1..n : e[m + k] = others[k]
  BY Concatenated
<1>4. m \in Nat /\ n \in Nat /\ Len(slots) \in Nat /\ Len(more) \in Nat /\ MaxSlots \in Nat
  BY <1>1, SlotsAssumption
<1>5. /\ m <= MaxSlots =>
            Len(slots) = m /\ \A k \in 1..m : SlotFits(rom, slots[k], entries[k])
      /\ m > MaxSlots => Len(slots) > MaxSlots
      /\ n <= MaxSlots =>
            Len(more) = n /\ \A k \in 1..n : SlotFits(rom, more[k], others[k])
      /\ n > MaxSlots => Len(more) > MaxSlots
  BY DEF Matches
<1> HIDE DEF s, e, m, n
<1>6. CASE m + n <= MaxSlots
  <2>1. m <= MaxSlots /\ n <= MaxSlots
    BY <1>4, <1>6
  <2>2. ASSUME NEW k \in 1..(m + n)
        PROVE  SlotFits(rom, s[k], e[k])
    <3>1. CASE k <= m
      <4>1. k \in 1..m
        BY <1>4, <3>1
      <4>2. s[k] = slots[k] /\ e[k] = entries[k]
        BY <1>2, <1>3, <1>5, <2>1, <4>1
      <4>3. QED
        BY <1>5, <2>1, <4>1, <4>2
    <3>2. CASE k > m
      <4>1. PICK h \in 1..n : k = m + h
        <5>1. k - m \in 1..n /\ k = m + (k - m)
          BY <1>4, <3>2
        <5>2. QED
          BY <5>1
      <4>2. s[k] = more[h] /\ e[k] = others[h]
        BY <1>2, <1>3, <1>5, <2>1, <4>1
      <4>3. QED
        BY <1>5, <2>1, <4>2
    <3>3. QED
      BY <1>4, <3>1, <3>2
  <2>3. Len(s) = m + n /\ ~(m + n > MaxSlots)
    <3>1. Len(slots) = m /\ Len(more) = n
      BY <1>5, <2>1
    <3>2. Len(s) = m + n
      BY <1>2, <3>1
    <3>3. QED
      BY <1>4, <1>6, <3>2
  <2>4. Matches(rom, s, e)
    BY <1>2, <1>3, <1>6, <2>2, <2>3 DEF Matches
  <2>5. QED
    BY <2>4 DEF s, e
<1>7. CASE m + n > MaxSlots
  <2>1. Len(slots) + Len(more) > MaxSlots /\ ~(m + n <= MaxSlots)
    BY <1>4, <1>5, <1>7
  <2>2. Matches(rom, s, e)
    BY <1>2, <1>3, <1>7, <2>1 DEF Matches
  <2>3. QED
    BY <2>2 DEF s, e
<1>8. QED
  BY <1>4, <1>6, <1>7

(* A ROM without a table. *)
LEMMA MatchesNone == \A rom : Matches(rom, <<>>, <<>>)
<1>1. <<>> \in Seq(Slot) /\ Len(<<>>) = 0
  OBVIOUS
<1>2. ~(0 > MaxSlots)
  BY SlotsAssumption
<1>3. QED
  BY <1>1, <1>2 DEF Matches

(* What the scan finds at each word. *)
SlotsOf(rom, n) == IF rom[n] = Magic THEN Table(rom, 0, n - 1) ELSE <<>>
SlotsFrom(rom) == [n \in 1..Len(rom) |-> SlotsOf(rom, n)]

(* Where there is no magic, the scan finds nothing. *)
LEMMA NothingFound ==
    ASSUME NEW rom, SlotsFrom(rom) \in Seq(Seq(Slot)), Len(SlotsFrom(rom)) = Len(rom),
           NEW a \in 0..Len(rom), NEW b \in a..Len(rom),
           \A k \in (a + 1)..b : rom[k] # Magic
    PROVE  Upto(SlotsFrom(rom), b) = Upto(SlotsFrom(rom), a)
<1> DEFINE seqs == SlotsFrom(rom)
           l == Len(rom)
           n == b - a
           T == {k \in 0..n : Upto(seqs, a + k) = Upto(seqs, a)}
<1>1. l \in Nat /\ seqs \in Seq(Seq(Slot)) /\ Len(seqs) = l
  OBVIOUS
<1>2. \A k \in 1..l : seqs[k] = SlotsOf(rom, k)
  BY DEF SlotsFrom
<1> HIDE DEF seqs, l, n
<1>3. a \in 0..l /\ b \in a..l /\ n = b - a /\ n \in Nat
  BY <1>1 DEF l, n
<1>4. 0 \in T
  BY <1>3
<1>5. ASSUME NEW k \in 0..(n - 1), k \in T
      PROVE  k + 1 \in T
  <2>1. PICK h \in 0..(l - 1) : h = a + k
    BY <1>1, <1>3
  <2>2. h + 1 \in (a + 1)..b /\ h + 1 \in 1..l /\ a + (k + 1) = h + 1 /\ k + 1 \in 0..n
    BY <1>1, <1>3, <2>1
  <2>3. seqs[h + 1] = <<>>
    <3>1. rom[h + 1] # Magic
      BY <2>2
    <3>2. QED
      BY <1>2, <2>2, <3>1 DEF SlotsOf
  <2>4. Upto(seqs, h + 1) = Upto(seqs, h) \o seqs[h + 1]
    BY <1>1, UptoNext
  <2>5. Upto(seqs, h) \in Seq(Slot)
    <3>1. SubSeq(seqs, 1, h) \in Seq(Seq(Slot))
      BY <1>1
    <3>2. QED
      BY <3>1, FlattenPlaced DEF Upto
  <2>6. Upto(seqs, h) \o <<>> = Upto(seqs, h)
    BY <2>5
  <2>7. Upto(seqs, h + 1) = Upto(seqs, h)
    BY <2>3, <2>4, <2>6
  <2>8. Upto(seqs, h) = Upto(seqs, a)
    BY <1>5, <2>1
  <2>9. QED
    BY <2>2, <2>7, <2>8
<1> HIDE DEF T
<1>6. \A k \in 0..n : k \in T
  BY <1>3, <1>4, <1>5, Cat!IntervalInduction
<1>7. n \in 0..n /\ a + n = b
  BY <1>3
<1>8. QED
  BY <1>6, <1>7 DEF T, seqs

(* Slots of any words have their types. *)
LEMMA NextSlotType ==
    ASSUME NEW rom \in Seq(Int), NEW table, table.load \in Nat, table.slots \in Seq(Slot)
    PROVE  LET next == NextSlot(table, [rom |-> rom, beyond |-> 0])
           IN  next.load \in Nat /\ next.slots \in Seq(Slot)
<1> DEFINE bin == [rom |-> rom, beyond |-> 0]
           load == table.load
           next == NextSlot(table, bin)
           dest == Word(bin.rom, bin.beyond, load)
           size == Word(bin.rom, bin.beyond, load + 1)
           slot == [dest |-> dest, size |-> size, src |-> 4 * (load + 2)]
<1>1. bin.rom = rom /\ bin.beyond = 0 /\ load \in Nat /\ Len(rom) \in Nat
  OBVIOUS
<1>2. \A x \in Nat : Word(rom, 0, x) \in Int
  <2> SUFFICES ASSUME NEW x \in Nat PROVE Word(rom, 0, x) \in Int
    OBVIOUS
  <2>1. x < Len(rom) => x + 1 \in 1..Len(rom)
    BY <1>1
  <2>2. QED
    BY <2>1 DEF Word
<1> HIDE DEF bin, load
<1>3. dest \in Int /\ size \in Int
  <2>1. load + 1 \in Nat
    BY <1>1
  <2>2. QED
    BY <1>1, <1>2, <2>1
<1>4. next = IF dest = 0 \/ size = 0 THEN table
             ELSE [load |-> After(load, size), slots |-> Append(table.slots, slot)]
  BY DEF NextSlot, load
<1> HIDE DEF dest, size
<1>5. After(load, size) \in Nat
  <2>1. size > 0 => (size + 3) \div 4 \in Nat
    BY <1>3
  <2>2. QED
    BY <1>1, <2>1 DEF After
<1>6. slot \in Slot
  <2>1. 4 * (load + 2) \in Int
    BY <1>1
  <2>2. QED
    BY <1>3, <2>1 DEF Slot
<1> HIDE DEF slot, next
<1>7. CASE dest = 0 \/ size = 0
  BY <1>4, <1>7 DEF next, bin
<1>8. CASE ~(dest = 0 \/ size = 0)
  <2>1. next.load = After(load, size) /\ next.slots = Append(table.slots, slot)
    BY <1>4, <1>8
  <2>2. Append(table.slots, slot) \in Seq(Slot)
    BY <1>6
  <2>3. QED
    BY <1>5, <2>1, <2>2 DEF next, bin
<1>9. QED
  BY <1>7, <1>8

(* The slots of a table, wherever the scan begins one. *)
LEMMA SlotsType ==
    ASSUME NEW rom \in Seq(Int), NEW x \in Nat
    PROVE  Table(rom, 0, x) \in Seq(Slot)
<1> DEFINE bin == [rom |-> rom, beyond |-> 0]
           n == MaxSlots + 1
           rounds == [slot \in 1..n |-> bin]
           first == [load |-> x + 1, slots |-> <<>>]
           slots == Table(rom, 0, x)
           Typed(table) == table.load \in Nat /\ table.slots \in Seq(Slot)
<1>1. DOMAIN rounds = 1..n /\ \A k \in 1..n : rounds[k] = bin
  OBVIOUS
<1>2. slots = Tables!Fold(first, rounds).slots
  <2>1. FoldLeft(NextSlot, first, rounds) = Tables!Fold(first, rounds)
    BY DEF Tables!Fold, Tables!FoldLeft, FoldLeft, MapThenFoldSet, Tables!MapThenFoldSet,
           Max, Tables!Max
  <2>2. slots = FoldLeft(NextSlot, first, rounds).slots
    BY DEF Table
  <2>3. QED
    BY <2>1, <2>2
<1>3. n \in Nat
  BY SlotsAssumption
<1>4. Typed(first)
  OBVIOUS
<1>5. \A table : Typed(table) => Typed(NextSlot(table, bin))
  BY NextSlotType
<1> HIDE DEF bin, rounds, first, slots, Typed
<1>6. PICK g : Tables!Trace(g, first, rounds, n) /\ Tables!Fold(first, rounds) = g[n]
  BY <1>1, <1>3, Tables!FoldLeftTrace
<1>7. g[0] = first /\ \A k \in 1..n : g[k] = NextSlot(g[k - 1], bin)
  BY <1>1, <1>6 DEF Tables!Trace
<1> HIDE DEF n
<1> DEFINE S == {k \in 0..n : Typed(g[k])}
<1>8. 0 \in S
  BY <1>3, <1>4, <1>7
<1>9. ASSUME NEW k \in 0..(n - 1), k \in S
      PROVE  k + 1 \in S
  <2>1. PICK j \in 1..n : j = k + 1
    BY <1>3
  <2>2. g[j] = NextSlot(g[j - 1], bin) /\ j - 1 = k /\ j \in 0..n
    BY <1>3, <1>7, <2>1
  <2>3. QED
    BY <1>5, <1>9, <2>1, <2>2
<1>10. n \in S
  <2> HIDE DEF S
  <2>1. \A k \in 0..n : k \in S
    BY <1>3, <1>8, <1>9, Cat!IntervalInduction
  <2>2. n \in 0..n
    BY <1>3
  <2>3. QED
    BY <2>1, <2>2
<1>11. QED
  BY <1>2, <1>6, <1>10 DEF Typed, slots

(* What the scan finds at each word, flattened, is what it finds. *)
LEMMA SlotsFromType ==
    ASSUME NEW rom \in Seq(Int)
    PROVE  /\ SlotsFrom(rom) \in Seq(Seq(Slot)) /\ Len(SlotsFrom(rom)) = Len(rom)
           /\ \A n \in 1..Len(rom) : SlotsFrom(rom)[n] = SlotsOf(rom, n)
           /\ Slots(rom, 0) = FlattenSeq(SlotsFrom(rom))
<1>1. Len(rom) \in Nat
  OBVIOUS
<1>2. \A n \in 1..Len(rom) : SlotsOf(rom, n) \in Seq(Slot)
  <2> SUFFICES ASSUME NEW n \in 1..Len(rom) PROVE SlotsOf(rom, n) \in Seq(Slot)
    OBVIOUS
  <2>1. n - 1 \in Nat
    OBVIOUS
  <2>2. Table(rom, 0, n - 1) \in Seq(Slot)
    BY <2>1, SlotsType
  <2>3. <<>> \in Seq(Slot)
    OBVIOUS
  <2>4. QED
    BY <2>2, <2>3 DEF SlotsOf
<1>3. Slots(rom, 0) = FlattenSeq(SlotsFrom(rom))
  BY DEF Slots, SlotsFrom, SlotsOf
<1>4. QED
  BY <1>1, <1>2, <1>3 DEF SlotsFrom

(* The words and the entries of the pieces. *)
WordsOf(pieces) == [n \in DOMAIN pieces |-> PieceWords(pieces[n])]
EntriesOf(pieces) == [n \in DOMAIN pieces |-> PieceEntries(pieces[n])]

(* A piece without entries has no magic; any other is a table. *)
LEMMA PiecesAre ==
    ASSUME NEW pieces \in Seq(Pieced)
    PROVE  LET m == Len(pieces)
           IN  /\ WordsOf(pieces) \in Seq(Seq(Int)) /\ Len(WordsOf(pieces)) = m
               /\ EntriesOf(pieces) \in Seq(Seq(TableEntries)) /\ Len(EntriesOf(pieces)) = m
               /\ \A n \in 1..m :
                     \/ /\ EntriesOf(pieces)[n] = <<>>
                        /\ \A k \in 1..Len(WordsOf(pieces)[n]) : WordsOf(pieces)[n][k] # Magic
                     \/ WordsOf(pieces)[n] = TableWords(EntriesOf(pieces)[n])
<1> DEFINE m == Len(pieces)
           W(n) == PieceWords(pieces[n])
           E(n) == PieceEntries(pieces[n])
<1>1. m \in Nat /\ DOMAIN pieces = 1..m /\ \A n \in 1..m : pieces[n] \in Pieced
  OBVIOUS
<1>2. ASSUME NEW n \in 1..m
      PROVE  /\ W(n) \in Seq(Int) /\ E(n) \in Seq(TableEntries)
             /\ \/ E(n) = <<>> /\ \A k \in 1..Len(W(n)) : W(n)[k] # Magic
                \/ W(n) = TableWords(E(n))
  <2> DEFINE p == pieces[n]
  <2>1. \/ p.kind = "code" /\ p.words \in Seq(Plain)
        \/ p.kind = "table" /\ p.entries \in Seq(TableEntries)
    BY <1>1 DEF Pieced
  <2> HIDE DEF p
  <2>2. CASE p.kind = "code" /\ p.words \in Seq(Plain)
    <3>1. W(n) = p.words /\ E(n) = <<>>
      BY <2>2 DEF PieceWords, PieceEntries, p
    <3> DEFINE s == p.words
               l == Len(s)
    <3>2. s \in [1..l -> Plain] /\ l \in Nat
      BY <2>2
    <3> HIDE DEF s, l
    <3>3. \A k \in 1..l : s[k] \in Plain
      BY <3>2
    <3>4. s \in [1..l -> Int] /\ \A k \in 1..l : s[k] # Magic
      BY <3>2, <3>3 DEF Plain
    <3>5. s \in Seq(Int)
      BY <3>2, <3>4
    <3>6. <<>> \in Seq(TableEntries)
      OBVIOUS
    <3>7. QED
      BY <3>1, <3>4, <3>5, <3>6 DEF s, l
  <2>3. CASE p.kind = "table" /\ p.entries \in Seq(TableEntries)
    <3>1. W(n) = TableWords(p.entries) /\ E(n) = p.entries
      BY <2>3 DEF PieceWords, PieceEntries, p
    <3>2. TableWords(p.entries) \in Seq(Int)
      BY <2>3, TableWordsAre
    <3>3. QED
      BY <2>3, <3>1, <3>2
  <2>4. QED
    BY <2>1, <2>2, <2>3
<1>3. WordsOf(pieces) = [n \in 1..m |-> W(n)] /\ EntriesOf(pieces) = [n \in 1..m |-> E(n)]
  BY <1>1 DEF WordsOf, EntriesOf
<1> HIDE DEF m, W, E
<1>4. /\ WordsOf(pieces) \in Seq(Seq(Int)) /\ Len(WordsOf(pieces)) = m
      /\ EntriesOf(pieces) \in Seq(Seq(TableEntries)) /\ Len(EntriesOf(pieces)) = m
      /\ \A n \in 1..m : WordsOf(pieces)[n] = W(n) /\ EntriesOf(pieces)[n] = E(n)
  BY <1>1, <1>2, <1>3
<1>5. QED
  BY <1>2, <1>4 DEF m

(* The scan over a piece. *)
LEMMA PieceScanned ==
    ASSUME NEW pieces \in Seq(Pieced), NEW n \in 1..Len(pieces),
           Matches(Layout(pieces),
                   Upto(SlotsFrom(Layout(pieces)), Ends(WordsOf(pieces))[n - 1]),
                   Upto(EntriesOf(pieces), n - 1))
    PROVE  Matches(Layout(pieces),
                   Upto(SlotsFrom(Layout(pieces)), Ends(WordsOf(pieces))[n]),
                   Upto(EntriesOf(pieces), n))
<1> DEFINE rom == Layout(pieces)
           words == WordsOf(pieces)
           entered == EntriesOf(pieces)
           m == Len(pieces)
           a == Ends(words)[n - 1]
           b == Ends(words)[n]
           w == words[n]
           e == entered[n]
           seqs == SlotsFrom(rom)
           l == Len(rom)
<1>1. /\ words \in Seq(Seq(Int)) /\ Len(words) = m
      /\ entered \in Seq(Seq(TableEntries)) /\ Len(entered) = m
      /\ \/ e = <<>> /\ \A k \in 1..Len(w) : w[k] # Magic
         \/ w = TableWords(e)
  BY PiecesAre
<1>2. rom = FlattenSeq(words)
  BY DEF Layout, WordsOf
<1>3. m \in Nat /\ n \in 1..m /\ n - 1 \in 0..(m - 1) /\ (n - 1) + 1 = n
  OBVIOUS
<1> HIDE DEF rom, words, entered, m
<1>4. /\ rom \in Seq(Int) /\ l = Ends(words)[m]
      /\ a \in Nat /\ b = a + Len(w) /\ b <= Ends(words)[m]
      /\ \A k \in 1..Len(w) : rom[a + k] = w[k]
  <2>1. rom \in Seq(Int) /\ Placed(rom, words, Ends(words), m)
    BY <1>1, <1>2, FlattenPlaced
  <2>2. QED
    BY <1>3, <2>1 DEF Placed
<1>5. w \in Seq(Int) /\ e \in Seq(TableEntries)
  BY <1>1, <1>3
<1>6. l \in Nat /\ Len(w) \in Nat
  BY <1>4, <1>5
<1>7. /\ seqs \in Seq(Seq(Slot)) /\ Len(seqs) = l
      /\ \A k \in 1..l : seqs[k] = SlotsOf(rom, k)
  BY <1>4, SlotsFromType
<1>8. Upto(entered, n) = Upto(entered, n - 1) \o e
  <2>1. \A k \in 0..(m - 1) : Upto(entered, k + 1) = Upto(entered, k) \o entered[k + 1]
    BY <1>1, UptoNext
  <2>2. QED
    BY <1>3, <2>1
<1>9. Upto(entered, n - 1) \in Seq(TableEntries)
  <2>1. SubSeq(entered, 1, n - 1) \in Seq(Seq(TableEntries))
    BY <1>1, <1>3
  <2>2. QED
    BY <2>1, FlattenPlaced DEF Upto
<1>10. Matches(rom, Upto(seqs, a), Upto(entered, n - 1))
  BY DEF rom, words, entered
<1> SUFFICES Matches(rom, Upto(seqs, b), Upto(entered, n))
  BY DEF rom, words, entered
<1> HIDE DEF a, b, w, e, seqs, l
<1>11. a \in 0..l /\ b \in a..l
  BY <1>4, <1>6
<1>12. CASE e = <<>> /\ \A k \in 1..Len(w) : w[k] # Magic
  <2>1. ASSUME NEW k \in (a + 1)..b
        PROVE  rom[k] # Magic
    <3>1. PICK h \in 1..Len(w) : k = a + h
      <4>1. k - a \in 1..Len(w) /\ k = a + (k - a)
        BY <1>4, <1>6
      <4>2. QED
        BY <4>1
    <3>2. QED
      BY <1>4, <1>12, <3>1
  <2>2. Upto(seqs, b) = Upto(seqs, a)
    BY <1>7, <1>11, <2>1, NothingFound DEF seqs, l
  <2>3. Upto(entered, n) = Upto(entered, n - 1)
    <3>1. Upto(entered, n - 1) \o <<>> = Upto(entered, n - 1)
      BY <1>9
    <3>2. QED
      BY <1>8, <1>12, <3>1
  <2>4. QED
    BY <1>10, <2>2, <2>3
<1>13. CASE w = TableWords(e)
  <2>1. Len(w) >= 1 /\ w[1] = Magic /\ \A k \in 2..Len(w) : w[k] # Magic
    <3> DEFINE z == Ends(EntriesWords(e))[Len(e)]
    <3>1. Len(w) = 3 + z /\ w[1] = Magic /\ \A k \in 2..Len(w) : w[k] # Magic
      BY <1>5, <1>13, TableWordsAre
    <3>2. z \in Nat
      BY <1>5, EntriesAre, FlattenPlaced DEF Placed
    <3> HIDE DEF z
    <3>3. QED
      BY <3>1, <3>2
  <2>2. a + 1 \in 1..l /\ rom[a + 1] = Magic /\ (a + 1) - 1 = a /\ a \in 0..(l - 1)
    <3>1. 1 \in 1..Len(w)
      BY <1>6, <2>1
    <3>2. rom[a + 1] = Magic
      BY <1>4, <2>1, <3>1
    <3>3. a + 1 <= l /\ l \in Nat /\ a \in Nat
      <4> DEFINE z == Len(w)
      <4>1. z >= 1 /\ z \in Nat /\ b = a + z
        BY <1>4, <1>6, <2>1
      <4> HIDE DEF z
      <4>2. b <= l /\ a \in Nat
        BY <1>4
      <4>3. QED
        BY <1>6, <4>1, <4>2
    <3>4. QED
      BY <3>2, <3>3
  <2>3. seqs[a + 1] = Table(rom, 0, a)
    BY <1>7, <2>2 DEF SlotsOf
  <2>4. InPlace(rom, a, w)
    BY <1>4 DEF InPlace, l
  <2>5. Matches(rom, Table(rom, 0, a), e)
    BY <1>4, <1>5, <1>13, <2>4, TableMatches
  <2>6. Upto(seqs, a + 1) = Upto(seqs, a) \o Table(rom, 0, a)
    BY <1>7, <2>2, <2>3, UptoNext
  <2>7. Matches(rom, Upto(seqs, a + 1), Upto(entered, n))
    BY <1>5, <1>8, <1>9, <1>10, <2>5, <2>6, MatchesBoth
  <2>8. ASSUME NEW k \in ((a + 1) + 1)..b
        PROVE  rom[k] # Magic
    <3>1. PICK h \in 2..Len(w) : k = a + h
      <4>1. k - a \in 2..Len(w) /\ k = a + (k - a)
        BY <1>4, <1>6
      <4>2. QED
        BY <4>1
    <3>2. h \in 1..Len(w)
      BY <1>6
    <3>3. QED
      BY <1>4, <2>1, <3>1, <3>2
  <2>9. a + 1 \in 0..l /\ b \in (a + 1)..l
    BY <1>4, <1>6, <1>11, <2>1, <2>2
  <2>10. Upto(seqs, b) = Upto(seqs, a + 1)
    BY <1>7, <2>8, <2>9, NothingFound DEF seqs, l
  <2>11. QED
    BY <2>7, <2>10
<1>14. QED
  BY <1>1, <1>12, <1>13

(* The whole scan. *)
LEMMA Scanned ==
    ASSUME NEW pieces \in Seq(Pieced)
    PROVE  /\ Layout(pieces) \in Seq(Int) /\ Entered(pieces) \in Seq(TableEntries)
           /\ Matches(Layout(pieces), Slots(Layout(pieces), 0), Entered(pieces))
<1> DEFINE rom == Layout(pieces)
           words == WordsOf(pieces)
           entered == EntriesOf(pieces)
           m == Len(pieces)
           seqs == SlotsFrom(rom)
           S == {k \in 0..m : Matches(rom, Upto(seqs, Ends(words)[k]), Upto(entered, k))}
<1>1. /\ words \in Seq(Seq(Int)) /\ Len(words) = m
      /\ entered \in Seq(Seq(TableEntries)) /\ Len(entered) = m
  BY PiecesAre
<1>2. rom = FlattenSeq(words) /\ Entered(pieces) = FlattenSeq(entered)
  BY DEF Layout, WordsOf, Entered, EntriesOf
<1>3. m \in Nat
  OBVIOUS
<1>4. ASSUME NEW k \in 0..(m - 1), k \in S
      PROVE  k + 1 \in S
  <2>1. PICK n \in 1..m : n = k + 1
    BY <1>3
  <2>2. n - 1 = k /\ n \in 0..m
    BY <1>3, <2>1
  <2>3. Matches(rom, Upto(seqs, Ends(words)[n - 1]), Upto(entered, n - 1))
    BY <1>4, <2>2
  <2>4. Matches(rom, Upto(seqs, Ends(words)[n]), Upto(entered, n))
    BY <2>3, PieceScanned
  <2>5. QED
    BY <2>1, <2>2, <2>4
<1> HIDE DEF rom, words, entered, m
<1>5. rom \in Seq(Int) /\ Ends(words)[m] = Len(rom) /\ Ends(words)[0] = 0
  <2>1. rom \in Seq(Int) /\ Placed(rom, words, Ends(words), m) /\ Ends(words)[0] = 0
    BY <1>1, <1>2, FlattenPlaced
  <2>2. QED
    BY <2>1 DEF Placed
<1>6. FlattenSeq(entered) \in Seq(TableEntries)
  BY <1>1, FlattenPlaced
<1>7. /\ seqs \in Seq(Seq(Slot)) /\ Len(seqs) = Len(rom)
      /\ Slots(rom, 0) = FlattenSeq(seqs)
  BY <1>5, SlotsFromType
<1> HIDE DEF seqs
<1>8. Upto(seqs, 0) = <<>> /\ Upto(seqs, Len(rom)) = Slots(rom, 0)
  <2>1. Upto(seqs, 0) = <<>> /\ Upto(seqs, Len(seqs)) = FlattenSeq(seqs)
    BY <1>7, UptoNext
  <2>2. QED
    BY <1>7, <2>1
<1>9. Upto(entered, 0) = <<>> /\ Upto(entered, m) = FlattenSeq(entered)
  <2>1. Upto(entered, 0) = <<>> /\ Upto(entered, Len(entered)) = FlattenSeq(entered)
    BY <1>1, UptoNext
  <2>2. QED
    BY <1>1, <2>1
<1>10. 0 \in S
  BY <1>3, <1>5, <1>8, <1>9, MatchesNone
<1>11. m \in S
  <2> HIDE DEF S
  <2>1. \A k \in 0..m : k \in S
    BY <1>3, <1>4, <1>10, Cat!IntervalInduction
  <2>2. m \in 0..m
    BY <1>3
  <2>3. QED
    BY <2>1, <2>2
<1>12. Matches(rom, Slots(rom, 0), FlattenSeq(entered))
  <2>1. Matches(rom, Upto(seqs, Ends(words)[m]), Upto(entered, m))
    BY <1>11
  <2>2. QED
    BY <1>5, <1>8, <1>9, <2>1
<1>13. QED
  BY <1>2, <1>5, <1>6, <1>12 DEF rom

(* What a loader gets for the header of a slot that fits an entry. *)
LEMMA SegmentLoaded ==
    ASSUME NEW rom \in Seq(Int), NEW slot, NEW e \in TableEntries, SlotFits(rom, slot, e)
    PROVE  Loaded(rom, Segment(slot)) = Expected(e)
<1> DEFINE header == Segment(slot)
<1>1. slot.dest = e.dest /\ slot.size = e.size
  BY DEF SlotFits
<1>2. /\ e.size \in Int /\ e.data \in Seq(Plain)
      /\ Len(e.data) = IF e.size > 0 THEN (e.size + 3) \div 4 ELSE 0
  BY DEF TableEntries, Plain
<1>3. /\ header.vaddr = slot.dest
      /\ header.offset = IF slot.size > 0 THEN RomOffset + slot.src ELSE 0
      /\ header.filesz = IF slot.size > 0 THEN slot.size ELSE 0
      /\ header.memsz = IF slot.size > 0 THEN slot.size ELSE -slot.size
  BY DEF Segment
<1> HIDE DEF header
<1>4. /\ header.vaddr = e.dest
      /\ header.memsz = IF e.size > 0 THEN e.size ELSE -e.size
  BY <1>1, <1>3
<1>5. CASE e.size > 0
  <2>1. PICK x \in Nat : /\ slot.src = 4 * x /\ x + Len(e.data) <= Len(rom)
                         /\ \A k \in 1..Len(e.data) : rom[x + k] = e.data[k]
    BY <1>5 DEF SlotFits
  <2> DEFINE d == (e.size + 3) \div 4
             from == (header.offset - RomOffset) \div 4
             data == WordsAt(rom, header.offset, header.filesz)
  <2>2. header.filesz = e.size /\ header.filesz # 0 /\ header.offset = RomOffset + 4 * x
    BY <1>1, <1>2, <1>3, <1>5, <2>1
  <2>3. from = x
    <3> DEFINE o == header.offset
    <3>1. o = RomOffset + 4 * x /\ RomOffset \in Nat
      BY <2>2, SlotsAssumption
    <3> HIDE DEF o
    <3>2. o - RomOffset = 4 * x
      BY <3>1
    <3>3. (4 * x) \div 4 = x
      OBVIOUS
    <3>4. QED
      BY <3>2, <3>3 DEF o
  <2>4. d = Len(e.data) /\ d \in Nat
    BY <1>2, <1>5
  <2>5. data = [k \in 1..d |-> Word(rom, 0, x + k - 1)]
    BY <2>2, <2>3 DEF WordsAt
  <2> HIDE DEF d, from, data
  <2>6. ASSUME NEW k \in 1..d
        PROVE  Word(rom, 0, x + k - 1) = e.data[k]
    <3>1. x + k - 1 < Len(rom) /\ (x + k - 1) + 1 = x + k
      <4>1. Len(rom) \in Nat /\ x + d <= Len(rom)
        BY <2>1, <2>4
      <4>2. QED
        BY <2>4, <4>1
    <3>2. rom[x + k] = e.data[k]
      BY <2>1, <2>4
    <3>3. QED
      BY <3>1, <3>2 DEF Word
  <2>7. e.data = [k \in 1..d |-> e.data[k]]
    BY <1>2, <2>4
  <2>8. data = e.data
    BY <2>5, <2>6, <2>7
  <2>9. QED
    BY <1>4, <2>2, <2>8 DEF Loaded, Expected, data, header
<1>6. CASE ~(e.size > 0)
  <2>1. header.filesz = 0
    BY <1>1, <1>3, <1>6
  <2>2. e.data = <<>>
    <3>1. Len(e.data) = 0
      BY <1>2, <1>6
    <3>2. QED
      BY <1>2, <3>1
  <2>3. QED
    BY <1>4, <2>1, <2>2 DEF Loaded, Expected, header
<1>7. QED
  BY <1>5, <1>6

(* What a loader gets for the header of the whole ROM. *)
WholeRom(rom) == [vaddr |-> RomAddress, offset |-> RomOffset,
                  filesz |-> 4 * Len(rom), memsz |-> 4 * Len(rom)]

(* It is the ROM, where it is mapped. *)
LEMMA WholeLoaded ==
    ASSUME NEW rom \in Seq(Int)
    PROVE  Loaded(rom, WholeRom(rom)) = [dest |-> RomAddress, memory |-> 4 * Len(rom), data |-> rom]
<1> DEFINE l == Len(rom)
           header == WholeRom(rom)
           size == 4 * l
           data == IF size = 0 THEN <<>> ELSE WordsAt(rom, RomOffset, size)
<1>1. l \in Nat
  OBVIOUS
<1>2. Loaded(rom, header) = [dest |-> RomAddress, memory |-> size, data |-> data]
  BY DEF Loaded, WholeRom
<1>3. rom = [k \in 1..l |-> rom[k]]
  OBVIOUS
<1>4. data = rom
  <2>1. CASE l = 0
    <3>1. size = 0 /\ rom = <<>>
      BY <2>1
    <3>2. QED
      BY <3>1
  <2>2. CASE l # 0
    <3>1. size # 0
      BY <1>1, <2>2
    <3>2. (size + 3) \div 4 = l
      <4> HIDE DEF l
      <4>1. (4 * l + 3) \div 4 = l
        BY <1>1
      <4>2. QED
        BY <4>1
    <3>3. (RomOffset - RomOffset) \div 4 = 0
      BY SlotsAssumption
    <3> HIDE DEF l, size
    <3>4. WordsAt(rom, RomOffset, size) = [k \in 1..l |-> Word(rom, 0, 0 + k - 1)]
      BY <3>2, <3>3 DEF WordsAt
    <3>5. ASSUME NEW k \in 1..l
          PROVE  Word(rom, 0, 0 + k - 1) = rom[k]
      <4>1. 0 + k - 1 < l /\ (0 + k - 1) + 1 = k
        BY <1>1
      <4>2. QED
        BY <4>1 DEF Word, l
    <3>6. WordsAt(rom, RomOffset, size) = rom
      BY <1>3, <3>4, <3>5
    <3>7. QED
      BY <3>1, <3>6
  <2>3. QED
    BY <2>1, <2>2
<1>5. QED
  BY <1>2, <1>4

(* For every ROM that a linker lays out, a loader of the file gets the ROM and
   what its tables tell, or the assert stops a ROM with too many entries:
   TablesLoaded. *)
THEOREM RomLoads == Spec => []TablesLoaded
<1>1. OutputInv => TablesLoaded
  <2> SUFFICES ASSUME OutputInv, Ran("elf-tool") PROVE TablesLoaded
    BY DEF TablesLoaded
  <2> DEFINE rom == Layout(job.pieces)
             entries == Entered(job.pieces)
             slots == Slots(rom, 0)
             whole == WholeRom(rom)
             segments == [n \in DOMAIN slots |-> Segment(slots[n])]
             headers == output.headers
             l == Len(slots)
             m == Len(entries)
  <2>1. output = Headers(rom, 0) /\ job \in Jobs /\ job.tool = "elf-tool"
    BY DEF OutputInv, Ran
  <2>2. job.pieces \in Roms
    BY <2>1 DEF Jobs
  <2>3. job.pieces \in Seq(Pieced)
    BY <2>2, RomsAssumption
  <2>4. /\ rom \in Seq(Int) /\ entries \in Seq(TableEntries) /\ Matches(rom, slots, entries)
    BY <2>3, Scanned
  <2>5. Headers(rom, 0) = [aborted |-> l > MaxSlots, headers |-> <<whole>> \o segments]
    BY Zenon DEF Headers, WholeRom
  <2>6. output.aborted = (l > MaxSlots) /\ headers = <<whole>> \o segments
    <3> DEFINE x == l > MaxSlots
               y == <<whole>> \o segments
    <3>1. output = [aborted |-> x, headers |-> y]
      BY <2>1, <2>5, Zenon
    <3> HIDE DEF x, y
    <3>2. output.aborted = x /\ output.headers = y
      BY <3>1
    <3>3. QED
      BY <3>2, Zenon DEF x, y
  <2>7. Loaded(rom, whole) = [dest |-> RomAddress, memory |-> 4 * Len(rom), data |-> rom]
    BY <2>4, WholeLoaded
  <2> HIDE DEF rom, entries, slots
  <2>8. /\ slots \in Seq(Slot)
        /\ m <= MaxSlots => l = m /\ \A n \in 1..m : SlotFits(rom, slots[n], entries[n])
        /\ m > MaxSlots => l > MaxSlots
    BY <2>4 DEF Matches
  <2>9. l \in Nat /\ m \in Nat /\ MaxSlots \in Nat /\ DOMAIN slots = 1..l /\ DOMAIN entries = 1..m
    BY <2>4, <2>8, SlotsAssumption
  <2> DEFINE H == {whole} \cup {Segment(slots[n]) : n \in 1..l}
  <2>10. segments \in Seq(H) /\ Len(segments) = l /\ \A n \in 1..l : segments[n] = Segment(slots[n])
    <3> DEFINE G(n) == Segment(slots[n])
    <3>1. segments = [n \in 1..l |-> G(n)] /\ \A n \in 1..l : G(n) \in H
      BY <2>9
    <3> HIDE DEF G, segments, l, H
    <3>2. segments \in Seq(H) /\ Len(segments) = l /\ \A n \in 1..l : segments[n] = G(n)
      BY <2>9, <3>1
    <3>3. QED
      BY <3>2 DEF G
  <2>11. <<whole>> \in Seq(H) /\ Len(<<whole>>) = 1 /\ <<whole>>[1] = whole
    BY OneOf
  <2>12. /\ Len(headers) = 1 + l /\ headers[1] = whole
         /\ \A n \in 1..l : headers[1 + n] = Segment(slots[n])
    <3> DEFINE s == <<whole>>
    <3> HIDE DEF s
    <3>1. s \in Seq(H) /\ Len(s) = 1 /\ s[1] = whole /\ headers = s \o segments
      BY <2>6, <2>11 DEF s
    <3> HIDE DEF H, segments, headers, l
    <3>2. s \in Seq(H) /\ segments \in Seq(H)
      BY <2>10, <3>1
    <3>3. headers = s \o segments
      BY <3>1
    <3>4. /\ Len(headers) = Len(s) + Len(segments)
          /\ \A k \in 1..Len(s) : headers[k] = s[k]
          /\ \A k \in 1..Len(segments) : headers[Len(s) + k] = segments[k]
      BY <3>2, <3>3, JoinedAs
    <3>5. QED
      BY <2>10, <3>1, <3>4
  <2> HIDE DEF whole, segments, headers, l, m
  <2>13. (l > MaxSlots) <=> (m > MaxSlots)
    BY <2>8, <2>9
  <2>14. output.aborted <=> m > MaxSlots
    BY <2>6, <2>13, Zenon
  <2>15. ASSUME ~output.aborted
         PROVE  /\ Loaded(rom, headers[1]) =
                      [dest |-> RomAddress, memory |-> 4 * Len(rom), data |-> rom]
                /\ [n \in 1..(Len(headers) - 1) |-> Loaded(rom, headers[n + 1])]
                      = [n \in DOMAIN entries |-> Expected(entries[n])]
    <3>1. ~(m > MaxSlots)
      BY <2>14, <2>15, Zenon
    <3>2. l = m /\ \A n \in 1..m : SlotFits(rom, slots[n], entries[n])
      BY <2>8, <2>9, <3>1
    <3>3. Loaded(rom, headers[1]) =
             [dest |-> RomAddress, memory |-> 4 * Len(rom), data |-> rom]
      BY <2>7, <2>12
    <3>4. Len(headers) - 1 = m
      BY <2>9, <2>12, <3>2
    <3>5. ASSUME NEW n \in 1..m
          PROVE  Loaded(rom, headers[n + 1]) = Expected(entries[n])
      <4>1. headers[n + 1] = Segment(slots[n])
        <5>1. n + 1 = 1 + n
          BY <2>9
        <5>2. QED
          BY <2>12, <3>2, <5>1
      <4>2. entries[n] \in TableEntries
        BY <2>4 DEF m
      <4>3. QED
        BY <2>4, <3>2, <4>1, <4>2, SegmentLoaded
    <3>6. [n \in 1..m |-> Loaded(rom, headers[n + 1])] = [n \in 1..m |-> Expected(entries[n])]
      BY <3>5
    <3>7. QED
      BY <2>9, <3>3, <3>4, <3>6
  <2>16. QED
    BY <2>14, <2>15 DEF TablesLoaded, rom, entries, headers, m
<1>2. QED
  BY <1>1, OutputInitial, OutputStep, PTL DEF Spec
=============================================================================
