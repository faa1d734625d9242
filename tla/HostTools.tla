------------------------------ MODULE HostTools ------------------------------
(***************************************************************************)
(* The programs and libraries that take an input and give an output.  A    *)
(* behaviour is one of them at work: the pure ones give their output in a  *)
(* step, the hash takes its message byte by byte, and the test of tearing  *)
(* runs against the kernel.                                                *)
(***************************************************************************)
EXTENDS UsbString, ElfTool, Sha256, HvsList, MemoryWindow, Edid, PageFlip

CONSTANTS
    Language, StringTable, \* strings of a gadget, as characters
    Texts,        \* other strings, as characters
    Roms,         \* pieces of a boot ROM
    Planes,       \* display lists, and where they start
    ListStarts,
    Areas,        \* memory to map or dump: its base, its size
    Timings       \* detailed timings

ASSUME StringsAssumption ==
    Language \in Nat /\ StringTable \in Seq([id : Nat \ {0}, s : Seq(Characters)])

ASSUME TextsAssumption == Texts \subseteq Seq(Characters)

(* What a linker lays out. *)
ASSUME RomsAssumption == Magic \in Int \ {0} /\ Roms \subseteq Seq(Pieced)

(* The words of a plane behind the first may be any. *)
ASSUME PlanesAssumption ==
    /\ ListStarts \subseteq Nat /\ ListWindow \in Nat
    /\ Planes \subseteq Seq([scaled : BOOLEAN, flip : BOOLEAN, looks : ListWords])

ASSUME AreasAssumption == Areas \subseteq [base : Nat, size : Nat]

(* What the fields of a detailed timing have room for; vbp has its type. *)
ASSUME TimingsAssumption ==
    \A t \in Timings :
        /\ t \in [clock : Nat, hactive : Nat, hfp : Nat, hsync : Nat, hbp : Nat,
                  vactive : Nat, vfp : Nat, vsync : Nat, vbp : Nat, interlaced : BOOLEAN]
        /\ t.clock < 65536 /\ t.hactive < 4096 /\ t.vactive < 4096
        /\ t.hfp < 1024 /\ t.hsync < 1024 /\ t.vfp < 64 /\ t.vsync < 64
        /\ t.vbp < 256 /\ t.hfp + t.hsync + t.hbp < 4096

VARIABLES job, ran, output
toolVars == <<job, ran, output>>
vars == <<job, ran, output, ctx_data, datalen, bitlen, transformed, taken, hashed,
          at, i, frames, screen, pending, events, refused>>

Encoded(table) == [n \in DOMAIN table |-> [id |-> table[n].id, s |-> Utf8(table[n].s)]]
Ids == {StringTable[n].id : n \in DOMAIN StringTable}

Jobs ==
    [tool : {"usbstring"}, chars : Texts]
    \cup [tool : {"stringtab"}, id : Ids \cup {0, Cardinality(Ids) + 1}]
    \cup [tool : {"elf-tool"}, pieces : Roms]
    \cup [tool : {"pv_dumper"}, planes : Planes, pi4 : BOOLEAN, start : ListStarts,
          enabled : BOOLEAN]
    \cup [tool : {"mapmem", "ramdumper"}, area : Areas]
    \cup [tool : {"edid"}, timing : Timings]
    \cup [tool : {"sha256", "tearing"}]

Init ==
    /\ job \in Jobs /\ ran = FALSE /\ output = <<>>
    /\ ShaInit /\ FlipInit

(* A tool that takes one step. *)
Run(tool, result) ==
    /\ job.tool = tool /\ ~ran
    /\ ran' = TRUE /\ output' = result
    /\ UNCHANGED <<job, shaVars, flipVars>>

RunUsbString ==
    \/ Run("usbstring", StringDescriptor(Utf8(job.chars)))
    \/ Run("stringtab", GetString(Language, Encoded(StringTable), job.id))
RunElfTool == Run("elf-tool", Headers(Layout(job.pieces), 0))
RunPvDumper ==
    Run("pv_dumper", DumpHvs(ListAt(job.planes, job.pi4, job.start), job.enabled, job.pi4,
                             job.start))
RunMapMem == Run("mapmem", MapMem(job.area.base, job.area.size))
RunRamDumper == Run("ramdumper", RamDumper(job.area.base, job.area.size))
RunEdid == Run("edid", EdidBlock(job.timing))
RunSha256 == job.tool = "sha256" /\ ShaNext /\ UNCHANGED <<toolVars, flipVars>>
RunTearing == job.tool = "tearing" /\ FlipNext /\ UNCHANGED <<toolVars, shaVars>>

Next == RunUsbString \/ RunElfTool \/ RunPvDumper \/ RunMapMem \/ RunRamDumper \/ RunEdid
        \/ RunSha256 \/ RunTearing

(* A program that can go on does, and the display refreshes; only the test of
   tearing has something to wait for. *)
Fairness == WF_vars(RunTearing)
Spec == Init /\ [][Next]_vars /\ Fairness

Ran(tool) == ran /\ job.tool = tool

-----------------------------------------------------------------------------
(* What must hold *)

(* The test of tearing comes to its end, unless the kernel refuses a flip: it
   is not left waiting in read for an event that nothing sends. *)
TearingEnds == job.tool = "tearing" => FlipsEnd

(* usbstring.c: "2-byte sequence: 00000yyyyyxxxxxx = 110yyyyy 10xxxxxx", and
   three bytes alike: what is correct UTF-8 is converted. *)
Utf8Converted == Ran("usbstring") => HostReads(output) = FirstChars(job.chars)

TextServed(chars) ==
    \/ HostReads(output) = FirstChars(chars)
    \/ output = Stall /\ \E n \in DOMAIN FirstChars(chars) : FirstChars(chars)[n] >= 128
TableServed ==
    CASE job.id = 0 -> HostReads(output) = <<Language>>
      [] job.id \in Ids -> \E n \in DOMAIN StringTable :
            StringTable[n].id = job.id /\ TextServed(StringTable[n].s)
      [] OTHER -> output = Stall

(* A host reads the characters of a text that fit in a descriptor, or gets a
   stall, and that only when one of them is not ASCII.  So is every id of a
   table answered, with the text of one of its strings, next to the language
   for 0 and a stall for an id without a string. *)
StringsServed ==
    (Ran("usbstring") => TextServed(job.chars)) /\ (Ran("stringtab") => TableServed)

(* A loader of the ELF file puts the ROM, and the data of every entry of its
   tables, where the ROM's own start-up code would, with memory cleared where
   it would clear it; the assert stops a ROM with more entries than slots. *)
TablesLoaded ==
    Ran("elf-tool") =>
        LET rom == Layout(job.pieces)
            entries == Entered(job.pieces)
        IN  /\ output.aborted <=> Len(entries) > MaxSlots
            /\ ~output.aborted =>
                  /\ Loaded(rom, output.headers[1]) =
                        [dest |-> RomAddress, memory |-> 4 * Len(rom), data |-> rom]
                  /\ [n \in 1..(Len(output.headers) - 1) |-> Loaded(rom, output.headers[n + 1])]
                        = [n \in DOMAIN entries |-> Expected(entries[n])]

(* The dump of a display list names each word as the scaler takes it, on both
   models, whatever the words behind a control word look like. *)
PlanesNamed ==
    Ran("pv_dumper") =>
        {output[n] : n \in DOMAIN output} =
            IF job.enabled THEN WordsSeen(job.planes, job.pi4, job.start) ELSE {}

WholeLines == job.area.base % 16 = 0 /\ job.area.size % 16 = 0
MappingHolds ==
    /\ \A a \in job.area.base..(job.area.base + job.area.size - 1) : Mapped(output, a)
    /\ output.address = job.area.base
    /\ UnmapMem(output, job.area.size) = output.pages

DumpIsTrue ==
    /\ {shown.says : shown \in output.dump} =
           job.area.base..(job.area.base + job.area.size - 1)
    /\ \A shown \in output.dump : shown.reads = shown.says /\ Mapped(output.window, shown.reads)

(* A mapping holds all that was asked for, and what is unmapped is all of it.
   A dump of whole lines (hexdump.cc: "realaddr must be 16 aligned", "count
   must be a multiple of 16 bytes") shows every byte that was asked for, and no
   other, with its own address, and reads none outside the mapping. *)
WindowHolds ==
    /\ Ran("mapmem") => MappingHolds
    /\ Ran("ramdumper") /\ WholeLines => DumpIsTrue

(* A display reads back what was asked for, and the block sums up to zero; but
   the vertical porch and sync are read as asked for only below 16: their upper
   bits are not where a display looks for them.  What it misses of them it takes
   for back porch: the frame keeps its height. *)
TimingReadBack ==
    Ran("edid") =>
        LET asked == job.timing
            read == ReadTiming(output)
        IN  /\ \A field \in DOMAIN asked \ {"vfp", "vsync", "vbp"} : read[field] = asked[field]
            /\ read.vfp + read.vsync + read.vbp = asked.vfp + asked.vsync + asked.vbp
            /\ asked.vfp < 16 /\ asked.vsync < 16 => read = asked
            /\ FoldFunction(LAMBDA x, y : x + y, 0, output) % 256 = 0
=============================================================================
