------------------------------- MODULE ElfTool -------------------------------
(***************************************************************************)
(* elf-tool/elf-tool.c turns a boot ROM into an ELF file: it looks for the *)
(* tables of the ROM's initialised data, each behind a magic word, and     *)
(* gives every entry a program header.  A ROM is a sequence of words, of   *)
(* four bytes each; an offset in it counts words from 0, a size bytes.     *)
(***************************************************************************)
EXTENDS Integers, SequencesExt

CONSTANTS
    Magic,       \* 0x02494e49
    MaxSlots,    \* 4: dests, srcs and sizes
    RomAddress,  \* 0x60000000
    RomOffset    \* 0x1000: where the ROM is in the file, in bytes

ASSUME SlotsAssumption == MaxSlots \in Nat /\ RomOffset \in Nat

(* Behind the ROM the scan reads what the heap holds, beyond. *)
Word(rom, beyond, i) == IF i < Len(rom) THEN rom[i + 1] ELSE beyond

(* mutant: data that do not fill their last word are not rounded up *)
AfterShort(load, size) == IF size > 0 THEN load + 2 + (size \div 4) ELSE load + 2

(* Where the entry behind the one at load begins: only data are in the ROM,
   a negative size is memory to clear. *)
After(load, size) == IF size > 0 THEN load + 2 + ((size + 3) \div 4) ELSE load + 2

(* A round of the loop over a table: an address or a size of 0 ends it. *)
NextSlot(table, bin) ==
    LET load == table.load
        dest == Word(bin.rom, bin.beyond, load)
        size == Word(bin.rom, bin.beyond, load + 1)
    IN  IF dest = 0 \/ size = 0 THEN table
        ELSE [load |-> After(load, size),
              slots |-> Append(table.slots, [dest |-> dest, size |-> size, src |-> 4 * (load + 2)])]

(* The entries of the table whose magic is at i: no more than the one that fails
   the assert. *)
Table(rom, beyond, i) ==
    LET bin == [rom |-> rom, beyond |-> beyond]
    IN  FoldLeft(NextSlot, [load |-> i + 1, slots |-> <<>>],
                 [slot \in 1..(MaxSlots + 1) |-> bin]).slots

(* The scan: it goes on with the word behind a magic, not behind its table. *)
Slots(rom, beyond) ==
    FlattenSeq([n \in 1..Len(rom) |->
        IF rom[n] = Magic THEN Table(rom, beyond, n - 1) ELSE <<>>])

Segment(slot) ==
    [vaddr |-> slot.dest,
     offset |-> IF slot.size > 0 THEN RomOffset + slot.src ELSE 0,
     filesz |-> IF slot.size > 0 THEN slot.size ELSE 0,
     memsz |-> IF slot.size > 0 THEN slot.size ELSE -slot.size]

(* The program headers, the first of which is the ROM itself; the assert of
   next_slot ends the program before there is a file. *)
Headers(rom, beyond) ==
    LET slots == Slots(rom, beyond)
        whole == [vaddr |-> RomAddress, offset |-> RomOffset,
                  filesz |-> 4 * Len(rom), memsz |-> 4 * Len(rom)]
    IN  [aborted |-> Len(slots) > MaxSlots,
         headers |-> <<whole>> \o [n \in DOMAIN slots |-> Segment(slots[n])]]

-----------------------------------------------------------------------------
(* The reference: what a linker lays out, and a loader of the file gets. *)

(* A ROM as pieces: code, or a table of entries with their data.  The magic is
   nowhere but ahead of a table: the scan cannot tell code that looks like it. *)
Plain == Int \ {Magic}
TableEntries ==
    {e \in [dest : Plain \ {0}, size : Plain \ {0}, data : Seq(Plain)] :
        Len(e.data) = IF e.size > 0 THEN (e.size + 3) \div 4 ELSE 0}
Pieced == [kind : {"code"}, words : Seq(Plain)] \cup [kind : {"table"}, entries : Seq(TableEntries)]

EntryWords(e) == <<e.dest, e.size>> \o e.data
TableWords(entries) ==
    <<Magic>> \o FlattenSeq([n \in DOMAIN entries |-> EntryWords(entries[n])]) \o <<0, 0>>
PieceWords(piece) == IF piece.kind = "code" THEN piece.words ELSE TableWords(piece.entries)
PieceEntries(piece) == IF piece.kind = "code" THEN <<>> ELSE piece.entries
Layout(pieces) == FlattenSeq([n \in DOMAIN pieces |-> PieceWords(pieces[n])])
Entered(pieces) == FlattenSeq([n \in DOMAIN pieces |-> PieceEntries(pieces[n])])

(* What is loaded for a header: an address, the words of the file that are
   copied there, and the bytes of memory it has. *)
WordsAt(rom, offset, size) ==
    LET from == (offset - RomOffset) \div 4
    IN  [k \in 1..((size + 3) \div 4) |-> Word(rom, 0, from + k - 1)]
Loaded(rom, header) ==
    [dest |-> header.vaddr, memory |-> header.memsz,
     data |-> IF header.filesz = 0 THEN <<>> ELSE WordsAt(rom, header.offset, header.filesz)]
Expected(e) == [dest |-> e.dest, memory |-> IF e.size > 0 THEN e.size ELSE -e.size,
                data |-> e.data]
=============================================================================
