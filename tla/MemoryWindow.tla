----------------------------- MODULE MemoryWindow -----------------------------
(***************************************************************************)
(* Physical memory through a mapping of whole pages: mapmem and unmapmem   *)
(* of utils/map_peripherals.cpp, utils/ramdumper.cc, and hexdump_ram of    *)
(* utils/hexdump.cc, which reads at one address and reports another.  An   *)
(* address in a mapping is named by the physical one that it stands for.   *)
(***************************************************************************)
EXTENDS Integers

CONSTANT PageSize    \* 4096; hexdump_ram has 16 bytes to a line

ASSUME PageAssumption == PageSize \in Nat \ {0}

(* A mapping and the address in it that is asked for.  mmap maps the pages
   that hold some of the size. *)
Pages(from, size) == {a \div PageSize : a \in from..(from + size - 1)}
Window(from, size, address) == [pages |-> Pages(from, size), address |-> address]
Mapped(window, a) == a \div PageSize \in window.pages

MapMem(base, size) ==
    LET offset == base % PageSize IN Window(base - offset, size + offset, base - offset + offset)

(* The pages unmapmem gives back. *)
UnmapMem(window, size) ==
    LET offset == window.address % PageSize IN Pages(window.address - offset, size + offset)

(* hexdump_ram: the bytes it shows, each with the address it reports. *)
Lines(count) == {16 * n : n \in 0..((count + 15) \div 16 - 1)}
HexdumpRam(real, report, count) ==
    {[says |-> report + i + k, reads |-> real + i + k] : i \in Lines(count), k \in 0..15}

(* mutant: the dump begins at the page *)
RamDumperPage(addr, length) ==
    LET read_offset == addr % PageSize
        start == (addr \div PageSize) * PageSize
        window == Window(start, length + read_offset, start)
    IN  [window |-> window, dump |-> HexdumpRam(window.address, start + read_offset, length)]

(* ramdumper -a addr -l length *)
RamDumper(addr, length) ==
    LET read_offset == addr % PageSize
        start == (addr \div PageSize) * PageSize
        window == Window(start, length + read_offset, start)
    IN  [window |-> window,
         dump |-> HexdumpRam(window.address + read_offset, start + read_offset, length)]
=============================================================================
