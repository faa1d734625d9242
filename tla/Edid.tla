--------------------------------- MODULE Edid ---------------------------------
(***************************************************************************)
(* edid/edid-generate.cpp packs one detailed timing, field by field, into  *)
(* 128 bytes that end with a checksum.                                     *)
(***************************************************************************)
EXTENDS Integers, SequencesExt

CONSTANT Fixed  \* what main puts in the block besides the timing
ASSUME FixedAssumption == Fixed \in [0..127 -> 0..255] /\ Fixed[127] = 0

Low(n) == n % 256

(* mutant: a shift by four for one by eight *)
HighNibbleOfByte(n) == (n \div 16) % 16

HighNibble(n) == (n \div 256) % 16
HighPair(n) == (n \div 256) % 4

(* add_detailed; the clock is in units of 10 kHz.  vbp is a byte.  The bits above
   the lowest four of vfp and vsync are taken from bit 8 on, and of vsync only
   one. *)
AddDetailed(t) ==
    LET hblank == t.hfp + t.hsync + t.hbp
        vblank == t.vfp + t.vsync + (t.vbp % 256)
    IN  [b \in 0..17 |->
            CASE b = 0 -> Low(t.clock)
              [] b = 1 -> Low(t.clock \div 256)
              [] b = 2 -> Low(t.hactive)
              [] b = 3 -> Low(hblank)
              [] b = 4 -> 16 * HighNibble(t.hactive) + HighNibble(hblank)
              [] b = 5 -> Low(t.vactive)
              [] b = 6 -> Low(vblank)
              [] b = 7 -> 16 * HighNibble(t.vactive) + HighNibble(vblank)
              [] b = 8 -> Low(t.hfp)
              [] b = 9 -> Low(t.hsync)
              [] b = 10 -> 16 * (t.vfp % 16) + (t.vsync % 16)
              [] b = 11 -> 64 * HighPair(t.hfp) + 16 * HighPair(t.hsync) + 4 * HighPair(t.vfp)
                           + 2 * (HighPair(t.vsync) \div 2)
              [] b = 12 -> 40
              [] b = 13 -> 30
              [] b = 17 -> (IF t.interlaced THEN 128 ELSE 0) + 24
              [] OTHER -> 0]

(* The block without its checksum. *)
Fields(t) == [b \in 0..127 |-> IF b \in 54..71 THEN AddDetailed(t)[b - 54] ELSE Fixed[b]]
Sum(block) == FoldFunction(LAMBDA x, y : x + y, 0, block) % 256

EdidBlock(t) == [Fields(t) EXCEPT ![127] = (256 - Sum(Fields(t))) % 256]

-----------------------------------------------------------------------------
(* The reference: how a display reads the detailed timing of a block, which
   has six bits for the vertical porch and sync. *)
ReadTiming(block) ==
    LET At(b) == block[54 + b]
        hblank == At(3) + 256 * (At(4) % 16)
        vblank == At(6) + 256 * (At(7) % 16)
        hfp == At(8) + 256 * (At(11) \div 64)
        hsync == At(9) + 256 * ((At(11) \div 16) % 4)
        vfp == (At(10) \div 16) + 16 * ((At(11) \div 4) % 4)
        vsync == (At(10) % 16) + 16 * (At(11) % 4)
    IN  [clock |-> At(0) + 256 * At(1),
         hactive |-> At(2) + 256 * (At(4) \div 16),
         hfp |-> hfp, hsync |-> hsync, hbp |-> hblank - hfp - hsync,
         vactive |-> At(5) + 256 * (At(7) \div 16),
         vfp |-> vfp, vsync |-> vsync, vbp |-> vblank - vfp - vsync,
         interlaced |-> At(17) >= 128]
=============================================================================
