--------------------------------- MODULE Lz ---------------------------------
(***************************************************************************)
(* uncompress of eeprom-v2/main.cpp.  A command byte says for each of its  *)
(* bits, the lowest first, whether a literal byte or a match follows; the  *)
(* last Ring bytes of the output are kept in outbuf, whose index out_i is  *)
(* a byte and wraps.  The input is read byte by byte, each any byte; what  *)
(* follows it in memory is the hash of the chunk.                          *)
(***************************************************************************)
EXTENDS Naturals, Sequences

CONSTANTS
    Ring,      \* the values of a byte, and with them the length of outbuf: 256
    Bits,      \* the bits of a byte: 8
    MaxSize,   \* the length of the input, at most
    Undefined  \* what an element of outbuf is before it is written

Bytes == 0..Ring - 1
ASSUME ConstantsAssumption ==
    /\ Ring \in Nat \ {0, 1}
    /\ Bits \in Nat \ {0}
    /\ MaxSize \in Nat
    /\ Undefined \notin Bytes

VARIABLES
    size, pos,      \* end and data, counted from the start of the input
    pc,             \* control point of uncompress
    cmd, bit,       \* the rest of the command byte, and i
    offset, len,    \* of the match under way
    outbuf, out_i,  \* the ring
    output          \* what outptr has written
vars == <<size, pos, pc, cmd, bit, offset, len, outbuf, out_i, output>>

(* One type invariant: every index keeps within its byte. *)
TypeOK ==
    /\ size \in 0..MaxSize /\ pos \in Nat
    /\ pc \in {"command", "bit", "copy", "done"}
    /\ cmd \in Bytes /\ bit \in 0..Bits
    /\ offset \in Bytes /\ len \in Bytes
    /\ outbuf \in [Bytes -> Bytes \cup {Undefined}] /\ out_i \in Bytes
    /\ output \in Seq(Bytes \cup {Undefined})

Init ==
    /\ size \in 0..MaxSize /\ pos = 0
    /\ pc = "command"
    /\ cmd = 0 /\ bit = 0
    /\ offset = 0 /\ len = 0
    /\ outbuf = [i \in Bytes |-> Undefined] /\ out_i = 0
    /\ output = <<>>

-----------------------------------------------------------------------------
(* mutant: a negative index becomes 0 *)
SlotFromZero(d) == IF d <= out_i THEN out_i - d ELSE 0

(* out_i - d, as a byte *)
Slot(d) == IF d <= out_i THEN out_i - d ELSE (out_i + Ring) - d

(* mutant: the index is advanced before the byte is stored *)
EmitEarly(c) ==
    /\ out_i' = (IF out_i = Ring - 1 THEN 0 ELSE out_i + 1)
    /\ outbuf' = [outbuf EXCEPT ![out_i'] = c]
    /\ output' = Append(output, c)

(* mutant: the index does not wrap *)
EmitNoWrap(c) ==
    /\ outbuf' = [outbuf EXCEPT ![out_i] = c]
    /\ out_i' = out_i + 1
    /\ output' = Append(output, c)

Emit(c) ==
    /\ outbuf' = [outbuf EXCEPT ![out_i] = c]
    /\ out_i' = (IF out_i = Ring - 1 THEN 0 ELSE out_i + 1)
    /\ output' = Append(output, c)

NextBit == cmd' = cmd \div 2 /\ bit' = bit + 1

AtBit == pc = "bit" /\ bit < Bits

(* mutant: "data <= end" *)
CommandPast ==
    /\ pc = "command"
    /\ IF pos <= size
         THEN /\ cmd' \in Bytes /\ bit' = 0
              /\ pos' = pos + 1
              /\ pc' = "bit"
         ELSE /\ pc' = "done"
              /\ UNCHANGED <<cmd, bit, pos>>
    /\ UNCHANGED <<size, offset, len, outbuf, out_i, output>>

Command ==
    /\ pc = "command"
    /\ IF pos < size
         THEN /\ cmd' \in Bytes /\ bit' = 0
              /\ pos' = pos + 1
              /\ pc' = "bit"
         ELSE /\ pc' = "done"
              /\ UNCHANGED <<cmd, bit, pos>>
    /\ UNCHANGED <<size, offset, len, outbuf, out_i, output>>

EndOfCommand ==
    /\ pc = "bit" /\ bit = Bits
    /\ pc' = "command"
    /\ UNCHANGED <<size, pos, cmd, bit, offset, len, outbuf, out_i, output>>

(* mutant: the end of the input does not end the command *)
LiteralStays ==
    /\ AtBit /\ cmd % 2 = 0
    /\ pos < size
    /\ \E c \in Bytes : Emit(c)
    /\ pos' = pos + 1
    /\ NextBit
    /\ UNCHANGED <<size, pc, offset, len>>

(* "if (data >= end) break" leaves the bits that remain. *)
Literal ==
    /\ AtBit /\ cmd % 2 = 0
    /\ IF pos >= size
         THEN /\ pc' = "command"
              /\ UNCHANGED <<pos, cmd, bit, outbuf, out_i, output>>
         ELSE /\ \E c \in Bytes : Emit(c)
              /\ pos' = pos + 1
              /\ NextBit
              /\ UNCHANGED pc
    /\ UNCHANGED <<size, offset, len>>

(* Two bytes, read also beyond the end. *)
Match ==
    /\ AtBit /\ cmd % 2 = 1
    /\ \E b \in Bytes : offset' = (IF b = Ring - 1 THEN 0 ELSE b + 1)
    /\ len' \in Bytes
    /\ pos' = pos + 2
    /\ pc' = "copy"
    /\ UNCHANGED <<size, cmd, bit, outbuf, out_i, output>>

(* mutant: "while (len-- >= 0)", always true of a byte *)
RepeatForever ==
    /\ pc = "copy"
    /\ Emit(outbuf[Slot(offset)])
    /\ len' = (IF len = 0 THEN Ring - 1 ELSE len - 1)
    /\ UNCHANGED <<size, pos, pc, cmd, bit, offset>>

(* One round of do ... while (len--). *)
Repeat ==
    /\ pc = "copy"
    /\ Emit(outbuf[Slot(offset)])
    /\ IF len = 0
         THEN pc' = "bit" /\ NextBit /\ UNCHANGED len
         ELSE len' = len - 1 /\ UNCHANGED <<pc, cmd, bit>>
    /\ UNCHANGED <<size, pos, offset>>

Next == Command \/ EndOfCommand \/ Literal \/ Match \/ Repeat

(* uncompress is one call: it runs on. *)
Spec == Init /\ [][Next]_vars /\ WF_vars(Next)

-----------------------------------------------------------------------------
(* What must hold *)

Left == IF pc = "copy" THEN len + 1 ELSE 0
Stream == INSTANCE LzStream
            WITH Window <- Ring,
                 match <- [distance |-> IF offset = 0 THEN Ring ELSE offset, left |-> Left]

(* The ring holds the end of the output: the element a distance d back, for d
   up to and including Ring, is the byte output d bytes ago. *)
RingIsHistory == \A d \in 1..Ring : outbuf[Slot(d)] = Stream!Behind(d)

(* The decoder outputs what an unbounded history would, with offset 255 as a
   distance of 256, and matches that overlap their own output. *)
StreamSpec == Stream!Spec

(* Matches are read beyond the end of the input, but only as far as one
   command reaches: 16 bytes, all in the 32 of the hash that follows. *)
WithinChunk == pos <= size + 2 * Bits

(* The output is at most 128 times the input that was read: the 16MB that
   uncompress allocates are enough for 128kB, less 16 bytes. *)
OutputBounded == 2 * Len(output) <= Ring * pos

(* Whatever the input, uncompress returns. *)
Returns == <>(pc = "done")
=============================================================================
