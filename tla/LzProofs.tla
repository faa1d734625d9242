------------------------------ MODULE LzProofs ------------------------------
(***************************************************************************)
(* Proofs about Lz, for a byte of any size and an input of any length.     *)
(***************************************************************************)
EXTENDS Lz, TLAPS

-----------------------------------------------------------------------------
(* Types *)

(* A byte stored at out_i leaves the ring and its index in their domains. *)
LEMMA EmitTypes ==
    ASSUME TypeOK, NEW c \in Bytes \cup {Undefined}, Emit(c)
    PROVE  /\ outbuf' \in [Bytes -> Bytes \cup {Undefined}]
           /\ out_i' \in Bytes
           /\ output' \in Seq(Bytes \cup {Undefined})
BY ConstantsAssumption DEF TypeOK, Emit, Bytes

(* An index back from out_i is an index of the ring. *)
LEMMA SlotType ==
    ASSUME TypeOK, NEW d \in 0..Ring
    PROVE  Slot(d) \in Bytes
BY ConstantsAssumption DEF TypeOK, Slot, Bytes

(* What is left of a command byte is one, and the bit index stays in range. *)
LEMMA NextBitTypes ==
    ASSUME TypeOK, bit < Bits, NextBit
    PROVE  cmd' \in Bytes /\ bit' \in 0..Bits
BY ConstantsAssumption DEF TypeOK, NextBit, Bytes

(* In a match a bit of the command is under way. *)
CopyInBit == pc = "copy" => bit < Bits

(* TypeOK, with what the index of the bit needs, is inductive. *)
LEMMA TypeStep ==
    ASSUME TypeOK /\ CopyInBit, [Next]_vars
    PROVE  (TypeOK /\ CopyInBit)'
<1> USE ConstantsAssumption
<1>1. CASE Command
  BY <1>1 DEF Command, TypeOK, CopyInBit
<1>2. CASE EndOfCommand
  BY <1>2 DEF EndOfCommand, TypeOK, CopyInBit
<1>3. CASE Literal
  <2>1. CASE pos >= size
    BY <1>3, <2>1 DEF Literal, AtBit, TypeOK, CopyInBit
  <2>2. CASE ~(pos >= size)
    <3>1. PICK c \in Bytes : Emit(c)
      BY <1>3, <2>2 DEF Literal
    <3>2. QED
      BY <1>3, <2>2, <3>1, EmitTypes, NextBitTypes DEF Literal, AtBit, TypeOK, CopyInBit
  <2>3. QED BY <2>1, <2>2
<1>4. CASE Match
  <2>1. offset' \in Bytes
    BY <1>4 DEF Match, Bytes
  <2>2. QED
    BY <1>4, <2>1 DEF Match, AtBit, TypeOK, CopyInBit
<1>5. CASE Repeat
  <2>1. outbuf[Slot(offset)] \in Bytes \cup {Undefined}
    BY SlotType DEF TypeOK, Bytes
  <2>2. Emit(outbuf[Slot(offset)])
    BY <1>5 DEF Repeat
  <2>3. CASE len = 0
    BY <1>5, <2>1, <2>2, <2>3, EmitTypes, NextBitTypes DEF Repeat, TypeOK, CopyInBit
  <2>4. CASE len # 0
    <3>1. len' \in Bytes
      BY <1>5, <2>4 DEF Repeat, TypeOK, Bytes
    <3>2. QED
      BY <1>5, <2>1, <2>2, <2>4, <3>1, EmitTypes DEF Repeat, TypeOK, CopyInBit
  <2>5. QED BY <2>3, <2>4
<1>6. CASE UNCHANGED vars
  BY <1>6 DEF vars, TypeOK, CopyInBit
<1>7. QED
  BY <1>1, <1>2, <1>3, <1>4, <1>5, <1>6 DEF Next

(* The initial state satisfies it. *)
LEMMA TypeInit == Init => TypeOK /\ CopyInBit
BY ConstantsAssumption DEF Init, TypeOK, CopyInBit, Bytes

(* Every index of uncompress keeps within its byte, in every state. *)
THEOREM TypeCorrect == Spec => []TypeOK
<1>1. Spec => [](TypeOK /\ CopyInBit)
  BY TypeInit, TypeStep, PTL DEF Spec
<1>2. QED BY <1>1, PTL

-----------------------------------------------------------------------------
(* The ring *)

(* One stored byte shifts every distance by one, the wrap included. *)
LEMMA EmitKeepsRing ==
    ASSUME TypeOK, RingIsHistory, NEW c \in Bytes \cup {Undefined}, Emit(c)
    PROVE  RingIsHistory'
<1> USE ConstantsAssumption
<1> SUFFICES ASSUME NEW d \in 1..Ring
             PROVE  outbuf'[Slot(d)'] = Stream!Behind(d)'
    BY DEF RingIsHistory
<1>1. /\ output \in Seq(Bytes \cup {Undefined})
      /\ output' = Append(output, c)
      /\ Len(output') = Len(output) + 1 /\ Len(output) \in Nat
  BY DEF TypeOK, Emit
<1>2. CASE d = 1
  <2>1. Slot(d)' = out_i
    BY <1>2 DEF Slot, Emit, TypeOK, Bytes
  <2>2. outbuf'[out_i] = c
    BY DEF Emit, TypeOK
  <2>3. Stream!Behind(d)' = c
    BY <1>1, <1>2 DEF Stream!Behind
  <2>4. QED BY <2>1, <2>2, <2>3
<1>3. CASE d # 1
  <2>1. d - 1 \in 1..Ring
    BY <1>3
  <2>2. Slot(d)' = Slot(d - 1) /\ Slot(d - 1) # out_i /\ Slot(d - 1) \in Bytes
    BY <1>3 DEF Slot, Emit, TypeOK, Bytes
  <2>3. outbuf'[Slot(d - 1)] = outbuf[Slot(d - 1)]
    BY <2>2 DEF Emit, TypeOK
  <2>4. outbuf[Slot(d - 1)] = Stream!Behind(d - 1)
    BY <2>1 DEF RingIsHistory
  <2>5. Stream!Behind(d)' = Stream!Behind(d - 1)
    BY <1>1, <1>3 DEF Stream!Behind
  <2>6. QED BY <2>2, <2>3, <2>4, <2>5
<1>4. QED BY <1>2, <1>3

(* A step that leaves the ring and the output alone keeps their relation. *)
LEMMA RingUnchanged ==
    ASSUME RingIsHistory, UNCHANGED <<outbuf, out_i, output>>
    PROVE  RingIsHistory'
BY DEF RingIsHistory, Slot, Stream!Behind

(* The ring holds the last Ring elements of the output, in every state. *)
THEOREM RingCorrect == Spec => []RingIsHistory
<1> USE ConstantsAssumption
<1>1. Init => RingIsHistory
  BY DEF Init, RingIsHistory, Slot, Stream!Behind, Bytes
<1>2. TypeOK /\ RingIsHistory /\ [Next]_vars => RingIsHistory'
  <2> SUFFICES ASSUME TypeOK, RingIsHistory, [Next]_vars PROVE RingIsHistory'
      OBVIOUS
  <2>1. CASE Literal /\ ~(pos >= size)
    <3>1. PICK c \in Bytes : Emit(c)
      BY <2>1 DEF Literal
    <3>2. QED BY <3>1, EmitKeepsRing
  <2>2. CASE Repeat
    <3>1. outbuf[Slot(offset)] \in Bytes \cup {Undefined}
      BY SlotType DEF TypeOK, Bytes
    <3>2. QED BY <2>2, <3>1, EmitKeepsRing DEF Repeat
  <2>3. CASE Literal /\ pos >= size
    BY <2>3, RingUnchanged DEF Literal
  <2>4. CASE Command \/ EndOfCommand \/ Match \/ UNCHANGED vars
    BY <2>4, RingUnchanged DEF Command, EndOfCommand, Match, vars
  <2>5. QED BY <2>1, <2>2, <2>3, <2>4 DEF Next
<1>3. QED
  BY <1>1, <1>2, TypeCorrect, PTL DEF Spec

-----------------------------------------------------------------------------
(* Bounds *)

(* How far data may be, at each control point. *)
Reach == /\ pc = "bit" => pos <= size + 2 * bit
         /\ pc = "copy" => pos <= size + 2 * (bit + 1)
         /\ pc \in {"command", "done"} => pos <= size + 2 * Bits

(* Reads stay within two bytes for each bit of a command beyond the input. *)
THEOREM ReadsWithinChunk == Spec => []WithinChunk
<1> USE ConstantsAssumption
<1>1. Init => Reach
  BY DEF Init, Reach
<1>2. TypeOK /\ CopyInBit /\ Reach /\ [Next]_vars => Reach'
  <2> SUFFICES ASSUME TypeOK, CopyInBit, Reach, [Next]_vars PROVE Reach'
      OBVIOUS
  <2> USE DEF TypeOK, CopyInBit, Reach
  <2>1. CASE Command
    BY <2>1 DEF Command
  <2>2. CASE EndOfCommand
    BY <2>2 DEF EndOfCommand
  <2>3. CASE Literal
    BY <2>3 DEF Literal, AtBit, NextBit
  <2>4. CASE Match
    BY <2>4 DEF Match, AtBit
  <2>5. CASE Repeat
    BY <2>5 DEF Repeat, NextBit
  <2>6. CASE UNCHANGED vars
    BY <2>6 DEF vars
  <2>7. QED BY <2>1, <2>2, <2>3, <2>4, <2>5, <2>6 DEF Next
<1>3. TypeOK /\ CopyInBit /\ Reach => WithinChunk
  BY DEF TypeOK, CopyInBit, Reach, WithinChunk
<1>4. Spec => [](TypeOK /\ CopyInBit)
  BY TypeInit, TypeStep, PTL DEF Spec
<1>5. QED
  BY <1>1, <1>2, <1>3, <1>4, PTL DEF Spec

(* What is output, and what the match under way will add, is paid for by the
   input: two bytes for at most Ring elements. *)
Paid == 2 * (Len(output) + Left) <= Ring * pos

(* The output is at most Ring \div 2 times the input that was read. *)
THEOREM OutputWithinBuffer == Spec => []OutputBounded
<1> USE ConstantsAssumption
<1>1. Init => Paid
  BY DEF Init, Paid, Left
<1>2. TypeOK /\ Paid /\ [Next]_vars => Paid'
  <2> SUFFICES ASSUME TypeOK, Paid, [Next]_vars PROVE Paid'
      OBVIOUS
  <2>1. /\ Len(output) \in Nat /\ len \in 0..Ring - 1 /\ pos \in Nat
        /\ Ring * pos \in Nat
        /\ Ring * (pos + 1) = Ring * pos + Ring
        /\ Ring * (pos + 2) = Ring * pos + 2 * Ring
    BY DEF TypeOK, Bytes
  <2>2. CASE Command
    BY <2>1, <2>2 DEF Command, Paid, Left
  <2>3. CASE EndOfCommand
    BY <2>1, <2>3 DEF EndOfCommand, Paid, Left
  <2>4. CASE Literal
    <3>1. CASE pos >= size
      BY <2>1, <2>4, <3>1 DEF Literal, AtBit, Paid, Left
    <3>2. CASE ~(pos >= size)
      <4>1. Len(output') = Len(output) + 1
        BY <2>4, <3>2 DEF Literal, Emit, TypeOK
      <4>2. QED
        BY <2>1, <2>4, <3>2, <4>1 DEF Literal, AtBit, Paid, Left
    <3>3. QED BY <3>1, <3>2
  <2>5. CASE Match
    <3>1. len' \in 0..Ring - 1
      BY <2>5 DEF Match, Bytes
    <3>2. QED
      BY <2>1, <2>5, <3>1 DEF Match, AtBit, Paid, Left
  <2>6. CASE Repeat
    <3>1. Len(output') = Len(output) + 1
      BY <2>6 DEF Repeat, Emit, TypeOK
    <3>2. QED
      BY <2>1, <2>6, <3>1 DEF Repeat, Paid, Left
  <2>7. CASE UNCHANGED vars
    BY <2>7 DEF vars, Paid, Left
  <2>8. QED BY <2>2, <2>3, <2>4, <2>5, <2>6, <2>7 DEF Next
<1>3. TypeOK /\ Paid => OutputBounded
  <2> SUFFICES ASSUME TypeOK, Paid PROVE OutputBounded
      OBVIOUS
  <2>1. Len(output) \in Nat /\ Left \in Nat /\ Ring * pos \in Nat
    BY DEF TypeOK, Left, Bytes
  <2>2. QED BY <2>1 DEF Paid, OutputBounded
<1>4. QED
  BY <1>1, <1>2, <1>3, TypeCorrect, PTL DEF Spec

-----------------------------------------------------------------------------
(* Refinement *)

(* A repeated element is the one the history has at the distance. *)
LEMMA RepeatedElement ==
    ASSUME TypeOK, RingIsHistory
    PROVE  outbuf[Slot(offset)] = Stream!Behind(IF offset = 0 THEN Ring ELSE offset)
<1> USE ConstantsAssumption
<1>1. (IF offset = 0 THEN Ring ELSE offset) \in 1..Ring
  BY DEF TypeOK, Bytes
<1>2. Slot(offset) = Slot(IF offset = 0 THEN Ring ELSE offset)
  BY DEF TypeOK, Slot, Bytes
<1>3. QED BY <1>1, <1>2 DEF RingIsHistory

(* uncompress, with its ring of Ring bytes, decodes as LzStream says. *)
THEOREM ImplementsStream == Spec => StreamSpec
<1> USE ConstantsAssumption
<1> DEFINE m == [distance |-> IF offset = 0 THEN Ring ELSE offset, left |-> Left]
<1>1. Init => Stream!Init
  BY DEF Init, Stream!Init, Left
<1>2. TypeOK /\ TypeOK' /\ RingIsHistory /\ [Next]_vars => [Stream!Next]_(Stream!streamVars)
  <2> SUFFICES ASSUME TypeOK, TypeOK', RingIsHistory, [Next]_vars
               PROVE  Stream!Next \/ (output' = output /\ m' = m)
      BY DEF Stream!streamVars
  <2>1. CASE Command \/ EndOfCommand \/ UNCHANGED vars
    BY <2>1 DEF Command, EndOfCommand, vars, Left
  <2>2. CASE Literal /\ pos >= size
    BY <2>2 DEF Literal, AtBit, Left
  <2>3. CASE Literal /\ ~(pos >= size)
    <3>1. PICK c \in Bytes : Emit(c)
      BY <2>3 DEF Literal
    <3>2. m.left = 0 /\ m' = m
      BY <2>3 DEF Literal, AtBit, Left
    <3>3. Stream!Literal(c)
      BY <3>1, <3>2 DEF Stream!Literal, Emit
    <3>4. QED BY <3>1, <3>3 DEF Stream!Next
  <2>4. CASE Match
    <3>1. m.left = 0 /\ output' = output
      BY <2>4 DEF Match, AtBit, Left
    <3>2. PICK l \in Bytes, o \in Bytes : len' = l /\ offset' = o
      BY DEF TypeOK
    <3>3. (IF o = 0 THEN Ring ELSE o) \in 1..Ring /\ l + 1 \in 1..Ring
      BY DEF Bytes
    <3>4. Stream!Match(IF o = 0 THEN Ring ELSE o, l + 1)
      BY <2>4, <3>1, <3>2 DEF Match, Left, Stream!Match
    <3>5. QED BY <3>3, <3>4 DEF Stream!Next
  <2>5. CASE Repeat
    <3>1. output' = Append(output, Stream!Behind(m.distance))
      BY <2>5, RepeatedElement DEF Repeat, Emit
    <3>2. m.left = len + 1 /\ len \in Nat
      BY <2>5 DEF Repeat, Left, TypeOK, Bytes
    <3>3. m'.left = len
      BY <2>5, <3>2 DEF Repeat, Left
    <3>4. m' = [m EXCEPT !.left = m.left - 1]
      BY <2>5, <3>2, <3>3 DEF Repeat
    <3>5. Stream!Repeat
      BY <3>1, <3>2, <3>4 DEF Stream!Repeat
    <3>6. QED BY <3>5 DEF Stream!Next
  <2>6. QED BY <2>1, <2>2, <2>3, <2>4, <2>5 DEF Next
<1>3. QED
  BY <1>1, <1>2, TypeCorrect, RingCorrect, PTL DEF Spec, StreamSpec, Stream!Spec
=============================================================================
