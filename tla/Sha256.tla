-------------------------------- MODULE Sha256 --------------------------------
(***************************************************************************)
(* The buffer of eeprom-v2/sha256.c: sha256_update takes bytes in calls of *)
(* any length and transforms a block when it is full, sha256_final pads    *)
(* what is left.  A byte of the message is named by its position, so that  *)
(* what is hashed can be told; sha256_transform is a function of the state *)
(* and a block, and the state is what has been transformed.                *)
(***************************************************************************)
EXTENDS Integers, SequencesExt

CONSTANTS
    BlockSize,      \* 64
    MaxMessage      \* the longest message

LengthSize == 8     \* bytes of the length at the end of the last block
ASSUME BlockAssumption ==
    /\ BlockSize \in Nat /\ BlockSize > LengthSize
    /\ MaxMessage \in Nat

VARIABLES
    ctx_data,     \* ctx->data
    datalen,      \* ctx->datalen
    bitlen,       \* ctx->bitlen
    transformed,  \* ctx->state, as the blocks it was made from
    taken,        \* history: how much of the message was given
    hashed        \* sha256_final has been called
shaVars == <<ctx_data, datalen, bitlen, transformed, taken, hashed>>

MessageByte(n) == 256 + n    \* no byte of the padding
Junk == -1                   \* ctx is on the stack
Index == 0..(BlockSize - 1)
PadAt == BlockSize - LengthSize

(* One type invariant: every variable keeps to its domain. *)
ShaTypeOK ==
    /\ ctx_data \in [Index -> Junk..(256 + MaxMessage)]
    /\ datalen \in Index
    /\ bitlen \in Nat
    /\ transformed \in Seq([Index -> Junk..(256 + MaxMessage)])
    /\ taken \in 0..MaxMessage
    /\ hashed \in BOOLEAN

(* sha256_init *)
ShaInit ==
    /\ ctx_data = [i \in Index |-> Junk]
    /\ datalen = 0 /\ bitlen = 0
    /\ transformed = <<>>
    /\ taken = 0 /\ hashed = FALSE

(* mutant: the bits of a full block are not counted *)
ShaUpdateUncounted ==
    LET data == [ctx_data EXCEPT ![datalen] = MessageByte(taken + 1)] IN
    /\ ~hashed /\ taken < MaxMessage
    /\ taken' = taken + 1
    /\ ctx_data' = data
    /\ IF datalen + 1 = BlockSize
         THEN transformed' = Append(transformed, data) /\ datalen' = 0
         ELSE datalen' = datalen + 1 /\ UNCHANGED transformed
    /\ UNCHANGED <<bitlen, hashed>>

(* sha256_update, one byte of it: nothing is kept between calls but ctx. *)
ShaUpdate ==
    LET data == [ctx_data EXCEPT ![datalen] = MessageByte(taken + 1)] IN
    /\ ~hashed /\ taken < MaxMessage
    /\ taken' = taken + 1
    /\ ctx_data' = data
    /\ IF datalen + 1 = BlockSize
         THEN /\ transformed' = Append(transformed, data)
              /\ bitlen' = bitlen + 8 * BlockSize
              /\ datalen' = 0
         ELSE /\ datalen' = datalen + 1
              /\ UNCHANGED <<transformed, bitlen>>
    /\ UNCHANGED hashed

(* The last bytes of a block are the length in bits, the high ones first. *)
Shifted(bits, bytes) ==
    LET Down[n \in 0..LengthSize] == IF n = 0 THEN bits ELSE Down[n - 1] \div 256
    IN  Down[bytes]
LengthByte(bits, i) == Shifted(bits, BlockSize - 1 - i) % 256
WithLength(data, bits) ==
    [i \in Index |-> IF i < PadAt THEN data[i] ELSE LengthByte(bits, i)]

(* 0x80 behind the message and zeros up to end; what is behind that stays. *)
PaddedTo(end) == [i \in Index |-> CASE i < datalen \/ i >= end -> ctx_data[i]
                                    [] i = datalen -> 128
                                    [] OTHER -> 0]

(* sha256_final: without room for the length, a block of padding is first. *)
ShaFinal ==
    LET bits == bitlen + 8 * datalen IN
    /\ ~hashed /\ hashed' = TRUE
    /\ bitlen' = bits
    /\ IF datalen < PadAt
         THEN /\ ctx_data' = WithLength(PaddedTo(PadAt), bits)
              /\ transformed' = Append(transformed, ctx_data')
         ELSE /\ ctx_data' = WithLength([i \in Index |-> 0], bits)
              /\ transformed' = transformed \o <<PaddedTo(BlockSize), ctx_data'>>
    /\ UNCHANGED <<datalen, taken>>

ShaNext == ShaUpdate \/ ShaFinal

-----------------------------------------------------------------------------
(* What must hold *)

(* The standard's padding of a message of n bytes, as one sequence. *)
Padding(n) ==
    LET zeros == (2 * BlockSize - 1 - LengthSize - (n % BlockSize)) % BlockSize
        length(k) == Shifted(8 * n, LengthSize - k) % 256
    IN  <<128>> \o [k \in 1..zeros |-> 0] \o [k \in 1..LengthSize |-> length(k)]
Message(n) == [k \in 1..n |-> MessageByte(k)]
AsSequence(block) == [k \in 1..BlockSize |-> block[k - 1]]

(* What is hashed is the padded message: every byte once and in order, whatever
   the calls it came in, and its length in bits, at every length around that of
   a block and of its part before the length. *)
DigestOfPadded ==
    hashed => FlattenSeq([b \in DOMAIN transformed |-> AsSequence(transformed[b])])
              = Message(taken) \o Padding(taken)
=============================================================================
