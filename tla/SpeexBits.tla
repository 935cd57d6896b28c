----------------------------- MODULE SpeexBits -----------------------------
(***************************************************************************)
(* libspeex/bits.c: the buffer of bits that the encoder packs fields into  *)
(* and the decoder unpacks them from.  A cell of the buffer is one bit: 0, *)
(* 1, or a greater number that names one bit of one frame.                 *)
(***************************************************************************)
EXTENDS Integers, Sequences

CONSTANT MAX_CHARS_PER_FRAME  \* the chars that speex_bits_init allocates

ASSUME MaxCharsAssumption == MAX_CHARS_PER_FRAME \in Nat \ {0}

BITS_PER_CHAR == 8

Mixed == -1   \* two bits other than 0 have been or'ed into one place
Junk == -2    \* memory that was never written
Unknown == -3  \* a bit of a packet of unknown contents

Cells(buf_size) == 0 .. BITS_PER_CHAR * buf_size - 1

BitsReset(b) ==
  [b EXCEPT !.chars = [i \in DOMAIN @ |-> IF i < BITS_PER_CHAR THEN 0 ELSE @[i]],
            !.nbBits = 0, !.charPtr = 0, !.bitPtr = 0, !.overflow = FALSE]

BitsInit ==
  [chars |-> [i \in Cells(MAX_CHARS_PER_FRAME) |-> 0], nbBits |-> 0,
   charPtr |-> 0, bitPtr |-> 0, overflow |-> FALSE,
   buf_size |-> MAX_CHARS_PER_FRAME]

Pos(b) == BITS_PER_CHAR * b.charPtr + b.bitPtr

At(b, pos) == [b EXCEPT !.charPtr = pos \div BITS_PER_CHAR,
                        !.bitPtr = pos % BITS_PER_CHAR]

-----------------------------------------------------------------------------
(* Packing. *)

Or(x, y) == IF x = 0 THEN y ELSE IF y = 0 THEN x ELSE Mixed

(* Plausible bug: room is looked for without the bits already in the char. *)
NoRoomForChars(b, n) == b.charPtr + n \div BITS_PER_CHAR >= b.buf_size

NoRoom(b, n) == b.charPtr + (n + b.bitPtr) \div BITS_PER_CHAR >= b.buf_size

(* realloc copies the chars and says nothing of those after them. *)
Grow(b) ==
  LET size == ((b.buf_size + 5) * 3) \div 2
  IN  [b EXCEPT !.buf_size = size,
                !.chars = [i \in Cells(size) |->
                             IF i \in DOMAIN @ THEN @[i] ELSE Junk]]

(* Plausible bug: a char is not cleared when charPtr comes to it. *)
ClearedNever(b, upto) == b.chars

(* The chars that charPtr comes to on its way to bit upto are cleared. *)
Cleared(b, upto) ==
  [i \in DOMAIN b.chars |->
     IF BITS_PER_CHAR * (i \div BITS_PER_CHAR) \in Pos(b) + 1 .. upto
     THEN 0 ELSE b.chars[i]]

PackHere(b, data) ==
  LET upto == Pos(b) + Len(data)
      chars == Cleared(b, upto)
  IN  At([b EXCEPT !.nbBits = @ + Len(data),
                   !.chars = [i \in DOMAIN @ |->
                                IF i \in Pos(b) .. upto - 1
                                THEN Or(chars[i], data[i - Pos(b) + 1])
                                ELSE chars[i]]], upto)

(* speex_bits_pack, where realloc succeeds. *)
Pack(b, data) ==
  PackHere(IF NoRoom(b, Len(data)) THEN Grow(b) ELSE b, data)

-----------------------------------------------------------------------------
(* Taking a packet out of the buffer and putting one into it. *)

(* A 0 and then 1s up to the end of the char; nothing at its beginning. *)
Terminator(b) ==
  [k \in 1 .. (BITS_PER_CHAR - b.bitPtr) % BITS_PER_CHAR |->
     IF k = 1 THEN 0 ELSE 1]

NBytes(b) == (b.nbBits + BITS_PER_CHAR - 1) \div BITS_PER_CHAR

SmallerOf(x, y) == IF x < y THEN x ELSE y

(* speex_bits_write: the buffer afterwards, and the bits written.  The     *)
(* terminator stays in the buffer, but the pointers are put back.          *)
Terminated(b) ==
  [Pack(b, Terminator(b)) EXCEPT !.charPtr = b.charPtr, !.bitPtr = b.bitPtr,
                                 !.nbBits = b.nbBits]

Written(b, max_nbytes) ==
  [i \in Cells(SmallerOf(max_nbytes, NBytes(b))) |-> Terminated(b).chars[i]]

(* speex_bits_read_from, where realloc succeeds. *)
ReadFrom(b, cells, nchars) ==
  LET size == IF nchars > b.buf_size THEN nchars ELSE b.buf_size
  IN  [chars |-> [i \in Cells(size) |->
                    IF i \in Cells(nchars) THEN cells[i]
                    ELSE IF i \in DOMAIN b.chars THEN b.chars[i] ELSE Junk],
       nbBits |-> BITS_PER_CHAR * nchars, charPtr |-> 0, bitPtr |-> 0,
       overflow |-> FALSE, buf_size |-> size]

-----------------------------------------------------------------------------
(* Unpacking.  Once a read has gone past nbBits every other one gives 0    *)
(* and leaves the pointers where they are.                                 *)

PastEnd(b, n) == b.overflow \/ Pos(b) + n > b.nbBits

Advance(b, n) ==
  IF PastEnd(b, n) THEN [b EXCEPT !.overflow = TRUE] ELSE At(b, Pos(b) + n)

Remaining(b) == IF b.overflow THEN -1 ELSE b.nbBits - Pos(b)

(* The cells that speex_bits_unpack_unsigned reads; it leaves the buffer   *)
(* as Advance does.                                                        *)
Unpacked(b, n) ==
  [k \in 1 .. n |-> IF PastEnd(b, n) THEN 0 ELSE b.chars[Pos(b) + k - 1]]
=============================================================================
