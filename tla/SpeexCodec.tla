----------------------------- MODULE SpeexCodec -----------------------------
(***************************************************************************)
(* The Speex codec as the program uses it: speex_jni.cpp with its static   *)
(* ebits and dbits, nb_encode and nb_decode of libspeex/nb_celp.c as far   *)
(* as they pack and unpack bits, and the in-band requests of               *)
(* libspeex/speex_callbacks.c.  What is encoded, sound, is left out.       *)
(*                                                                         *)
(* A microphone thread encodes, a speaker thread decodes.  The packets a   *)
(* speaker gets are those that a phone with this code has encoded, or      *)
(* anything at all: what a decryption with another call's key yields.      *)
(* Encoding and decoding share nothing but codec_open, so a call of one is *)
(* not interrupted by a call of the other here.                            *)
(***************************************************************************)
EXTENDS SpeexBits, SpeexModes

CONSTANTS
  Qualities,     \* what open is called with; the app has 6 only
  FrameSize,     \* enc_frame_size and dec_frame_size, in samples and bytes
  Garbage,       \* the length of a packet of unknown contents
  MaxCalls       \* bound: calls of open, close, encode and decode

ASSUME QualitiesAssumption == Qualities \subseteq 0 .. 10
ASSUME FrameSizeAssumption == FrameSize \in Nat \ {0}
ASSUME GarbageAssumption == Garbage \in 0 .. FrameSize
ASSUME MaxCallsAssumption == MaxCalls \in Nat

VARIABLES
  codec_open,  \* how often the codec has been opened
  submode,     \* submodeID of enc_state
  ebits,
  dbits,
  enc,         \* the call of encode: fields packed, number of the frame
  sent,        \* the last packet encoded
  dec,         \* the call of decode
  calls        \* bound: number of calls so far

vars == <<codec_open, submode, ebits, dbits, enc, sent, dec, calls>>

(* C divides towards zero: a read that failed (a negative size) is one     *)
(* frame like a full one, and a microphone never yields more than one.     *)
CDiv(x, y) == IF x < 0 THEN -((-x) \div y) ELSE x \div y
NSamples(size) == CDiv(size - 1, FrameSize) + 1
ASSUME OneFrameAssumption == \A size \in -3 .. FrameSize : NSamples(size) = 1

NoPacket == [cells |-> <<>>, submode |-> 0, frame |-> 0]
IdleEnc == [pc |-> "idle", k |-> 0, frame |-> 0]

(* own: the packet is `sent', not garbage.  known: bits of garbage that    *)
(* may be read again.  layer: wideband layers seen.  got: the bits of the  *)
(* frame, as read from a packet of our own.                                *)
IdleDec == [pc |-> "idle", own |-> FALSE, known |-> <<>>, layer |-> 0,
            submode |-> 0, k |-> 0, got |-> <<>>, result |-> 0]

Init ==
  /\ codec_open = 0 /\ submode = 0
  /\ ebits = BitsInit /\ dbits = BitsInit
  /\ enc = IdleEnc /\ sent = NoPacket /\ dec = IdleDec
  /\ calls = 0

Called ==
  /\ enc.pc = "idle" /\ dec.pc = "idle"
  /\ calls < MaxCalls
  /\ calls' = calls + 1

-----------------------------------------------------------------------------
(* speex_jni.cpp: open and close. *)

Open(quality) ==
  /\ Called
  /\ codec_open' = codec_open + 1
  /\ IF codec_open = 0
     THEN /\ submode' = quality_map[quality]
          /\ ebits' = BitsInit /\ dbits' = BitsInit
     ELSE UNCHANGED <<submode, ebits, dbits>>
  /\ UNCHANGED <<enc, sent, dec>>

Close ==
  /\ Called /\ codec_open > 0
  /\ codec_open' = codec_open - 1
  /\ UNCHANGED <<submode, ebits, dbits, enc, sent, dec>>

-----------------------------------------------------------------------------
(* encode *)

Encode ==
  /\ Called /\ codec_open > 0
  /\ ebits' = BitsReset(ebits)
  /\ enc' = [pc |-> "packing", k |-> 1, frame |-> 1 - enc.frame]
  /\ UNCHANGED <<codec_open, submode, dbits, sent, dec>>

(* The header as it is, every other bit by its frame and its place. *)
Name(frame, place) == 1 + 1000 * frame + place
BitOf(v, n, j) == (v \div 2 ^ (n - j)) % 2

FieldBits(k, width) ==
  CASE k = 1 -> <<0>>
    [] k = 2 -> [j \in 1 .. width |-> BitOf(submode, width, j)]
    [] OTHER -> [j \in 1 .. width |-> Name(enc.frame, Pos(ebits) + j)]

PackField ==
  LET fields == EncodeFields[submode]
  IN  /\ enc.pc = "packing" /\ enc.k <= Len(fields)
      /\ ebits' = Pack(ebits, FieldBits(enc.k, fields[enc.k]))
      /\ enc' = [enc EXCEPT !.k = @ + 1]
      /\ UNCHANGED <<codec_open, submode, dbits, sent, dec, calls>>

(* The 0xf in 5 bits, and the packet is handed to Java. *)
Encoded ==
  LET b == Pack(ebits, <<0, 1, 1, 1, 1>>)
  IN  /\ enc.pc = "packing" /\ enc.k > Len(EncodeFields[submode])
      /\ sent' = [cells |-> Written(b, FrameSize), submode |-> submode,
                  frame |-> enc.frame]
      /\ ebits' = Terminated(b)
      /\ enc' = [enc EXCEPT !.pc = "idle", !.k = 0]
      /\ UNCHANGED <<codec_open, submode, dbits, dec, calls>>

-----------------------------------------------------------------------------
(* decode: FrameSize bytes are taken, however long the packet is; those    *)
(* after its end are what the buffer held before, for garbage zeros.       *)

Decode(own) ==
  /\ Called /\ codec_open > 0
  /\ own => sent # NoPacket
  /\ dbits' = ReadFrom(dbits, [i \in Cells(FrameSize) |->
                IF own /\ i \in DOMAIN sent.cells THEN sent.cells[i]
                ELSE IF own \/ i \in Cells(Garbage) THEN Unknown
                ELSE 0], FrameSize)
  /\ dec' = [IdleDec EXCEPT !.pc = "band", !.own = own]
  /\ UNCHANGED <<codec_open, submode, ebits, enc, sent>>

Returns(result) == [dec EXCEPT !.pc = "returned", !.result = result]

(* The next n bits may be the number v; what is then known of those ahead. *)
MayRead(v, n) ==
  IF PastEnd(dbits, n) THEN v = 0
  ELSE \A j \in 1 .. n :
         LET i == Pos(dbits) + j - 1
         IN  /\ dbits.chars[i] \in {0, 1} => dbits.chars[i] = BitOf(v, n, j)
             /\ i \in DOMAIN dec.known => dec.known[i] = BitOf(v, n, j)

Known(v, n, from) ==
  LET here == Pos(dbits)
      read == here .. here + n - 1
  IN  [i \in {j \in read \cup DOMAIN dec.known : j >= from} |->
         IF i \in read THEN BitOf(v, n, i - here + 1) ELSE dec.known[i]]

(* Plausible bug: every wideband layer is taken for the first. *)
NextLayerFirst(layer) == 1

NextLayer(layer) == layer + 1

(* The bit that says narrowband or wideband, at the head of the loop and   *)
(* after each of at most two wideband layers.                              *)
ReadsBand ==
  /\ dec.pc = "band"
  /\ IF dec.layer < 2 /\ Remaining(dbits) < 5
     THEN dec' = Returns(-1) /\ UNCHANGED dbits
     ELSE \E wideband \in {0, 1} :
            /\ MayRead(wideband, 1)
            /\ dbits' = Advance(dbits, 1)
            /\ dec' = IF wideband = 0 THEN [dec EXCEPT !.pc = "submode"]
                      ELSE IF dec.layer = 2 THEN Returns(-2)
                      ELSE [dec EXCEPT !.pc = "layer", !.layer = NextLayer(@),
                                       !.known = Known(1, 1, Pos(dbits))]
  /\ UNCHANGED <<codec_open, submode, ebits, enc, sent, calls>>

(* A layer is skipped by its length less the bits already read: for a      *)
(* submode of length 0 that takes the pointers back to the band bit.       *)
wb_skip_table(m) == <<0, 36, 112, 192, 352, 0, 0, 0>>[m + 1]

(* Plausible bug: the bits already read are taken off twice. *)
LayerBitsTwice(m) == wb_skip_table(m) - 2 * (SB_SUBMODE_BITS + 1)

LayerBits(m) == wb_skip_table(m) - (SB_SUBMODE_BITS + 1)

SkipsLayer ==
  /\ dec.pc = "layer"
  /\ \E m \in 0 .. 7 :
       LET b == Advance(Advance(dbits, SB_SUBMODE_BITS), LayerBits(m))
       IN  /\ MayRead(m, SB_SUBMODE_BITS)
           /\ dbits' = b
           /\ dec' = [dec EXCEPT !.pc = "band",
                         !.known = Known(m, SB_SUBMODE_BITS, Pos(b))]
  /\ UNCHANGED <<codec_open, submode, ebits, enc, sent, calls>>

(* 15 is a terminator, 14 and 13 are requests, 9 to 12 are no submodes, 0  *)
(* is a frame without contents.                                            *)
ReadsSubmode ==
  /\ dec.pc = "submode"
  /\ IF Remaining(dbits) < 4
     THEN dec' = Returns(-1) /\ UNCHANGED dbits
     ELSE \E m \in 0 .. 15 :
            /\ MayRead(m, NB_SUBMODE_BITS)
            /\ dbits' = Advance(dbits, NB_SUBMODE_BITS)
            /\ dec' = CASE m = 15 -> Returns(-1)
                        [] m \in {13, 14} ->
                             [dec EXCEPT !.known = <<>>, !.pc =
                                IF m = 14 THEN "inband" ELSE "user"]
                        [] m \in 9 .. 12 -> Returns(-2)
                        [] m = 0 -> [Returns(0) EXCEPT !.submode = 0]
                        [] OTHER -> [dec EXCEPT !.pc = "payload",
                                       !.submode = m, !.known = <<>>]
  /\ UNCHANGED <<codec_open, submode, ebits, enc, sent, calls>>

(* speex_inband_handler, with no callback registered. *)
InBandBits(id) ==
  CASE id < 2 -> 1 [] id \in 2 .. 7 -> 4 [] id \in 8 .. 9 -> 8
    [] id \in 10 .. 11 -> 16 [] id \in 12 .. 13 -> 32 [] OTHER -> 64

(* speex_default_user_handler. *)
UserBits(req_size) == 5 + 8 * req_size

SkipsRequest ==
  /\ dec.pc \in {"inband", "user"}
  /\ \E v \in 0 .. 15 :
       /\ MayRead(v, 4)
       /\ dbits' = Advance(Advance(dbits, 4),
                     IF dec.pc = "inband" THEN InBandBits(v) ELSE UserBits(v))
  /\ dec' = [dec EXCEPT !.pc = "band", !.layer = 0]
  /\ UNCHANGED <<codec_open, submode, ebits, enc, sent, calls>>

(* All fields of a frame.  One that the packet has not got reads as 0, and *)
(* so does every one after it; the frame is played all the same.           *)
ReadsFrame ==
  LET upto == FieldEnds[dec.submode]
      n == Len(DecodeFields[dec.submode])
      last == CHOOSE k \in 0 .. n : /\ upto[k] <= Remaining(dbits)
                                    /\ k < n => upto[k + 1] > Remaining(dbits)
      b == Advance(dbits, upto[last])
  IN  /\ dec.pc = "payload"
      /\ dbits' = [b EXCEPT !.overflow = last < n]
      /\ dec' = [Returns(0) EXCEPT !.got =
                   IF dec.own
                   THEN Unpacked(dbits, upto[last])
                          \o Times(upto[n] - upto[last], 0)
                   ELSE @]
      /\ UNCHANGED <<codec_open, submode, ebits, enc, sent, calls>>

(* Whatever the result, Java is told that it has a frame to play.  Of      *)
(* dbits only the flag that the next packet must not inherit is kept.      *)
Played ==
  /\ dec.pc = "returned"
  /\ dec' = IdleDec
  /\ dbits' = [BitsInit EXCEPT !.overflow = dbits.overflow]
  /\ UNCHANGED <<codec_open, submode, ebits, enc, sent, calls>>

-----------------------------------------------------------------------------
Encoding == PackField \/ Encoded
Decoding ==
  \/ ReadsBand \/ SkipsLayer \/ ReadsSubmode \/ SkipsRequest
  \/ ReadsFrame \/ Played

Next ==
  \/ \E quality \in Qualities : Open(quality)
  \/ Close
  \/ Encode
  \/ \E own \in BOOLEAN : Decode(own)
  \/ Encoding
  \/ Decoding

Spec == Init /\ [][Next]_vars
FairSpec == Spec /\ WF_vars(Decoding)

-----------------------------------------------------------------------------
(* Properties. *)

BitBuffer(b) ==
  /\ b.buf_size \in Nat
  /\ b.nbBits \in 0 .. BITS_PER_CHAR * b.buf_size
  /\ b.charPtr \in Nat /\ b.bitPtr \in 0 .. BITS_PER_CHAR - 1
  /\ Pos(b) <= b.nbBits
  /\ b.overflow \in BOOLEAN
  /\ DOMAIN b.chars = Cells(b.buf_size)

(* The variables have the ranges the C code relies on: no read goes past   *)
(* the bits put in, pointers are not negative although speex_bits_advance  *)
(* may be given a negative number (nb_decode, wideband layers), and a      *)
(* submode is one of modes.c.                                              *)
TypeOK ==
  /\ codec_open \in 0 .. calls /\ calls \in 0 .. MaxCalls
  /\ submode \in 0 .. 8
  /\ BitBuffer(ebits) /\ BitBuffer(dbits)
  /\ enc.pc \in {"idle", "packing"} /\ enc.frame \in 0 .. 1
  /\ dec.pc \in {"idle", "band", "layer", "submode", "inband", "user",
                 "payload", "returned"}
  /\ dec.layer \in 0 .. 2
  /\ dec.submode \in 0 .. 8
  /\ dec.result \in -2 .. 0

(* speex_bits_pack clears chars[charPtr] when it steps on to the next      *)
(* char: charPtr always points into the allocated chars, also while they   *)
(* grow.                                                                   *)
InsideBuffer == ebits.charPtr < ebits.buf_size

(* A packet of encode is decoded to the frame that was encoded: no bit of  *)
(* an earlier frame is left in it, the decoder reads the fields where the  *)
(* encoder put them, and the frame has the length modes.c gives it.        *)
FrameSurvives ==
  dec.pc = "returned" /\ dec.own =>
    LET bits == Submodes[sent.submode].bits_per_frame
    IN  /\ dec.result = 0 /\ dec.submode = sent.submode
        /\ ~dbits.overflow /\ Pos(dbits) = bits
        /\ dec.got = [j \in 1 .. bits - 5 |-> Name(sent.frame, 5 + j)]

(* decode returns, whatever the packet holds: the search for a narrowband  *)
(* frame in nb_decode does not go round for ever.                          *)
DecodeReturns == dec.pc # "idle" ~> dec.pc = "idle"
=============================================================================
