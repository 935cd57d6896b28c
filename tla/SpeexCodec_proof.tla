-------------------------- MODULE SpeexCodec_proof --------------------------
(***************************************************************************)
(* The Speex codec, for any size of the buffer, any qualities, any packets *)
(* and any number of calls: TypeOK, InsideBuffer and FrameSurvives.        *)
(*                                                                         *)
(* speex_bits_pack enlarges the buffer at most once, so charPtr stays      *)
(* inside only because no field is wide enough to step over the end of the *)
(* enlarged buffer.  That is a fact about the tables of modes.c, and so is *)
(* that encoder and decoder find the fields of a frame at the same places: *)
(* the sums of the fields, which are defined by recursion, are computed    *)
(* here for every submode.                                                 *)
(***************************************************************************)
EXTENDS SpeexCodec, SequenceTheorems, WellFoundedInduction, TLAPS

(* The pitch of one submode has no bits at all. *)
Width == 0 .. 8

-----------------------------------------------------------------------------
(* Sums.  A recursive function is what its definition says because every   *)
(* set of natural numbers has a least one: a least number for which        *)
(* something fails cannot be.                                              *)

LEMMA LeastNumber ==
  ASSUME NEW T, T \subseteq Nat, T # {}
  PROVE  \E n \in T : \A m \in T : n <= m
<1> DEFINE Less == OpToRel(<, Nat)
<1>1. IsWellFoundedOn(Less, Nat)
  BY NatLessThanWellFounded
<1>2. ASSUME NEW m \in Nat, NEW n \in Nat, m < n
      PROVE <<m, n>> \in Less
  BY <1>2 DEF OpToRel
<1> HIDE DEF Less
<1>3. PICK n \in T : \A m \in T : ~ (<<m, n>> \in Less)
  BY <1>1, WFMin
<1>4. ASSUME NEW m \in T PROVE n <= m
  <2>1. m \in Nat /\ n \in Nat
    OBVIOUS
  <2>2. ~(m < n)
    BY <1>2, <1>3, <2>1
  <2> QED
    BY <2>1, <2>2
<1> QED
  BY <1>4

(* upto has the sums of the first fields of w. *)
EndsOf(w, upto) ==
  /\ upto \in [0 .. Len(w) -> Nat]
  /\ upto[0] = 0
  /\ \A k \in 1 .. Len(w) : upto[k] = upto[k - 1] + w[k]

LEMMA EndsExist ==
  ASSUME NEW w \in Seq(Width)
  PROVE  \E upto : EndsOf(w, upto)
<1> DEFINE n == Len(w)
           Some(j) == \E u \in [0 .. j -> Nat] :
                        u[0] = 0 /\ \A k \in 1 .. j : u[k] = u[k - 1] + w[k]
           T == {j \in 0 .. n : ~Some(j)}
<1>1. n \in Nat /\ \A k \in 1 .. n : w[k] \in Nat
  BY LenProperties DEF Width
<1>2. Some(0)
  <2> DEFINE u == [k \in 0 .. 0 |-> 0]
  <2>1. u \in [0 .. 0 -> Nat] /\ u[0] = 0
    OBVIOUS
  <2>2. \A k \in 1 .. 0 : FALSE
    OBVIOUS
  <2> HIDE DEF u
  <2> QED
    BY <2>1, <2>2
<1>3. ASSUME NEW j \in 1 .. n, Some(j - 1)
      PROVE  Some(j)
  <2>1. j \in Nat /\ j - 1 \in Nat /\ w[j] \in Nat
    BY <1>1
  <2>2. PICK u \in [0 .. j - 1 -> Nat] :
          u[0] = 0 /\ \A k \in 1 .. j - 1 : u[k] = u[k - 1] + w[k]
    BY <1>3
  <2> DEFINE v == [k \in 0 .. j |-> IF k = j THEN u[j - 1] + w[j] ELSE u[k]]
  <2>3. u[j - 1] + w[j] \in Nat /\ \A k \in 0 .. j : k # j => u[k] \in Nat
    BY <2>1, <2>2
  <2>4. v \in [0 .. j -> Nat]
    BY <2>3
  <2>5. v[0] = 0
    BY <2>1, <2>2
  <2>6. ASSUME NEW k \in 1 .. j PROVE v[k] = v[k - 1] + w[k]
    BY <2>1, <2>2
  <2> HIDE DEF v
  <2> QED
    BY <2>4, <2>5, <2>6
<1> HIDE DEF Some
<1>4. T = {}
  <2> SUFFICES ASSUME T # {} PROVE FALSE
    OBVIOUS
  <2>1. PICK j \in T : \A i \in T : j <= i
    <3>1. T \subseteq Nat
      BY <1>1
    <3> HIDE DEF T
    <3> QED
      BY <3>1, LeastNumber
  <2>2. j # 0 /\ j \in 0 .. n /\ ~Some(j)
    BY <1>2
  <2>3. j - 1 \in 0 .. n /\ j \in 1 .. n /\ ~(j <= j - 1)
    BY <1>1, <2>2
  <2>4. Some(j - 1)
    BY <2>1, <2>3
  <2> QED
    BY <1>3, <2>2, <2>3, <2>4
<1>5. Some(n)
  <2>1. n \in 0 .. n
    BY <1>1
  <2> QED
    BY <1>4, <2>1
<1> QED
  BY <1>5 DEF Some, EndsOf

LEMMA EndsUnique ==
  ASSUME NEW w \in Seq(Width), NEW u, EndsOf(w, u),
         NEW v, DOMAIN v = 0 .. Len(w), v = [k \in DOMAIN v |-> v[k]], v[0] = 0,
         \A k \in 1 .. Len(w) : v[k] = v[k - 1] + w[k]
  PROVE  u = v
<1> DEFINE n == Len(w)
           T == {j \in 0 .. n : u[j] # v[j]}
<1>1. n \in Nat
  BY LenProperties
<1>2. T = {}
  <2> SUFFICES ASSUME T # {} PROVE FALSE
    OBVIOUS
  <2>1. PICK j \in T : \A i \in T : j <= i
    <3>1. T \subseteq Nat
      BY <1>1
    <3> HIDE DEF T
    <3> QED
      BY <3>1, LeastNumber
  <2>2. j # 0 /\ j \in 0 .. n /\ u[j] # v[j]
    BY DEF EndsOf
  <2>3. j - 1 \in 0 .. n /\ j \in 1 .. n /\ ~(j <= j - 1)
    BY <1>1, <2>2
  <2>4. u[j - 1] = v[j - 1]
    BY <2>1, <2>3
  <2> QED
    BY <2>2, <2>3, <2>4 DEF EndsOf
<1>3. \A j \in 0 .. n : u[j] = v[j]
  BY <1>2
<1> QED
  BY <1>3 DEF EndsOf

(* The sums of the first fields, and of all. *)
Ends(w) == CHOOSE upto : EndsOf(w, upto)
Total(w) == Ends(w)[Len(w)]

LEMMA EndsAre ==
  ASSUME NEW w \in Seq(Width)
  PROVE  /\ EndsOf(w, Ends(w)) /\ Total(w) \in Nat
         /\ \A k \in 1 .. Len(w) : w[k] \in Nat
         /\ Len(w) \in Nat
<1>1. EndsOf(w, Ends(w))
  BY EndsExist DEF Ends
<1>2. Len(w) \in Nat /\ \A k \in 1 .. Len(w) : w[k] \in Nat
  BY LenProperties DEF Width
<1>3. Total(w) \in Nat
  BY <1>1, <1>2 DEF EndsOf, Total
<1> QED
  BY <1>1, <1>2, <1>3

LEMMA EndsMonotone ==
  ASSUME NEW w \in Seq(Width), NEW k \in 0 .. Len(w)
  PROVE  \A j \in 0 .. k : Ends(w)[j] <= Ends(w)[k]
<1> DEFINE u == Ends(w)
           T == {d \in 0 .. k : ~(u[k - d] <= u[k])}
<1>1. /\ k \in Nat /\ k <= Len(w)
      /\ \A j \in 0 .. Len(w) : u[j] \in Nat
      /\ \A j \in 1 .. Len(w) : u[j] = u[j - 1] + w[j] /\ w[j] \in Nat
  BY EndsAre DEF EndsOf
<1> HIDE DEF u
<1>2. T = {}
  <2> SUFFICES ASSUME T # {} PROVE FALSE
    OBVIOUS
  <2>1. PICK d \in T : \A i \in T : d <= i
    <3>1. T \subseteq Nat
      BY <1>1
    <3> HIDE DEF T
    <3> QED
      BY <3>1, LeastNumber
  <2>2. d \in 0 .. k /\ ~(u[k - d] <= u[k])
    OBVIOUS
  <2>3. d # 0
    BY <1>1, <2>2
  <2>4. d - 1 \in 0 .. k /\ ~(d <= d - 1)
    BY <1>1, <2>2, <2>3
  <2>5. u[k - (d - 1)] <= u[k]
    BY <2>1, <2>4
  <2>6. k - d + 1 \in 1 .. Len(w) /\ k - d \in 0 .. Len(w) /\ k - d + 1 - 1 = k - d
        /\ k - (d - 1) = k - d + 1
    BY <1>1, <2>2, <2>3, EndsAre
  <2>7. u[k - d + 1] = u[k - d] + w[k - d + 1] /\ w[k - d + 1] \in Nat
    BY <1>1, <2>6
  <2>8. u[k - d + 1] <= u[k]
    BY <2>5, <2>6
  <2>9. u[k - d] \in Nat /\ u[k] \in Nat
    BY <1>1, <2>6
  <2> QED
    BY <2>2, <2>7, <2>8, <2>9
<1>3. ASSUME NEW j \in 0 .. k PROVE u[j] <= u[k]
  <2>1. k - j \in 0 .. k /\ k - (k - j) = j
    BY <1>1
  <2> QED
    BY <1>2, <2>1
<1> QED
  BY <1>3 DEF u

(* The sum of a list, by its last element first: what shows it. *)
LEMMA EndsShown ==
  ASSUME NEW w \in Seq(Width), NEW v, DOMAIN v = 0 .. Len(w),
         v = [k \in DOMAIN v |-> v[k]], v[0] = 0,
         \A k \in 1 .. Len(w) : v[k] = v[k - 1] + w[k]
  PROVE  Ends(w) = v
BY EndsAre, EndsUnique

-----------------------------------------------------------------------------
(* The sum of lists put together. *)

(* A function on 1 .. n is a sequence of length n. *)
LEMMA FunctionIsSeq ==
  ASSUME NEW S, NEW n \in Nat, NEW f \in [1 .. n -> S]
  PROVE  f \in Seq(S) /\ Len(f) = n
<1>1. f \in Seq(S)
  BY SeqDef
<1>2. DOMAIN f = 1 .. Len(f) /\ DOMAIN f = 1 .. n /\ Len(f) \in Nat
  BY <1>1, LenProperties
<1> QED
  BY <1>1, <1>2

LEMMA TotalConcat ==
  ASSUME NEW s \in Seq(Width), NEW t \in Seq(Width)
  PROVE  s \o t \in Seq(Width) /\ Total(s \o t) = Total(s) + Total(t)
<1> DEFINE n == Len(s)
           v == [k \in 0 .. n + Len(t) |->
                   IF k <= n THEN Ends(s)[k] ELSE Total(s) + Ends(t)[k - n]]
<1>1. /\ s \o t \in Seq(Width) /\ Len(s \o t) = n + Len(t)
      /\ \A k \in 1 .. n + Len(t) :
           (s \o t)[k] = IF k <= n THEN s[k] ELSE t[k - n]
  BY ConcatProperties
<1>2. /\ n \in Nat /\ Len(t) \in Nat /\ Total(s) \in Nat
      /\ \A k \in 0 .. n : Ends(s)[k] \in Nat
      /\ \A k \in 0 .. Len(t) : Ends(t)[k] \in Nat
      /\ Ends(s)[0] = 0 /\ Ends(t)[0] = 0
      /\ \A k \in 1 .. n : Ends(s)[k] = Ends(s)[k - 1] + s[k]
      /\ \A k \in 1 .. Len(t) :
           Ends(t)[k] = Ends(t)[k - 1] + t[k] /\ t[k] \in Nat
  BY EndsAre DEF EndsOf
<1>3. Total(s) = Ends(s)[n]
  BY DEF Total
<1> HIDE DEF n
<1>4. v[0] = 0
  BY <1>2
<1>5. ASSUME NEW k \in 1 .. n + Len(t)
      PROVE  v[k] = v[k - 1] + (s \o t)[k]
  <2>1. CASE k <= n
    BY <1>1, <1>2, <2>1
  <2>2. CASE k = n + 1
    <3>1. v[k - 1] = Total(s) /\ v[k] = Total(s) + Ends(t)[1]
      BY <1>2, <1>3, <2>2
    <3>2. Ends(t)[1] = t[1] /\ (s \o t)[k] = t[1]
      BY <1>1, <1>2, <2>2
    <3> QED
      BY <3>1, <3>2
  <2>3. CASE k > n + 1
    <3>1. k - n \in 1 .. Len(t) /\ k - 1 - n = k - n - 1
          /\ k - n - 1 \in 0 .. Len(t)
      BY <1>2, <2>3
    <3>2. v[k - 1] = Total(s) + Ends(t)[k - n - 1]
          /\ v[k] = Total(s) + Ends(t)[k - n]
      BY <1>2, <2>3, <3>1
    <3>3. Ends(t)[k - n] = Ends(t)[k - n - 1] + t[k - n] /\ (s \o t)[k] = t[k - n]
          /\ Ends(t)[k - n - 1] \in Nat /\ t[k - n] \in Nat
      BY <1>1, <1>2, <2>3, <3>1
    <3> QED
      BY <1>2, <3>2, <3>3
  <2>4. k \in Int /\ n \in Int
    BY <1>2
  <2>5. k <= n \/ k = n + 1 \/ k > n + 1
    BY <2>4
  <2> QED
    BY <2>1, <2>2, <2>3, <2>5, Zenon
<1>6. DOMAIN v = 0 .. Len(s \o t) /\ v = [k \in DOMAIN v |-> v[k]]
      /\ v[n + Len(t)] = Total(s) + Total(t)
  <2>1. CASE Len(t) = 0
    BY <1>1, <1>2, <1>3, <2>1 DEF Total
  <2>2. CASE Len(t) > 0
    <3>1. n + Len(t) - n = Len(t) /\ ~(n + Len(t) <= n)
          /\ n + Len(t) \in 0 .. n + Len(t)
      BY <1>2, <2>2
    <3> QED
      BY <1>1, <1>2, <3>1 DEF Total
  <2> QED
    BY <1>2, <2>1, <2>2
<1> HIDE DEF v
<1>7. Ends(s \o t) = v
  BY <1>1, <1>4, <1>5, <1>6, EndsShown
<1> QED
  BY <1>1, <1>6, <1>7 DEF Total

LEMMA TotalTimes ==
  ASSUME NEW n \in Nat, NEW width \in Width
  PROVE  /\ Times(n, width) \in Seq(Width) /\ Total(Times(n, width)) = n * width
<1> DEFINE w == Times(n, width)
           v == [k \in 0 .. n |-> k * width]
<1>1. w \in Seq(Width) /\ Len(w) = n /\ \A k \in 1 .. n : w[k] = width
  <2>1. w \in [1 .. n -> Width] /\ \A k \in 1 .. n : w[k] = width
    BY DEF Times
  <2> HIDE DEF w
  <2> QED
    BY <2>1, FunctionIsSeq
<1>2. width \in Nat
  BY DEF Width
<1>3. ASSUME NEW k \in 1 .. n PROVE v[k] = v[k - 1] + w[k]
  <2>1. k * width = (k - 1) * width + width
    BY <1>2
  <2> QED
    BY <1>1, <2>1
<1>4. v[0] = 0 /\ v[n] = n * width /\ DOMAIN v = 0 .. n
      /\ v = [k \in DOMAIN v |-> v[k]]
  BY <1>2
<1> HIDE DEF v, w
<1>5. Ends(w) = v
  BY <1>1, <1>3, <1>4, EndsShown
<1> QED
  BY <1>1, <1>4, <1>5 DEF Total, w

LEMMA TotalShort ==
  ASSUME NEW w \in Seq(Width)
  PROVE  /\ Len(w) = 0 => Total(w) = 0
         /\ Len(w) = 1 => Total(w) = w[1]
         /\ Len(w) = 2 => Total(w) = w[1] + w[2]
<1>1. /\ Ends(w)[0] = 0 /\ \A k \in 1 .. Len(w) : w[k] \in Nat
      /\ \A k \in 1 .. Len(w) : Ends(w)[k] = Ends(w)[k - 1] + w[k]
  BY EndsAre DEF EndsOf
<1>2. ASSUME Len(w) > 0, Len(w) \in Nat PROVE Ends(w)[1] = w[1]
  BY <1>1, <1>2
<1>3. ASSUME Len(w) = 2 PROVE Ends(w)[2] = w[1] + w[2]
  BY <1>1, <1>2, <1>3
<1> QED
  BY <1>1, <1>2, <1>3 DEF Total

LEMMA TotalSmall ==
  /\ <<>> \in Seq(Width) /\ Total(<<>>) = 0
  /\ \A a \in Width : <<a>> \in Seq(Width) /\ Total(<<a>>) = a
  /\ \A a, b \in Width : <<a, b>> \in Seq(Width) /\ Total(<<a, b>>) = a + b
<1>1. <<>> \in Seq(Width) /\ Total(<<>>) = 0
  <2>1. <<>> \in Seq(Width) /\ Len(<<>>) = 0
    BY EmptySeq
  <2> QED
    BY <2>1, TotalShort
<1>2. ASSUME NEW a \in Width
      PROVE  <<a>> \in Seq(Width) /\ Total(<<a>>) = a
  <2> DEFINE w == <<a>>
  <2>1. w \in Seq(Width) /\ Len(w) = 1 /\ w[1] = a
    OBVIOUS
  <2> HIDE DEF w
  <2>2. Total(w) = a
    BY <2>1, TotalShort
  <2> QED
    BY <2>1, <2>2 DEF w
<1>3. ASSUME NEW a \in Width, NEW b \in Width
      PROVE  <<a, b>> \in Seq(Width) /\ Total(<<a, b>>) = a + b
  <2> DEFINE w == <<a, b>>
  <2>1. w \in Seq(Width) /\ Len(w) = 2 /\ w[1] = a /\ w[2] = b
    OBVIOUS
  <2> HIDE DEF w
  <2>2. Total(w) = a + b
    BY <2>1, TotalShort
  <2> QED
    BY <2>1, <2>2 DEF w
<1> QED
  BY <1>1, <1>2, <1>3

LEMMA TotalIf ==
  ASSUME NEW condition \in BOOLEAN, NEW fields \in Seq(Width)
  PROVE  /\ If(condition, fields) \in Seq(Width)
         /\ Total(If(condition, fields)) = IF condition THEN Total(fields) ELSE 0
<1>1. CASE condition
  BY <1>1 DEF If
<1>2. CASE ~condition
  BY <1>2, TotalSmall DEF If
<1> QED
  BY <1>1, <1>2

-----------------------------------------------------------------------------
(* The tables of modes.c. *)

(* What the fields of a submode need of its row in the table. *)
RowFits(s) ==
  /\ s.ltp.pitch_bits \in Width /\ s.ltp.gain_bits \in Width
  /\ s.innovation.nb_subvect \in Nat /\ s.innovation.shape_bits \in Width
  /\ s.lsp \in Nat

LEMMA ParametersFit ==
  /\ \A ltp \in {ltp_params_nb, ltp_params_vlbr, ltp_params_lbr,
                ltp_params_med, NoLtp} :
       ltp.pitch_bits \in Width /\ ltp.gain_bits \in Width
  /\ \A cb \in {split_cb_nb_vlbr, split_cb_nb_ulbr, split_cb_nb_lbr,
               split_cb_nb, split_cb_nb_med, split_cb_sb, NoCodebook} :
       cb.nb_subvect \in Nat /\ cb.shape_bits \in Width
  /\ lsp_lbr \in Nat /\ lsp_nb \in Nat
BY DEF ltp_params_nb, ltp_params_vlbr, ltp_params_lbr, ltp_params_med, NoLtp,
       Ltp, split_cb_nb_vlbr, split_cb_nb_ulbr, split_cb_nb_lbr, split_cb_nb,
       split_cb_nb_med, split_cb_sb, NoCodebook, SplitCb, lsp_lbr, lsp_nb, Width

LEMMA RowsFit ==
  DOMAIN Submodes = 1 .. 8 /\ \A m \in 1 .. 8 : RowFits(Submodes[m])
<1>1. DOMAIN Submodes = 1 .. 8
  BY DEF Submodes
<1>2. RowFits(Submodes[1])
  BY ParametersFit DEF Submodes, Submode, RowFits
<1>3. RowFits(Submodes[2])
  BY ParametersFit DEF Submodes, Submode, RowFits
<1>4. RowFits(Submodes[3])
  BY ParametersFit DEF Submodes, Submode, RowFits
<1>5. RowFits(Submodes[4])
  BY ParametersFit DEF Submodes, Submode, RowFits
<1>6. RowFits(Submodes[5])
  BY ParametersFit DEF Submodes, Submode, RowFits
<1>7. RowFits(Submodes[6])
  BY ParametersFit DEF Submodes, Submode, RowFits
<1>8. RowFits(Submodes[7])
  BY ParametersFit DEF Submodes, Submode, RowFits
<1>9. RowFits(Submodes[8])
  BY ParametersFit DEF Submodes, Submode, RowFits
<1> QED
  BY <1>1, <1>2, <1>3, <1>4, <1>5, <1>6, <1>7, <1>8, <1>9

(* The bits of a subframe, whoever lists its fields. *)
SubframeBits(s) ==
  (IF s.ltp # NoLtp THEN s.ltp.pitch_bits + s.ltp.gain_bits ELSE 0)
    + (IF s.have_subframe_gain = 3 THEN 3
       ELSE IF s.have_subframe_gain # 0 THEN 1 ELSE 0)
    + s.innovation.nb_subvect * s.innovation.shape_bits
    + (IF s.double_codebook
       THEN s.innovation.nb_subvect * s.innovation.shape_bits ELSE 0)

RowKnown(s) ==
  /\ s.have_subframe_gain \in {0, 1, 3}
  /\ s.double_codebook \in BOOLEAN /\ s.forced_pitch_gain \in BOOLEAN

LEMMA RowsKnown == \A m \in 1 .. 8 : RowKnown(Submodes[m])
<1>1. RowKnown(Submodes[1])
  BY RowsFit DEF Submodes, Submode, RowKnown
<1>2. RowKnown(Submodes[2])
  BY RowsFit DEF Submodes, Submode, RowKnown
<1>3. RowKnown(Submodes[3])
  BY RowsFit DEF Submodes, Submode, RowKnown
<1>4. RowKnown(Submodes[4])
  BY RowsFit DEF Submodes, Submode, RowKnown
<1>5. RowKnown(Submodes[5])
  BY RowsFit DEF Submodes, Submode, RowKnown
<1>6. RowKnown(Submodes[6])
  BY RowsFit DEF Submodes, Submode, RowKnown
<1>7. RowKnown(Submodes[7])
  BY RowsFit DEF Submodes, Submode, RowKnown
<1>8. RowKnown(Submodes[8])
  BY RowsFit DEF Submodes, Submode, RowKnown
<1> QED
  BY <1>1, <1>2, <1>3, <1>4, <1>5, <1>6, <1>7, <1>8

LEMMA SubframeTotals ==
  ASSUME NEW s, RowFits(s), RowKnown(s)
  PROVE  /\ EncodeSubframe(s) \in Seq(Width) /\ DecodeSubframe(s) \in Seq(Width)
         /\ Total(EncodeSubframe(s)) = SubframeBits(s)
         /\ Total(DecodeSubframe(s)) = SubframeBits(s)
<1> DEFINE pitch == If(s.ltp # NoLtp, <<s.ltp.pitch_bits, s.ltp.gain_bits>>)
           gain == If(s.have_subframe_gain # 0,
                      IF s.have_subframe_gain = 3 THEN <<3>> ELSE <<1>>)
           gain3 == If(s.have_subframe_gain = 3, <<3>>)
           gain1 == If(s.have_subframe_gain = 1, <<1>>)
           shapes == Times(s.innovation.nb_subvect, s.innovation.shape_bits)
           again == If(s.double_codebook, shapes)
           product == s.innovation.nb_subvect * s.innovation.shape_bits
<1>1. /\ pitch \in Seq(Width)
      /\ Total(pitch) = IF s.ltp # NoLtp THEN s.ltp.pitch_bits + s.ltp.gain_bits
                        ELSE 0
  <2> DEFINE w == <<s.ltp.pitch_bits, s.ltp.gain_bits>>
  <2>1. w \in Seq(Width) /\ Total(w) = s.ltp.pitch_bits + s.ltp.gain_bits
    BY TotalSmall DEF RowFits
  <2>2. (s.ltp # NoLtp) \in BOOLEAN
    OBVIOUS
  <2> HIDE DEF w
  <2>3. pitch = If(s.ltp # NoLtp, w)
    BY DEF w
  <2> QED
    BY <2>1, <2>2, <2>3, TotalIf
<1>2. /\ gain \in Seq(Width) /\ gain3 \in Seq(Width) /\ gain1 \in Seq(Width)
      /\ Total(gain) = IF s.have_subframe_gain = 3 THEN 3
                       ELSE IF s.have_subframe_gain # 0 THEN 1 ELSE 0
      /\ Total(gain3) = IF s.have_subframe_gain = 3 THEN 3 ELSE 0
      /\ Total(gain1) = IF s.have_subframe_gain = 1 THEN 1 ELSE 0
  <2>1. /\ <<3>> \in Seq(Width) /\ Total(<<3>>) = 3
        /\ <<1>> \in Seq(Width) /\ Total(<<1>>) = 1
        /\ <<>> \in Seq(Width) /\ Total(<<>>) = 0
    BY TotalSmall DEF Width
  <2> QED
    BY <2>1, Zenon DEF If
<1>3. shapes \in Seq(Width) /\ Total(shapes) = product
  BY TotalTimes DEF RowFits
<1>4. /\ again \in Seq(Width)
      /\ Total(again) = IF s.double_codebook THEN product ELSE 0
  BY <1>3, TotalIf DEF RowKnown
<1>5. /\ EncodeSubframe(s) = pitch \o gain \o shapes \o again
      /\ DecodeSubframe(s) = pitch \o gain3 \o gain1 \o shapes \o again
  BY DEF EncodeSubframe, DecodeSubframe
<1>6. SubframeBits(s) = Total(pitch) + Total(gain) + product + Total(again)
  BY <1>1, <1>2, <1>4 DEF SubframeBits
<1>7. /\ Total(pitch) \in Nat /\ Total(gain) \in Nat /\ Total(gain3) \in Nat
      /\ Total(gain1) \in Nat /\ Total(again) \in Nat /\ product \in Nat
      /\ Total(gain) = Total(gain3) + Total(gain1)
  BY <1>1, <1>2, <1>3, <1>4, EndsAre DEF RowKnown
<1> HIDE DEF pitch, gain, gain3, gain1, shapes, again, product
<1>8. /\ EncodeSubframe(s) \in Seq(Width)
      /\ Total(EncodeSubframe(s)) = Total(pitch) + Total(gain) + product + Total(again)
  <2>1. /\ pitch \o gain \in Seq(Width)
        /\ Total(pitch \o gain) = Total(pitch) + Total(gain)
    BY <1>1, <1>2, TotalConcat
  <2>2. /\ pitch \o gain \o shapes \in Seq(Width)
        /\ Total(pitch \o gain \o shapes) = Total(pitch) + Total(gain) + product
    BY <2>1, <1>3, TotalConcat
  <2> QED
    BY <2>2, <1>4, <1>5, TotalConcat
<1>9. /\ DecodeSubframe(s) \in Seq(Width)
      /\ Total(DecodeSubframe(s))
           = Total(pitch) + Total(gain3) + Total(gain1) + product + Total(again)
  <2>1. /\ pitch \o gain3 \in Seq(Width)
        /\ Total(pitch \o gain3) = Total(pitch) + Total(gain3)
    BY <1>1, <1>2, TotalConcat
  <2>2. /\ pitch \o gain3 \o gain1 \in Seq(Width)
        /\ Total(pitch \o gain3 \o gain1) = Total(pitch) + Total(gain3) + Total(gain1)
    BY <2>1, <1>2, TotalConcat
  <2>3. /\ pitch \o gain3 \o gain1 \o shapes \in Seq(Width)
        /\ Total(pitch \o gain3 \o gain1 \o shapes)
             = Total(pitch) + Total(gain3) + Total(gain1) + product
    BY <2>2, <1>3, TotalConcat
  <2> QED
    BY <2>3, <1>4, <1>5, TotalConcat
<1> QED
  BY <1>6, <1>7, <1>8, <1>9

(* The bits of a frame after the five that say what it is. *)
FrameBits(m) ==
  LET s == Submodes[m]
  IN  6 * s.lsp + (IF s.lbr_pitch # -1 THEN 7 ELSE 0)
        + (IF s.forced_pitch_gain THEN 4 ELSE 0) + 5
        + 4 * SubframeBits(s) + (IF m = 1 THEN 4 ELSE 0)

(* modes.c states the length of each frame correctly. *)
LEMMA RowsAdd ==
  \A m \in 1 .. 8 : FrameBits(m) = Submodes[m].bits_per_frame - 5
<1> USE DEF ltp_params_nb, ltp_params_vlbr, ltp_params_lbr, ltp_params_med, NoLtp,
       Ltp, split_cb_nb_vlbr, split_cb_nb_ulbr, split_cb_nb_lbr, split_cb_nb,
       split_cb_nb_med, split_cb_sb, NoCodebook, SplitCb, lsp_lbr, lsp_nb,
       Submodes, Submode, FrameBits, SubframeBits
<1>1. FrameBits(1) = Submodes[1].bits_per_frame - 5
  OBVIOUS
<1>2. FrameBits(2) = Submodes[2].bits_per_frame - 5
  OBVIOUS
<1>3. FrameBits(3) = Submodes[3].bits_per_frame - 5
  OBVIOUS
<1>4. FrameBits(4) = Submodes[4].bits_per_frame - 5
  OBVIOUS
<1>5. FrameBits(5) = Submodes[5].bits_per_frame - 5
  OBVIOUS
<1>6. FrameBits(6) = Submodes[6].bits_per_frame - 5
  OBVIOUS
<1>7. FrameBits(7) = Submodes[7].bits_per_frame - 5
  OBVIOUS
<1>8. FrameBits(8) = Submodes[8].bits_per_frame - 5
  OBVIOUS
<1> HIDE DEF Submodes, FrameBits
<1> QED
  BY <1>1, <1>2, <1>3, <1>4, <1>5, <1>6, <1>7, <1>8

IsSum(w, n) == w \in Seq(Width) /\ Total(w) = n /\ n \in Nat

LEMMA SumConcat ==
  ASSUME NEW t, NEW a, IsSum(t, a), NEW u, NEW b, IsSum(u, b)
  PROVE  IsSum(t \o u, a + b)
BY TotalConcat DEF IsSum

(* The two fields that say what the frame is. *)
IsHead(w) ==
  w \in Seq(Width) /\ Len(w) >= 2 /\ w[1] = 1 /\ w[2] = NB_SUBMODE_BITS

LEMMA HeadConcat ==
  ASSUME NEW t, IsHead(t), NEW u \in Seq(Width)
  PROVE  IsHead(t \o u)
BY ConcatProperties, LenProperties DEF IsHead

LEMMA FieldsTotals ==
  ASSUME NEW m \in 1 .. 8
  PROVE  /\ EncodeFields[m] \in Seq(Width) /\ DecodeFields[m] \in Seq(Width)
         /\ Total(EncodeFields[m]) = Submodes[m].bits_per_frame
         /\ Total(DecodeFields[m]) = Submodes[m].bits_per_frame - 5
         /\ Len(EncodeFields[m]) >= 2
         /\ EncodeFields[m][1] = 1 /\ EncodeFields[m][2] = NB_SUBMODE_BITS
<1> DEFINE s == Submodes[m]
           esub == EncodeSubframe(s)
           dsub == DecodeSubframe(s)
           head == <<1, NB_SUBMODE_BITS>>
           lsp == Times(s.lsp, 6)
           pitch == If(s.lbr_pitch # -1, <<7>>)
           forced == If(s.forced_pitch_gain, <<4>>)
           comfort == If(m = 1, <<4>>)
           sub == SubframeBits(s)
<1>1. RowFits(s) /\ RowKnown(s)
  BY RowsFit, RowsKnown
<1>2. /\ esub \in Seq(Width) /\ dsub \in Seq(Width)
      /\ Total(esub) = sub /\ Total(dsub) = sub
  BY <1>1, SubframeTotals
<1>3. lsp \in Seq(Width) /\ Total(lsp) = s.lsp * 6
  <2>1. 6 \in Width /\ s.lsp \in Nat
    BY <1>1 DEF Width, RowFits
  <2> QED
    BY <2>1, TotalTimes
<1>4. /\ <<7>> \in Seq(Width) /\ Total(<<7>>) = 7
      /\ <<4>> \in Seq(Width) /\ Total(<<4>>) = 4
      /\ <<5>> \in Seq(Width) /\ Total(<<5>>) = 5
      /\ head \in Seq(Width) /\ Total(head) = 5
  BY TotalSmall DEF Width, NB_SUBMODE_BITS
<1>5. /\ pitch \in Seq(Width) /\ forced \in Seq(Width) /\ comfort \in Seq(Width)
      /\ Total(pitch) = IF s.lbr_pitch # -1 THEN 7 ELSE 0
      /\ Total(forced) = IF s.forced_pitch_gain THEN 4 ELSE 0
      /\ Total(comfort) = IF m = 1 THEN 4 ELSE 0
  <2>1. (s.lbr_pitch # -1) \in BOOLEAN /\ (m = 1) \in BOOLEAN
        /\ s.forced_pitch_gain \in BOOLEAN
    BY <1>1 DEF RowKnown
  <2> QED
    BY <1>4, <2>1, TotalIf
<1>6. /\ EncodeFields[m] = head \o lsp \o pitch \o forced
                           \o <<5>> \o esub \o esub \o esub \o esub \o comfort
      /\ DecodeFields[m] = lsp \o pitch \o forced \o <<5>> \o comfort
                           \o dsub \o dsub \o dsub \o dsub
  BY RowsFit DEF EncodeFields, DecodeFields
<1>7. /\ FrameBits(m) = 6 * s.lsp + Total(pitch) + Total(forced) + 5 + 4 * sub
                        + Total(comfort)
      /\ FrameBits(m) = s.bits_per_frame - 5
  BY <1>5, RowsAdd DEF FrameBits
<1>8. /\ sub \in Nat /\ s.lsp \in Nat /\ Total(pitch) \in Nat
      /\ Total(forced) \in Nat /\ Total(comfort) \in Nat
      /\ s.bits_per_frame \in Int
  <2>1. s.bits_per_frame \in Int
    BY DEF Submodes, Submode
  <2> QED
    BY <1>1, <1>2, <1>5, <2>1, EndsAre DEF RowFits
<1> HIDE DEF s, esub, dsub, head, lsp, pitch, forced, comfort, sub
<1> DEFINE l == 6 * s.lsp
           p == Total(pitch)
           f == Total(forced)
           c == Total(comfort)
<1>9. /\ IsSum(head, 5) /\ IsSum(lsp, l) /\ IsSum(pitch, p) /\ IsSum(forced, f)
      /\ IsSum(<<5>>, 5) /\ IsSum(esub, sub) /\ IsSum(dsub, sub) /\ IsSum(comfort, c)
      /\ l \in Nat
  BY <1>2, <1>3, <1>4, <1>5, <1>8 DEF IsSum
<1>10. /\ s.bits_per_frame = 10 + l + p + f + 4 * sub + c
       /\ p \in Nat /\ f \in Nat /\ c \in Nat
  BY <1>7, <1>8
<1> HIDE DEF l, p, f, c
<1>11. /\ EncodeFields[m] \in Seq(Width)
       /\ Total(EncodeFields[m]) = s.bits_per_frame
  <2>1. IsSum(head \o lsp,
            5 + l)
    BY <1>9, SumConcat
  <2>2. IsSum(head \o lsp \o pitch,
            5 + l + p)
    BY <1>9, <2>1, SumConcat
  <2>3. IsSum(head \o lsp \o pitch \o forced,
            5 + l + p + f)
    BY <1>9, <2>2, SumConcat
  <2>4. IsSum(head \o lsp \o pitch \o forced \o <<5>>,
            5 + l + p + f + 5)
    BY <1>9, <2>3, SumConcat
  <2>5. IsSum(head \o lsp \o pitch \o forced \o <<5>> \o esub,
            5 + l + p + f + 5 + sub)
    BY <1>9, <2>4, SumConcat
  <2>6. IsSum(head \o lsp \o pitch \o forced \o <<5>> \o esub \o esub,
            5 + l + p + f + 5 + sub + sub)
    BY <1>9, <2>5, SumConcat
  <2>7. IsSum(head \o lsp \o pitch \o forced \o <<5>> \o esub \o esub \o esub,
            5 + l + p + f + 5 + sub + sub + sub)
    BY <1>9, <2>6, SumConcat
  <2>8. IsSum(head \o lsp \o pitch \o forced \o <<5>> \o esub \o esub \o esub \o esub,
            5 + l + p + f + 5 + sub + sub + sub + sub)
    BY <1>9, <2>7, SumConcat
  <2>9. IsSum(head \o lsp \o pitch \o forced \o <<5>> \o esub \o esub \o esub \o esub \o comfort,
            5 + l + p + f + 5 + sub + sub + sub + sub + c)
    BY <1>9, <2>8, SumConcat
  <2> QED
    BY <1>6, <1>8, <1>9, <1>10, <2>9 DEF IsSum
<1>12. /\ DecodeFields[m] \in Seq(Width)
       /\ Total(DecodeFields[m]) = s.bits_per_frame - 5
  <2>1. IsSum(lsp \o pitch,
            l + p)
    BY <1>9, SumConcat
  <2>2. IsSum(lsp \o pitch \o forced,
            l + p + f)
    BY <1>9, <2>1, SumConcat
  <2>3. IsSum(lsp \o pitch \o forced \o <<5>>,
            l + p + f + 5)
    BY <1>9, <2>2, SumConcat
  <2>4. IsSum(lsp \o pitch \o forced \o <<5>> \o comfort,
            l + p + f + 5 + c)
    BY <1>9, <2>3, SumConcat
  <2>5. IsSum(lsp \o pitch \o forced \o <<5>> \o comfort \o dsub,
            l + p + f + 5 + c + sub)
    BY <1>9, <2>4, SumConcat
  <2>6. IsSum(lsp \o pitch \o forced \o <<5>> \o comfort \o dsub \o dsub,
            l + p + f + 5 + c + sub + sub)
    BY <1>9, <2>5, SumConcat
  <2>7. IsSum(lsp \o pitch \o forced \o <<5>> \o comfort \o dsub \o dsub \o dsub,
            l + p + f + 5 + c + sub + sub + sub)
    BY <1>9, <2>6, SumConcat
  <2>8. IsSum(lsp \o pitch \o forced \o <<5>> \o comfort \o dsub \o dsub \o dsub \o dsub,
            l + p + f + 5 + c + sub + sub + sub + sub)
    BY <1>9, <2>7, SumConcat
  <2> QED
    BY <1>6, <1>8, <1>9, <1>10, <2>8 DEF IsSum
<1>13. /\ Len(EncodeFields[m]) >= 2
       /\ EncodeFields[m][1] = 1 /\ EncodeFields[m][2] = NB_SUBMODE_BITS
  <2>0. IsHead(head)
    BY <1>4 DEF head, IsHead
  <2>1. IsHead(head \o lsp)
    BY <1>9, <2>0, HeadConcat DEF IsSum
  <2>2. IsHead(head \o lsp \o pitch)
    BY <1>9, <2>1, HeadConcat DEF IsSum
  <2>3. IsHead(head \o lsp \o pitch \o forced)
    BY <1>9, <2>2, HeadConcat DEF IsSum
  <2>4. IsHead(head \o lsp \o pitch \o forced \o <<5>>)
    BY <1>9, <2>3, HeadConcat DEF IsSum
  <2>5. IsHead(head \o lsp \o pitch \o forced \o <<5>> \o esub)
    BY <1>9, <2>4, HeadConcat DEF IsSum
  <2>6. IsHead(head \o lsp \o pitch \o forced \o <<5>> \o esub \o esub)
    BY <1>9, <2>5, HeadConcat DEF IsSum
  <2>7. IsHead(head \o lsp \o pitch \o forced \o <<5>> \o esub \o esub \o esub)
    BY <1>9, <2>6, HeadConcat DEF IsSum
  <2>8. IsHead(head \o lsp \o pitch \o forced \o <<5>> \o esub \o esub \o esub \o esub)
    BY <1>9, <2>7, HeadConcat DEF IsSum
  <2>9. IsHead(head \o lsp \o pitch \o forced \o <<5>> \o esub \o esub \o esub \o esub \o comfort)
    BY <1>9, <2>8, HeadConcat DEF IsSum
  <2> QED
    BY <1>6, <2>9 DEF IsHead
<1> QED
  BY <1>11, <1>12, <1>13 DEF s

LEMMA FieldEndsAre ==
  ASSUME NEW m \in 1 .. 8, DecodeFields[m] \in Seq(Width)
  PROVE  FieldEnds[m] = Ends(DecodeFields[m])
<1> DEFINE w == DecodeFields[m]
           Eq(v) == v = [k \in 0 .. Len(w) |-> IF k = 0 THEN 0 ELSE v[k - 1] + w[k]]
<1>1. FieldEnds[m] = CHOOSE v : Eq(v)
  BY RowsFit DEF FieldEnds
<1> HIDE DEF w
<1>2. Eq(Ends(w))
  <2>1. EndsOf(w, Ends(w)) /\ Len(w) \in Nat
    BY EndsAre DEF w
  <2> QED
    BY <2>1 DEF EndsOf
<1>3. Eq(FieldEnds[m])
  <2> HIDE DEF Eq
  <2> QED
    BY <1>1, <1>2
<1>4. w \in Seq(Width) /\ Len(w) \in Nat
  BY EndsAre DEF w
<1>5. Ends(w) = FieldEnds[m]
  <2> DEFINE v == FieldEnds[m]
  <2>1. v = [k \in 0 .. Len(w) |-> IF k = 0 THEN 0 ELSE v[k - 1] + w[k]]
    BY <1>3
  <2> HIDE DEF v
  <2>2. DOMAIN v = 0 .. Len(w) /\ v[0] = 0 /\ \A k \in 1 .. Len(w) : v[k] = v[k - 1] + w[k]
    BY <1>4, <2>1
  <2>3. v = [k \in DOMAIN v |-> v[k]]
    BY <2>1
  <2> QED
    BY <1>4, <2>2, <2>3, EndsShown DEF v
<1> QED
  BY <1>5 DEF w

LEMMA QualityIsSubmode ==
  ASSUME NEW quality \in 0 .. 10
  PROVE  quality_map[quality] \in 1 .. 8
BY DEF quality_map

-----------------------------------------------------------------------------
(* The encoder's buffer. *)

(* charPtr and bitPtr are what the C code takes them for. *)
BufferFits(b) ==
  /\ DOMAIN b = {"chars", "nbBits", "charPtr", "bitPtr", "overflow", "buf_size"}
  /\ b.charPtr \in Nat /\ b.buf_size \in Nat /\ b.charPtr < b.buf_size
  /\ b.bitPtr \in 0 .. 7

-----------------------------------------------------------------------------
(* speex_bits_pack: at most 8 bits never take charPtr out of the buffer,   *)
(* whether it has to grow or not; and it never shrinks.                    *)
LEMMA GrowEffect ==
  ASSUME NEW b, BufferFits(b)
  PROVE  /\ BufferFits(Grow(b)) /\ Grow(b).buf_size > b.buf_size + 1
         /\ Grow(b).charPtr = b.charPtr /\ Grow(b).bitPtr = b.bitPtr
<1> DEFINE size == ((b.buf_size + 5) * 3) \div 2
           cells == [i \in Cells(size) |->
                       IF i \in DOMAIN b.chars THEN b.chars[i] ELSE Junk]
<1>1. size \in Nat /\ size > b.buf_size + 1
  BY DEF BufferFits
<1>2. Grow(b) = [b EXCEPT !.buf_size = size, !.chars = cells]
  BY DEF BufferFits, Grow
<1> HIDE DEF size, cells
<1> QED
  BY <1>1, <1>2 DEF BufferFits

LEMMA PackHereEffect ==
  ASSUME NEW b, BufferFits(b), NEW data, Len(data) \in Nat,
         b.charPtr + (Len(data) + b.bitPtr) \div 8 < b.buf_size
  PROVE  BufferFits(PackHere(b, data)) /\ PackHere(b, data).buf_size = b.buf_size
<1> DEFINE upto == Pos(b) + Len(data)
<1>1. upto = 8 * b.charPtr + (Len(data) + b.bitPtr)
  BY DEF BufferFits, Pos, BITS_PER_CHAR
<1>2. upto \div 8 = b.charPtr + (Len(data) + b.bitPtr) \div 8 /\ upto \in Nat
  <2>1. b.charPtr \in Nat /\ Len(data) + b.bitPtr \in Nat
    BY DEF BufferFits
  <2> DEFINE c == b.charPtr
             x == Len(data) + b.bitPtr
  <2>2. c \in Nat /\ x \in Nat /\ upto = 8 * c + x
    BY <1>1, <2>1
  <2> HIDE DEF upto, c, x
  <2>3. upto \div 8 = c + x \div 8 /\ upto \in Nat
    BY <2>2
  <2> QED
    BY <2>3 DEF c, x
<1>3. upto \div 8 \in Nat /\ upto % 8 \in 0 .. 7
  BY <1>2
<1> HIDE DEF upto
<1>4. PICK cells :
        PackHere(b, data) = At([b EXCEPT !.nbBits = @ + Len(data),
                                         !.chars = cells], upto)
  BY DEF PackHere, upto
<1>5. PackHere(b, data) = [b EXCEPT !.nbBits = @ + Len(data), !.chars = cells,
                             !.charPtr = upto \div 8, !.bitPtr = upto % 8]
  BY <1>4 DEF BufferFits, At, BITS_PER_CHAR
<1> QED
  BY <1>2, <1>3, <1>5 DEF BufferFits

LEMMA InitBuffer == BufferFits(BitsInit)
BY MaxCharsAssumption DEF BitsInit, BufferFits

LEMMA ResetBuffer ==
  ASSUME NEW b, BufferFits(b)
  PROVE  BufferFits(BitsReset(b))
<1> DEFINE cells == [i \in DOMAIN b.chars |->
                       IF i < BITS_PER_CHAR THEN 0 ELSE b.chars[i]]
<1>1. BitsReset(b) = [b EXCEPT !.chars = cells, !.nbBits = 0, !.charPtr = 0,
                               !.bitPtr = 0, !.overflow = FALSE]
  BY DEF BitsReset, BufferFits
<1> HIDE DEF cells
<1> QED
  BY <1>1 DEF BufferFits

(* Every cell from the pointer to the end of its char is 0: what is packed *)
(* next is not or'ed into old bits.                                        *)
ClearAhead(b) ==
  \A i \in Cells(b.buf_size) :
    Pos(b) <= i /\ i < BITS_PER_CHAR * (b.charPtr + 1) => b.chars[i] = 0

(* The encoder's buffer: nothing is ahead of the pointer. *)
Packing(b) ==
  /\ BufferFits(b) /\ BitBuffer(b)
  /\ b.nbBits = Pos(b)

LEMMA DivMod ==
  ASSUME NEW n \in Nat
  PROVE  /\ n \div 8 \in Nat /\ n % 8 \in 0 .. 7 /\ n = 8 * (n \div 8) + (n % 8)
OBVIOUS

LEMMA GrowKeeps ==
  ASSUME NEW b, Packing(b)
  PROVE  /\ Packing(Grow(b)) /\ Pos(Grow(b)) = Pos(b)
         /\ \A i \in Cells(b.buf_size) : Grow(b).chars[i] = b.chars[i]
         /\ ClearAhead(b) => ClearAhead(Grow(b))
<1> DEFINE size == ((b.buf_size + 5) * 3) \div 2
           cells == [i \in Cells(size) |->
                       IF i \in DOMAIN b.chars THEN b.chars[i] ELSE Junk]
           g == Grow(b)
<1>1. /\ BufferFits(g) /\ g.buf_size > b.buf_size + 1
      /\ g.charPtr = b.charPtr /\ g.bitPtr = b.bitPtr
  BY GrowEffect DEF Packing
<1>2. g = [b EXCEPT !.buf_size = size, !.chars = cells]
  BY DEF Packing, BufferFits, Grow
<1>3. DOMAIN cells = Cells(size)
      /\ \A i \in Cells(size) : i \in DOMAIN b.chars => cells[i] = b.chars[i]
  OBVIOUS
<1> HIDE DEF size, cells, g
<1>4. /\ g.buf_size = size /\ g.chars = cells /\ g.nbBits = b.nbBits
      /\ g.overflow = b.overflow
  BY <1>2 DEF Packing, BufferFits
<1>5. Pos(g) = Pos(b) /\ b.buf_size \in Nat /\ g.buf_size \in Nat
      /\ b.charPtr \in Nat /\ b.charPtr < b.buf_size
  BY <1>1 DEF Pos, Packing, BufferFits
<1>6. \A i \in Cells(b.buf_size) : i \in DOMAIN b.chars /\ i \in Cells(size)
  BY <1>1, <1>4, <1>5 DEF Packing, BitBuffer, Cells, BITS_PER_CHAR
<1>7. \A i \in Cells(b.buf_size) : g.chars[i] = b.chars[i]
  BY <1>3, <1>4, <1>6
<1>8. Packing(g)
  BY <1>1, <1>3, <1>4, <1>5 DEF Packing, BitBuffer, BITS_PER_CHAR
<1>9. ASSUME ClearAhead(b) PROVE ClearAhead(g)
  <2>1. ASSUME NEW i \in Cells(g.buf_size), Pos(g) <= i, i < 8 * (g.charPtr + 1)
        PROVE  g.chars[i] = 0
    <3>1. i \in Cells(b.buf_size)
      BY <1>1, <1>5, <2>1 DEF Cells, BITS_PER_CHAR
    <3> QED
      BY <1>1, <1>5, <1>7, <1>9, <2>1, <3>1 DEF ClearAhead, BITS_PER_CHAR
  <2> QED
    BY <2>1 DEF ClearAhead, BITS_PER_CHAR
<1> QED
  BY <1>5, <1>7, <1>8, <1>9 DEF g

LEMMA PackHereKeeps ==
  ASSUME NEW b, Packing(b), NEW data, Len(data) \in Nat,
         b.charPtr + (Len(data) + b.bitPtr) \div 8 < b.buf_size
  PROVE  LET r == PackHere(b, data)
         IN  /\ Packing(r) /\ Pos(r) = Pos(b) + Len(data)
             /\ r.buf_size = b.buf_size
             /\ \A i \in 0 .. Pos(b) - 1 : r.chars[i] = b.chars[i]
             /\ ClearAhead(b) =>
                  /\ \A j \in 1 .. Len(data) : r.chars[Pos(b) + j - 1] = data[j]
                  /\ ClearAhead(r)
<1> DEFINE upto == Pos(b) + Len(data)
           cleared == Cleared(b, upto)
           cells == [i \in DOMAIN b.chars |->
                       IF i \in Pos(b) .. upto - 1
                       THEN Or(cleared[i], data[i - Pos(b) + 1])
                       ELSE cleared[i]]
           r == PackHere(b, data)
<1>1. /\ BufferFits(b) /\ b.charPtr \in Nat /\ b.buf_size \in Nat
      /\ b.bitPtr \in 0 .. 7 /\ b.charPtr < b.buf_size
      /\ Pos(b) = 8 * b.charPtr + b.bitPtr /\ Pos(b) \in Nat
      /\ upto \in Nat /\ DOMAIN b.chars = Cells(b.buf_size)
      /\ b.overflow \in BOOLEAN /\ b.nbBits = Pos(b)
  BY DEF Packing, BufferFits, BitBuffer, Pos, BITS_PER_CHAR
<1>2. /\ BufferFits(r) /\ r.buf_size = b.buf_size
  BY <1>1, PackHereEffect
<1>3. r = [b EXCEPT !.nbBits = @ + Len(data), !.chars = cells,
                    !.charPtr = upto \div 8, !.bitPtr = upto % 8]
  BY <1>1 DEF PackHere, At, BITS_PER_CHAR, BufferFits
<1>4. /\ DOMAIN cells = Cells(b.buf_size)
      /\ \A i \in Cells(b.buf_size) :
           cells[i] = IF i \in Pos(b) .. upto - 1
                      THEN Or(cleared[i], data[i - Pos(b) + 1]) ELSE cleared[i]
  BY <1>1
<1>5. \A i \in Cells(b.buf_size) :
        cleared[i] = IF 8 * (i \div 8) \in Pos(b) + 1 .. upto
                     THEN 0 ELSE b.chars[i]
  BY <1>1 DEF Cleared, BITS_PER_CHAR
<1> HIDE DEF cells, cleared, r
<1>6. /\ r.nbBits = b.nbBits + Len(data) /\ r.chars = cells
      /\ r.charPtr = upto \div 8 /\ r.bitPtr = upto % 8 /\ r.overflow = b.overflow
  BY <1>1, <1>3 DEF BufferFits
<1>7. Pos(r) = upto
  BY <1>1, <1>6, DivMod DEF Pos, BITS_PER_CHAR
<1>8. Packing(r)
  <2>1. upto <= 8 * r.buf_size
    <3>1. r.charPtr \in Nat /\ r.bitPtr \in 0 .. 7 /\ r.charPtr < r.buf_size
          /\ r.buf_size \in Nat
      BY <1>2 DEF BufferFits
    <3>2. upto = 8 * r.charPtr + r.bitPtr
      BY <1>7 DEF Pos, BITS_PER_CHAR
    <3> QED
      BY <3>1, <3>2
  <2>2. r.nbBits = upto
    BY <1>1, <1>6
  <2>3. r.charPtr \in Nat /\ r.bitPtr \in 0 .. 8 - 1 /\ r.buf_size \in Nat
    BY <1>2 DEF BufferFits
  <2> HIDE DEF upto
  <2> QED
    BY <1>1, <1>2, <1>4, <1>6, <1>7, <2>1, <2>2, <2>3
    DEF Packing, BitBuffer, BITS_PER_CHAR
<1>p. Pos(b) \in Nat /\ Len(data) \in Nat /\ upto = Pos(b) + Len(data)
  BY <1>1
<1>9. ASSUME NEW i \in 0 .. Pos(b) - 1 PROVE r.chars[i] = b.chars[i]
  <2>1. i \in Nat /\ i < Pos(b)
    BY <1>p
  <2>2. Pos(b) <= 8 * b.buf_size
    BY DEF Packing, BitBuffer, BITS_PER_CHAR
  <2>3. i \in Cells(b.buf_size)
    BY <1>1, <2>1, <2>2 DEF Cells, BITS_PER_CHAR
  <2>4. 8 * (i \div 8) <= i
    BY <2>1
  <2>5. 8 * (i \div 8) \notin Pos(b) + 1 .. upto /\ i \notin Pos(b) .. upto - 1
    BY <1>p, <2>1, <2>4
  <2> QED
    BY <1>4, <1>5, <1>6, <2>3, <2>5
<1>10. ASSUME ClearAhead(b), NEW i \in Cells(b.buf_size), Pos(b) <= i,
              i < 8 * (upto \div 8 + 1)
       PROVE  cleared[i] = 0
  <2>1. i \in Nat
    BY <1>1 DEF Cells, BITS_PER_CHAR
  <2>2. CASE i \div 8 <= b.charPtr
    <3>1. i < 8 * (b.charPtr + 1)
      BY <1>1, <2>1, <2>2
    <3>2. b.chars[i] = 0
      BY <1>10, <3>1 DEF ClearAhead, BITS_PER_CHAR
    <3> QED
      BY <1>5, <1>10, <3>2
  <2>3. CASE i \div 8 > b.charPtr
    <3> DEFINE c == i \div 8
               u == upto \div 8
    <3>1. c \in Nat /\ u \in Nat /\ c < u + 1 /\ 8 * u <= upto
      <4>1. u \in Nat /\ 8 * u <= upto
        BY <1>1, DivMod
      <4> HIDE DEF upto
      <4>2. i < 8 * (u + 1)
        BY <1>10
      <4> HIDE DEF u
      <4>3. i \div 8 < u + 1 /\ i \div 8 \in Nat
        BY <2>1, <4>1, <4>2
      <4> QED
        BY <4>1, <4>3
    <3>2. c > b.charPtr
      BY <2>3
    <3> HIDE DEF c, u
    <3>3. 8 * c > Pos(b) /\ 8 * c <= upto
      <4> HIDE DEF upto
      <4>1. 8 * c <= 8 * u
        BY <3>1
      <4>2. 8 * c >= 8 * b.charPtr + 8
        BY <1>1, <3>1, <3>2
      <4>3. Pos(b) < 8 * b.charPtr + 8 /\ upto \in Nat
        BY <1>1
      <4> QED
        BY <1>1, <1>p, <3>1, <4>1, <4>2, <4>3
    <3>4. 8 * c \in Pos(b) + 1 .. upto
      BY <1>1, <3>1, <3>3
    <3> QED
      BY <1>5, <3>4 DEF c
  <2>4. i \div 8 \in Int /\ b.charPtr \in Int
    BY <1>1, <2>1
  <2> QED
    BY <2>2, <2>3, <2>4
<1>11. ASSUME ClearAhead(b), NEW j \in 1 .. Len(data)
       PROVE  r.chars[Pos(b) + j - 1] = data[j]
  <2> DEFINE i == Pos(b) + j - 1
  <2>1. i \in Nat /\ Pos(b) <= i /\ i < upto /\ i - Pos(b) + 1 = j
    BY <1>p
  <2>2. i \in Cells(b.buf_size)
    BY <1>1, <1>2, <1>6, <1>8, <2>1 DEF Packing, BitBuffer, Cells, BITS_PER_CHAR
  <2>3. i < 8 * (upto \div 8 + 1)
    BY <1>1, <2>1, DivMod
  <2>4. cleared[i] = 0
    BY <1>10, <1>11, <2>1, <2>2, <2>3
  <2>5. i \in Pos(b) .. upto - 1
    BY <1>1, <2>1
  <2> HIDE DEF i
  <2> QED
    BY <1>4, <1>6, <2>1, <2>2, <2>4, <2>5 DEF i, Or
<1>12. ASSUME ClearAhead(b) PROVE ClearAhead(r)
  <2>1. ASSUME NEW i \in Cells(r.buf_size), Pos(r) <= i, i < 8 * (r.charPtr + 1)
        PROVE  r.chars[i] = 0
    <3>1. i \in Cells(b.buf_size) /\ upto <= i /\ i < 8 * (upto \div 8 + 1)
      BY <1>2, <1>6, <1>7, <2>1
    <3>2. Pos(b) <= i /\ ~(i \in Pos(b) .. upto - 1)
      BY <1>1, <3>1 DEF Cells, BITS_PER_CHAR
    <3>3. cleared[i] = 0
      BY <1>10, <1>12, <3>1, <3>2
    <3> QED
      BY <1>4, <1>6, <3>1, <3>2, <3>3
  <2> QED
    BY <2>1 DEF ClearAhead, BITS_PER_CHAR
<1> HIDE DEF upto
<1> QED
  BY <1>2, <1>7, <1>8, <1>9, <1>11, <1>12 DEF r, upto

(* speex_bits_pack: what was in the buffer stays, data comes after it. *)
LEMMA PackKeeps ==
  ASSUME NEW b, Packing(b), NEW data, Len(data) \in Width
  PROVE  LET r == Pack(b, data)
         IN  /\ Packing(r) /\ Pos(r) = Pos(b) + Len(data)
             /\ r.buf_size >= b.buf_size
             /\ \A i \in 0 .. Pos(b) - 1 : r.chars[i] = b.chars[i]
             /\ ClearAhead(b) =>
                  /\ \A j \in 1 .. Len(data) : r.chars[Pos(b) + j - 1] = data[j]
                  /\ ClearAhead(r)
<1> DEFINE n == Len(data)
           a == IF NoRoom(b, n) THEN Grow(b) ELSE b
<1>1. /\ b.charPtr \in Nat /\ b.buf_size \in Nat /\ b.charPtr < b.buf_size
      /\ b.bitPtr \in 0 .. 7 /\ n \in 0 .. 8 /\ n \in Nat
      /\ BufferFits(b)
  BY DEF Packing, BufferFits, Width
<1>2. (n + b.bitPtr) \div 8 \in 0 .. 1
  <2> DEFINE p == b.bitPtr
  <2>1. p \in 0 .. 7
    BY <1>1
  <2> HIDE DEF p, n
  <2>2. (n + p) \div 8 \in 0 .. 1
    BY <1>1, <2>1
  <2> QED
    BY <2>2 DEF p
<1>3. \A i \in 0 .. Pos(b) - 1 : i \in Cells(b.buf_size)
  <2>1. Pos(b) <= 8 * b.buf_size /\ Pos(b) \in Int
    BY <1>1 DEF Packing, BitBuffer, BITS_PER_CHAR, Pos
  <2> QED
    BY <1>1, <2>1 DEF Cells, BITS_PER_CHAR
<1>4. /\ Packing(a) /\ Pos(a) = Pos(b) /\ a.buf_size >= b.buf_size
      /\ a.charPtr + (n + a.bitPtr) \div 8 < a.buf_size
      /\ \A i \in 0 .. Pos(b) - 1 : a.chars[i] = b.chars[i]
      /\ ClearAhead(b) => ClearAhead(a)
  <2>1. CASE NoRoom(b, n)
    <3> DEFINE g == Grow(b)
    <3>1. /\ g.charPtr = b.charPtr /\ g.bitPtr = b.bitPtr
          /\ g.buf_size > b.buf_size + 1 /\ g.buf_size \in Nat
      BY <1>1, GrowEffect DEF BufferFits
    <3>2. /\ Packing(g) /\ Pos(g) = Pos(b)
          /\ \A i \in Cells(b.buf_size) : g.chars[i] = b.chars[i]
          /\ ClearAhead(b) => ClearAhead(g)
      BY GrowKeeps
    <3>3. a = g
      BY <2>1
    <3> HIDE DEF g, a
    <3>4. /\ g.charPtr + (n + g.bitPtr) \div 8 < g.buf_size
          /\ g.buf_size >= b.buf_size
      BY <1>1, <1>2, <3>1
    <3> QED
      BY <1>3, <3>2, <3>3, <3>4
  <2>2. CASE ~NoRoom(b, n)
    <3>1. b.charPtr + (n + b.bitPtr) \div 8 < b.buf_size
      BY <1>1, <1>2, <2>2 DEF NoRoom, BITS_PER_CHAR
    <3>2. a = b /\ b.buf_size >= b.buf_size
      BY <1>1, <2>2
    <3> HIDE DEF a
    <3> QED
      BY <3>1, <3>2
  <2> QED
    BY <2>1, <2>2
<1>5. Pack(b, data) = PackHere(a, data)
  BY DEF Pack
<1> HIDE DEF a
<1>6. LET r == PackHere(a, data)
      IN  /\ Packing(r) /\ Pos(r) = Pos(a) + Len(data)
          /\ r.buf_size = a.buf_size
          /\ \A i \in 0 .. Pos(a) - 1 : r.chars[i] = a.chars[i]
          /\ ClearAhead(a) =>
               /\ \A j \in 1 .. Len(data) : r.chars[Pos(a) + j - 1] = data[j]
               /\ ClearAhead(r)
  BY <1>1, <1>4, PackHereKeeps
<1> HIDE DEF n
<1> QED
  BY <1>4, <1>5, <1>6

(* speex_bits_write: what was packed stays, and so do the pointers. *)
LEMMA TerminatedKeeps ==
  ASSUME NEW b, Packing(b)
  PROVE  LET r == Terminated(b)
         IN  /\ Packing(r) /\ Pos(r) = Pos(b)
             /\ \A i \in 0 .. Pos(b) - 1 : r.chars[i] = b.chars[i]
<1> DEFINE data == Terminator(b)
           p == Pack(b, data)
           r == Terminated(b)
<1>1. Len(data) \in Width
  <2> DEFINE n == (8 - b.bitPtr) % 8
  <2>1. n \in 0 .. 7
    BY DEF Packing, BufferFits
  <2> HIDE DEF n
  <2>2. data \in [1 .. n -> {0, 1}]
    BY <2>1 DEF Terminator, BITS_PER_CHAR, n
  <2> HIDE DEF data
  <2>3. Len(data) = n
    BY <2>1, <2>2, FunctionIsSeq
  <2> QED
    BY <2>1, <2>3 DEF Width
<1> HIDE DEF data
<1>2. /\ Packing(p) /\ p.buf_size >= b.buf_size
      /\ \A i \in 0 .. Pos(b) - 1 : p.chars[i] = b.chars[i]
  BY <1>1, PackKeeps
<1>3. BufferFits(p) /\ BitBuffer(p) /\ BufferFits(b) /\ BitBuffer(b) /\ b.nbBits = Pos(b)
  BY <1>2 DEF Packing
<1>4. r = [p EXCEPT !.charPtr = b.charPtr, !.bitPtr = b.bitPtr, !.nbBits = b.nbBits]
  BY DEF Terminated, data
<1> HIDE DEF p, r
<1>5. /\ r.charPtr = b.charPtr /\ r.bitPtr = b.bitPtr /\ r.nbBits = b.nbBits
      /\ r.buf_size = p.buf_size /\ r.chars = p.chars /\ r.overflow = p.overflow
      /\ DOMAIN r = DOMAIN p
  BY <1>3, <1>4 DEF BufferFits
<1>6. Pos(r) = Pos(b)
  BY <1>5 DEF Pos
<1>7. BufferFits(r)
  BY <1>2, <1>3, <1>5 DEF BufferFits
<1>8. b.nbBits \in 0 .. 8 * r.buf_size
  <2>1. b.nbBits \in Nat /\ b.nbBits <= 8 * b.buf_size
        /\ b.buf_size \in Nat /\ p.buf_size \in Nat
    BY <1>3 DEF BitBuffer, BITS_PER_CHAR
  <2> QED
    BY <1>2, <1>5, <2>1
<1>9. BitBuffer(r)
  BY <1>3, <1>5, <1>6, <1>8 DEF BitBuffer, BITS_PER_CHAR
<1> QED
  BY <1>2, <1>3, <1>5, <1>6, <1>7, <1>9 DEF Packing, r

LEMMA InitPacking == Packing(BitsInit) /\ Pos(BitsInit) = 0
<1> DEFINE b == BitsInit
<1>1. /\ BufferFits(b) /\ b.nbBits = 0 /\ b.charPtr = 0 /\ b.bitPtr = 0
      /\ b.overflow = FALSE /\ b.buf_size = MAX_CHARS_PER_FRAME
      /\ DOMAIN b.chars = Cells(b.buf_size)
  BY InitBuffer DEF BitsInit
<1> HIDE DEF b
<1>2. Pos(b) = 0
  BY <1>1 DEF Pos, BITS_PER_CHAR
<1>3. b.buf_size \in Nat /\ 0 \in 0 .. 8 * b.buf_size /\ 0 \in 0 .. 8 - 1
  BY <1>1, MaxCharsAssumption
<1>5. Pos(b) <= b.nbBits /\ b.overflow \in BOOLEAN
  <2>1. b.overflow \in BOOLEAN
    BY <1>1, Zenon
  <2> QED
    BY <1>1, <1>2, <2>1
<1>4. BitBuffer(b)
  BY <1>1, <1>2, <1>3, <1>5 DEF BitBuffer, BITS_PER_CHAR
<1> QED
  BY <1>1, <1>2, <1>4 DEF Packing, b

LEMMA ResetPacking ==
  ASSUME NEW b, Packing(b)
  PROVE  Packing(BitsReset(b)) /\ Pos(BitsReset(b)) = 0 /\ ClearAhead(BitsReset(b))
<1> DEFINE cells == [i \in DOMAIN b.chars |->
                       IF i < BITS_PER_CHAR THEN 0 ELSE b.chars[i]]
           r == BitsReset(b)
<1>1. r = [b EXCEPT !.chars = cells, !.nbBits = 0, !.charPtr = 0,
                    !.bitPtr = 0, !.overflow = FALSE]
  BY DEF BitsReset, Packing, BufferFits
<1>2. /\ DOMAIN cells = Cells(b.buf_size)
      /\ \A i \in Cells(b.buf_size) : i < 8 => cells[i] = 0
  BY DEF Packing, BitBuffer, BITS_PER_CHAR
<1> HIDE DEF cells, r
<1>3. /\ r.nbBits = 0 /\ r.charPtr = 0 /\ r.bitPtr = 0
      /\ r.overflow = FALSE /\ r.buf_size = b.buf_size /\ r.chars = cells
  BY <1>1 DEF Packing, BufferFits
<1>4. BufferFits(r)
  BY ResetBuffer DEF Packing, r
<1>5. Pos(r) = 0
  BY <1>3 DEF Pos, BITS_PER_CHAR
<1>6. b.buf_size \in Nat /\ 0 \in 0 .. 8 * b.buf_size /\ 0 \in 0 .. 8 - 1
  <2>1. b.buf_size \in Nat
    BY DEF Packing, BitBuffer
  <2> QED
    BY <2>1
<1>9. Pos(r) <= r.nbBits /\ r.overflow \in BOOLEAN
  <2>1. r.overflow \in BOOLEAN
    BY <1>3, Zenon
  <2> QED
    BY <1>3, <1>5, <2>1
<1>7. BitBuffer(r)
  BY <1>2, <1>3, <1>6, <1>9 DEF BitBuffer, BITS_PER_CHAR
<1>8. ClearAhead(r)
  BY <1>2, <1>3 DEF ClearAhead, BITS_PER_CHAR
<1> QED
  BY <1>3, <1>4, <1>5, <1>7, <1>8 DEF Packing, r

-----------------------------------------------------------------------------
(* The decoder's buffer. *)
Reading(b) ==
  /\ DOMAIN b = {"chars", "nbBits", "charPtr", "bitPtr", "overflow", "buf_size"}
  /\ BitBuffer(b)

LEMMA ReadFromEffect ==
  ASSUME NEW b, Reading(b), NEW cells, NEW nchars \in Nat
  PROVE  LET r == ReadFrom(b, cells, nchars)
         IN  /\ Reading(r) /\ Pos(r) = 0 /\ r.nbBits = 8 * nchars /\ ~r.overflow
             /\ \A i \in Cells(nchars) : r.chars[i] = cells[i]
<1> DEFINE size == IF nchars > b.buf_size THEN nchars ELSE b.buf_size
           chars == [i \in Cells(size) |->
                      IF i \in Cells(nchars) THEN cells[i]
                      ELSE IF i \in DOMAIN b.chars THEN b.chars[i] ELSE Junk]
           r == ReadFrom(b, cells, nchars)
<1>1. r = [chars |-> chars, nbBits |-> 8 * nchars, charPtr |-> 0, bitPtr |-> 0,
           overflow |-> FALSE, buf_size |-> size]
  BY DEF ReadFrom, BITS_PER_CHAR
<1>2. size \in Nat /\ nchars <= size
  BY DEF Reading, BitBuffer
<1>3. \A i \in Cells(nchars) : i \in Cells(size)
  <2> HIDE DEF size
  <2> QED
    BY <1>2 DEF Cells, BITS_PER_CHAR
<1>4. DOMAIN chars = Cells(size) /\ \A i \in Cells(nchars) : chars[i] = cells[i]
  BY <1>3
<1> HIDE DEF chars, size, r
<1>5. Pos(r) = 0
  BY <1>1 DEF Pos, BITS_PER_CHAR
<1>6. 8 * nchars \in 0 .. 8 * size
  BY <1>2
<1>7. BitBuffer(r)
  BY <1>1, <1>2, <1>4, <1>5, <1>6 DEF BitBuffer, BITS_PER_CHAR
<1> QED
  BY <1>1, <1>4, <1>5, <1>7 DEF Reading, r

(* speex_bits_advance: by any number, as long as it leads nowhere before   *)
(* the beginning.                                                          *)
LEMMA AdvanceEffect ==
  ASSUME NEW b, Reading(b), NEW n \in Int, Pos(b) + n >= 0
  PROVE  LET r == Advance(b, n)
         IN  /\ Reading(r) /\ r.nbBits = b.nbBits /\ r.chars = b.chars
             /\ PastEnd(b, n) => r.overflow /\ Pos(r) = Pos(b)
             /\ ~PastEnd(b, n) => ~r.overflow /\ Pos(r) = Pos(b) + n
<1> DEFINE r == Advance(b, n)
           p == Pos(b) + n
<1>1. /\ b.charPtr \in Nat /\ b.bitPtr \in 0 .. 7 /\ Pos(b) \in Nat
      /\ p \in Nat /\ b.nbBits \in Nat /\ b.overflow \in BOOLEAN
  BY DEF Reading, BitBuffer, Pos, BITS_PER_CHAR
<1>2. CASE PastEnd(b, n)
  <2>1. r = [b EXCEPT !.overflow = TRUE]
    BY <1>2 DEF Advance
  <2> HIDE DEF r
  <2>2. /\ DOMAIN r = DOMAIN b /\ r.overflow = TRUE
        /\ r.chars = b.chars /\ r.nbBits = b.nbBits /\ r.charPtr = b.charPtr
        /\ r.bitPtr = b.bitPtr /\ r.buf_size = b.buf_size
    BY <2>1 DEF Reading
  <2>3. Pos(r) = Pos(b)
    BY <2>2 DEF Pos
  <2> QED
    BY <1>2, <2>2, <2>3 DEF Reading, BitBuffer, r
<1>3. CASE ~PastEnd(b, n)
  <2>1. r = [b EXCEPT !.charPtr = p \div 8, !.bitPtr = p % 8]
    BY <1>3 DEF Advance, At, BITS_PER_CHAR
  <2>2. ~b.overflow /\ p <= b.nbBits
    BY <1>1, <1>3 DEF PastEnd
  <2> HIDE DEF r, p
  <2>3. /\ DOMAIN r = DOMAIN b /\ r.overflow = b.overflow
        /\ r.chars = b.chars /\ r.nbBits = b.nbBits /\ r.charPtr = p \div 8
        /\ r.bitPtr = p % 8 /\ r.buf_size = b.buf_size
    BY <2>1 DEF Reading
  <2>4. Pos(r) = p
    BY <1>1, <2>3, DivMod DEF Pos, BITS_PER_CHAR
  <2>5. r.charPtr \in Nat /\ r.bitPtr \in 0 .. 8 - 1
    BY <1>1, <2>3, DivMod
  <2>6. BitBuffer(r)
    BY <2>2, <2>3, <2>4, <2>5 DEF Reading, BitBuffer, BITS_PER_CHAR
  <2> QED
    BY <1>3, <2>2, <2>3, <2>4, <2>6 DEF Reading, r, p
<1> QED
  BY <1>2, <1>3

LEMMA FieldBitsLen ==
  ASSUME NEW k \in Nat, k > 1, NEW width \in Width
  PROVE  Len(FieldBits(k, width)) = width
<1>0. width \in Nat
  BY DEF Width
<1>1. CASE k = 2
  <2> DEFINE f == [j \in 1 .. width |-> BitOf(submode, width, j)]
             S == {f[j] : j \in 1 .. width}
  <2>1. f \in [1 .. width -> S] /\ FieldBits(k, width) = f
    BY <1>1 DEF FieldBits
  <2> HIDE DEF f, S
  <2> QED
    BY <1>0, <2>1, FunctionIsSeq
<1>2. CASE k > 2
  <2> DEFINE f == [j \in 1 .. width |-> Name(enc.frame, Pos(ebits) + j)]
             S == {f[j] : j \in 1 .. width}
  <2>1. f \in [1 .. width -> S] /\ FieldBits(k, width) = f
    BY <1>2 DEF FieldBits
  <2> HIDE DEF f, S
  <2> QED
    BY <1>0, <2>1, FunctionIsSeq
<1> QED
  BY <1>1, <1>2

-----------------------------------------------------------------------------
(* The call of decode. *)

DecFields == {"pc", "own", "known", "layer", "submode", "k", "got", "result"}

(* The call of decode and its buffer.  A layer has been announced by a bit *)
(* with at least three after it, so that skipping one of length 0 leads    *)
(* back to that bit and no further; a frame is read by a submode that is   *)
(* one of modes.c, out of a packet not yet at its end.                     *)
DecFits(d, b) ==
  /\ Reading(b)
  /\ DOMAIN d = DecFields
  /\ d.pc \in {"idle", "band", "layer", "submode", "inband", "user",
               "payload", "returned"}
  /\ d.layer \in 0 .. 2 /\ d.submode \in 0 .. 8 /\ d.result \in -2 .. 0
  /\ d.pc = "layer" => ~b.overflow /\ Pos(b) >= 1 /\ Pos(b) + 3 <= b.nbBits
  /\ d.pc = "payload" => ~b.overflow /\ d.submode \in 1 .. 8

LEMMA ReadingFacts ==
  ASSUME NEW b, Reading(b)
  PROVE  /\ Pos(b) \in Nat /\ b.nbBits \in Nat /\ Pos(b) <= b.nbBits
         /\ b.overflow \in BOOLEAN
<1>1. b.charPtr \in Nat /\ b.bitPtr \in 0 .. 7
  BY DEF Reading, BitBuffer, BITS_PER_CHAR
<1>2. Pos(b) \in Nat
  BY <1>1 DEF Pos, BITS_PER_CHAR
<1>3. b.nbBits \in Nat /\ Pos(b) <= b.nbBits
  BY DEF Reading, BitBuffer, BITS_PER_CHAR
<1> QED
  BY <1>2, <1>3 DEF Reading, BitBuffer

LEMMA IdleFits ==
  /\ DOMAIN IdleDec = DecFields
  /\ IdleDec.pc = "idle" /\ IdleDec.layer = 0 /\ IdleDec.submode = 0
  /\ IdleDec.result = 0 /\ IdleDec.own = FALSE /\ IdleDec.known = <<>>
BY DEF IdleDec, DecFields

LEMMA DecodeFits ==
  ASSUME DecFits(dec, dbits), NEW own, Decode(own)
  PROVE  DecFits(dec', dbits')
<1>1. PICK cells : dbits' = ReadFrom(dbits, cells, FrameSize)
  BY DEF Decode
<1>2. Reading(dbits')
  BY <1>1, ReadFromEffect, FrameSizeAssumption DEF DecFits
<1>3. dec' = [IdleDec EXCEPT !.pc = "band", !.own = own]
  BY DEF Decode
<1> QED
  BY <1>2, <1>3, IdleFits DEF DecFits, DecFields

LEMMA ReturnsFits ==
  ASSUME DecFits(dec, dbits), NEW result \in -2 .. 0, NEW b, Reading(b)
  PROVE  DecFits(Returns(result), b) /\ Returns(result).pc = "returned"
BY DEF DecFits, DecFields, Returns

LEMMA ReadsBandFits ==
  ASSUME DecFits(dec, dbits), ReadsBand
  PROVE  DecFits(dec', dbits')
<1>1. CASE dec.layer < 2 /\ Remaining(dbits) < 5
  <2>1. dec' = Returns(-1) /\ dbits' = dbits
    BY <1>1 DEF ReadsBand
  <2> QED
    BY <2>1, ReturnsFits DEF DecFits
<1>2. CASE ~(dec.layer < 2 /\ Remaining(dbits) < 5)
  <2>1. PICK wideband \in {0, 1} :
          /\ dbits' = Advance(dbits, 1)
          /\ dec' = IF wideband = 0 THEN [dec EXCEPT !.pc = "submode"]
                    ELSE IF dec.layer = 2 THEN Returns(-2)
                    ELSE [dec EXCEPT !.pc = "layer", !.layer = NextLayer(@),
                                     !.known = Known(1, 1, Pos(dbits))]
    BY <1>2 DEF ReadsBand
  <2>2. /\ Pos(dbits) \in Nat /\ dbits.nbBits \in Nat
        /\ dbits.overflow \in BOOLEAN /\ Reading(dbits)
    BY ReadingFacts DEF DecFits
  <2>3. /\ Reading(dbits') /\ dbits'.nbBits = dbits.nbBits
        /\ ~PastEnd(dbits, 1) => ~dbits'.overflow /\ Pos(dbits') = Pos(dbits) + 1
    BY <2>1, <2>2, AdvanceEffect
  <2>4. CASE wideband = 0
    BY <2>1, <2>3, <2>4 DEF DecFits, DecFields
  <2>5. CASE wideband = 1 /\ dec.layer = 2
    BY <2>1, <2>3, <2>5, ReturnsFits
  <2>6. CASE wideband = 1 /\ dec.layer # 2
    <3>1. ~dbits.overflow /\ dbits.nbBits - Pos(dbits) >= 5
      BY <1>2, <2>2, <2>6 DEF Remaining, DecFits
    <3>2. ~PastEnd(dbits, 1)
      BY <2>2, <3>1 DEF PastEnd
    <3>3. ~dbits'.overflow /\ Pos(dbits') >= 1 /\ Pos(dbits') + 3 <= dbits'.nbBits
      BY <2>2, <2>3, <3>1, <3>2
    <3> DEFINE known == Known(1, 1, Pos(dbits))
    <3>4. dec' = [dec EXCEPT !.pc = "layer", !.layer = dec.layer + 1,
                             !.known = known]
      BY <2>1, <2>6 DEF NextLayer, DecFits, DecFields
    <3> HIDE DEF known
    <3>5. dec.layer + 1 \in 0 .. 2
      BY <2>6 DEF DecFits
    <3> QED
      BY <2>3, <3>3, <3>4, <3>5 DEF DecFits, DecFields
  <2> QED
    BY <2>4, <2>5, <2>6
<1> QED
  BY <1>1, <1>2

LEMMA SkipsLayerFits ==
  ASSUME DecFits(dec, dbits), SkipsLayer
  PROVE  DecFits(dec', dbits')
<1> DEFINE b == Advance(dbits, SB_SUBMODE_BITS)
<1>1. PICK m \in 0 .. 7 :
        /\ dbits' = Advance(b, LayerBits(m))
        /\ dec' = [dec EXCEPT !.pc = "band",
                     !.known = Known(m, SB_SUBMODE_BITS, Pos(Advance(b, LayerBits(m))))]
  BY DEF SkipsLayer
<1>2. /\ Pos(dbits) \in Nat /\ dbits.nbBits \in Nat
      /\ dbits.overflow \in BOOLEAN /\ Reading(dbits)
  BY ReadingFacts DEF DecFits
<1>3. ~dbits.overflow /\ Pos(dbits) >= 1 /\ Pos(dbits) + 3 <= dbits.nbBits
  BY DEF SkipsLayer, DecFits
<1>4. Reading(b) /\ Pos(b) = Pos(dbits) + 3
  <2>1. ~PastEnd(dbits, 3)
    BY <1>2, <1>3 DEF PastEnd
  <2> QED
    BY <1>2, <2>1, AdvanceEffect DEF SB_SUBMODE_BITS
<1>5. LayerBits(m) \in Int /\ LayerBits(m) >= -4
  BY DEF LayerBits, wb_skip_table, SB_SUBMODE_BITS
<1> HIDE DEF b
<1>6. Reading(dbits')
  BY <1>1, <1>2, <1>3, <1>4, <1>5, AdvanceEffect
<1> DEFINE known == Known(m, SB_SUBMODE_BITS, Pos(Advance(b, LayerBits(m))))
<1>7. dec' = [dec EXCEPT !.pc = "band", !.known = known]
  BY <1>1
<1> HIDE DEF known
<1> QED
  BY <1>6, <1>7 DEF DecFits, DecFields

LEMMA ReadsSubmodeFits ==
  ASSUME DecFits(dec, dbits), ReadsSubmode
  PROVE  DecFits(dec', dbits')
<1>1. CASE Remaining(dbits) < 4
  <2>1. dec' = Returns(-1) /\ dbits' = dbits
    BY <1>1 DEF ReadsSubmode
  <2> QED
    BY <2>1, ReturnsFits DEF DecFits
<1>2. CASE ~(Remaining(dbits) < 4)
  <2>1. PICK m \in 0 .. 15 :
          /\ dbits' = Advance(dbits, NB_SUBMODE_BITS)
          /\ dec' = CASE m = 15 -> Returns(-1)
                      [] m \in {13, 14} ->
                           [dec EXCEPT !.known = <<>>, !.pc =
                              IF m = 14 THEN "inband" ELSE "user"]
                      [] m \in 9 .. 12 -> Returns(-2)
                      [] m = 0 -> [Returns(0) EXCEPT !.submode = 0]
                      [] OTHER -> [dec EXCEPT !.pc = "payload",
                                     !.submode = m, !.known = <<>>]
    BY <1>2, Zenon DEF ReadsSubmode
  <2>2. /\ Pos(dbits) \in Nat /\ dbits.nbBits \in Nat
        /\ dbits.overflow \in BOOLEAN /\ Reading(dbits)
    BY ReadingFacts DEF DecFits
  <2>3. ~PastEnd(dbits, 4)
    BY <1>2, <2>2 DEF PastEnd, Remaining
  <2>4. Reading(dbits') /\ ~dbits'.overflow
    BY <2>1, <2>2, <2>3, AdvanceEffect DEF NB_SUBMODE_BITS
  <2>5. CASE m = 15
    <3>1. dec' = Returns(-1)
      BY <2>1, <2>5
    <3> QED
      BY <2>4, <3>1, ReturnsFits
  <2>6. CASE m \in {13, 14}
    <3>1. dec' = [dec EXCEPT !.known = <<>>,
                             !.pc = IF m = 14 THEN "inband" ELSE "user"]
      BY <2>1, <2>6
    <3> QED
      BY <2>4, <3>1 DEF DecFits, DecFields
  <2>7. CASE m \in 9 .. 12
    <3>1. dec' = Returns(-2)
      BY <2>1, <2>7
    <3> QED
      BY <2>4, <3>1, ReturnsFits
  <2>8. CASE m = 0
    <3>1. dec' = [Returns(0) EXCEPT !.submode = 0]
      BY <2>1, <2>8
    <3>2. DecFits(Returns(0), dbits') /\ Returns(0).pc = "returned"
      BY <2>4, ReturnsFits
    <3> QED
      BY <3>1, <3>2 DEF DecFits, DecFields
  <2>9. CASE m \in 1 .. 8
    <3>1. dec' = [dec EXCEPT !.pc = "payload", !.submode = m, !.known = <<>>]
      BY <2>1, <2>9
    <3> QED
      BY <2>4, <2>9, <3>1 DEF DecFits, DecFields
  <2> QED
    BY <2>5, <2>6, <2>7, <2>8, <2>9
<1> QED
  BY <1>1, <1>2

LEMMA SkipsRequestFits ==
  ASSUME DecFits(dec, dbits), SkipsRequest
  PROVE  DecFits(dec', dbits')
<1>1. PICK v \in 0 .. 15 :
        dbits' = Advance(Advance(dbits, 4),
                   IF dec.pc = "inband" THEN InBandBits(v) ELSE UserBits(v))
  BY DEF SkipsRequest
<1> DEFINE n == IF dec.pc = "inband" THEN InBandBits(v) ELSE UserBits(v)
           b == Advance(dbits, 4)
<1>2. n \in Nat
  <2>1. InBandBits(v) \in Nat
    BY DEF InBandBits
  <2>2. UserBits(v) \in Nat
    BY DEF UserBits
  <2> QED
    BY <2>1, <2>2
<1>3. Reading(dbits) /\ Pos(dbits) \in Nat
  BY ReadingFacts DEF DecFits
<1>4. Reading(b)
  BY <1>3, AdvanceEffect
<1> HIDE DEF n, b
<1>5. Pos(b) \in Nat
  BY <1>4, ReadingFacts
<1>6. Reading(dbits')
  BY <1>1, <1>2, <1>4, <1>5, AdvanceEffect DEF n, b
<1>7. dec' = [dec EXCEPT !.pc = "band", !.layer = 0]
  BY DEF SkipsRequest
<1> QED
  BY <1>6, <1>7 DEF DecFits, DecFields

(* How many fields the packet has got: there is always one such number. *)
LastRead(m, room) ==
  LET upto == FieldEnds[m]
      n == Len(DecodeFields[m])
  IN  CHOOSE k \in 0 .. n : /\ upto[k] <= room
                            /\ k < n => upto[k + 1] > room

LEMMA LastField ==
  ASSUME NEW m \in 1 .. 8, NEW room \in Nat
  PROVE  LET upto == FieldEnds[m]
             n == Len(DecodeFields[m])
             last == LastRead(m, room)
         IN  /\ n \in Nat /\ last \in 0 .. n
             /\ upto[last] \in Nat /\ upto[last] <= room
             /\ upto[n] = Submodes[m].bits_per_frame - 5
             /\ Submodes[m].bits_per_frame - 5 <= room => last = n
<1> DEFINE w == DecodeFields[m]
           upto == FieldEnds[m]
           n == Len(w)
           Last(k) == upto[k] <= room /\ (k < n => upto[k + 1] > room)
           last == LastRead(m, room)
           T == {k \in 0 .. n : k = n \/ upto[k + 1] > room}
<1>1. /\ w \in Seq(Width) /\ Total(w) = Submodes[m].bits_per_frame - 5
  BY FieldsTotals
<1>2. upto = Ends(w)
  BY <1>1, FieldEndsAre
<1>3. /\ n \in Nat /\ upto[0] = 0 /\ \A k \in 0 .. n : upto[k] \in Nat
      /\ upto[n] = Total(w)
  BY <1>1, <1>2, EndsAre DEF EndsOf, Total
<1>4. \A k \in 0 .. n : upto[k] <= upto[n]
  <2>1. n \in 0 .. n
    BY <1>3
  <2> QED
    BY <1>1, <1>2, <2>1, EndsMonotone
<1>l. last = CHOOSE k \in 0 .. n : Last(k)
  BY Zenon DEF LastRead
<1> HIDE DEF w, upto, n, last
<1>5. PICK k \in T : \A i \in T : k <= i
  <2>1. T \subseteq Nat /\ n \in T
    BY <1>3
  <2> HIDE DEF T
  <2> QED
    BY <2>1, LeastNumber
<1>6. k \in 0 .. n /\ (k < n => upto[k + 1] > room)
  BY <1>3, <1>5
<1>7. upto[k] <= room
  <2>1. CASE k = 0
    BY <1>3, <2>1
  <2>2. CASE k > 0
    <3>1. k - 1 \in 0 .. n /\ ~(k <= k - 1) /\ k - 1 # n /\ k - 1 + 1 = k
      BY <1>3, <1>6, <2>2
    <3>2. ~(upto[k - 1 + 1] > room)
      BY <1>5, <3>1
    <3>3. upto[k] \in Nat
      BY <1>3, <1>6
    <3> QED
      BY <3>1, <3>2, <3>3
  <2> QED
    BY <1>3, <1>6, <2>1, <2>2
<1>8. Last(k)
  BY <1>6, <1>7
<1> HIDE DEF Last
<1>9. last \in 0 .. n /\ Last(last)
  BY <1>l, <1>6, <1>8
<1>10. upto[last] \in Nat /\ upto[last] <= room
  BY <1>3, <1>9 DEF Last
<1>11. ASSUME upto[n] <= room PROVE last = n
  <2> SUFFICES ASSUME last < n PROVE FALSE
    BY <1>3, <1>9
  <2>1. upto[last + 1] > room /\ last + 1 \in 0 .. n
    BY <1>3, <1>9 DEF Last
  <2>2. upto[last + 1] <= upto[n] /\ upto[last + 1] \in Nat /\ upto[n] \in Nat
    BY <1>3, <1>4, <2>1
  <2> QED
    BY <1>11, <2>1, <2>2
<1> QED
  BY <1>1, <1>3, <1>9, <1>10, <1>11 DEF last, Last, w, upto, n

LEMMA ReadsFrameIs ==
  ASSUME ReadsFrame
  PROVE  LET m == dec.submode
             upto == FieldEnds[m]
             n == Len(DecodeFields[m])
             last == LastRead(m, Remaining(dbits))
         IN  /\ dec.pc = "payload"
             /\ dbits' = [Advance(dbits, upto[last]) EXCEPT !.overflow = last < n]
             /\ dec' = [Returns(0) EXCEPT !.got =
                          IF dec.own
                          THEN Unpacked(dbits, upto[last])
                                 \o Times(upto[n] - upto[last], 0)
                          ELSE @]
BY Zenon DEF ReadsFrame, LastRead

LEMMA ReadsFrameFits ==
  ASSUME DecFits(dec, dbits), ReadsFrame
  PROVE  DecFits(dec', dbits')
<1> DEFINE upto == FieldEnds[dec.submode]
           n == Len(DecodeFields[dec.submode])
           room == Remaining(dbits)
           last == LastRead(dec.submode, room)
           b == Advance(dbits, upto[last])
<1>0. dec.pc = "payload" /\ dbits' = [b EXCEPT !.overflow = last < n]
  BY ReadsFrameIs
<1>1. dec.submode \in 1 .. 8 /\ ~dbits.overflow
  <2> HIDE DEF b, last, n
  <2> QED
    BY <1>0 DEF DecFits
<1>2. PICK got : dec' = [Returns(0) EXCEPT !.got = got]
  BY ReadsFrameIs
<1>3. Reading(dbits) /\ Pos(dbits) \in Nat /\ room \in Nat
  <2>1. Reading(dbits) /\ Pos(dbits) \in Nat /\ dbits.nbBits \in Nat
        /\ Pos(dbits) <= dbits.nbBits
    BY ReadingFacts DEF DecFits
  <2> QED
    BY <1>1, <2>1 DEF Remaining
<1> HIDE DEF room
<1>4. upto[last] \in Nat /\ last \in Int /\ n \in Int
  <2>1. n \in Nat /\ last \in 0 .. n /\ upto[last] \in Nat
    BY <1>1, <1>3, LastField, Zenon
  <2> HIDE DEF n, last, upto
  <2> QED
    BY <2>1
<1> HIDE DEF upto, n, last
<1>5. Reading(b)
  BY <1>3, <1>4, AdvanceEffect
<1> HIDE DEF b
<1>6. Reading(dbits')
  <2>1. (last < n) \in BOOLEAN
    OBVIOUS
  <2> DEFINE past == last < n
  <2> HIDE DEF past
  <2>2. /\ DOMAIN dbits' = DOMAIN b /\ dbits'.overflow = past
        /\ dbits'.chars = b.chars /\ dbits'.nbBits = b.nbBits
        /\ dbits'.charPtr = b.charPtr /\ dbits'.bitPtr = b.bitPtr
        /\ dbits'.buf_size = b.buf_size
    BY <1>0, <1>5 DEF Reading, past
  <2>3. dbits'.overflow \in BOOLEAN
    BY <2>1, <2>2 DEF past
  <2>4. Pos(dbits') = Pos(b)
    BY <2>2 DEF Pos
  <2> QED
    BY <1>5, <2>2, <2>3, <2>4 DEF Reading, BitBuffer
<1>7. DecFits(Returns(0), dbits') /\ Returns(0).pc = "returned"
  BY <1>6, ReturnsFits
<1> QED
  BY <1>2, <1>7 DEF DecFits, DecFields

LEMMA PlayedFits ==
  ASSUME DecFits(dec, dbits), Played
  PROVE  DecFits(dec', dbits')
<1> DEFINE b == BitsInit
<1>1. BufferFits(b) /\ BitBuffer(b)
  BY InitPacking DEF Packing
<1>2. dec' = IdleDec /\ dbits' = [b EXCEPT !.overflow = dbits.overflow]
      /\ dbits.overflow \in BOOLEAN
  BY DEF Played, DecFits, Reading, BitBuffer
<1> HIDE DEF b
<1>3. /\ DOMAIN dbits' = DOMAIN b /\ dbits'.overflow = dbits.overflow
      /\ dbits'.chars = b.chars /\ dbits'.nbBits = b.nbBits
      /\ dbits'.charPtr = b.charPtr /\ dbits'.bitPtr = b.bitPtr
      /\ dbits'.buf_size = b.buf_size
  BY <1>1, <1>2 DEF BufferFits
<1>4. Pos(dbits') = Pos(b)
  BY <1>3 DEF Pos
<1>5. Reading(dbits')
  BY <1>1, <1>2, <1>3, <1>4 DEF Reading, BitBuffer, BufferFits
<1> QED
  BY <1>2, <1>5, IdleFits DEF DecFits

LEMMA InitReading == Reading(BitsInit)
BY InitPacking DEF Packing, Reading, BufferFits

-----------------------------------------------------------------------------
(* The codec as a whole. *)

(* The encoder's side: while the codec is open, and in the middle of a     *)
(* frame, it has one of the submodes of modes.c.                           *)
EncFits ==
  /\ Packing(ebits)
  /\ codec_open \in 0 .. calls /\ calls \in 0 .. MaxCalls
  /\ submode \in 0 .. 8
  /\ enc \in [pc : {"idle", "packing"}, k : Nat, frame : 0 .. 1]
  /\ codec_open > 0 \/ enc.pc = "packing" => submode \in 1 .. 8
  /\ enc.pc = "packing" =>
       enc.k > 0 /\ enc.k <= Len(EncodeFields[submode]) + 1

IInv == EncFits /\ DecFits(dec, dbits)

LEMMA InitIInv == Init => IInv
<1> SUFFICES ASSUME Init PROVE IInv
  OBVIOUS
<1>1. EncFits
  BY InitPacking, MaxCallsAssumption DEF Init, EncFits, IdleEnc
<1>2. DecFits(dec, dbits)
  BY IdleFits, InitReading DEF Init, DecFits
<1> QED
  BY <1>1, <1>2 DEF IInv

(* The field that is packed next has at most 8 bits. *)
LEMMA NextFieldWidth ==
  ASSUME EncFits, PackField
  PROVE  LET width == EncodeFields[submode][enc.k]
         IN  /\ submode \in 1 .. 8 /\ enc.k \in 1 .. Len(EncodeFields[submode])
             /\ width \in Width /\ Len(FieldBits(enc.k, width)) = width
             /\ ebits' = Pack(ebits, FieldBits(enc.k, width))
<1> DEFINE width == EncodeFields[submode][enc.k]
<1>1. /\ submode \in 1 .. 8 /\ enc.k \in Nat /\ enc.k > 0
      /\ enc.k <= Len(EncodeFields[submode])
      /\ ebits' = Pack(ebits, FieldBits(enc.k, width))
  BY DEF EncFits, PackField
<1>2. /\ EncodeFields[submode] \in Seq(Width) /\ EncodeFields[submode][1] = 1
  BY <1>1, FieldsTotals
<1>3. enc.k \in 1 .. Len(EncodeFields[submode]) /\ width \in Width
  BY <1>1, <1>2, LenProperties
<1>4. Len(FieldBits(enc.k, width)) = width
  <2>1. CASE enc.k = 1
    BY <1>2, <2>1 DEF FieldBits
  <2>2. CASE enc.k # 1
    <3> HIDE DEF width
    <3> QED
      BY <1>1, <1>3, <2>2, FieldBitsLen
  <2> QED
    BY <2>1, <2>2
<1> QED
  BY <1>1, <1>3, <1>4

LEMMA EncFitsKept == IInv /\ [Next]_vars => EncFits'
<1> SUFFICES ASSUME IInv, [Next]_vars PROVE EncFits'
  OBVIOUS
<1> USE DEF IInv
<1>0. codec_open \in Nat /\ calls \in Nat
  BY MaxCallsAssumption DEF EncFits
<1>1. ASSUME NEW quality \in Qualities, Open(quality)
      PROVE  EncFits'
  <2>1. quality_map[quality] \in 1 .. 8
    BY QualitiesAssumption, QualityIsSubmode
  <2>2. calls' = calls + 1 /\ calls < MaxCalls /\ enc.pc = "idle" /\ enc' = enc
        /\ codec_open' = codec_open + 1
    BY <1>1 DEF Open, Called
  <2>3. Packing(ebits') /\ submode' \in 1 .. 8
    BY <1>0, <1>1, <2>1, InitPacking DEF EncFits, Open
  <2> QED
    BY <1>0, <2>2, <2>3, MaxCallsAssumption DEF EncFits
<1>2. CASE Close
  BY <1>0, <1>2, MaxCallsAssumption DEF EncFits, Close, Called
<1>3. CASE Encode
  <2>1. Packing(ebits')
    BY <1>3, ResetPacking DEF EncFits, Encode
  <2>2. /\ calls' = calls + 1 /\ calls < MaxCalls /\ codec_open' = codec_open
        /\ codec_open > 0 /\ submode' = submode
        /\ enc' = [pc |-> "packing", k |-> 1, frame |-> 1 - enc.frame]
    BY <1>3 DEF Encode, Called
  <2>3. submode \in 1 .. 8 /\ enc.frame \in 0 .. 1
    BY <2>2 DEF EncFits
  <2>4. 1 <= Len(EncodeFields[submode]) + 1
    <3>1. EncodeFields[submode] \in Seq(Width)
      BY <2>3, FieldsTotals
    <3>2. Len(EncodeFields[submode]) \in Nat
      BY <3>1, EndsAre
    <3> QED
      BY <3>2
  <2> QED
    BY <1>0, <2>1, <2>2, <2>3, <2>4, MaxCallsAssumption DEF EncFits
<1>4. ASSUME NEW own \in BOOLEAN, Decode(own)
      PROVE  EncFits'
  BY <1>0, <1>4, MaxCallsAssumption DEF EncFits, Decode, Called
<1>5. CASE PackField
  <2> DEFINE width == EncodeFields[submode][enc.k]
  <2>1. /\ width \in Width /\ Len(FieldBits(enc.k, width)) = width
        /\ enc.k \in 1 .. Len(EncodeFields[submode])
        /\ ebits' = Pack(ebits, FieldBits(enc.k, width))
    BY <1>5, NextFieldWidth
  <2> HIDE DEF width
  <2>2. Packing(ebits')
    BY <2>1, PackKeeps DEF EncFits
  <2> QED
    BY <1>5, <2>1, <2>2 DEF EncFits, PackField
<1>6. CASE Encoded
  <2>1. Len(<<0, 1, 1, 1, 1>>) \in Width
    BY DEF Width
  <2>2. Packing(Pack(ebits, <<0, 1, 1, 1, 1>>))
    BY <2>1, PackKeeps DEF EncFits
  <2>3. Packing(ebits')
    BY <1>6, <2>2, TerminatedKeeps DEF Encoded
  <2> QED
    BY <1>6, <2>3 DEF EncFits, Encoded
<1>7. CASE Decoding
  BY <1>7 DEF EncFits, Decoding, ReadsBand, SkipsLayer, ReadsSubmode,
              SkipsRequest, ReadsFrame, Played
<1>8. CASE UNCHANGED vars
  BY <1>8 DEF EncFits, vars
<1> QED
  BY <1>1, <1>2, <1>3, <1>4, <1>5, <1>6, <1>7, <1>8 DEF Next, Encoding

LEMMA DecFitsKept == IInv /\ [Next]_vars => DecFits(dec, dbits)'
<1> SUFFICES ASSUME IInv, [Next]_vars PROVE DecFits(dec', dbits')
  OBVIOUS
<1>0. DecFits(dec, dbits)
  BY DEF IInv
<1>1. ASSUME NEW quality \in Qualities, Open(quality)
      PROVE  DecFits(dec', dbits')
  <2>1. dec' = dec /\ dec.pc = "idle"
    BY <1>1 DEF Open, Called
  <2>2. Reading(dbits')
    BY <1>0, <1>1, InitReading DEF Open, DecFits
  <2> QED
    BY <1>0, <2>1, <2>2 DEF DecFits
<1>2. CASE Close \/ Encode \/ PackField \/ Encoded \/ UNCHANGED vars
  <2>1. dec' = dec /\ dbits' = dbits
    BY <1>2 DEF Close, Encode, PackField, Encoded, vars
  <2> QED
    BY <1>0, <2>1
<1>3. ASSUME NEW own \in BOOLEAN, Decode(own)
      PROVE  DecFits(dec', dbits')
  BY <1>0, <1>3, DecodeFits
<1>4. CASE Decoding
  BY <1>0, <1>4, ReadsBandFits, SkipsLayerFits, ReadsSubmodeFits,
     SkipsRequestFits, ReadsFrameFits, PlayedFits DEF Decoding
<1> QED
  BY <1>1, <1>2, <1>3, <1>4 DEF Next, Encoding

LEMMA NextIInv == IInv /\ [Next]_vars => IInv'
BY EncFitsKept, DecFitsKept DEF IInv

(* While frames of any submode are encoded, one after the other into the   *)
(* same buffer of any size, the char that speex_bits_pack clears is one    *)
(* that has been allocated.                                                *)
THEOREM InsideBufferHolds == Spec => []InsideBuffer
<1>1. IInv => InsideBuffer
  BY DEF IInv, EncFits, Packing, BufferFits, InsideBuffer
<1> QED
  BY InitIInv, NextIInv, <1>1, PTL DEF Spec

(* Whatever is encoded, and whatever the packets hold that are decoded, no *)
(* read goes past the bits put in, and the pointers are never negative: a  *)
(* wideband layer of length 0 leads back to the bit that announced it.     *)
THEOREM TypeOKHolds == Spec => []TypeOK
<1>1. IInv => TypeOK
  BY DEF IInv, EncFits, DecFits, Packing, Reading, TypeOK
<1> QED
  BY InitIInv, NextIInv, <1>1, PTL DEF Spec

-----------------------------------------------------------------------------
(* What becomes of a frame. *)

Bits(m) == Submodes[m].bits_per_frame

(* Bit i of a frame, as it is packed: the wideband bit, the submode, the   *)
(* rest.                                                                   *)
FrameBit(m, frame, i) ==
  IF i = 0 THEN 0 ELSE IF i < 5 THEN BitOf(m, NB_SUBMODE_BITS, i)
  ELSE Name(frame, i + 1)

Holds(chars, m, frame, upto) ==
  \A i \in 0 .. upto - 1 : chars[i] = FrameBit(m, frame, i)

(* A frame being packed: the first fields are in the buffer, and nothing   *)
(* is ahead of them.                                                       *)
PackedHolds ==
  enc.pc = "packing" =>
    /\ ClearAhead(ebits)
    /\ Pos(ebits) = Ends(EncodeFields[submode])[enc.k - 1]
    /\ Holds(ebits.chars, submode, enc.frame, Pos(ebits))

(* A packet of this encoder has the whole frame. *)
SentHolds ==
  sent = NoPacket
    \/ /\ sent.submode \in 1 .. 8
       /\ 0 .. Bits(sent.submode) - 1 \subseteq DOMAIN sent.cells
       /\ Holds(sent.cells, sent.submode, sent.frame, Bits(sent.submode))

(* A packet of this encoder is read straight on: no layer, no request.     *)
ReadHolds(d, b) ==
  d.own /\ d.pc # "idle" =>
    /\ sent # NoPacket
    /\ d.pc \in {"band", "submode", "payload", "returned"}
    /\ ~b.overflow
    /\ d.pc # "returned" =>
         /\ b.nbBits = 8 * FrameSize
         /\ Holds(b.chars, sent.submode, sent.frame, Bits(sent.submode))
    /\ d.pc = "band" => Pos(b) = 0 /\ d.layer = 0
    /\ d.pc = "submode" => Pos(b) = 1
    /\ d.pc = "payload" => Pos(b) = 5 /\ d.submode = sent.submode
    /\ d.pc = "returned" =>
         /\ d.result = 0 /\ d.submode = sent.submode
         /\ Pos(b) = Bits(sent.submode)
         /\ d.got = [j \in 1 .. Bits(sent.submode) - 5 |-> Name(sent.frame, 5 + j)]

(* One call at a time. *)
OneCall == enc.pc = "idle" \/ dec.pc = "idle"

FrameInv == PackedHolds /\ SentHolds /\ OneCall /\ ReadHolds(dec, dbits)

LEMMA BitsKnown ==
  \A m \in 1 .. 8 : Bits(m) \in 43 .. 492
BY DEF Bits, Submodes, Submode

LEMMA FirstEnds ==
  ASSUME NEW m \in 1 .. 8
  PROVE  LET w == EncodeFields[m]
             upto == Ends(w)
         IN  /\ w \in Seq(Width) /\ Len(w) \in Nat /\ Len(w) >= 2
             /\ w[1] = 1 /\ w[2] = 4
             /\ upto[0] = 0 /\ upto[1] = 1 /\ upto[2] = 5
             /\ upto[Len(w)] = Bits(m)
             /\ \A k \in 0 .. Len(w) : upto[k] \in Nat /\ (k >= 2 => upto[k] >= 5)
             /\ \A k \in 1 .. Len(w) : upto[k] = upto[k - 1] + w[k]
<1> DEFINE w == EncodeFields[m]
           upto == Ends(w)
<1>1. /\ w \in Seq(Width) /\ Len(w) >= 2 /\ w[1] = 1 /\ w[2] = 4
      /\ Total(w) = Bits(m)
  BY FieldsTotals DEF Bits, NB_SUBMODE_BITS
<1> HIDE DEF w
<1>2. /\ Len(w) \in Nat /\ upto[0] = 0 /\ upto[Len(w)] = Bits(m)
      /\ \A k \in 0 .. Len(w) : upto[k] \in Nat
      /\ \A k \in 1 .. Len(w) : upto[k] = upto[k - 1] + w[k]
  BY <1>1, EndsAre DEF EndsOf, Total
<1>3. \A k \in 0 .. Len(w) : \A j \in 0 .. k : upto[j] <= upto[k]
  BY <1>1, EndsMonotone
<1> HIDE DEF upto
<1>4. upto[1] = 1
  BY <1>1, <1>2
<1>5. upto[2] = 5
  BY <1>1, <1>2, <1>4
<1>6. \A k \in 0 .. Len(w) : k >= 2 => upto[k] >= 5
  <2>1. ASSUME NEW k \in 0 .. Len(w), k >= 2 PROVE upto[2] <= upto[k]
    BY <1>2, <1>3, <2>1
  <2> QED
    BY <1>5, <2>1
<1> QED
  BY <1>1, <1>2, <1>4, <1>5, <1>6 DEF w, upto

(* One more field is one more piece of the frame. *)
LEMMA PackFieldHolds ==
  ASSUME IInv, PackedHolds, PackField
  PROVE  PackedHolds'
<1> DEFINE m == submode
           w == EncodeFields[m]
           k == enc.k
           data == FieldBits(k, w[k])
           p == Pos(ebits)
<1>1. /\ m \in 1 .. 8 /\ k \in 1 .. Len(w) /\ w[k] \in Width
      /\ Len(data) = w[k] /\ ebits' = Pack(ebits, data) /\ Packing(ebits)
  BY NextFieldWidth DEF IInv, EncFits
<1>2. /\ enc.pc = "packing" /\ m' = m
      /\ enc' = [enc EXCEPT !.k = k + 1]
  BY DEF PackField
<1>3. /\ enc'.pc = "packing" /\ enc'.k = k + 1 /\ enc'.frame = enc.frame
  BY <1>2 DEF IInv, EncFits
<1>4. ClearAhead(ebits) /\ p = Ends(w)[k - 1] /\ Holds(ebits.chars, m, enc.frame, p)
  BY <1>2 DEF PackedHolds
<1>5. /\ Packing(ebits') /\ Pos(ebits') = p + w[k] /\ ClearAhead(ebits')
      /\ \A i \in 0 .. p - 1 : ebits'.chars[i] = ebits.chars[i]
      /\ \A j \in 1 .. w[k] : ebits'.chars[p + j - 1] = data[j]
  <2> HIDE DEF data, w, k
  <2> QED
    BY <1>1, <1>4, PackKeeps
<1>6. /\ Len(w) \in Nat /\ w[1] = 1 /\ w[2] = 4 /\ p \in Nat /\ w[k] \in Nat
      /\ k \in Nat /\ k >= 1
      /\ k = 1 => p = 0
      /\ k = 2 => p = 1
      /\ k > 2 => p >= 5
      /\ p + w[k] = Ends(w)[k]
  <2>1. /\ Len(w) \in Nat /\ w[1] = 1 /\ w[2] = 4
        /\ Ends(w)[0] = 0 /\ Ends(w)[1] = 1
        /\ \A j \in 0 .. Len(w) : Ends(w)[j] \in Nat /\ (j >= 2 => Ends(w)[j] >= 5)
        /\ \A j \in 1 .. Len(w) : Ends(w)[j] = Ends(w)[j - 1] + w[j]
    BY <1>1, FirstEnds
  <2>2. k - 1 \in 0 .. Len(w) /\ k \in Nat /\ k >= 1 /\ w[k] \in Nat
    BY <1>1, <2>1 DEF Width
  <2> HIDE DEF p, w, k
  <2> QED
    BY <1>1, <1>4, <2>1, <2>2
<1>7. ASSUME NEW j \in 1 .. w[k]
      PROVE  data[j] = FrameBit(m, enc.frame, p + j - 1)
  <2>1. CASE k = 1
    <3>1. j = 1 /\ p + j - 1 = 0 /\ data = <<0>>
      BY <1>6, <1>7, <2>1 DEF FieldBits
    <3> QED
      BY <3>1 DEF FrameBit
  <2>2. CASE k = 2
    <3>1. j \in 1 .. 4 /\ p + j - 1 = j
      BY <1>6, <1>7, <2>2
    <3>2. data = [i \in 1 .. 4 |-> BitOf(m, 4, i)]
      BY <1>6, <2>2 DEF FieldBits
    <3> HIDE DEF data, p
    <3> QED
      BY <3>1, <3>2 DEF FrameBit, NB_SUBMODE_BITS
  <2>3. CASE k > 2
    <3>1. p + j - 1 \in Nat /\ p + j - 1 >= 5 /\ p + j - 1 + 1 = p + j
      <4> HIDE DEF p, w, k
      <4> QED
        BY <1>6, <1>7, <2>3
    <3>2. data = [i \in 1 .. w[k] |-> Name(enc.frame, p + i)]
      BY <1>6, <2>3 DEF FieldBits
    <3>3. data[j] = Name(enc.frame, p + j)
      <4> HIDE DEF data, p, w
      <4> QED
        BY <1>7, <3>2
    <3> HIDE DEF data, p
    <3> QED
      BY <3>1, <3>3 DEF FrameBit
  <2> QED
    BY <1>6, <2>1, <2>2, <2>3
<1> HIDE DEF data
<1>8. \A i \in 0 .. (p + w[k]) - 1 : ebits'.chars[i] = FrameBit(m, enc.frame, i)
  <2> SUFFICES ASSUME NEW i \in 0 .. (p + w[k]) - 1
               PROVE  ebits'.chars[i] = FrameBit(m, enc.frame, i)
    OBVIOUS
  <2>1. CASE i < p
    <3>1. i \in 0 .. p - 1
      BY <1>6, <2>1
    <3> HIDE DEF m, p
    <3> QED
      BY <1>4, <1>5, <3>1 DEF Holds
  <2>2. CASE i >= p
    <3> DEFINE j == i - p + 1
    <3>1. j \in 1 .. w[k] /\ p + j - 1 = i
      <4> HIDE DEF p, w, k
      <4> QED
        BY <1>6, <2>2
    <3> HIDE DEF j, m, p, w, k
    <3> QED
      BY <1>5, <1>7, <3>1
  <2> QED
    BY <1>6, <2>1, <2>2
<1>9. Holds(ebits'.chars, m, enc.frame, Pos(ebits'))
  <2> DEFINE h == p + w[k]
  <2>1. Pos(ebits') = h
    BY <1>5, Zenon
  <2>2. Holds(ebits'.chars, m, enc.frame, h)
    <3> HIDE DEF m, p, w, k
    <3> QED
      BY <1>8, Zenon DEF Holds
  <2> HIDE DEF m, p, w, k, h
  <2> QED
    BY <2>1, <2>2, Zenon
<1>10. Pos(ebits') = Ends(EncodeFields[submode'])[enc'.k - 1]
  BY <1>2, <1>3, <1>5, <1>6
<1> QED
  BY <1>2, <1>3, <1>5, <1>9, <1>10 DEF PackedHolds

(* The packet that is handed to Java has the whole frame. *)
LEMMA EncodedHolds ==
  ASSUME IInv, PackedHolds, Encoded, FrameSize >= 62
  PROVE  SentHolds' /\ sent' # NoPacket
<1> DEFINE m == submode
           w == EncodeFields[m]
           data == <<0, 1, 1, 1, 1>>
           b == Pack(ebits, data)
           p == Pos(ebits)
           n == SmallerOf(FrameSize, NBytes(b))
<1>1. /\ enc.pc = "packing" /\ m \in 1 .. 8 /\ enc.k = Len(w) + 1 /\ Packing(ebits)
      /\ sent' = [cells |-> Written(b, FrameSize), submode |-> m, frame |-> enc.frame]
  <2>1. /\ enc.pc = "packing" /\ m \in 1 .. 8 /\ enc.k > Len(w) /\ Packing(ebits)
        /\ enc.k <= Len(w) + 1 /\ enc.k \in Nat
        /\ sent' = [cells |-> Written(b, FrameSize), submode |-> m, frame |-> enc.frame]
    BY DEF Encoded, IInv, EncFits
  <2>2. Len(w) \in Nat
    BY <2>1, FirstEnds
  <2> HIDE DEF w, b
  <2> QED
    BY <2>1, <2>2
<1>2. p = Bits(m) /\ Holds(ebits.chars, m, enc.frame, p)
  <2>1. /\ p = Ends(w)[Len(w) + 1 - 1] /\ Holds(ebits.chars, m, enc.frame, p)
    BY <1>1 DEF PackedHolds
  <2>2. Len(w) \in Nat /\ Ends(w)[Len(w)] = Bits(m)
    BY <1>1, FirstEnds
  <2> QED
    BY <2>1, <2>2
<1>3. Len(data) \in Width /\ Len(data) = 5
  BY DEF Width
<1> HIDE DEF data
<1>4. /\ Packing(b) /\ Pos(b) = p + 5
      /\ \A i \in 0 .. p - 1 : b.chars[i] = ebits.chars[i]
  <2>1. /\ Packing(b) /\ Pos(b) = p + Len(data)
        /\ \A i \in 0 .. p - 1 : b.chars[i] = ebits.chars[i]
    BY <1>1, <1>3, PackKeeps, Zenon
  <2> QED
    BY <1>3, <2>1, Zenon
<1>5. p \in 43 .. 492
  BY <1>1, <1>2, BitsKnown
<1> HIDE DEF b, p, w
<1>6. \A i \in 0 .. p - 1 : Terminated(b).chars[i] = b.chars[i]
  <2>1. \A i \in 0 .. Pos(b) - 1 : Terminated(b).chars[i] = b.chars[i]
    BY <1>4, TerminatedKeeps
  <2> QED
    BY <1>4, <1>5, <2>1
<1>7. p <= 8 * n
  <2>1. b.nbBits = p + 5
    BY <1>4 DEF Packing
  <2>2. NBytes(b) = (p + 12) \div 8
    BY <1>5, <2>1 DEF NBytes, BITS_PER_CHAR
  <2>3. p <= 8 * ((p + 12) \div 8)
    BY <1>5
  <2>4. p <= 8 * FrameSize
    BY <1>5, FrameSizeAssumption
  <2> QED
    BY <2>2, <2>3, <2>4 DEF SmallerOf
<1>8. n \in Nat
  <2>1. b.nbBits = p + 5
    BY <1>4 DEF Packing
  <2>2. NBytes(b) \in Nat
    BY <1>5, <2>1 DEF NBytes, BITS_PER_CHAR
  <2> QED
    BY <2>2, FrameSizeAssumption DEF SmallerOf
<1>9. Written(b, FrameSize) = [i \in Cells(n) |-> Terminated(b).chars[i]]
  BY DEF Written
<1> HIDE DEF n
<1>10. \A i \in 0 .. p - 1 : i \in Cells(n)
  BY <1>5, <1>7, <1>8 DEF Cells, BITS_PER_CHAR
<1> DEFINE cells == Written(b, FrameSize)
<1>11. /\ 0 .. p - 1 \subseteq DOMAIN cells
       /\ \A i \in 0 .. p - 1 : cells[i] = ebits.chars[i]
  BY <1>4, <1>6, <1>9, <1>10
<1> HIDE DEF cells
<1>12. Holds(cells, m, enc.frame, p)
  BY <1>2, <1>11 DEF Holds
<1>13. sent'.cells = cells /\ sent'.submode = m /\ sent'.frame = enc.frame
  BY <1>1 DEF cells
<1>14. sent' # NoPacket
  BY <1>1, <1>13 DEF NoPacket
<1> QED
  BY <1>1, <1>2, <1>11, <1>12, <1>13, <1>14 DEF SentHolds

LEMMA SentKept ==
  ASSUME IInv, FrameInv, [Next]_vars, FrameSize >= 62
  PROVE  /\ PackedHolds' /\ SentHolds'
         /\ dec.pc # "idle" => sent' = sent
<1>0. PackedHolds /\ SentHolds
  BY DEF FrameInv
<1>1. ASSUME NEW quality \in Qualities, Open(quality)
      PROVE  PackedHolds' /\ SentHolds' /\ sent' = sent
  BY <1>0, <1>1 DEF Open, Called, PackedHolds, SentHolds
<1>2. CASE Close
  <2>1. enc' = enc /\ enc.pc = "idle" /\ sent' = sent
    BY <1>2 DEF Close, Called
  <2> QED
    BY <1>0, <2>1 DEF PackedHolds, SentHolds
<1>3. CASE Encode
  <2>1. /\ Packing(ebits) /\ ebits' = BitsReset(ebits) /\ sent' = sent
        /\ enc' = [pc |-> "packing", k |-> 1, frame |-> 1 - enc.frame]
        /\ submode' = submode /\ submode \in 1 .. 8
    BY <1>3 DEF IInv, EncFits, Encode
  <2>2. Pos(ebits') = 0 /\ ClearAhead(ebits')
    BY <2>1, ResetPacking
  <2>3. Ends(EncodeFields[submode])[0] = 0
    BY <2>1, FirstEnds
  <2>4. Holds(ebits'.chars, submode', enc'.frame, Pos(ebits'))
    BY <2>2 DEF Holds
  <2>5. enc'.k - 1 = 0
    BY <2>1
  <2>6. PackedHolds'
    BY <2>1, <2>2, <2>3, <2>4, <2>5 DEF PackedHolds
  <2>7. SentHolds'
    BY <1>0, <2>1 DEF SentHolds
  <2> QED
    BY <2>1, <2>6, <2>7
<1>4. CASE \E own \in BOOLEAN : Decode(own)
  <2>1. enc' = enc /\ enc.pc = "idle" /\ sent' = sent
    BY <1>4 DEF Decode, Called
  <2> QED
    BY <1>0, <2>1 DEF PackedHolds, SentHolds
<1>5. CASE PackField
  <2>1. sent' = sent
    BY <1>5 DEF PackField
  <2> QED
    BY <1>0, <1>5, <2>1, PackFieldHolds DEF SentHolds
<1>6. CASE Encoded
  <2>1. enc' = [enc EXCEPT !.pc = "idle", !.k = 0]
    BY <1>6 DEF Encoded
  <2>2. enc'.pc = "idle"
    BY <2>1 DEF IInv, EncFits
  <2>3. PackedHolds'
    BY <2>2 DEF PackedHolds
  <2>4. dec.pc = "idle"
    BY <1>6 DEF Encoded, FrameInv, OneCall
  <2> QED
    BY <1>0, <1>6, <2>3, <2>4, EncodedHolds
<1>7. CASE Decoding \/ UNCHANGED vars
  <2>1. /\ enc' = enc /\ sent' = sent /\ ebits' = ebits /\ submode' = submode
    BY <1>7 DEF Decoding, ReadsBand, SkipsLayer, ReadsSubmode, SkipsRequest,
                ReadsFrame, Played, vars
  <2> QED
    BY <1>0, <2>1 DEF PackedHolds, SentHolds
<1> QED
  BY <1>1, <1>2, <1>3, <1>4, <1>5, <1>6, <1>7 DEF Next, Encoding

LEMMA OneCallKept ==
  ASSUME IInv, OneCall, [Next]_vars
  PROVE  OneCall'
<1>1. CASE \/ \E quality \in Qualities : Open(quality)
           \/ Close \/ Encode \/ \E own \in BOOLEAN : Decode(own)
  <2>1. Called /\ (enc' = enc \/ dec' = dec)
    BY <1>1 DEF Open, Close, Encode, Decode
  <2> QED
    BY <2>1 DEF Called, OneCall
<1>2. CASE PackField \/ Encoded
  <2>1. enc.pc = "packing" /\ dec' = dec
    BY <1>2 DEF PackField, Encoded
  <2> QED
    BY <2>1 DEF OneCall
<1>3. CASE Decoding
  <2>1. dec.pc # "idle" /\ enc' = enc
    BY <1>3 DEF Decoding, ReadsBand, SkipsLayer, ReadsSubmode, SkipsRequest,
                ReadsFrame, Played
  <2> QED
    BY <2>1 DEF OneCall
<1>4. CASE UNCHANGED vars
  BY <1>4 DEF OneCall, vars
<1> QED
  BY <1>1, <1>2, <1>3, <1>4 DEF Next, Encoding

-----------------------------------------------------------------------------
(* A packet of this encoder being read. *)

(* Four bits tell which submode it is. *)
LEMMA FourBits ==
  ASSUME NEW m \in 0 .. 15, NEW s \in 1 .. 8,
         \A j \in 1 .. 4 : BitOf(m, 4, j) = BitOf(s, 4, j)
  PROVE  m = s
<1>1. /\ BitOf(m, 4, 1) = (m \div 8) % 2 /\ BitOf(s, 4, 1) = (s \div 8) % 2
      /\ BitOf(m, 4, 2) = (m \div 4) % 2 /\ BitOf(s, 4, 2) = (s \div 4) % 2
      /\ BitOf(m, 4, 3) = (m \div 2) % 2 /\ BitOf(s, 4, 3) = (s \div 2) % 2
      /\ BitOf(m, 4, 4) = m % 2 /\ BitOf(s, 4, 4) = s % 2
  <2>1. 2 ^ 3 = 8 /\ 2 ^ 2 = 4 /\ 2 ^ 1 = 2 /\ 2 ^ 0 = 1
    OBVIOUS
  <2>2. 4 - 1 = 3 /\ 4 - 2 = 2 /\ 4 - 3 = 1 /\ 4 - 4 = 0
    OBVIOUS
  <2>3. m \div 1 = m /\ s \div 1 = s
    OBVIOUS
  <2> QED
    BY <2>1, <2>2, <2>3 DEF BitOf
<1>2. /\ (m \div 8) % 2 = (s \div 8) % 2 /\ (m \div 4) % 2 = (s \div 4) % 2
      /\ (m \div 2) % 2 = (s \div 2) % 2 /\ m % 2 = s % 2
  BY <1>1
<1> QED
  BY <1>2

LEMMA BitIsBit ==
  ASSUME NEW s \in 1 .. 8, NEW j \in 1 .. 4
  PROVE  BitOf(s, 4, j) \in {0, 1}
<1>1. 2 ^ 3 = 8 /\ 2 ^ 2 = 4 /\ 2 ^ 1 = 2 /\ 2 ^ 0 = 1
  OBVIOUS
<1>2. 4 - j \in 0 .. 3
  OBVIOUS
<1>3. 2 ^ (4 - j) \in {1, 2, 4, 8}
  <2>1. ASSUME 4 - j = 0 \/ 4 - j = 1 \/ 4 - j = 2 \/ 4 - j = 3
        PROVE  \/ 2 ^ (4 - j) = 2 ^ 0 \/ 2 ^ (4 - j) = 2 ^ 1
               \/ 2 ^ (4 - j) = 2 ^ 2 \/ 2 ^ (4 - j) = 2 ^ 3
    BY <2>1, Zenon
  <2>2. \/ 2 ^ (4 - j) = 2 ^ 0 \/ 2 ^ (4 - j) = 2 ^ 1
        \/ 2 ^ (4 - j) = 2 ^ 2 \/ 2 ^ (4 - j) = 2 ^ 3
    BY <1>2, <2>1
  <2> QED
    BY <1>1, <2>2
<1> DEFINE p == 2 ^ (4 - j)
<1>4. BitOf(s, 4, j) = (s \div p) % 2
  BY DEF BitOf
<1> HIDE DEF p
<1>5. s \div p \in Nat
  BY <1>3 DEF p
<1> QED
  BY <1>4, <1>5

(* A packet is our own until it has been played. *)
LEMMA OwnKept ==
  ASSUME DecFits(dec, dbits),
         ReadsBand \/ SkipsLayer \/ ReadsSubmode \/ SkipsRequest \/ ReadsFrame
  PROVE  dec'.own = dec.own
<1>0. \A r \in -2 .. 0 : Returns(r).own = dec.own /\ DOMAIN Returns(r) = DecFields
  BY DEF Returns, DecFits, DecFields
<1>1. CASE ReadsBand
  <2>1. CASE dec.layer < 2 /\ Remaining(dbits) < 5
    BY <1>0, <1>1, <2>1 DEF ReadsBand
  <2>2. CASE ~(dec.layer < 2 /\ Remaining(dbits) < 5)
    <3> DEFINE known == Known(1, 1, Pos(dbits))
               layer == [dec EXCEPT !.pc = "layer", !.layer = NextLayer(@),
                                    !.known = known]
    <3>1. \/ dec' = [dec EXCEPT !.pc = "submode"]
          \/ dec' = Returns(-2)
          \/ dec' = layer
      BY <1>1, <2>2 DEF ReadsBand
    <3>2. layer.own = dec.own
      <4> HIDE DEF known
      <4> QED
        BY DEF DecFits, DecFields
    <3>3. [dec EXCEPT !.pc = "submode"].own = dec.own
      BY DEF DecFits, DecFields
    <3>4. Returns(-2).own = dec.own
      BY <1>0
    <3> HIDE DEF layer
    <3> QED
      BY <3>1, <3>2, <3>3, <3>4, Zenon
  <2> QED
    BY <2>1, <2>2
<1>2. CASE SkipsLayer
  <2>1. PICK known : dec' = [dec EXCEPT !.pc = "band", !.known = known]
    BY <1>2 DEF SkipsLayer
  <2> QED
    BY <2>1 DEF DecFits, DecFields
<1>3. CASE ReadsSubmode
  <2>1. CASE Remaining(dbits) < 4
    BY <1>0, <1>3, <2>1 DEF ReadsSubmode
  <2>2. CASE ~(Remaining(dbits) < 4)
    <3>1. PICK m \in 0 .. 15 :
            dec' = CASE m = 15 -> Returns(-1)
                     [] m \in {13, 14} ->
                          [dec EXCEPT !.known = <<>>, !.pc =
                             IF m = 14 THEN "inband" ELSE "user"]
                     [] m \in 9 .. 12 -> Returns(-2)
                     [] m = 0 -> [Returns(0) EXCEPT !.submode = 0]
                     [] OTHER -> [dec EXCEPT !.pc = "payload",
                                    !.submode = m, !.known = <<>>]
      BY <1>3, <2>2, Zenon DEF ReadsSubmode
    <3>2. CASE m = 15 \/ m \in 9 .. 12
      <4>1. dec' = Returns(-1) \/ dec' = Returns(-2)
        BY <3>1, <3>2
      <4> QED
        BY <1>0, <4>1
    <3>3. CASE m \in {13, 14}
      <4>1. dec' = [dec EXCEPT !.known = <<>>,
                               !.pc = IF m = 14 THEN "inband" ELSE "user"]
        BY <3>1, <3>3
      <4> QED
        BY <4>1 DEF DecFits, DecFields
    <3>4. CASE m = 0
      <4>1. dec' = [Returns(0) EXCEPT !.submode = 0]
        BY <3>1, <3>4
      <4>2. Returns(0).own = dec.own /\ DOMAIN Returns(0) = DecFields
        BY <1>0
      <4> QED
        BY <4>1, <4>2 DEF DecFields
    <3>5. CASE m \in 1 .. 8
      <4>1. dec' = [dec EXCEPT !.pc = "payload", !.submode = m, !.known = <<>>]
        BY <3>1, <3>5
      <4> QED
        BY <4>1 DEF DecFits, DecFields
    <3> QED
      BY <3>2, <3>3, <3>4, <3>5
  <2> QED
    BY <2>1, <2>2
<1>4. CASE SkipsRequest
  BY <1>4 DEF SkipsRequest, DecFits, DecFields
<1>5. CASE ReadsFrame
  <2>1. PICK got : dec' = [Returns(0) EXCEPT !.got = got]
    BY <1>5, ReadsFrameIs
  <2> QED
    BY <1>0, <2>1 DEF DecFields
<1> QED
  BY <1>1, <1>2, <1>3, <1>4, <1>5

LEMMA DecodeHolds ==
  ASSUME IInv, FrameInv, NEW own \in BOOLEAN, Decode(own), FrameSize >= 62
  PROVE  ReadHolds(dec', dbits')
<1> DEFINE cells == [i \in Cells(FrameSize) |->
                       IF own /\ i \in DOMAIN sent.cells THEN sent.cells[i]
                       ELSE IF own \/ i \in Cells(Garbage) THEN Unknown ELSE 0]
<1>1. /\ dbits' = ReadFrom(dbits, cells, FrameSize)
      /\ dec' = [IdleDec EXCEPT !.pc = "band", !.own = own]
      /\ own => sent # NoPacket
      /\ Reading(dbits)
  BY DEF Decode, IInv, DecFits
<1>2. /\ Pos(dbits') = 0 /\ dbits'.nbBits = 8 * FrameSize /\ ~dbits'.overflow
      /\ \A i \in Cells(FrameSize) : dbits'.chars[i] = cells[i]
  <2> HIDE DEF cells
  <2> QED
    BY <1>1, ReadFromEffect, FrameSizeAssumption
<1>3. dec'.pc = "band" /\ dec'.own = own /\ dec'.layer = 0
  BY <1>1, IdleFits DEF DecFields
<1>4. ASSUME own PROVE Holds(dbits'.chars, sent.submode, sent.frame, Bits(sent.submode))
  <2>1. /\ sent.submode \in 1 .. 8
        /\ 0 .. Bits(sent.submode) - 1 \subseteq DOMAIN sent.cells
        /\ Holds(sent.cells, sent.submode, sent.frame, Bits(sent.submode))
    BY <1>1, <1>4 DEF FrameInv, SentHolds
  <2>2. Bits(sent.submode) \in 43 .. 492
    BY <2>1, BitsKnown
  <2>3. \A i \in 0 .. Bits(sent.submode) - 1 : i \in Cells(FrameSize)
    BY <2>2, FrameSizeAssumption DEF Cells, BITS_PER_CHAR
  <2>4. \A i \in 0 .. Bits(sent.submode) - 1 : cells[i] = sent.cells[i]
    BY <1>4, <2>1, <2>3
  <2> HIDE DEF cells
  <2> QED
    BY <1>2, <2>1, <2>3, <2>4 DEF Holds
<1> HIDE DEF cells
<1> QED
  BY <1>1, <1>2, <1>3, <1>4 DEF ReadHolds

LEMMA ReadsBandHolds ==
  ASSUME IInv, FrameInv, ReadsBand, FrameSize >= 62
  PROVE  ReadHolds(dec', dbits')
<1>0. dec.pc = "band" /\ DecFits(dec, dbits) /\ Reading(dbits)
  BY DEF ReadsBand, IInv, DecFits
<1>1. CASE ~dec.own
  <2>1. dec'.own = dec.own
    BY <1>0 DEF ReadsBand, DecFits, DecFields, Returns
  <2> QED
    BY <1>1, <2>1 DEF ReadHolds
<1>2. CASE dec.own
  <2>1. /\ sent # NoPacket /\ ~dbits.overflow /\ dbits.nbBits = 8 * FrameSize
        /\ Holds(dbits.chars, sent.submode, sent.frame, Bits(sent.submode))
        /\ Pos(dbits) = 0 /\ dec.layer = 0
    BY <1>0, <1>2 DEF FrameInv, ReadHolds
  <2>2. sent.submode \in 1 .. 8 /\ Bits(sent.submode) \in 43 .. 492
    BY <2>1, BitsKnown DEF FrameInv, SentHolds
  <2>3. ~(Remaining(dbits) < 5) /\ ~PastEnd(dbits, 1)
    BY <2>1, FrameSizeAssumption DEF Remaining, PastEnd
  <2>4. PICK wideband \in {0, 1} :
          /\ MayRead(wideband, 1) /\ dbits' = Advance(dbits, 1)
          /\ wideband = 0 => dec' = [dec EXCEPT !.pc = "submode"]
    BY <2>3 DEF ReadsBand
  <2>5. dbits.chars[0] = 0
    BY <2>1, <2>2 DEF Holds, FrameBit
  <2>6. wideband = 0
    <3>1. dbits.chars[0] \in {0, 1} => dbits.chars[0] = BitOf(wideband, 1, 1)
      BY <2>1, <2>3, <2>4 DEF MayRead
    <3>2. BitOf(wideband, 1, 1) = wideband
      <4>1. 1 - 1 = 0 /\ 2 ^ 0 = 1
        OBVIOUS
      <4>2. (wideband \div 1) % 2 = wideband
        OBVIOUS
      <4> QED
        BY <4>1, <4>2 DEF BitOf
    <3> QED
      BY <2>5, <3>1, <3>2
  <2>7. /\ dec'.pc = "submode" /\ dec'.own = dec.own
    BY <1>0, <2>4, <2>6 DEF DecFits, DecFields
  <2>8. /\ dbits'.nbBits = dbits.nbBits /\ dbits'.chars = dbits.chars
        /\ ~dbits'.overflow /\ Pos(dbits') = 1
    BY <1>0, <2>1, <2>3, <2>4, AdvanceEffect
  <2> QED
    BY <2>1, <2>7, <2>8 DEF ReadHolds
<1> QED
  BY <1>1, <1>2

LEMMA ReadsSubmodeHolds ==
  ASSUME IInv, FrameInv, ReadsSubmode, FrameSize >= 62
  PROVE  ReadHolds(dec', dbits')
<1>0. dec.pc = "submode" /\ DecFits(dec, dbits) /\ Reading(dbits)
  BY DEF ReadsSubmode, IInv, DecFits
<1>1. CASE ~dec.own
  <2>1. dec'.own = dec.own
    BY <1>0, OwnKept
  <2> QED
    BY <1>1, <2>1 DEF ReadHolds
<1>2. CASE dec.own
  <2>1. /\ sent # NoPacket /\ ~dbits.overflow /\ dbits.nbBits = 8 * FrameSize
        /\ Holds(dbits.chars, sent.submode, sent.frame, Bits(sent.submode))
        /\ Pos(dbits) = 1
    BY <1>0, <1>2 DEF FrameInv, ReadHolds
  <2>2. sent.submode \in 1 .. 8 /\ Bits(sent.submode) \in 43 .. 492
    BY <2>1, BitsKnown DEF FrameInv, SentHolds
  <2>3. ~(Remaining(dbits) < 4) /\ ~PastEnd(dbits, 4)
    BY <2>1, FrameSizeAssumption DEF Remaining, PastEnd
  <2>4. PICK m \in 0 .. 15 :
          /\ MayRead(m, 4) /\ dbits' = Advance(dbits, 4)
          /\ m \in 1 .. 8 =>
               dec' = [dec EXCEPT !.pc = "payload", !.submode = m, !.known = <<>>]
    BY <2>3 DEF ReadsSubmode, NB_SUBMODE_BITS
  <2>5. ASSUME NEW j \in 1 .. 4
        PROVE  BitOf(m, 4, j) = BitOf(sent.submode, 4, j)
    <3>1. Pos(dbits) + j - 1 = j /\ j \in 0 .. Bits(sent.submode) - 1
      BY <2>1, <2>2
    <3>2. dbits.chars[j] \in {0, 1} => dbits.chars[j] = BitOf(m, 4, j)
      BY <2>3, <2>4, <3>1 DEF MayRead
    <3>3. dbits.chars[j] = BitOf(sent.submode, 4, j)
      BY <2>1, <3>1 DEF Holds, FrameBit, NB_SUBMODE_BITS
    <3>4. BitOf(sent.submode, 4, j) \in {0, 1}
      BY <2>2, BitIsBit
    <3> QED
      BY <3>2, <3>3, <3>4
  <2>6. m = sent.submode
    BY <2>2, <2>5, FourBits
  <2>7. /\ dec'.pc = "payload" /\ dec'.own = dec.own /\ dec'.submode = sent.submode
    BY <1>0, <2>2, <2>4, <2>6 DEF DecFits, DecFields
  <2>8. /\ dbits'.nbBits = dbits.nbBits /\ dbits'.chars = dbits.chars
        /\ ~dbits'.overflow /\ Pos(dbits') = 5
    BY <1>0, <2>1, <2>3, <2>4, AdvanceEffect
  <2> QED
    BY <2>1, <2>7, <2>8 DEF ReadHolds
<1> QED
  BY <1>1, <1>2

LEMMA ReadsFrameHolds ==
  ASSUME IInv, FrameInv, ReadsFrame, FrameSize >= 62
  PROVE  ReadHolds(dec', dbits')
<1> DEFINE m == dec.submode
           upto == FieldEnds[m]
           n == Len(DecodeFields[m])
           last == LastRead(m, Remaining(dbits))
           b == Advance(dbits, upto[last])
<1>0. dec.pc = "payload" /\ DecFits(dec, dbits) /\ Reading(dbits)
  BY ReadsFrameIs DEF IInv, DecFits
<1>1. CASE ~dec.own
  <2>1. dec'.own = dec.own
    BY <1>0, OwnKept
  <2> QED
    BY <1>1, <2>1 DEF ReadHolds
<1>2. CASE dec.own
  <2>1. /\ sent # NoPacket /\ ~dbits.overflow /\ dbits.nbBits = 8 * FrameSize
        /\ Holds(dbits.chars, sent.submode, sent.frame, Bits(sent.submode))
        /\ Pos(dbits) = 5 /\ m = sent.submode
    BY <1>0, <1>2 DEF FrameInv, ReadHolds
  <2>2. m \in 1 .. 8 /\ Bits(m) \in 43 .. 492
    BY <2>1, BitsKnown DEF FrameInv, SentHolds
  <2>3. /\ Remaining(dbits) = 8 * FrameSize - 5 /\ Remaining(dbits) \in Nat
        /\ Bits(m) - 5 <= Remaining(dbits) /\ ~PastEnd(dbits, Bits(m) - 5)
    BY <2>1, <2>2, FrameSizeAssumption DEF Remaining, PastEnd
  <2>4. n \in Nat /\ last = n /\ upto[n] = Bits(m) - 5
    BY <2>2, <2>3, LastField DEF Bits
  <2>5. /\ dbits' = [b EXCEPT !.overflow = last < n]
        /\ dec' = [Returns(0) EXCEPT !.got =
                     Unpacked(dbits, upto[last]) \o Times(upto[n] - upto[last], 0)]
    BY <1>2, ReadsFrameIs
  <2> DEFINE k == Bits(m) - 5
  <2>6. /\ dbits' = [Advance(dbits, k) EXCEPT !.overflow = FALSE]
        /\ dec' = [Returns(0) EXCEPT !.got = Unpacked(dbits, k) \o Times(0, 0)]
    <3>1. upto[last] = upto[n]
      BY <2>4, Zenon
    <3>2. upto[n] = k /\ k \in Nat /\ last = n /\ n \in Nat
      <4>1. upto[n] = k /\ last = n /\ n \in Nat
        BY <2>4, Zenon
      <4>2. k \in Nat
        BY <2>2
      <4> HIDE DEF k, n, last, upto
      <4> QED
        BY <4>1, <4>2
    <3>3. upto[last] = k /\ upto[n] - upto[last] = 0 /\ (last < n) = FALSE
      <4> HIDE DEF k, n, last, upto
      <4> QED
        BY <3>1, <3>2
    <3> HIDE DEF k, n, last, upto
    <3> QED
      BY <2>5, <3>3
  <2> HIDE DEF b, upto, n, last
  <2>7. k \in Nat /\ ~PastEnd(dbits, k)
    BY <2>2, <2>3
  <2>8. /\ Reading(Advance(dbits, k)) /\ Pos(Advance(dbits, k)) = 5 + k
    <3> HIDE DEF k
    <3> QED
      BY <1>0, <2>1, <2>7, AdvanceEffect
  <2>9. ~dbits'.overflow /\ Pos(dbits') = Bits(m)
    <3> DEFINE a == Advance(dbits, k)
    <3>1. /\ dbits'.overflow = FALSE /\ dbits'.charPtr = a.charPtr
          /\ dbits'.bitPtr = a.bitPtr
      <4> HIDE DEF a
      <4> QED
        BY <2>6, <2>8 DEF Reading, a
    <3> HIDE DEF a
    <3>2. Pos(dbits') = Pos(a)
      BY <3>1 DEF Pos
    <3> QED
      BY <2>2, <2>8, <3>1, <3>2 DEF a
  <2> DEFINE got == [j \in 1 .. k |-> Name(sent.frame, 5 + j)]
  <2>10. Unpacked(dbits, k) = got
    <3>1. ASSUME NEW j \in 1 .. k
          PROVE  dbits.chars[Pos(dbits) + j - 1] = Name(sent.frame, 5 + j)
      <4> DEFINE i == 4 + j
      <4>1. /\ Pos(dbits) + j - 1 = i /\ i \in 0 .. Bits(m) - 1
            /\ i >= 5 /\ i + 1 = 5 + j
        BY <2>1, <2>2
      <4> HIDE DEF i
      <4>2. dbits.chars[i] = FrameBit(m, sent.frame, i)
        BY <2>1, <4>1 DEF Holds
      <4>3. FrameBit(m, sent.frame, i) = Name(sent.frame, i + 1)
        BY <4>1 DEF FrameBit
      <4> QED
        BY <4>1, <4>2, <4>3
    <3>2. Unpacked(dbits, k) = [j \in 1 .. k |-> dbits.chars[Pos(dbits) + j - 1]]
      BY <2>7 DEF Unpacked
    <3> HIDE DEF k
    <3> QED
      BY <3>1, <3>2
  <2>11. got \o Times(0, 0) = got
    <3> DEFINE S == {got[j] : j \in 1 .. k}
               e == Times(0, 0)
    <3>1. got \in [1 .. k -> S]
      OBVIOUS
    <3>2. e \in [1 .. 0 -> S]
      BY DEF Times
    <3> HIDE DEF got, S, e, k
    <3>3. got \in Seq(S) /\ Len(got) = k
      BY <2>7, <3>1, FunctionIsSeq
    <3>4. e \in Seq(S) /\ Len(e) = 0
      BY <3>2, FunctionIsSeq
    <3>5. e = <<>>
      BY <3>4, EmptySeq
    <3>6. got \o <<>> = got
      BY <3>3, ConcatEmptySeq
    <3> QED
      BY <3>5, <3>6 DEF e
  <2>12. dec' = [Returns(0) EXCEPT !.got = got]
    <3> HIDE DEF got, k
    <3> QED
      BY <2>6, <2>10, <2>11
  <2>13. /\ dec'.pc = "returned" /\ dec'.result = 0 /\ dec'.submode = m
         /\ dec'.got = got /\ dec'.own = dec.own
    <3> HIDE DEF got
    <3> QED
      BY <1>0, <2>12 DEF DecFits, DecFields, Returns
  <2> HIDE DEF m
  <2>14. got = [j \in 1 .. Bits(sent.submode) - 5 |-> Name(sent.frame, 5 + j)]
    BY <2>1
  <2> HIDE DEF got, k
  <2> QED
    BY <2>1, <2>9, <2>13, <2>14 DEF ReadHolds
<1> QED
  BY <1>1, <1>2

LEMMA ReadKept ==
  ASSUME IInv, FrameInv, [Next]_vars, FrameSize >= 62
  PROVE  ReadHolds(dec, dbits)'
<1>0. ReadHolds(dec, dbits) /\ DecFits(dec, dbits)
  BY DEF FrameInv, IInv
<1>1. ASSUME sent' = sent, ReadHolds(dec', dbits') PROVE ReadHolds(dec, dbits)'
  BY <1>1 DEF ReadHolds
<1>2. CASE \E quality \in Qualities : Open(quality)
  <2>1. dec' = dec /\ dec.pc = "idle"
    BY <1>2 DEF Open, Called
  <2> QED
    BY <2>1 DEF ReadHolds
<1>3. CASE Close \/ Encode \/ PackField \/ UNCHANGED vars
  <2>1. dec' = dec /\ dbits' = dbits /\ sent' = sent
    BY <1>3 DEF Close, Encode, PackField, vars
  <2> QED
    BY <1>0, <2>1 DEF ReadHolds
<1>4. CASE Encoded
  <2>1. dec' = dec /\ dec.pc = "idle"
    BY <1>4 DEF Encoded, FrameInv, OneCall
  <2> QED
    BY <2>1 DEF ReadHolds
<1>5. ASSUME NEW own \in BOOLEAN, Decode(own) PROVE ReadHolds(dec, dbits)'
  <2>1. sent' = sent
    BY <1>5 DEF Decode
  <2> QED
    BY <1>1, <1>5, <2>1, DecodeHolds
<1>6. CASE ReadsBand \/ ReadsSubmode \/ ReadsFrame
  <2>1. sent' = sent
    BY <1>6 DEF ReadsBand, ReadsSubmode, ReadsFrame
  <2> QED
    BY <1>1, <1>6, <2>1, ReadsBandHolds, ReadsSubmodeHolds, ReadsFrameHolds
<1>7. CASE SkipsLayer \/ SkipsRequest
  <2>1. dec.pc \in {"layer", "inband", "user"}
    BY <1>7 DEF SkipsLayer, SkipsRequest
  <2>2. ~dec.own
    BY <1>0, <2>1 DEF ReadHolds
  <2>3. dec'.own = dec.own
    BY <1>0, <1>7, OwnKept
  <2> QED
    BY <2>2, <2>3 DEF ReadHolds
<1>8. CASE Played
  <2>1. dec'.pc = "idle"
    BY <1>8, IdleFits DEF Played
  <2> QED
    BY <2>1 DEF ReadHolds
<1> QED
  BY <1>2, <1>3, <1>4, <1>5, <1>6, <1>7, <1>8 DEF Next, Encoding, Decoding

LEMMA FrameInvInit == Init => FrameInv
<1> SUFFICES ASSUME Init PROVE FrameInv
  OBVIOUS
<1>1. enc.pc = "idle" /\ dec.pc = "idle" /\ sent = NoPacket
  BY IdleFits DEF Init, IdleEnc
<1> QED
  BY <1>1 DEF FrameInv, PackedHolds, SentHolds, OneCall, ReadHolds

(* A packet of encode is decoded to the frame that was encoded, whatever   *)
(* has been in the buffers before and whatever size they have: for every   *)
(* submode, if a packet may have the 62 bytes of the longest frame (the    *)
(* app allows 160).                                                        *)
THEOREM FrameSurvivesHolds ==
  ASSUME FrameSize >= 62
  PROVE  Spec => []FrameSurvives
<1>1. FrameInv => FrameSurvives
  BY DEF FrameInv, ReadHolds, FrameSurvives, Bits
<1>2. IInv /\ FrameInv /\ [Next]_vars => FrameInv'
  BY SentKept, OneCallKept, ReadKept DEF FrameInv
<1> QED
  BY InitIInv, NextIInv, FrameInvInit, <1>1, <1>2, PTL DEF Spec

=============================================================================
