----------------------------- MODULE SpeexModes -----------------------------
(***************************************************************************)
(* The layout of a narrowband Speex frame: the tables of libspeex/modes.c, *)
(* and the widths of the fields in the order in which nb_encode packs and  *)
(* nb_decode unpacks them.  The two lists are translated separately.       *)
(***************************************************************************)
EXTENDS Integers, Sequences

(* The parameters of a quantiser: pitch_unquant_3tap reads a pitch and a   *)
(* gain, split_cb_shape_sign_unquant nb_subvect shapes.  No table has      *)
(* have_sign set.                                                          *)
Ltp(gain_bits, pitch_bits) == [pitch_bits |-> pitch_bits, gain_bits |-> gain_bits]
ltp_params_nb == Ltp(7, 7)
ltp_params_vlbr == Ltp(5, 0)
ltp_params_lbr == Ltp(5, 7)
ltp_params_med == Ltp(5, 7)

SplitCb(nb_subvect, shape_bits) ==
  [nb_subvect |-> nb_subvect, shape_bits |-> shape_bits]
split_cb_nb_vlbr == SplitCb(4, 4)
split_cb_nb_ulbr == SplitCb(2, 5)
split_cb_nb_lbr == SplitCb(4, 5)
split_cb_nb == SplitCb(8, 6)
split_cb_nb_med == SplitCb(5, 7)
split_cb_sb == SplitCb(8, 8)

(* The NULL of forced_pitch and of noise_codebook: no field at all. *)
NoLtp == Ltp(0, 0)
NoCodebook == SplitCb(0, 0)

Submode(lbr_pitch, forced, gain, twice, lsp, ltp, innovation, bits) ==
  [lbr_pitch |-> lbr_pitch, forced_pitch_gain |-> forced,
   have_subframe_gain |-> gain, double_codebook |-> twice, lsp |-> lsp,
   ltp |-> ltp, innovation |-> innovation, bits_per_frame |-> bits]

lsp_lbr == 3   \* indices of 6 bits
lsp_nb == 5

(* nb_mode.submodes without its NULLs. *)
Submodes == <<
  Submode( 0, TRUE,  0, FALSE, lsp_lbr, NoLtp, NoCodebook, 43),
  Submode( 0, FALSE, 0, FALSE, lsp_lbr, ltp_params_vlbr, split_cb_nb_vlbr, 119),
  Submode(-1, FALSE, 1, FALSE, lsp_lbr, ltp_params_lbr, split_cb_nb_lbr, 160),
  Submode(-1, FALSE, 1, FALSE, lsp_lbr, ltp_params_med, split_cb_nb_med, 220),
  Submode(-1, FALSE, 3, FALSE, lsp_nb, ltp_params_nb, split_cb_nb, 300),
  Submode(-1, FALSE, 3, FALSE, lsp_nb, ltp_params_nb, split_cb_sb, 364),
  Submode(-1, FALSE, 3, TRUE,  lsp_nb, ltp_params_nb, split_cb_nb, 492),
  Submode( 0, TRUE,  0, FALSE, lsp_lbr, NoLtp, split_cb_nb_ulbr, 79) >>

quality_map == [q \in 0 .. 10 |-> <<1, 8, 2, 3, 3, 4, 4, 5, 5, 6, 7>>[q + 1]]

NB_SUBMODE_BITS == 4
SB_SUBMODE_BITS == 3

-----------------------------------------------------------------------------
Times(n, width) == [k \in 1 .. n |-> width]
If(condition, fields) == IF condition THEN fields ELSE <<>>

(* What nb_encode packs. *)
EncodeSubframe(s) ==
  If(s.ltp # NoLtp, <<s.ltp.pitch_bits, s.ltp.gain_bits>>)
    \o If(s.have_subframe_gain # 0,
          IF s.have_subframe_gain = 3 THEN <<3>> ELSE <<1>>)
    \o Times(s.innovation.nb_subvect, s.innovation.shape_bits)
    \o If(s.double_codebook,
          Times(s.innovation.nb_subvect, s.innovation.shape_bits))

EncodeFields == [m \in DOMAIN Submodes |->
  LET s == Submodes[m]
      sub == EncodeSubframe(s)
  IN  <<1, NB_SUBMODE_BITS>> \o Times(s.lsp, 6)
        \o If(s.lbr_pitch # -1, <<7>>) \o If(s.forced_pitch_gain, <<4>>)
        \o <<5>> \o sub \o sub \o sub \o sub \o If(m = 1, <<4>>)]

(* What nb_decode reads once it knows the submode. *)
DecodeSubframe(s) ==
  If(s.ltp # NoLtp, <<s.ltp.pitch_bits, s.ltp.gain_bits>>)
    \o If(s.have_subframe_gain = 3, <<3>>)
    \o If(s.have_subframe_gain = 1, <<1>>)
    \o Times(s.innovation.nb_subvect, s.innovation.shape_bits)
    \o If(s.double_codebook,
          Times(s.innovation.nb_subvect, s.innovation.shape_bits))

DecodeFields == [m \in DOMAIN Submodes |->
  LET s == Submodes[m]
      sub == DecodeSubframe(s)
  IN  Times(s.lsp, 6)
        \o If(s.lbr_pitch # -1, <<7>>) \o If(s.forced_pitch_gain, <<4>>)
        \o <<5>> \o If(m = 1, <<4>>) \o sub \o sub \o sub \o sub]

(* How many bits the first k fields take. *)
FieldEnds == [m \in DOMAIN Submodes |->
  LET upto[k \in 0 .. Len(DecodeFields[m])] ==
        IF k = 0 THEN 0 ELSE upto[k - 1] + DecodeFields[m][k]
  IN  upto]
=============================================================================
