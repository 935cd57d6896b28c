----------------------------- MODULE RtpSession -----------------------------
(***************************************************************************)
(* service/RtpSession.java: the one session object of a phone, shared by   *)
(* the binder, the relayer threads and the packets built from it, and the  *)
(* control packets (service/CtrlPacket*.java) that carry it to other       *)
(* phones.                                                                 *)
(*                                                                         *)
(* A call is the lifetime of one random ssrc.  The AES key and IV of a     *)
(* call are made by the EncryptMicInputter of the same call, so a key is   *)
(* named by the call it was made for.  Sequence number, time stamp,        *)
(* payload type and frame size are left out: no property here is about     *)
(* them.                                                                   *)
(***************************************************************************)
EXTENDS Integers

CONSTANTS
  Call,       \* names of the random ssrc values, never drawn twice
  NoCall,     \* the ssrc -1 of an ended session, or a key that is not set
  LevelMod    \* 2^16: the level field of a START packet is two bytes wide

ASSUME NoCallAssumption == NoCall \notin Call
ASSUME LevelModAssumption == LevelMod \in Nat \ {0}

INVALID_SESSION_LEVEL == -1

(* `wide' marks an ssrc that came from Random.nextLong.  setSsrc masks it  *)
(* with the int 0xffffffff, which is the long -1, so all 64 bits stay and  *)
(* the value differs from the 32 bits that any packet carries.             *)
Session ==
  [level : Int, ssrc : Call \cup {NoCall}, wide : BOOLEAN,
   key : Call \cup {NoCall}]

NoSession ==
  [level |-> INVALID_SESSION_LEVEL, ssrc |-> NoCall, wide |-> FALSE,
   key |-> NoCall]

(* endSession and init: everything is reset but the key and the IV. *)
EndSession(s) ==
  [s EXCEPT !.level = INVALID_SESSION_LEVEL, !.ssrc = NoCall, !.wide = FALSE]

(* Plausible bugs: equal levels preempt; a session is never preempted. *)
BeginSessionOnEqual(s, level) == s.level <= level
BeginSessionWhenIdle(s, level) ==
  s.level = INVALID_SESSION_LEVEL /\ s.level < level

BeginSession(s, level) == s.level < level

IsSession(s) == s.level > INVALID_SESSION_LEVEL

-----------------------------------------------------------------------------
(* Control packets. *)

StartPacket == [type : {"START"}, ssrc : Call, level : Nat, key : Call]
StopPacket == [type : {"STOP"}, ssrc : Call]
Packet == StartPacket \cup StopPacket

CtrlPacketStart(s) ==
  [type |-> "START", ssrc |-> s.ssrc, level |-> s.level % LevelMod,
   key |-> s.key]

CtrlPacketStop(s) == [type |-> "STOP", ssrc |-> s.ssrc]

(* mRtpSession.getSsrc() == packet.getSsrc(): 64 bits against 32. *)
SameSsrc(s, packet) == s.ssrc = packet.ssrc /\ ~s.wide

(* Plausible bug: the level of the caller is not taken over. *)
SetSessionParamStartKeepsLevel(s, start) ==
  [s EXCEPT !.ssrc = start.ssrc, !.wide = FALSE, !.key = start.key]

(* setSessionParam(CtrlPacketStart): the session of a listener. *)
SetSessionParamStart(s, start) ==
  [level |-> start.level, ssrc |-> start.ssrc, wide |-> FALSE,
   key |-> start.key]

(* setSessionParam(int, Codec): a talker draws a new ssrc; the key still   *)
(* is the one of the session before.                                       *)
SetSessionParamCodec(s, level, ssrc) ==
  [s EXCEPT !.level = level, !.ssrc = ssrc, !.wide = TRUE]

(* setKey and setIV, called by EncryptMicInputter.initEncryptCipher. *)
SetKey(s, key) == [s EXCEPT !.key = key]
=============================================================================
