------------------------- MODULE FloorControl_proof -------------------------
(***************************************************************************)
(* The safety of FloorControl for any number of phones, any send targets,  *)
(* any levels and any faults.  The inductive invariant IInv says what a    *)
(* session, a phone and a packet may be, given who began which call.       *)
(***************************************************************************)
EXTENDS FloorControl, TLAPS

(* A session is over, or it is one of a call that was begun, with the key  *)
(* of that call and with its level: the talker's own, or the one that 16   *)
(* bits carried.                                                           *)
SessionFits(cl, n, s) ==
  /\ s.level >= INVALID_SESSION_LEVEL
  /\ s.level = INVALID_SESSION_LEVEL <=> s.ssrc = NoCall
  /\ s.ssrc # NoCall =>
       /\ cl[s.ssrc].talker # NoNode
       /\ s.key = s.ssrc
       /\ s.wide  => cl[s.ssrc].talker = n /\ s.level = cl[s.ssrc].level
       /\ ~s.wide => s.level = cl[s.ssrc].level % LevelMod

PhoneFits(cl, n, p) ==
  /\ SessionFits(cl, n, p.session)
  /\ p.session.wide <=> p.mic.state # "null"
  /\ p.mic.state # "null" =>
       /\ p.spk.state = "null"
       /\ p.session.ssrc # NoCall
       /\ p.mic.key = p.session.key
  /\ p.spk.state = "running" =>
       /\ p.session.ssrc # NoCall
       /\ p.spk.key = p.session.key

(* A packet belongs to a call that was begun. *)
PacketFits(cl, k) ==
  /\ k.ssrc \in Call
  /\ cl[k.ssrc].talker # NoNode
  /\ k.type = "START" =>
       /\ k.key = k.ssrc
       /\ k.level = cl[k.ssrc].level % LevelMod

(* Phone p does not talk in the call that a STOP k is about. *)
NotTalking(p, k) ==
  k.type = "STOP" /\ p.session.ssrc = k.ssrc => p.mic.state = "null"

Packets == (UNION {phone[n].jobs : n \in Node}) \cup {m.packet : m \in net}

IInv ==
  /\ TypeOK
  /\ \A n \in Node : PhoneFits(call, n, phone[n])
  /\ \A k \in Packets : PacketFits(call, k)
  /\ \A k \in Packets : \A n \in Node : NotTalking(phone[n], k)

-----------------------------------------------------------------------------
(* What the methods of the binder do to a phone. *)

LEMMA WireLevel ==
  ASSUME NEW x \in Nat
  PROVE  x % LevelMod \in Nat
BY LevelModAssumption

LEMMA SendCtrlPacketEffect ==
  ASSUME NEW p \in Phone, NEW k \in Packet
  PROVE  LET q == SendCtrlPacket(p, k)
         IN  /\ q \in Phone
             /\ q.jobs \subseteq p.jobs \cup {k}
             /\ q.session = p.session
             /\ q.mic = p.mic
             /\ q.spk = p.spk
BY DEF SendCtrlPacket, Phone

LEMMA EndSessionEffect ==
  ASSUME NEW s \in Session
  PROVE  /\ EndSession(s) \in Session
         /\ EndSession(s).level = INVALID_SESSION_LEVEL
         /\ EndSession(s).ssrc = NoCall
         /\ EndSession(s).wide = FALSE
<1>1. INVALID_SESSION_LEVEL \in Int
  BY DEF INVALID_SESSION_LEVEL
<1> QED BY <1>1 DEF EndSession, Session

LEMMA NullRelayers == NullMic \in Mic /\ NullSpk \in Spk
BY DEF NullMic, Mic, NullSpk, Spk, RelayerState

LEMMA PhoneParts ==
  ASSUME NEW p \in Phone
  PROVE  /\ p.session \in Session /\ p.mic \in Mic /\ p.spk \in Spk
         /\ p.jobs \subseteq Packet
BY DEF Phone

(* endRtpReceiver keeps a phone fit, and changes nothing for a talker. *)
LEMMA EndRtpReceiverEffect ==
  ASSUME NEW cl, NEW n \in Node, NEW p \in Phone, PhoneFits(cl, n, p)
  PROVE  LET q == EndRtpReceiver(p)
         IN  /\ q \in Phone
             /\ PhoneFits(cl, n, q)
             /\ q.spk.state = "null"
             /\ q.mic = p.mic
             /\ q.jobs = p.jobs
             /\ q.session = p.session \/ ~IsSession(q.session)
             /\ p.mic.state # "null" => q = p
<1> DEFINE q == EndRtpReceiver(p)
<1>1. CASE p.spk.state = "null"
  BY <1>1 DEF EndRtpReceiver
<1>2. CASE p.spk.state # "null"
  <2>1. q = [p EXCEPT !.shown = FALSE, !.spk = NullSpk,
                      !.session = EndSession(@)]
    BY <1>2 DEF EndRtpReceiver
  <2>2. p.mic.state = "null"
    BY <1>2 DEF PhoneFits
  <2>3. p.session \in Session
    BY PhoneParts
  <2>4. q \in Phone
    BY <2>1, <2>3, EndSessionEffect, NullRelayers DEF Phone
  <2>5. /\ q.spk.state = "null" /\ q.mic = p.mic /\ q.jobs = p.jobs
        /\ q.session = EndSession(p.session)
    BY <2>1 DEF Phone, NullSpk
  <2>6. /\ q.session.level = INVALID_SESSION_LEVEL
        /\ q.session.ssrc = NoCall /\ ~q.session.wide
    BY <2>3, <2>5, EndSessionEffect
  <2>7. PhoneFits(cl, n, q)
    BY <2>2, <2>5, <2>6
    DEF PhoneFits, SessionFits, INVALID_SESSION_LEVEL
  <2> QED
    BY <2>2, <2>4, <2>5, <2>6, <2>7 DEF IsSession, INVALID_SESSION_LEVEL
<1> QED BY <1>1, <1>2

(* endRtpSender queues at most a STOP of the session it ends. *)
LEMMA EndRtpSenderEffect ==
  ASSUME NEW cl, NEW n \in Node, NEW p \in Phone, PhoneFits(cl, n, p)
  PROVE  LET q == EndRtpSender(p)
         IN  /\ q \in Phone
             /\ PhoneFits(cl, n, q)
             /\ q.mic.state = "null"
             /\ q.spk = p.spk
             /\ \A k \in q.jobs :
                  \/ k \in p.jobs
                  \/ /\ p.mic.state # "null"
                     /\ k = CtrlPacketStop(p.session)
             /\ q.session = p.session \/ ~IsSession(q.session)
             /\ p.mic.state # "null" => q.session.ssrc = NoCall
<1> DEFINE q == EndRtpSender(p)
<1>1. CASE p.mic.state = "null"
  BY <1>1 DEF EndRtpSender
<1>2. CASE p.mic.state # "null"
  <2> DEFINE stop == CtrlPacketStop(p.session)
             r == [p EXCEPT !.mic = NullMic]
             t == SendCtrlPacket(r, stop)
  <2>1. q = [t EXCEPT !.session = EndSession(@)]
    BY <1>2 DEF EndRtpSender
  <2>2. stop \in Packet
    <3>1. p.session.ssrc \in Call
      BY <1>2, PhoneParts DEF PhoneFits, Session
    <3> QED BY <3>1 DEF CtrlPacketStop, Packet, StopPacket
  <2>3. r \in Phone /\ r.session = p.session /\ r.spk = p.spk
        /\ r.jobs = p.jobs /\ r.mic = NullMic
    BY NullRelayers DEF Phone
  <2>4. /\ t \in Phone /\ t.session = p.session /\ t.spk = p.spk
        /\ t.jobs \subseteq p.jobs \cup {stop} /\ t.mic = NullMic
    BY <2>2, <2>3, SendCtrlPacketEffect
  <2>5. p.session \in Session
    BY PhoneParts
  <2>6. /\ q \in Phone /\ q.session = EndSession(p.session)
        /\ q.spk = p.spk /\ q.jobs = t.jobs /\ q.mic = NullMic
    BY <2>1, <2>4, <2>5, EndSessionEffect DEF Phone
  <2>7. /\ q.session.level = INVALID_SESSION_LEVEL
        /\ q.session.ssrc = NoCall /\ ~q.session.wide
    BY <2>5, <2>6, EndSessionEffect
  <2>8. p.spk.state = "null"
    BY <1>2 DEF PhoneFits
  <2>9. PhoneFits(cl, n, q)
    BY <2>6, <2>7, <2>8
    DEF PhoneFits, SessionFits, INVALID_SESSION_LEVEL, NullMic
  <2> QED
    BY <1>2, <2>4, <2>6, <2>7, <2>9
    DEF IsSession, INVALID_SESSION_LEVEL, NullMic
<1> QED BY <1>1, <1>2

(* The jobs of q: those of p, and maybe the STOP of a session that p gave  *)
(* up as its talker, and the packets of new.                               *)
JobsFrom(p, q, new) ==
  \A k \in q.jobs :
    \/ k \in p.jobs
    \/ p.mic.state # "null" /\ k = CtrlPacketStop(p.session)
    \/ k \in new

(* The talk of p, if any, goes on in q. *)
MicKept(p, q, new) ==
  /\ q.session = p.session
  /\ p.mic.state = "null" => q.mic.state = "null"
  /\ q.jobs \subseteq p.jobs \cup new

(* endRtpReceiver and endRtpSender, in the order of the begin methods. *)
LEMMA EndBothEffect ==
  ASSUME NEW cl, NEW n \in Node, NEW p \in Phone, PhoneFits(cl, n, p)
  PROVE  LET q == EndRtpSender(EndRtpReceiver(p))
         IN  /\ q \in Phone
             /\ PhoneFits(cl, n, q)
             /\ q.mic.state = "null"
             /\ q.spk.state = "null"
             /\ JobsFrom(p, q, {})
<1> DEFINE r == EndRtpReceiver(p)
           q == EndRtpSender(r)
<1>1. /\ r \in Phone /\ PhoneFits(cl, n, r) /\ r.spk.state = "null"
      /\ r.mic = p.mic /\ r.jobs = p.jobs
      /\ p.mic.state # "null" => r = p
  BY EndRtpReceiverEffect
<1>2. /\ q \in Phone /\ PhoneFits(cl, n, q) /\ q.mic.state = "null"
      /\ q.spk = r.spk
      /\ \A k \in q.jobs :
           \/ k \in r.jobs
           \/ r.mic.state # "null" /\ k = CtrlPacketStop(r.session)
  BY <1>1, EndRtpSenderEffect
<1> HIDE DEF r, q
<1>3. JobsFrom(p, q, {})
  BY <1>1, <1>2 DEF JobsFrom
<1> QED BY <1>1, <1>2, <1>3 DEF r, q

(* The same in the order of setLocalIpAddress. *)
LEMMA EndSenderFirstEffect ==
  ASSUME NEW cl, NEW n \in Node, NEW p \in Phone, PhoneFits(cl, n, p)
  PROVE  LET q == EndRtpReceiver(EndRtpSender(p))
         IN  /\ q \in Phone
             /\ PhoneFits(cl, n, q)
             /\ q.mic.state = "null"
             /\ q.spk.state = "null"
             /\ JobsFrom(p, q, {})
             /\ q.session = p.session \/ ~IsSession(q.session)
<1> DEFINE r == EndRtpSender(p)
           q == EndRtpReceiver(r)
<1>1. /\ r \in Phone /\ PhoneFits(cl, n, r) /\ r.mic.state = "null"
      /\ \A k \in r.jobs :
           \/ k \in p.jobs
           \/ p.mic.state # "null" /\ k = CtrlPacketStop(p.session)
      /\ r.session = p.session \/ ~IsSession(r.session)
  BY EndRtpSenderEffect
<1>2. /\ q \in Phone /\ PhoneFits(cl, n, q) /\ q.spk.state = "null"
      /\ q.mic = r.mic /\ q.jobs = r.jobs
      /\ q.session = r.session \/ ~IsSession(q.session)
  BY <1>1, EndRtpReceiverEffect
<1> HIDE DEF r, q
<1>3. JobsFrom(p, q, {})
  BY <1>1, <1>2 DEF JobsFrom
<1> QED BY <1>1, <1>2, <1>3 DEF r, q

(* Phone q is in call c, at this level. *)
Begun(q, c, level) == q.session.ssrc = c /\ q.session.level = level

LEMMA BeginRtpReceiverEffect ==
  ASSUME NEW cl, NEW n \in Node, NEW p \in Phone, PhoneFits(cl, n, p),
         NEW start \in Packet, start.type = "START", PacketFits(cl, start),
         NEW src \in Node,
         NEW outcome \in {"running", "noSocket", "noOutputter"}
  PROVE  LET q == BeginRtpReceiver(p, start, src, outcome)
         IN  /\ q \in Phone
             /\ PhoneFits(cl, n, q)
             /\ q.mic.state = "null"
             /\ Begun(q, start.ssrc, start.level)
             /\ JobsFrom(p, q, {start})
<1> DEFINE q == EndRtpSender(EndRtpReceiver(p))
           r == SendCtrlPacket([q EXCEPT !.shown = TRUE], start)
           new == SetSessionParamStart(r.session, start)
           s == [r EXCEPT !.session = SetSessionParamStart(@, start)]
           relayer(state) == [state |-> state, key |-> s.session.key,
                              remote |-> src, armed |-> FALSE]
           final == BeginRtpReceiver(p, start, src, outcome)
<1>1. /\ q \in Phone /\ PhoneFits(cl, n, q)
      /\ q.mic.state = "null" /\ q.spk.state = "null"
      /\ JobsFrom(p, q, {})
  BY EndBothEffect
<1> HIDE DEF q
<1>2. LET shown == [q EXCEPT !.shown = TRUE]
      IN  /\ shown \in Phone /\ shown.jobs = q.jobs /\ shown.mic = q.mic
          /\ shown.spk = q.spk
  BY <1>1 DEF Phone
<1>3. /\ r \in Phone /\ r.jobs \subseteq q.jobs \cup {start}
      /\ r.mic = q.mic /\ r.spk = q.spk
  BY <1>2, SendCtrlPacketEffect
<1> HIDE DEF r
<1>4. /\ start.ssrc \in Call /\ start.level \in Nat
      /\ start.key = start.ssrc
      /\ start.level = cl[start.ssrc].level % LevelMod
      /\ cl[start.ssrc].talker # NoNode
  BY DEF PacketFits, Packet, StartPacket, StopPacket
<1>5. /\ new \in Session
      /\ new.level = start.level /\ new.ssrc = start.ssrc
      /\ new.key = start.ssrc /\ new.wide = FALSE
  BY <1>4 DEF SetSessionParamStart, Session
<1>6. SessionFits(cl, n, new)
  BY <1>4, <1>5, NoCallAssumption DEF SessionFits, INVALID_SESSION_LEVEL
<1> HIDE DEF new
<1>7. /\ s \in Phone /\ s.session = new /\ s.jobs = r.jobs
      /\ s.mic = q.mic /\ s.spk = q.spk
  BY <1>3, <1>5 DEF Phone, new
<1> HIDE DEF s
<1>8. \A state \in RelayerState :
        /\ relayer(state) \in Spk
        /\ relayer(state).key = new.key /\ relayer(state).state = state
  BY <1>4, <1>5, <1>7 DEF Spk
<1> HIDE DEF relayer
<1>9. \/ final = s
      \/ final = [s EXCEPT !.spk = relayer("running")]
      \/ final = [s EXCEPT !.spk = relayer("dead")]
  BY DEF BeginRtpReceiver, q, r, s, relayer
<1> HIDE DEF final
<1>10. /\ final \in Phone /\ final.session = new /\ final.jobs = r.jobs
       /\ final.mic = q.mic
       /\ final.spk = q.spk \/ final.spk.key = new.key
  BY <1>7, <1>8, <1>9 DEF Phone, RelayerState
<1>11. new.ssrc # NoCall
  BY <1>4, <1>5, NoCallAssumption
<1>12. PhoneFits(cl, n, final)
  BY <1>1, <1>5, <1>6, <1>10, <1>11 DEF PhoneFits
<1>13. JobsFrom(p, final, {start})
  BY <1>1, <1>3, <1>10 DEF JobsFrom
<1>14. Begun(final, start.ssrc, start.level)
  BY <1>5, <1>10 DEF Begun
<1> QED BY <1>1, <1>10, <1>12, <1>13, <1>14 DEF final

LEMMA BeginRtpSenderEffect ==
  ASSUME NEW cl, NEW n \in Node, NEW p \in Phone, PhoneFits(cl, n, p),
         NEW level, level \in Int, BeginSession(p.session, level),
         NEW c \in Call, cl[c].talker = n, cl[c].level = level,
         NEW outcome \in {"running", "noOutputter"}
  PROVE  LET q == BeginRtpSender(p, level, c, outcome)
         IN  /\ q \in Phone
             /\ PhoneFits(cl, n, q)
             /\ Begun(q, c, level) /\ q.session.wide
             /\ CtrlPacketStart(q.session) \in StartPacket
             /\ PacketFits(cl, CtrlPacketStart(q.session))
             /\ JobsFrom(p, q, {CtrlPacketStart(q.session)})
<1> DEFINE q == EndRtpSender(EndRtpReceiver(p))
           new == SetKey(SetSessionParamCodec(q.session, level, c), c)
           r == [q EXCEPT !.session =
                   SetKey(SetSessionParamCodec(@, level, c), c)]
           relayer(state) == [state |-> state, key |-> r.session.key]
           start == CtrlPacketStart(r.session)
           t == [r EXCEPT !.mic = relayer("running")]
           u == [r EXCEPT !.mic = relayer("dead")]
           final == BeginRtpSender(p, level, c, outcome)
<1>1. /\ q \in Phone /\ PhoneFits(cl, n, q)
      /\ q.mic.state = "null" /\ q.spk.state = "null"
      /\ JobsFrom(p, q, {})
  BY EndBothEffect
<1>2. level \in Nat
  <2>1. p.session.level \in Int /\ p.session.level >= -1
    BY PhoneParts DEF PhoneFits, SessionFits, Session, INVALID_SESSION_LEVEL
  <2> QED BY <2>1 DEF BeginSession
<1>3. /\ new \in Session
      /\ new.level = level /\ new.ssrc = c /\ new.key = c /\ new.wide = TRUE
  <2> HIDE DEF q
  <2>1. q.session \in Session
    BY <1>1, PhoneParts
  <2> QED BY <2>1 DEF SetKey, SetSessionParamCodec, Session
<1> HIDE DEF q
<1>4. /\ cl[c].talker = n /\ cl[c].level = level
      /\ n # NoNode /\ c # NoCall
  BY NoNodeAssumption, NoCallAssumption
<1>5. SessionFits(cl, n, new)
  BY <1>2, <1>3, <1>4 DEF SessionFits, INVALID_SESSION_LEVEL
<1>6. /\ r \in Phone /\ r.session = new /\ r.jobs = q.jobs
      /\ r.mic = q.mic /\ r.spk = q.spk
  BY <1>1, <1>3 DEF Phone
<1> HIDE DEF new, r
<1>7. level % LevelMod \in Nat
  BY <1>2, WireLevel
<1>8. start = [type |-> "START", ssrc |-> c, level |-> level % LevelMod,
               key |-> c]
  BY <1>3, <1>6 DEF CtrlPacketStart
<1>9. start \in StartPacket
  BY <1>7, <1>8 DEF StartPacket
<1>10. PacketFits(cl, start)
  BY <1>4, <1>8 DEF PacketFits
<1> HIDE DEF start
<1>11. \A state \in RelayerState :
         /\ relayer(state) \in Mic
         /\ relayer(state).key = c /\ relayer(state).state = state
  BY <1>3, <1>6 DEF Mic
<1> HIDE DEF relayer
<1>12. /\ t \in Phone /\ t.session = new /\ t.jobs = q.jobs
       /\ t.mic.key = c /\ t.mic.state = "running" /\ t.spk = q.spk
  BY <1>6, <1>11 DEF Phone, RelayerState
<1>13. /\ u \in Phone /\ u.session = new /\ u.jobs = q.jobs
       /\ u.mic.key = c /\ u.mic.state = "dead" /\ u.spk = q.spk
  BY <1>6, <1>11 DEF Phone, RelayerState
<1>14. final = SendCtrlPacket(t, start) \/ final = u
  BY DEF BeginRtpSender, q, r, relayer, start
<1> HIDE DEF t, u, final
<1>15. start \in Packet
  BY <1>9 DEF Packet
<1>16. /\ final \in Phone /\ final.session = new
       /\ final.mic.key = c /\ final.mic.state # "null"
       /\ final.spk = q.spk
       /\ final.jobs \subseteq q.jobs \cup {start}
  BY <1>12, <1>13, <1>14, <1>15, SendCtrlPacketEffect
<1>17. PhoneFits(cl, n, final)
  BY <1>1, <1>3, <1>4, <1>5, <1>16 DEF PhoneFits
<1>18. JobsFrom(p, final, {start})
  BY <1>1, <1>16 DEF JobsFrom
<1>19. start = CtrlPacketStart(final.session)
  BY <1>6, <1>16 DEF start
<1>20. Begun(final, c, level)
  BY <1>3, <1>16 DEF Begun
<1> QED BY <1>3, <1>9, <1>10, <1>16, <1>17, <1>18, <1>19, <1>20 DEF final

LEMMA EndRtpReceiverStopEffect ==
  ASSUME NEW cl, NEW n \in Node, NEW p \in Phone, PhoneFits(cl, n, p),
         NEW stop \in Packet, stop.type = "STOP"
  PROVE  LET q == EndRtpReceiverStop(p, stop)
         IN  /\ q \in Phone
             /\ PhoneFits(cl, n, q)
             /\ q.mic.state = "null" \/ MicKept(p, q, {stop})
             /\ JobsFrom(p, q, {stop})
             /\ q.session = p.session \/ ~IsSession(q.session)
<1> DEFINE r == EndRtpReceiver(p)
           q == EndRtpReceiverStop(p, stop)
<1>1. /\ r \in Phone /\ PhoneFits(cl, n, r) /\ r.mic = p.mic
      /\ r.jobs = p.jobs
      /\ r.session = p.session \/ ~IsSession(r.session)
      /\ p.mic.state # "null" => r = p
  BY EndRtpReceiverEffect
<1>2. q = p \/ q = SendCtrlPacket(r, stop)
  BY DEF EndRtpReceiverStop
<1> HIDE DEF r, q
<1>3. /\ q \in Phone /\ q.mic = p.mic
      /\ q.jobs \subseteq p.jobs \cup {stop}
      /\ \/ q.session = p.session /\ q.spk = p.spk
         \/ q.session = r.session /\ q.spk = r.spk
  BY <1>1, <1>2, SendCtrlPacketEffect
<1>4. PhoneFits(cl, n, q)
  BY <1>1, <1>3 DEF PhoneFits
<1>5. JobsFrom(p, q, {stop})
  BY <1>3 DEF JobsFrom
<1>6. q.mic.state = "null" \/ MicKept(p, q, {stop})
  BY <1>1, <1>3 DEF MicKept
<1> QED BY <1>1, <1>3, <1>4, <1>5, <1>6 DEF q

LEMMA SetLocalIpAddressEffect ==
  ASSUME NEW cl, NEW n \in Node, NEW p \in Phone, PhoneFits(cl, n, p),
         NEW listens \in BOOLEAN
  PROVE  LET q == SetLocalIpAddress(p, listens)
         IN  /\ q \in Phone
             /\ PhoneFits(cl, n, q)
             /\ q = p \/ q.mic.state = "null"
             /\ JobsFrom(p, q, {})
             /\ q.session = p.session \/ ~IsSession(q.session)
<1> DEFINE q == SetLocalIpAddress(p, listens)
           set == [p EXCEPT !.local = "current"]
           ended(x) == EndRtpReceiver(EndRtpSender(x))
<1>1. /\ set \in Phone /\ set.mic = p.mic /\ set.spk = p.spk
      /\ set.jobs = p.jobs /\ set.session = p.session
  BY DEF Phone, LocalAddress
<1>2. PhoneFits(cl, n, set)
  BY <1>1 DEF PhoneFits
<1>3. \/ q = p
      \/ q = [ended(set) EXCEPT !.ctrl = listens]
      \/ q = [ended(p) EXCEPT !.ctrl = FALSE]
  <2>1. p.link \in BOOLEAN
    BY DEF Phone
  <2> QED BY <2>1 DEF SetLocalIpAddress
<1>4. \A x \in {p, set} :
        /\ ended(x) \in Phone /\ PhoneFits(cl, n, ended(x))
        /\ ended(x).mic.state = "null" /\ JobsFrom(p, ended(x), {})
        /\ ended(x).session = p.session \/ ~IsSession(ended(x).session)
  <2>1. \A x \in {p, set} :
        /\ ended(x) \in Phone /\ PhoneFits(cl, n, ended(x))
        /\ ended(x).mic.state = "null" /\ JobsFrom(x, ended(x), {})
        /\ ended(x).session = x.session \/ ~IsSession(ended(x).session)
    <3> HIDE DEF set
    <3> SUFFICES ASSUME NEW x \in {p, set}
                 PROVE  /\ ended(x) \in Phone
                        /\ PhoneFits(cl, n, ended(x))
                        /\ ended(x).mic.state = "null"
                        /\ JobsFrom(x, ended(x), {})
                        /\ \/ ended(x).session = x.session
                           \/ ~IsSession(ended(x).session)
      OBVIOUS
    <3>1. x \in Phone /\ PhoneFits(cl, n, x)
      BY <1>1, <1>2
    <3> QED BY <3>1, EndSenderFirstEffect
  <2> QED BY <1>1, <2>1 DEF JobsFrom
<1> HIDE DEF q, ended, set
<1>5. \A x \in {p, set}, b \in BOOLEAN :
        LET y == [ended(x) EXCEPT !.ctrl = b]
        IN  /\ y \in Phone /\ y.mic = ended(x).mic /\ y.spk = ended(x).spk
            /\ y.jobs = ended(x).jobs /\ y.session = ended(x).session
  BY <1>4 DEF Phone
<1>6. \/ q = p
      \/ \E x \in {p, set} :
           /\ q \in Phone /\ q.mic = ended(x).mic /\ q.spk = ended(x).spk
           /\ q.jobs = ended(x).jobs /\ q.session = ended(x).session
  BY <1>3, <1>5
<1>7. PhoneFits(cl, n, q)
  BY <1>4, <1>6 DEF PhoneFits
<1>8. JobsFrom(p, q, {})
  BY <1>4, <1>6 DEF JobsFrom
<1> QED BY <1>4, <1>6, <1>7, <1>8 DEF q

LEMMA OnCreateEffect ==
  ASSUME NEW cl, NEW n \in Node, NEW link \in BOOLEAN
  PROVE  LET q == OnCreate(link)
         IN  /\ q \in Phone
             /\ PhoneFits(cl, n, q)
             /\ q.mic.state = "null"
             /\ q.jobs = {}
             /\ ~IsSession(q.session)
<1> DEFINE p == NewPhone(link)
           q == OnCreate(link)
<1>1. NoSession \in Session
  BY DEF NoSession, Session, INVALID_SESSION_LEVEL
<1>2. /\ p \in Phone /\ p.mic.state = "null" /\ p.jobs = {}
      /\ p.spk.state = "null"
      /\ p.session.level = INVALID_SESSION_LEVEL /\ p.session.ssrc = NoCall
      /\ ~p.session.wide
  BY <1>1, NullRelayers
  DEF NewPhone, Phone, NullMic, NullSpk, NoSession, LocalAddress
<1>3. PhoneFits(cl, n, p)
  BY <1>2 DEF PhoneFits, SessionFits, INVALID_SESSION_LEVEL
<1> HIDE DEF p
<1>4. PICK listens \in BOOLEAN : q = SetLocalIpAddress(p, listens)
  <2>1. TRUE \in BOOLEAN
    OBVIOUS
  <2> QED BY <2>1 DEF OnCreate, p
<1>5. /\ q \in Phone /\ PhoneFits(cl, n, q)
      /\ q = p \/ q.mic.state = "null"
      /\ JobsFrom(p, q, {})
      /\ q.session = p.session \/ ~IsSession(q.session)
  BY <1>2, <1>3, <1>4, SetLocalIpAddressEffect
<1> HIDE DEF q
<1>6. q.jobs = {}
  BY <1>2, <1>5 DEF JobsFrom
<1>7. ~IsSession(p.session)
  BY <1>2 DEF IsSession, INVALID_SESSION_LEVEL
<1> QED BY <1>2, <1>5, <1>6, <1>7 DEF q

-----------------------------------------------------------------------------
(* The steps of the specification. *)

(* Phone n becomes p and begins a fresh call. *)
Begins(n, p) ==
  \E c \in Call, level \in AccountLevels[n] :
    /\ call[c].talker = NoNode
    /\ call' = [call EXCEPT ![c] = [talker |-> n, level |-> level]]
    /\ Begun(p, c, level)
    /\ p.session.wide

(* What a step may do to the floor: nothing, or one phone changes its      *)
(* session to none or to one of a higher level, which it begins or not.    *)
FloorStep ==
  \/ phone' = phone /\ call' = call
  \/ \E n \in Node, p \in Phone :
       /\ phone' = [phone EXCEPT ![n] = p]
       /\ \/ p.session = phone[n].session
          \/ ~IsSession(p.session)
          \/ p.session.level > phone[n].session.level
       /\ \/ /\ call' = call
             /\ p.session = phone[n].session \/ ~p.session.wide
          \/ Begins(n, p)

CallsKept ==
  /\ call' \in [Call -> CallRecord]
  /\ \A c \in Call : call[c].talker # NoNode => call'[c] = call[c]

(* Every action changes one phone, and what it sends was sent before, is   *)
(* the STOP of the session that the phone gives up, or a START.            *)
LEMMA OnePhoneStep ==
  ASSUME IInv, CallsKept,
         NEW n \in Node, NEW p \in Phone, PhoneFits(call', n, p),
         phone' = [phone EXCEPT ![n] = p],
         NEW new, JobsFrom(phone[n], p, new),
         \A k \in new : /\ PacketFits(call', k)
                        /\ k \in Packets \/ k.type = "START",
         \/ /\ call' = call
            /\ p.mic.state = "null" \/ MicKept(phone[n], p, new)
         \/ Begins(n, p),
         \/ p.session = phone[n].session
         \/ ~IsSession(p.session)
         \/ p.session.level > phone[n].session.level,
         net' \in SUBSET Message, \A m \in net' : m.packet \in Packets,
         left' \in SUBSET Call, torn' \in SUBSET Call,
         faults' \in 0 .. MaxFaults, releases' \in 0 .. MaxReleases
  PROVE  IInv' /\ FloorStep
<1> DEFINE old == phone[n]
           stop == CtrlPacketStop(old.session)
<1>1. /\ phone \in [Node -> Phone] /\ old \in Phone
      /\ \A m \in Node : PhoneFits(call, m, phone[m])
      /\ \A k \in Packets : PacketFits(call, k)
      /\ \A k \in Packets, m \in Node : NotTalking(phone[m], k)
  BY DEF IInv, TypeOK
<1>2. /\ phone' \in [Node -> Phone]
      /\ phone'[n] = p
      /\ \A m \in Node \ {n} : phone'[m] = phone[m]
  BY <1>1
<1>3. TypeOK'
  BY <1>2 DEF TypeOK, CallsKept
<1>4. \A m \in Node : PhoneFits(call', m, phone'[m])
  <2> SUFFICES ASSUME NEW m \in Node \ {n}
               PROVE  PhoneFits(call', m, phone[m])
    BY <1>2
  <2>1. /\ PhoneFits(call, m, phone[m])
        /\ phone[m].session \in Session
    BY <1>1, PhoneParts
  <2>2. phone[m].session.ssrc \in Call \cup {NoCall}
    BY <2>1 DEF Session
  <2>3. SessionFits(call', m, phone[m].session)
    BY <2>1, <2>2 DEF PhoneFits, SessionFits, CallsKept
  <2> QED BY <2>1, <2>3 DEF PhoneFits
<1>5. \A k \in Packets : PacketFits(call', k)
  BY <1>1 DEF PacketFits, CallsKept
<1>6. old.mic.state # "null" =>
        /\ old.session.wide /\ old.session.ssrc \in Call
        /\ call[old.session.ssrc].talker = n
        /\ call'[old.session.ssrc].talker = n
  <2>1. old.session.ssrc \in Call \cup {NoCall}
    BY <1>1, PhoneParts DEF Session
  <2> QED BY <1>1, <2>1, NoNodeAssumption
          DEF PhoneFits, SessionFits, CallsKept
<1>7. old.mic.state # "null" => PacketFits(call', stop)
  BY <1>6, NoNodeAssumption DEF PacketFits, CtrlPacketStop
<1>8. \A k \in Packets' :
        \/ k \in Packets
        \/ k \in new /\ k.type = "START"
        \/ k = stop /\ k \in p.jobs /\ old.mic.state # "null"
  <2> SUFFICES ASSUME NEW k \in Packets'
               PROVE  \/ k \in Packets
                      \/ k \in new /\ k.type = "START"
                      \/ k = stop /\ k \in p.jobs /\ old.mic.state # "null"
    OBVIOUS
  <2>1. CASE \E m \in net' : k = m.packet
    BY <2>1
  <2>2. CASE \E m \in Node : k \in phone'[m].jobs
    <3>1. PICK m \in Node : k \in phone'[m].jobs
      BY <2>2
    <3>2. CASE m # n
      BY <1>2, <3>1, <3>2 DEF Packets
    <3>3. CASE m = n
      BY <1>2, <3>1, <3>3 DEF Packets, JobsFrom
    <3> QED BY <3>2, <3>3
  <2> QED BY <2>1, <2>2 DEF Packets
<1>9. \A k \in Packets' : PacketFits(call', k)
  BY <1>5, <1>7, <1>8
<1>10. \A k \in Packets', m \in Node : NotTalking(phone'[m], k)
  <2> SUFFICES ASSUME NEW k \in Packets', NEW m \in Node,
                      k.type = "STOP"
               PROVE  NotTalking(phone'[m], k)
    BY DEF NotTalking
  <2>1. CASE k \in Packets /\ m # n
    BY <1>1, <1>2, <2>1
  <2>2. CASE k \in Packets /\ m = n
    <3>1. PacketFits(call, k) /\ NotTalking(old, k)
      BY <1>1, <2>2
    <3> QED BY <1>2, <2>2, <3>1
            DEF NotTalking, PacketFits, MicKept, Begins, Begun
  <2>3. CASE k = stop /\ old.mic.state # "null" /\ m # n
    <3>1. phone'[m] = phone[m] /\ PhoneFits(call, m, phone[m])
      BY <1>1, <1>2, <2>3
    <3>2. k.ssrc = old.session.ssrc
      BY <2>3 DEF CtrlPacketStop
    <3>3. old.session.ssrc # NoCall
      BY <1>6, <2>3, NoCallAssumption
    <3> QED BY <1>6, <2>3, <3>1, <3>2, <3>3
            DEF NotTalking, PhoneFits, SessionFits
  <2>4. CASE k = stop /\ old.mic.state # "null" /\ m = n /\ k \notin Packets
    <3>1. k.ssrc = old.session.ssrc
      BY <2>4 DEF CtrlPacketStop
    <3>2. k \in p.jobs /\ k \notin old.jobs /\ k \notin new
      <4>1. k \in p.jobs
        BY <1>8, <2>4
      <4>2. k \notin old.jobs
        BY <2>4 DEF Packets
      <4>3. k \notin new
        BY <2>4
      <4> QED BY <4>1, <4>2, <4>3
    <3>3. ~MicKept(old, p, new)
      BY <3>2 DEF MicKept
    <3>4. p.mic.state = "null" \/ call[p.session.ssrc].talker = NoNode
      BY <3>3 DEF Begins, Begun
    <3> QED BY <1>2, <1>6, <2>4, <3>1, <3>4, NoNodeAssumption
            DEF NotTalking
  <2> QED BY <1>8, <2>1, <2>2, <2>3, <2>4
<1>11. FloorStep
  <2>1. p.mic.state = "null" => ~p.session.wide
    BY DEF PhoneFits
  <2>2. MicKept(old, p, new) => p.session = old.session
    BY DEF MicKept
  <2> QED BY <2>1, <2>2 DEF FloorStep
<1>12. IInv'
  BY <1>3, <1>4, <1>9, <1>10 DEF IInv
<1> QED BY <1>11, <1>12

(* The same for an action that sends nothing but what the phone sent, or   *)
(* the STOP of a session it gives up, and that begins no call.             *)
LEMMA NothingNewStep ==
  ASSUME IInv, call' = call, releases' = releases,
         NEW n \in Node, NEW p \in Phone, PhoneFits(call, n, p),
         phone' = [phone EXCEPT ![n] = p],
         JobsFrom(phone[n], p, {}),
         p.mic.state = "null" \/ MicKept(phone[n], p, {}),
         p.session = phone[n].session \/ ~IsSession(p.session),
         net' \in SUBSET Message, \A m \in net' : m.packet \in Packets,
         left' \in SUBSET Call, torn' \in SUBSET Call,
         faults' \in 0 .. MaxFaults
  PROVE  IInv' /\ FloorStep
<1> DEFINE none == {}
<1>1. \A k \in none : PacketFits(call', k) /\ (k \in Packets \/ k.type = "START")
  OBVIOUS
<1>2. /\ JobsFrom(phone[n], p, none)
      /\ p.mic.state = "null" \/ MicKept(phone[n], p, none)
  OBVIOUS
<1>3. CallsKept /\ PhoneFits(call', n, p) /\ releases' \in 0 .. MaxReleases
  BY DEF CallsKept, IInv, TypeOK
<1> HIDE DEF none
<1> QED BY <1>1, <1>2, <1>3, OnePhoneStep

LEMMA BecomeEffect ==
  ASSUME TypeOK, NEW n \in Node, NEW p, Become(n, p)
  PROVE  /\ phone' = [phone EXCEPT ![n] = p]
         /\ left' \in SUBSET Call /\ torn' \in SUBSET Call
<1>1. phone[n].session.ssrc \in Call \cup {NoCall}
  BY PhoneParts DEF TypeOK, Session
<1> QED BY <1>1 DEF Become, TypeOK

LEMMA CountersEffect ==
  ASSUME TypeOK
  PROVE  /\ NoFault => faults' \in 0 .. MaxFaults
         /\ \A kind : Fault(kind) => faults' \in 0 .. MaxFaults
         /\ releases' = releases => releases' \in 0 .. MaxReleases
BY BoundsAssumption DEF TypeOK, NoFault, Fault

(* Facts about a phone and the packets of a step that IInv gives. *)
LEMMA Given ==
  ASSUME IInv, NEW n \in Node
  PROVE  /\ TypeOK
         /\ phone[n] \in Phone
         /\ PhoneFits(call, n, phone[n])
         /\ \A k \in Packets : PacketFits(call, k) /\ NotTalking(phone[n], k)
         /\ \A m \in net : /\ m.packet \in Packets /\ m.packet \in Packet
                           /\ m.src \in Node /\ m.dst \in Node
         /\ \A k \in phone[n].jobs : k \in Packets
<1>1. /\ TypeOK /\ PhoneFits(call, n, phone[n])
      /\ \A k \in Packets : PacketFits(call, k) /\ NotTalking(phone[n], k)
  BY DEF IInv
<1>2. phone[n] \in Phone
  BY <1>1 DEF TypeOK
<1>3. \A m \in net : /\ m.packet \in Packet
                     /\ m.src \in Node /\ m.dst \in Node
  BY <1>1 DEF TypeOK, Message
<1>4. /\ \A m \in net : m.packet \in Packets
      /\ \A k \in phone[n].jobs : k \in Packets
  BY DEF Packets
<1> QED BY <1>1, <1>2, <1>3, <1>4

LEMMA PressToTalkStep ==
  ASSUME IInv, NEW n \in Node, PressToTalk(n)
  PROVE  IInv' /\ FloorStep
<1> DEFINE old == phone[n]
<1>1. /\ TypeOK /\ old \in Phone /\ PhoneFits(call, n, old)
  BY Given
<1>2. PICK level \in AccountLevels[n], c \in Call,
           outcome \in {"running", "noOutputter"} :
        /\ BeginSession(old.session, level)
        /\ call[c] = NotBegun
        /\ NoFault \/ Fault("bind")
        /\ call' = [call EXCEPT ![c] = [talker |-> n, level |-> level]]
        /\ Become(n, BeginRtpSender(old, level, c, outcome))
  BY DEF PressToTalk
<1>3. /\ level \in Int /\ net' = net /\ releases' = releases
  BY AccountLevelsAssumption DEF PressToTalk
<1> DEFINE p == BeginRtpSender(old, level, c, outcome)
           start == CtrlPacketStart(p.session)
<1>4. /\ CallsKept
      /\ call'[c] = [talker |-> n, level |-> level]
      /\ call[c].talker = NoNode
  <2>1. [talker |-> n, level |-> level] \in CallRecord
    BY <1>3 DEF CallRecord
  <2>2. call \in [Call -> CallRecord]
    BY <1>1 DEF TypeOK
  <2> QED BY <1>2, <2>1, <2>2 DEF CallsKept, NotBegun
<1>5. PhoneFits(call', n, old)
  <2>1. old.session.ssrc \in Call \cup {NoCall}
    BY <1>1, PhoneParts DEF Session
  <2> QED BY <1>1, <1>4, <2>1 DEF PhoneFits, SessionFits, CallsKept
<1>6. /\ p \in Phone /\ PhoneFits(call', n, p)
      /\ Begun(p, c, level) /\ p.session.wide
      /\ start \in StartPacket /\ PacketFits(call', start)
      /\ JobsFrom(old, p, {start})
  <2> DEFINE cl == call'
  <2>1. /\ PhoneFits(cl, n, old) /\ cl[c].talker = n /\ cl[c].level = level
        /\ old \in Phone /\ level \in Int /\ BeginSession(old.session, level)
        /\ c \in Call /\ outcome \in {"running", "noOutputter"}
    BY <1>1, <1>2, <1>3, <1>4, <1>5
  <2> HIDE DEF cl, old
  <2>2. /\ p \in Phone /\ PhoneFits(cl, n, p)
        /\ Begun(p, c, level) /\ p.session.wide
        /\ start \in StartPacket /\ PacketFits(cl, start)
        /\ JobsFrom(old, p, {start})
    BY <1>2, <2>1, BeginRtpSenderEffect
  <2> QED BY <2>2 DEF cl
<1>7. start.type = "START"
  BY DEF CtrlPacketStart
<1>8. p.session.ssrc = c /\ p.session.level > old.session.level
  <2>1. old.session.level \in Int
    BY <1>1, PhoneParts DEF Session
  <2>2. p.session.ssrc = c /\ p.session.level = level
    BY <1>6 DEF Begun
  <2> QED BY <1>2, <1>3, <2>1, <2>2 DEF BeginSession
<1>9. /\ phone' = [phone EXCEPT ![n] = p]
      /\ left' \in SUBSET Call /\ torn' \in SUBSET Call
  BY <1>1, <1>2, BecomeEffect
<1>10. faults' \in 0 .. MaxFaults /\ releases' \in 0 .. MaxReleases
  BY <1>1, <1>2, <1>3, CountersEffect
<1>11. net' \in SUBSET Message /\ \A m \in net' : m.packet \in Packets
  BY <1>1, <1>3, Given DEF TypeOK
<1>12. Begins(n, p)
  BY <1>2, <1>4, <1>6 DEF Begins
<1> HIDE DEF p, start
<1> QED BY <1>4, <1>6, <1>7, <1>8, <1>9, <1>10, <1>11, <1>12, OnePhoneStep

LEMMA ReleaseStep ==
  ASSUME IInv, NEW n \in Node, Release(n)
  PROVE  IInv' /\ FloorStep
<1> DEFINE old == phone[n]
           p == EndRtpSender(old)
           none == {}
<1>1. /\ TypeOK /\ old \in Phone /\ PhoneFits(call, n, old)
  BY Given
<1>2. /\ Become(n, p) /\ NoFault /\ net' = net /\ call' = call
      /\ releases < MaxReleases /\ releases' = releases + 1
  BY DEF Release
<1>3. /\ p \in Phone /\ PhoneFits(call, n, p) /\ p.mic.state = "null"
      /\ \A k \in p.jobs :
           \/ k \in old.jobs
           \/ old.mic.state # "null" /\ k = CtrlPacketStop(old.session)
      /\ p.session = old.session \/ ~IsSession(p.session)
  BY <1>1, EndRtpSenderEffect
<1> HIDE DEF p
<1>4. CallsKept /\ PhoneFits(call', n, p)
  BY <1>1, <1>2, <1>3 DEF CallsKept, TypeOK
<1>5. JobsFrom(old, p, none)
  BY <1>3 DEF JobsFrom
<1>6. \A k \in none : PacketFits(call', k) /\ (k \in Packets \/ k.type = "START")
  OBVIOUS
<1>7. faults' \in 0 .. MaxFaults /\ releases' \in 0 .. MaxReleases
  BY <1>1, <1>2, CountersEffect, BoundsAssumption DEF TypeOK
<1>8. net' \in SUBSET Message /\ \A m \in net' : m.packet \in Packets
  BY <1>1, <1>2, Given DEF TypeOK
<1>9. /\ phone' = [phone EXCEPT ![n] = p]
      /\ left' \in SUBSET Call /\ torn' \in SUBSET Call
  BY <1>1, <1>2, BecomeEffect
<1> HIDE DEF none
<1> QED BY <1>2, <1>3, <1>4, <1>5, <1>6, <1>7, <1>8, <1>9, OnePhoneStep

(* A phone whose session and relayers stay, or change only in what no fact *)
(* is about.                                                               *)
LEMMA SamePhoneStep ==
  ASSUME IInv, call' = call, releases' = releases, left' = left, torn' = torn,
         NEW n \in Node, NEW p \in Phone,
         phone' = [phone EXCEPT ![n] = p],
         p.session = phone[n].session,
         p.mic.state = "null" <=> phone[n].mic.state = "null",
         p.mic.key = phone[n].mic.key,
         p.spk.state \in {phone[n].spk.state, "dead"},
         p.spk.state = "dead" => phone[n].spk.state # "null",
         p.spk.key = phone[n].spk.key,
         p.jobs \subseteq phone[n].jobs,
         net' \in SUBSET Message, \A m \in net' : m.packet \in Packets,
         faults' \in 0 .. MaxFaults
  PROVE  IInv' /\ FloorStep
<1>1. /\ TypeOK /\ PhoneFits(call, n, phone[n])
  BY Given
<1>2. PhoneFits(call, n, p)
  BY <1>1 DEF PhoneFits
<1>3. JobsFrom(phone[n], p, {}) /\ MicKept(phone[n], p, {})
  BY DEF JobsFrom, MicKept
<1>4. left' \in SUBSET Call /\ torn' \in SUBSET Call
  BY <1>1 DEF TypeOK
<1> QED BY <1>2, <1>3, <1>4, NothingNewStep

LEMMA RunJobStep ==
  ASSUME IInv, NEW n \in Node, NEW packet \in phone[n].jobs,
         RunJob(n, packet)
  PROVE  IInv' /\ FloorStep
<1> DEFINE p == [phone[n] EXCEPT !.jobs = @ \ {packet}]
<1>1. /\ TypeOK /\ phone[n] \in Phone
      /\ packet \in Packets
      /\ \A m \in net : m.packet \in Packets
  BY Given
<1>2. /\ p \in Phone /\ p.session = phone[n].session
      /\ p.mic = phone[n].mic /\ p.spk = phone[n].spk
      /\ p.jobs \subseteq phone[n].jobs
  BY <1>1 DEF Phone
<1>3. phone' = [phone EXCEPT ![n] = p]
  BY DEF RunJob
<1>4. net' \in SUBSET Message /\ \A m \in net' : m.packet \in Packets
  <2> DEFINE sent == {[packet |-> packet, src |-> n, dst |-> d] :
                        d \in Target[n]}
  <2>1. packet \in Packet
    BY <1>1, PhoneParts
  <2>2. sent \subseteq Message /\ \A m \in sent : m.packet = packet
    BY <2>1, TargetAssumption DEF Message
  <2>3. net' = net \cup sent \/ net' = net
    BY DEF RunJob
  <2> HIDE DEF sent
  <2>4. net \in SUBSET Message
    BY <1>1 DEF TypeOK
  <2> QED BY <1>1, <2>2, <2>3, <2>4
<1>5. /\ call' = call /\ releases' = releases /\ left' = left /\ torn' = torn
      /\ faults' \in 0 .. MaxFaults
  BY <1>1, CountersEffect DEF RunJob
<1> HIDE DEF p
<1> QED BY <1>2, <1>3, <1>4, <1>5, SamePhoneStep

(* A datagram that changes nothing at its phone. *)
LEMMA DropStep ==
  ASSUME IInv, NEW m \in net, Lose(m) \/ RefuseStart(m)
  PROVE  IInv' /\ FloorStep
<1> DEFINE n == m.dst
<1>1. /\ TypeOK /\ n \in Node /\ \A x \in net : x.packet \in Packets
  BY Given, NoNodeAssumption DEF IInv, TypeOK, Message
<1>2. phone[n] \in Phone /\ phone' = [phone EXCEPT ![n] = phone[n]]
  BY <1>1 DEF Lose, RefuseStart, TypeOK
<1>3. /\ call' = call /\ releases' = releases /\ left' = left /\ torn' = torn
      /\ net' \subseteq net
      /\ faults' \in 0 .. MaxFaults
  BY <1>1, CountersEffect DEF Lose, RefuseStart
<1>4. net' \in SUBSET Message /\ \A x \in net' : x.packet \in Packets
  BY <1>1, <1>3 DEF TypeOK
<1> HIDE DEF n
<1>5. /\ phone[n].spk.state \in {phone[n].spk.state, "dead"}
      /\ phone[n].spk.state = "dead" => phone[n].spk.state # "null"
  OBVIOUS
<1> QED BY <1>1, <1>2, <1>3, <1>4, <1>5, SamePhoneStep

(* A START takes the phone over, whether it is read once or repeated. *)
LEMMA TakenOver ==
  ASSUME IInv, NEW m \in net, m.packet.type = "START",
         BeginSession(phone[m.dst].session, m.packet.level),
         NEW outcome \in {"running", "noSocket", "noOutputter"},
         Become(m.dst, BeginRtpReceiver(phone[m.dst], m.packet, m.src, outcome)),
         net' \subseteq net, call' = call, releases' = releases,
         faults' \in 0 .. MaxFaults
  PROVE  IInv' /\ FloorStep
<1> DEFINE n == m.dst
           old == phone[n]
           start == m.packet
           p == BeginRtpReceiver(old, start, m.src, outcome)
           new == {start}
<1>1. /\ TypeOK /\ n \in Node /\ m.src \in Node /\ start \in Packet
      /\ \A x \in net : x.packet \in Packets
  BY Given DEF IInv, TypeOK, Message
<1>2. /\ old \in Phone /\ PhoneFits(call, n, old)
      /\ PacketFits(call, start) /\ start \in Packets
  BY <1>1, Given
<1>3. /\ p \in Phone /\ PhoneFits(call, n, p) /\ p.mic.state = "null"
      /\ Begun(p, start.ssrc, start.level)
      /\ JobsFrom(old, p, {start})
  <2> DEFINE src == m.src
  <2>1. start.type = "START" /\ src \in Node
    BY <1>1
  <2> HIDE DEF start, old, n, src
  <2>2. LET q == BeginRtpReceiver(old, start, src, outcome)
        IN  /\ q \in Phone /\ PhoneFits(call, n, q) /\ q.mic.state = "null"
            /\ Begun(q, start.ssrc, start.level)
            /\ JobsFrom(old, q, {start})
    BY <1>1, <1>2, <2>1, BeginRtpReceiverEffect
  <2> QED BY <2>2 DEF src
<1>4. Become(n, p)
  OBVIOUS
<1>5. /\ phone' = [phone EXCEPT ![n] = p]
      /\ left' \in SUBSET Call /\ torn' \in SUBSET Call
  <2> HIDE DEF p, n
  <2> QED BY <1>1, <1>4, BecomeEffect
<1>6. p.session.level > old.session.level
  <2>1. old.session.level \in Int /\ start.level \in Int
    BY <1>1, <1>2, PhoneParts DEF Session, Packet, StartPacket, StopPacket
  <2> QED BY <1>3, <2>1 DEF BeginSession, Begun
<1>7. \A k \in new : PacketFits(call', k) /\ (k \in Packets \/ k.type = "START")
  BY <1>2
<1>8. CallsKept /\ PhoneFits(call', n, p)
  BY <1>1, <1>3 DEF CallsKept, TypeOK
<1>9. /\ net' \in SUBSET Message /\ \A x \in net' : x.packet \in Packets
      /\ releases' \in 0 .. MaxReleases
  BY <1>1 DEF TypeOK
<1>10. JobsFrom(old, p, new)
  BY <1>3
<1> HIDE DEF p, new, n
<1> QED BY <1>1, <1>3, <1>5, <1>6, <1>7, <1>8, <1>9, <1>10, OnePhoneStep

LEMMA StoppedBy ==
  ASSUME IInv, NEW m \in net, m.packet.type = "STOP",
         Become(m.dst, EndRtpReceiverStop(phone[m.dst], m.packet)),
         net' \subseteq net, call' = call, releases' = releases,
         faults' \in 0 .. MaxFaults
  PROVE  IInv' /\ FloorStep
<1> DEFINE n == m.dst
           old == phone[n]
           stop == m.packet
           p == EndRtpReceiverStop(old, stop)
           new == {stop}
<1>1. /\ TypeOK /\ n \in Node /\ stop \in Packet
      /\ \A x \in net : x.packet \in Packets
  BY Given DEF IInv, TypeOK, Message
<1>2. /\ old \in Phone /\ PhoneFits(call, n, old)
      /\ PacketFits(call, stop) /\ stop \in Packets
  BY <1>1, Given
<1>3. /\ p \in Phone /\ PhoneFits(call, n, p)
      /\ p.mic.state = "null" \/ MicKept(old, p, {stop})
      /\ JobsFrom(old, p, {stop})
      /\ p.session = old.session \/ ~IsSession(p.session)
  BY <1>1, <1>2, EndRtpReceiverStopEffect
<1>4. Become(n, p)
  OBVIOUS
<1>5. /\ phone' = [phone EXCEPT ![n] = p]
      /\ left' \in SUBSET Call /\ torn' \in SUBSET Call
  <2> HIDE DEF p, n
  <2> QED BY <1>1, <1>4, BecomeEffect
<1>6. \A k \in new : PacketFits(call', k) /\ (k \in Packets \/ k.type = "START")
  BY <1>2
<1>7. CallsKept /\ PhoneFits(call', n, p)
  BY <1>1, <1>3 DEF CallsKept, TypeOK
<1>8. /\ net' \in SUBSET Message /\ \A x \in net' : x.packet \in Packets
      /\ releases' \in 0 .. MaxReleases
  BY <1>1 DEF TypeOK
<1>9. JobsFrom(old, p, new) /\ (p.mic.state = "null" \/ MicKept(old, p, new))
  BY <1>3
<1> HIDE DEF p, new, n
<1> QED BY <1>1, <1>3, <1>5, <1>6, <1>7, <1>8, <1>9, OnePhoneStep

LEMMA ReceiveStep ==
  ASSUME IInv, NEW m \in net, ReceiveStart(m) \/ ReceiveStop(m) \/ Repeat(m)
  PROVE  IInv' /\ FloorStep
<1> DEFINE p == phone[m.dst]
<1>1. /\ NoFault \/ \E kind : Fault(kind)
      /\ net' \subseteq net /\ call' = call /\ releases' = releases
  BY DEF ReceiveStart, ReceiveStop, Repeat
<1>2. faults' \in 0 .. MaxFaults
  BY <1>1, CountersEffect DEF IInv
<1>3. CASE \/ ReceiveStart(m)
           \/ Repeat(m) /\ m.packet.type = "START"
  <2>1. PICK outcome \in {"running", "noSocket", "noOutputter"} :
          /\ m.packet.type = "START"
          /\ BeginSession(p.session, m.packet.level)
          /\ Become(m.dst, BeginRtpReceiver(p, m.packet, m.src, outcome))
    BY <1>3 DEF ReceiveStart, Repeat
  <2> QED BY <1>1, <1>2, <2>1, TakenOver
<1>4. CASE \/ ReceiveStop(m)
           \/ Repeat(m) /\ m.packet.type = "STOP"
  <2>1. /\ m.packet.type = "STOP"
        /\ Become(m.dst, EndRtpReceiverStop(p, m.packet))
    BY <1>4 DEF ReceiveStop, Repeat
  <2> QED BY <1>1, <1>2, <2>1, StoppedBy
<1>5. Repeat(m) => m.packet.type \in {"START", "STOP"}
  BY DEF Repeat
<1> QED BY <1>3, <1>4, <1>5

(* FirstAudio, RelayerFails, LinkChanges and AddressChanges. *)
LEMMA QuietPhoneStep ==
  ASSUME IInv, NEW n \in Node,
         \/ FirstAudio(n) \/ RelayerFails(n)
         \/ LinkChanges(n) \/ AddressChanges(n)
  PROVE  IInv' /\ FloorStep
<1> DEFINE old == phone[n]
<1>1. /\ TypeOK /\ old \in Phone
      /\ old.mic \in Mic /\ old.spk \in Spk
      /\ \A m \in net : m.packet \in Packets
  BY Given, PhoneParts
<1>2. /\ call' = call /\ releases' = releases /\ left' = left /\ torn' = torn
      /\ net' \subseteq net
      /\ NoFault \/ \E kind : Fault(kind)
  BY DEF FirstAudio, RelayerFails, LinkChanges, AddressChanges
<1>3. /\ faults' \in 0 .. MaxFaults
      /\ net' \in SUBSET Message /\ \A m \in net' : m.packet \in Packets
  BY <1>1, <1>2, CountersEffect DEF TypeOK
<1> DEFINE armed == [old EXCEPT !.spk.armed = TRUE]
           noMic == [old EXCEPT !.mic.state = "dead"]
           noSpk == [old EXCEPT !.spk.state = "dead"]
           other == [old EXCEPT !.link = ~@]
           moved == [old EXCEPT !.link = TRUE, !.local = "stale",
                                !.jobs = {}]
<1>4. \/ phone' = [phone EXCEPT ![n] = armed]
      \/ phone' = [phone EXCEPT ![n] = noMic] /\ old.mic.state # "null"
      \/ phone' = [phone EXCEPT ![n] = noSpk] /\ old.spk.state # "null"
      \/ phone' = [phone EXCEPT ![n] = other]
      \/ phone' = [phone EXCEPT ![n] = moved]
  <2>1. phone \in [Node -> Phone]
    BY <1>1 DEF TypeOK
  <2>2. AddressChanges(n) => phone' = [phone EXCEPT ![n] = moved]
    BY <2>1 DEF AddressChanges, Phone
  <2> QED BY <2>2 DEF FirstAudio, RelayerFails, LinkChanges
<1>5. /\ armed \in Phone /\ armed.session = old.session
      /\ armed.mic = old.mic /\ armed.jobs = old.jobs
      /\ armed.spk.state = old.spk.state /\ armed.spk.key = old.spk.key
  BY <1>1 DEF Phone, Spk
<1>6. /\ noMic \in Phone /\ noMic.session = old.session
      /\ noMic.mic.key = old.mic.key /\ noMic.mic.state = "dead"
      /\ noMic.jobs = old.jobs
      /\ noMic.spk = old.spk
  BY <1>1 DEF Phone, Mic, RelayerState
<1>7. /\ noSpk \in Phone /\ noSpk.session = old.session
      /\ noSpk.mic = old.mic /\ noSpk.jobs = old.jobs
      /\ noSpk.spk.state = "dead" /\ noSpk.spk.key = old.spk.key
  BY <1>1 DEF Phone, Spk, RelayerState
<1>8. /\ other \in Phone /\ other.session = old.session
      /\ other.mic = old.mic /\ other.jobs = old.jobs
      /\ other.spk = old.spk
  BY <1>1 DEF Phone
<1>8a. /\ moved \in Phone /\ moved.session = old.session
       /\ moved.mic = old.mic /\ moved.jobs = {}
       /\ moved.spk = old.spk
  BY <1>1 DEF Phone, LocalAddress
<1> HIDE DEF armed, noMic, noSpk, other, moved
<1>9. PICK p \in Phone :
        /\ phone' = [phone EXCEPT ![n] = p]
        /\ p.session = old.session
        /\ p.mic.state = "null" <=> old.mic.state = "null"
        /\ p.mic.key = old.mic.key
        /\ p.spk.state \in {old.spk.state, "dead"}
        /\ p.spk.state = "dead" => old.spk.state # "null"
        /\ p.spk.key = old.spk.key
        /\ p.jobs \subseteq old.jobs
  BY <1>4, <1>5, <1>6, <1>7, <1>8, <1>8a
<1> QED BY <1>2, <1>3, <1>9, SamePhoneStep

(* AudioTimeout, SilenceTimeout, ConnectivityAction, Destroy and Kill. *)
LEMMA EndingStep ==
  ASSUME IInv, NEW n \in Node,
         \/ AudioTimeout(n) \/ SilenceTimeout(n) \/ ConnectivityAction(n)
         \/ Destroy(n) \/ Kill(n)
  PROVE  IInv' /\ FloorStep
<1> DEFINE old == phone[n]
           Ending(p) ==
             /\ p \in Phone /\ PhoneFits(call, n, p)
             /\ JobsFrom(old, p, {})
             /\ p.mic.state = "null" \/ MicKept(old, p, {})
             /\ p.session = old.session \/ ~IsSession(p.session)
<1>1. /\ TypeOK /\ old \in Phone /\ PhoneFits(call, n, old)
      /\ old.mic \in Mic /\ old.spk \in Spk /\ old.session \in Session
      /\ old.link \in BOOLEAN
      /\ \A m \in net : m.packet \in Packets
  BY Given, PhoneParts DEF Phone
<1>2. /\ call' = call /\ releases' = releases /\ net' = net
      /\ NoFault \/ \E kind : Fault(kind)
  BY DEF AudioTimeout, SilenceTimeout, ConnectivityAction, Destroy, Kill
<1>3. /\ faults' \in 0 .. MaxFaults
      /\ net' \in SUBSET Message /\ \A m \in net' : m.packet \in Packets
  BY <1>1, <1>2, CountersEffect DEF TypeOK
<1>4. ASSUME AudioTimeout(n) \/ SilenceTimeout(n)
      PROVE  \E p : Become(n, p) /\ Ending(p)
  <2> DEFINE p == [old EXCEPT !.spk.state = "dead", !.session = EndSession(@)]
  <2>1. Become(n, p) /\ old.spk.state = "running"
    BY <1>4 DEF AudioTimeout, SilenceTimeout, TimesOut
  <2>2. /\ p \in Phone /\ p.session = EndSession(old.session)
        /\ p.mic = old.mic /\ p.jobs = old.jobs /\ p.spk.state = "dead"
    BY <1>1, EndSessionEffect DEF Phone, Spk, RelayerState
  <2> HIDE DEF p
  <2>3. /\ p.session.level = INVALID_SESSION_LEVEL
        /\ p.session.ssrc = NoCall /\ ~p.session.wide
    BY <1>1, <2>2, EndSessionEffect
  <2>4. p.mic.state = "null"
    BY <1>1, <2>1, <2>2 DEF PhoneFits
  <2>5. PhoneFits(call, n, p)
    BY <2>2, <2>3, <2>4 DEF PhoneFits, SessionFits, INVALID_SESSION_LEVEL
  <2>6. JobsFrom(old, p, {}) /\ ~IsSession(p.session)
    BY <2>2, <2>3 DEF JobsFrom, IsSession, INVALID_SESSION_LEVEL
  <2>7. Ending(p)
    BY <2>2, <2>4, <2>5, <2>6
  <2> QED BY <2>1, <2>7
<1>5. ASSUME ConnectivityAction(n)
      PROVE  \E p : Become(n, p) /\ Ending(p)
  <2>1. PICK listens \in BOOLEAN : Become(n, SetLocalIpAddress(old, listens))
    BY <1>5 DEF ConnectivityAction
  <2> DEFINE p == SetLocalIpAddress(old, listens)
  <2>2. /\ p \in Phone /\ PhoneFits(call, n, p)
        /\ p = old \/ p.mic.state = "null"
        /\ JobsFrom(old, p, {})
        /\ p.session = old.session \/ ~IsSession(p.session)
    BY <1>1, SetLocalIpAddressEffect
  <2> HIDE DEF p
  <2>3. Ending(p)
    BY <2>2 DEF MicKept
  <2> QED BY <2>1, <2>3 DEF p
<1>6. ASSUME Destroy(n)
      PROVE  \E p : Become(n, p) /\ Ending(p)
  <2> DEFINE ended == EndRtpSender(EndRtpReceiver(old))
             fresh == OnCreate(ended.link)
  <2>1. PICK sent \in SUBSET ended.jobs :
          Become(n, [fresh EXCEPT !.jobs = sent])
    BY <1>6 DEF Destroy
  <2> DEFINE p == [fresh EXCEPT !.jobs = sent]
  <2>2. ended \in Phone /\ JobsFrom(old, ended, {})
    BY <1>1, EndBothEffect
  <2> HIDE DEF ended
  <2>3. ended.link \in BOOLEAN /\ ended.jobs \subseteq Packet
    BY <2>2 DEF Phone
  <2>4. /\ fresh \in Phone /\ PhoneFits(call, n, fresh)
        /\ fresh.mic.state = "null" /\ ~IsSession(fresh.session)
    BY <2>3, OnCreateEffect
  <2> HIDE DEF fresh
  <2>5. /\ p \in Phone /\ p.session = fresh.session /\ p.mic = fresh.mic
        /\ p.spk = fresh.spk /\ p.jobs = sent
    BY <2>3, <2>4 DEF Phone
  <2> HIDE DEF p
  <2>6. PhoneFits(call, n, p)
    BY <2>4, <2>5 DEF PhoneFits
  <2>7. JobsFrom(old, p, {})
    BY <2>2, <2>5 DEF JobsFrom
  <2>8. Ending(p)
    BY <2>4, <2>5, <2>6, <2>7
  <2> QED BY <2>1, <2>8 DEF p
<1>7. ASSUME Kill(n)
      PROVE  \E p : Become(n, p) /\ Ending(p)
  <2> DEFINE p == OnCreate(old.link)
  <2>1. Become(n, p)
    BY <1>7 DEF Kill
  <2>2. /\ p \in Phone /\ PhoneFits(call, n, p)
        /\ p.mic.state = "null" /\ p.jobs = {} /\ ~IsSession(p.session)
    BY <1>1, OnCreateEffect
  <2> HIDE DEF p
  <2>3. Ending(p)
    BY <2>2 DEF JobsFrom
  <2> QED BY <2>1, <2>3
<1>8. PICK p : Become(n, p) /\ Ending(p)
  BY <1>4, <1>5, <1>6, <1>7
<1>9. /\ phone' = [phone EXCEPT ![n] = p]
      /\ left' \in SUBSET Call /\ torn' \in SUBSET Call
  BY <1>1, <1>8, BecomeEffect
<1> QED BY <1>2, <1>3, <1>8, <1>9, NothingNewStep

-----------------------------------------------------------------------------
(* The theorems. *)

LEMMA InitIInv == Init => IInv
<1> SUFFICES ASSUME Init PROVE IInv
  OBVIOUS
<1>1. \A n \in Node :
        /\ phone[n] \in Phone /\ PhoneFits(call, n, phone[n])
        /\ phone[n].jobs = {}
  <2>1. \A n \in Node : \E link \in BOOLEAN : phone[n] = OnCreate(link)
    BY DEF Init, Links
  <2> QED BY <2>1, OnCreateEffect
<1>2. NotBegun \in CallRecord
  BY DEF NotBegun, CallRecord, INVALID_SESSION_LEVEL
<1>3. phone \in [Node -> Phone]
  <2>1. phone \in [Node -> {OnCreate(link) : link \in Links}]
    BY DEF Init
  <2> QED BY <1>1, <2>1
<1>4. TypeOK
  <2>1. call \in [Call -> CallRecord]
    BY <1>2 DEF Init
  <2>2. faults \in 0 .. MaxFaults /\ releases \in 0 .. MaxReleases
    BY BoundsAssumption DEF Init
  <2> QED BY <1>3, <2>1, <2>2 DEF TypeOK, Init
<1>5. Packets = {}
  BY <1>1 DEF Packets, Init
<1> QED BY <1>1, <1>4, <1>5 DEF IInv

LEMMA StutterStep == IInv /\ UNCHANGED vars => IInv' /\ FloorStep
<1> SUFFICES ASSUME IInv, UNCHANGED vars PROVE IInv' /\ FloorStep
  OBVIOUS
<1>1. IInv'
  BY DEF vars, IInv, TypeOK, Packets
<1>2. FloorStep
  BY DEF vars, FloorStep
<1> QED BY <1>1, <1>2

LEMMA NextStep == IInv /\ [Next]_vars => IInv' /\ FloorStep
<1> SUFFICES ASSUME IInv, [Next]_vars PROVE IInv' /\ FloorStep
  OBVIOUS
<1>1. CASE UserNext
  BY <1>1, PressToTalkStep, ReleaseStep DEF UserNext
<1>2. CASE NetworkNext
  BY <1>2, RunJobStep, DropStep, ReceiveStep DEF NetworkNext
<1>3. CASE PhoneNext
  BY <1>3, QuietPhoneStep, EndingStep DEF PhoneNext
<1>4. CASE UNCHANGED vars
  BY <1>4, StutterStep
<1> QED BY <1>1, <1>2, <1>3, <1>4 DEF Next

LEMMA Invariance == Spec => []IInv
BY InitIInv, NextStep, PTL DEF Spec

(* Whatever the user, the network and the faults do, every variable keeps  *)
(* its kind.                                                               *)
THEOREM TypeCorrect == Spec => []TypeOK
<1>1. IInv => TypeOK
  BY DEF IInv
<1> QED BY <1>1, Invariance, PTL

(* beginRtpSender and beginRtpReceiver end both sides before they begin    *)
(* one: no phone talks and listens at once.                                *)
THEOREM HalfDuplexHolds == Spec => []HalfDuplex
<1>1. IInv => HalfDuplex
  BY DEF IInv, PhoneFits, HalfDuplex
<1> QED BY <1>1, Invariance, PTL

(* A relayer works for the session its phone is in, with the key of that   *)
(* session: nothing ends or replaces a session under a running relayer.    *)
THEOREM RelayerOwnsSessionHolds == Spec => []RelayerOwnsSession
<1>1. ASSUME IInv, NEW n \in Node
      PROVE  LET p == phone[n]
             IN  /\ p.mic.state # "null" =>
                      /\ IsSession(p.session)
                      /\ call[p.session.ssrc].talker = n
                      /\ p.mic.key = p.session.key
                 /\ p.spk.state = "running" =>
                      /\ IsSession(p.session)
                      /\ p.spk.key = p.session.key
  <2> DEFINE p == phone[n]
  <2>1. PhoneFits(call, n, p) /\ p.session \in Session
    BY <1>1, Given, PhoneParts
  <2>2. p.session.level \in Int
    BY <2>1 DEF Session
  <2>3. p.session.ssrc # NoCall => IsSession(p.session)
    BY <2>1, <2>2
    DEF PhoneFits, SessionFits, IsSession, INVALID_SESSION_LEVEL
  <2> QED BY <2>1, <2>3 DEF PhoneFits, SessionFits
<1>2. IInv => RelayerOwnsSession
  BY <1>1 DEF RelayerOwnsSession
<1> QED BY <1>2, Invariance, PTL

LEMMA ModTwice ==
  ASSUME NEW x \in Int
  PROVE  (x % LevelMod) % LevelMod = x % LevelMod
<1>1. x % LevelMod \in 0 .. LevelMod - 1
  BY LevelModAssumption
<1>2. \A y \in 0 .. LevelMod - 1 : y % LevelMod = y
  BY LevelModAssumption
<1> QED BY <1>1, <1>2

(* The START of a call passes its key and the 16 bits of its level on      *)
(* unchanged, over any number of hops.                                     *)
THEOREM CallAgreementHolds == Spec => []CallAgreement
<1>1. ASSUME IInv, NEW n \in Node, phone[n].session.ssrc # NoCall
      PROVE  LET s == phone[n].session
             IN  /\ s.key = s.ssrc
                 /\ s.level % LevelMod = call[s.ssrc].level % LevelMod
  <2> DEFINE s == phone[n].session
  <2>1. PhoneFits(call, n, phone[n]) /\ s \in Session
    BY <1>1, Given, PhoneParts
  <2>2. s.ssrc \in Call /\ s.wide \in BOOLEAN
    BY <1>1, <2>1 DEF Session
  <2>3. call[s.ssrc].level \in Int
    BY <1>1, <2>2 DEF IInv, TypeOK, CallRecord
  <2>4. \/ s.level = call[s.ssrc].level
        \/ s.level = call[s.ssrc].level % LevelMod
    BY <1>1, <2>1 DEF PhoneFits, SessionFits
  <2> QED BY <1>1, <2>1, <2>3, <2>4, ModTwice DEF PhoneFits, SessionFits
<1>2. IInv => CallAgreement
  BY <1>1 DEF CallAgreement
<1> QED BY <1>2, Invariance, PTL

(* A STOP is built from the session that ends, and a call is never taken   *)
(* up again by its talker: while it talks there is no STOP of its call.    *)
THEOREM StopOnlyAfterEndHolds == Spec => []StopOnlyAfterEnd
<1>1. ASSUME IInv, NEW c \in Call, NEW n \in Node,
             UnderWay("STOP", c), phone[n].session.ssrc = c
      PROVE  phone[n].mic.state = "null"
  <2>1. PICK k \in Packets : k.type = "STOP" /\ k.ssrc = c
    BY <1>1 DEF UnderWay, Packets
  <2> QED BY <1>1, <2>1 DEF IInv, NotTalking
<1>2. IInv => StopOnlyAfterEnd
  BY <1>1 DEF StopOnlyAfterEnd
<1> QED BY <1>2, Invariance, PTL

(* Over any number of phones, hops and faults the protocol does to the     *)
(* floor what Floor.tla promises.                                          *)
THEOREM FloorPromiseHolds == Spec => FloorPromise
<1> DEFINE members == [n \in Node |-> phone[n].session.ssrc]
           levels == [n \in Node |-> phone[n].session.level]
           talkers == {n \in Node : phone[n].mic.state # "null"}
           floorVars == <<call, members, levels, talkers>>
<1>1. Init => TheFloor!Init
  <2> SUFFICES ASSUME Init PROVE TheFloor!Init
    OBVIOUS
  <2>1. \A n \in Node :
          /\ phone[n].session.ssrc = NoCall
          /\ phone[n].session.level = INVALID_SESSION_LEVEL
          /\ phone[n].mic.state = "null"
    <3> SUFFICES ASSUME NEW n \in Node
                 PROVE  /\ phone[n].session.ssrc = NoCall
                        /\ phone[n].session.level = INVALID_SESSION_LEVEL
                        /\ phone[n].mic.state = "null"
      OBVIOUS
    <3>1. PICK link \in BOOLEAN : phone[n] = OnCreate(link)
      BY DEF Init, Links
    <3>2. /\ phone[n] \in Phone /\ PhoneFits(call, n, phone[n])
          /\ phone[n].mic.state = "null" /\ ~IsSession(phone[n].session)
      BY <3>1, OnCreateEffect
    <3>3. phone[n].session.level \in Int
      BY <3>2, PhoneParts DEF Session
    <3> QED BY <3>2, <3>3
            DEF PhoneFits, SessionFits, IsSession, INVALID_SESSION_LEVEL
  <2> QED BY <2>1 DEF Init, TheFloor!Init, TheFloor!Free, NotBegun,
                      INVALID_SESSION_LEVEL
<1>2. IInv /\ IInv' /\ FloorStep => TheFloor!Next \/ UNCHANGED floorVars
  <2> SUFFICES ASSUME IInv, IInv', FloorStep
               PROVE  TheFloor!Next \/ UNCHANGED floorVars
    OBVIOUS
  <2>1. CASE phone' = phone /\ call' = call
    BY <2>1
  <2>2. CASE ~(phone' = phone /\ call' = call)
    <3>1. PICK n \in Node, p \in Phone :
            /\ phone' = [phone EXCEPT ![n] = p]
            /\ \/ p.session = phone[n].session
               \/ ~IsSession(p.session)
               \/ p.session.level > phone[n].session.level
            /\ \/ /\ call' = call
                  /\ p.session = phone[n].session \/ ~p.session.wide
               \/ Begins(n, p)
      BY <2>2 DEF FloorStep
    <3> DEFINE s == phone[n].session
               t == p.session
    <3>2. /\ phone \in [Node -> Phone] /\ phone'[n] = p
          /\ \A m \in Node \ {n} : phone'[m] = phone[m]
      BY <3>1 DEF IInv, TypeOK
    <3>3. /\ PhoneFits(call, n, phone[n]) /\ PhoneFits(call', n, p)
          /\ s \in Session /\ t \in Session
      BY <3>2, PhoneParts DEF IInv
    <3>4. /\ members' = [members EXCEPT ![n] = t.ssrc]
          /\ levels' = [levels EXCEPT ![n] = t.level]
      BY <3>2
    <3>5. /\ p.mic.state = "null" => talkers' = talkers \ {n}
          /\ p.mic.state # "null" => talkers' = talkers \cup {n}
      BY <3>2
    <3>6. /\ members[n] = s.ssrc /\ levels[n] = s.level
          /\ n \in talkers <=> phone[n].mic.state # "null"
      OBVIOUS
    <3>7. CASE call' = call /\ t = s
      <4>1. p.mic.state = "null" <=> phone[n].mic.state = "null"
        BY <3>3, <3>7 DEF PhoneFits
      <4>2. members' = members /\ levels' = levels
        BY <3>4, <3>7
      <4>3. talkers' = talkers
        BY <3>5, <3>6, <4>1
      <4> QED BY <3>7, <4>2, <4>3
    <3>8. CASE call' = call /\ t # s /\ ~IsSession(t)
      <4>1. t.ssrc = NoCall /\ t.level = INVALID_SESSION_LEVEL /\ ~t.wide
        BY <3>3, <3>8, NoNodeAssumption
        DEF PhoneFits, SessionFits, IsSession, INVALID_SESSION_LEVEL, Session
      <4>2. p.mic.state = "null"
        BY <3>3, <4>1 DEF PhoneFits
      <4>3. CASE s.ssrc # NoCall
        <5>1. TheFloor!Leave(n)
          BY <3>4, <3>5, <3>6, <3>8, <4>1, <4>2, <4>3
          DEF TheFloor!Leave, TheFloor!Free, INVALID_SESSION_LEVEL
        <5> QED BY <5>1 DEF TheFloor!Next
      <4>4. CASE s.ssrc = NoCall
        <5>1. s.level = INVALID_SESSION_LEVEL /\ phone[n].mic.state = "null"
          BY <3>3, <4>4 DEF PhoneFits, SessionFits
        <5>2. members' = members /\ levels' = levels
          BY <3>4, <4>1, <4>4, <5>1
        <5>3. talkers' = talkers
          BY <3>5, <3>6, <4>2, <5>1
        <5> QED BY <3>8, <5>2, <5>3
      <4> QED BY <4>3, <4>4
    <3>9. CASE call' = call /\ t # s /\ IsSession(t)
      <4> DEFINE c == t.ssrc
      <4>1. ~t.wide /\ t.level > s.level
        <5>1. call \in [Call -> CallRecord]
          BY DEF IInv, TypeOK
        <5>2. Begins(n, p) => call' # call
          BY <5>1, NoNodeAssumption DEF Begins
        <5> QED BY <3>1, <3>9, <5>2
      <4>2. p.mic.state = "null"
        BY <3>3, <4>1 DEF PhoneFits
      <4>3. /\ c \in Call /\ call[c].talker # NoNode
            /\ t.level = call[c].level % LevelMod
        BY <3>3, <3>9, <4>1
        DEF PhoneFits, SessionFits, IsSession, INVALID_SESSION_LEVEL, Session
      <4>4. TheFloor!Join(n, c)
        BY <3>3, <3>4, <3>5, <3>6, <3>9, <4>1, <4>2, <4>3
        DEF TheFloor!Join, Session
      <4> QED BY <4>3, <4>4 DEF TheFloor!Next
    <3>10. CASE call' # call
      <4>0. Begins(n, p)
        BY <3>1, <3>10
      <4>1. PICK c \in Call, l \in AccountLevels[n] :
              /\ call[c].talker = NoNode
              /\ call' = [call EXCEPT ![c] = [talker |-> n, level |-> l]]
              /\ t.ssrc = c /\ t.level = l /\ t.wide
        BY <4>0 DEF Begins, Begun
      <4>2. p.mic.state # "null"
        BY <3>3, <4>1 DEF PhoneFits
      <4>3. s.level < l
        <5>1. s.ssrc # c
          BY <3>3, <4>1, NoCallAssumption DEF PhoneFits, SessionFits
        <5>2. IsSession(t)
          BY <3>3, <4>1, NoCallAssumption
          DEF PhoneFits, SessionFits, IsSession, INVALID_SESSION_LEVEL,
              Session
        <5>3. t # s
          BY <4>1, <5>1
        <5> QED BY <3>1, <3>3, <4>1, <5>2, <5>3 DEF Session
      <4>4. TheFloor!Begin(n, c, l)
        BY <3>4, <3>5, <3>6, <4>1, <4>2, <4>3 DEF TheFloor!Begin
      <4> QED BY <4>1, <4>4 DEF TheFloor!Next
    <3> QED BY <3>7, <3>8, <3>9, <3>10
  <2> QED BY <2>1, <2>2
<1>3. IInv /\ IInv' /\ [Next]_vars => [TheFloor!Next]_floorVars
  BY <1>2, NextStep
<1> QED BY <1>1, <1>3, Invariance, PTL
        DEF Spec, FloorPromise, TheFloor!Spec, TheFloor!floorVars
=============================================================================
