-------------------------- MODULE FloorFloods_proof --------------------------
(***************************************************************************)
(* What the floods of START and STOP come to in FloorControl: the relayers *)
(* of a call form a tree, the highest level gets the floor, and a release  *)
(* reaches all.  No order in which the phones join is needed: a START      *)
(* comes from a phone that is in the call, unless somebody has left it.    *)
(***************************************************************************)
EXTENDS FloorControl_proof

(* A START comes from a phone that is in its call, unless one has left it. *)
Origin(n, k) ==
  k.type = "START" /\ k.ssrc \notin left => phone[n].session.ssrc = k.ssrc

TreeInv ==
  /\ \A n \in Node : \A k \in phone[n].jobs : Origin(n, k)
  /\ \A m \in net : Origin(m.src, m.packet) /\ m.dst \in Target[m.src]
  /\ \A n \in Node :
       phone[n].spk.state = "running" => phone[n].spk.remote \in Node
  /\ RelayTree

-----------------------------------------------------------------------------
(* What the methods of the binder do to the speaker relayer. *)

(* A relayer that runs in q ran in p, and hears the same phone. *)
SpkKept(p, q) ==
  q.spk.state = "running" =>
    p.spk.state = "running" /\ q.spk.remote = p.spk.remote

LEMMA EndRtpReceiverSpk ==
  ASSUME NEW p \in Phone
  PROVE  EndRtpReceiver(p).spk.state = "null"
BY DEF EndRtpReceiver, Phone, NullSpk

LEMMA EndRtpReceiverStopSpk ==
  ASSUME NEW cl, NEW n \in Node, NEW p \in Phone, PhoneFits(cl, n, p),
         NEW stop \in Packet
  PROVE  SpkKept(p, EndRtpReceiverStop(p, stop))
<1> DEFINE r == EndRtpReceiver(p)
           q == EndRtpReceiverStop(p, stop)
<1>1. r \in Phone /\ r.spk.state = "null"
  BY EndRtpReceiverEffect
<1>2. q = p \/ q = SendCtrlPacket(r, stop)
  BY DEF EndRtpReceiverStop
<1> HIDE DEF r, q
<1>3. q.spk = p.spk \/ q.spk = r.spk
  BY <1>1, <1>2, SendCtrlPacketEffect
<1> QED BY <1>1, <1>3 DEF SpkKept, q

LEMMA SetLocalIpAddressSpk ==
  ASSUME NEW cl, NEW n \in Node, NEW p \in Phone, PhoneFits(cl, n, p),
         NEW listens \in BOOLEAN
  PROVE  SpkKept(p, SetLocalIpAddress(p, listens))
<1> DEFINE q == SetLocalIpAddress(p, listens)
           set == [p EXCEPT !.local = "current"]
           ended(x) == EndRtpReceiver(EndRtpSender(x))
<1>1. set \in Phone /\ PhoneFits(cl, n, set)
  BY DEF Phone, PhoneFits, LocalAddress
<1>2. \A x \in {p, set} : ended(x) \in Phone /\ ended(x).spk.state = "null"
  <2> HIDE DEF set
  <2> SUFFICES ASSUME NEW x \in {p, set}
               PROVE  ended(x) \in Phone /\ ended(x).spk.state = "null"
    OBVIOUS
  <2>1. x \in Phone /\ PhoneFits(cl, n, x)
    BY <1>1
  <2> QED BY <2>1, EndSenderFirstEffect
<1>3. \/ q = p
      \/ q = [ended(set) EXCEPT !.ctrl = listens]
      \/ q = [ended(p) EXCEPT !.ctrl = FALSE]
  <2>1. p.link \in BOOLEAN
    BY DEF Phone
  <2> QED BY <2>1 DEF SetLocalIpAddress
<1> HIDE DEF ended, set, q
<1>4. q = p \/ q.spk.state = "null"
  BY <1>2, <1>3 DEF Phone
<1> QED BY <1>4 DEF SpkKept, q

LEMMA OnCreateSpk ==
  ASSUME NEW link \in BOOLEAN
  PROVE  OnCreate(link).spk.state # "running"
<1> DEFINE p == NewPhone(link)
<1>1. NoSession \in Session
  BY DEF NoSession, Session, INVALID_SESSION_LEVEL
<1>2. /\ p \in Phone /\ p.mic.state = "null" /\ p.spk.state = "null"
      /\ p.session.level = INVALID_SESSION_LEVEL /\ p.session.ssrc = NoCall
      /\ ~p.session.wide
  BY <1>1, NullRelayers
  DEF NewPhone, Phone, NullMic, NullSpk, NoSession, LocalAddress
<1>3. CASE link
  <2> DEFINE set == [p EXCEPT !.local = "current"]
             ended == EndRtpReceiver(EndRtpSender(set))
  <2>1. OnCreate(link) = [ended EXCEPT !.ctrl = TRUE]
    BY <1>3 DEF OnCreate, SetLocalIpAddress, NewPhone
  <2>2. set.mic.state = "null" /\ set.spk.state = "null" /\ set \in Phone
    BY <1>2 DEF Phone, LocalAddress
  <2>3. ended = set
    BY <2>2 DEF EndRtpReceiver, EndRtpSender
  <2> QED BY <2>1, <2>2, <2>3 DEF Phone
<1>4. CASE ~link
  <2>1. OnCreate(link) = [EndRtpReceiver(EndRtpSender(p)) EXCEPT !.ctrl = FALSE]
    BY <1>4 DEF OnCreate, SetLocalIpAddress, NewPhone
  <2>2. EndRtpReceiver(EndRtpSender(p)) = p
    BY <1>2 DEF EndRtpReceiver, EndRtpSender
  <2> QED BY <1>2, <2>1, <2>2 DEF Phone
<1> QED BY <1>3, <1>4

(* The speaker of a phone that is taken over hears the phone the START     *)
(* came from.                                                              *)
LEMMA BeginRtpReceiverSpk ==
  ASSUME NEW cl, NEW n \in Node, NEW p \in Phone, PhoneFits(cl, n, p),
         NEW start \in Packet, start.type = "START", PacketFits(cl, start),
         NEW src \in Node,
         NEW outcome \in {"running", "noSocket", "noOutputter"}
  PROVE  LET q == BeginRtpReceiver(p, start, src, outcome)
         IN  /\ q.spk.state = "running" => q.spk.remote = src
             /\ outcome = "running" => q.spk.state = "running"
<1> DEFINE q == EndRtpSender(EndRtpReceiver(p))
           r == SendCtrlPacket([q EXCEPT !.shown = TRUE], start)
           s == [r EXCEPT !.session = SetSessionParamStart(@, start)]
           relayer(state) == [state |-> state, key |-> s.session.key,
                              remote |-> src, armed |-> FALSE]
           final == BeginRtpReceiver(p, start, src, outcome)
<1>1. q \in Phone /\ q.spk.state = "null"
  BY EndBothEffect
<1> HIDE DEF q
<1>2. [q EXCEPT !.shown = TRUE] \in Phone /\ [q EXCEPT !.shown = TRUE].spk = q.spk
  BY <1>1 DEF Phone
<1>3. r \in Phone /\ r.spk = q.spk
  BY <1>2, SendCtrlPacketEffect
<1> HIDE DEF r
<1>4. s.spk = q.spk /\ DOMAIN s = DOMAIN r
  BY <1>3 DEF Phone
<1>5. "spk" \in DOMAIN r
  BY <1>3 DEF Phone
<1> HIDE DEF s
<1>6. \A state \in RelayerState :
        relayer(state).remote = src /\ relayer(state).state = state
  OBVIOUS
<1> HIDE DEF relayer
<1>7. CASE outcome = "running"
  <2>1. final = [s EXCEPT !.spk = relayer("running")]
    BY <1>7 DEF BeginRtpReceiver, q, r, s, relayer
  <2> QED BY <1>4, <1>5, <1>6, <2>1 DEF RelayerState, final
<1>8. CASE outcome = "noSocket"
  <2>1. final = s
    BY <1>8 DEF BeginRtpReceiver, q, r, s, relayer
  <2> QED BY <1>1, <1>4, <1>8, <2>1
<1>9. CASE outcome = "noOutputter"
  <2>1. final = [s EXCEPT !.spk = relayer("dead")]
    BY <1>9 DEF BeginRtpReceiver, q, r, s, relayer
  <2> QED BY <1>4, <1>5, <1>6, <1>9, <2>1 DEF RelayerState, final
<1> QED BY <1>7, <1>8, <1>9

-----------------------------------------------------------------------------
(* The relayers of a call form a tree. *)

(* A session that is over has no ssrc. *)
LEMMA OverOrKept ==
  ASSUME NEW cl, NEW n \in Node, NEW p \in Phone, NEW q \in Phone,
         PhoneFits(cl, n, q),
         q.session = p.session \/ ~IsSession(q.session)
  PROVE  q.session = p.session \/ q.session.ssrc = NoCall
<1>1. q.session \in Session
  BY PhoneParts
<1>2. q.session.level \in Int
  BY <1>1 DEF Session
<1> QED BY <1>2
        DEF PhoneFits, SessionFits, IsSession, INVALID_SESSION_LEVEL

(* A phone is not taken into the call it is in: a START of it brings 16    *)
(* bits of its level, or the level itself, never more.                     *)
LEMMA NotAgain ==
  ASSUME IInv, NEW n \in Node, NEW k \in Packets, k.type = "START",
         BeginSession(phone[n].session, k.level)
  PROVE  phone[n].session.ssrc # k.ssrc
<1> DEFINE s == phone[n].session
           l == call[k.ssrc].level
<1>1. /\ PhoneFits(call, n, phone[n]) /\ PacketFits(call, k) /\ s \in Session
  BY Given, PhoneParts
<1>2. SUFFICES ASSUME s.ssrc = k.ssrc PROVE FALSE
  OBVIOUS
<1>3. /\ k.ssrc \in Call /\ k.ssrc # NoCall /\ s.level \in Int
      /\ s.level >= -1 /\ s.level # -1
      /\ s.level = l \/ s.level = l % LevelMod
      /\ k.level = l % LevelMod
  BY <1>1, <1>2, NoCallAssumption
  DEF PhoneFits, SessionFits, PacketFits, Session, INVALID_SESSION_LEVEL
<1>4. l \in Int
  BY <1>3 DEF IInv, TypeOK, CallRecord
<1>5. s.level < l % LevelMod
  BY <1>3 DEF BeginSession
<1> HIDE DEF l
<1>6. l = s.level /\ l \in Nat
  BY <1>3, <1>4, <1>5
<1>7. l % LevelMod <= l
  BY <1>6, LevelModAssumption
<1> QED BY <1>4, <1>5, <1>6, <1>7, LevelModAssumption

(* Phone n becomes p, and what that means for the calls that are left. *)
Changes(n, p) ==
  /\ phone' = [phone EXCEPT ![n] = p]
  /\ left' = left \cup ({phone[n].session.ssrc} \ {p.session.ssrc, NoCall})

(* A speaker relayer that runs in p ran before, or has been begun by a     *)
(* START of its call, from a phone of which n is a target.                 *)
HearsACaller(n, p) ==
  p.spk.state = "running" =>
    \/ /\ SpkKept(phone[n], p)
       /\ p.session.ssrc = phone[n].session.ssrc
    \/ /\ p.spk.remote \in Node /\ n \in Target[p.spk.remote]
       /\ p.session.ssrc # phone[n].session.ssrc
       /\ \/ p.session.ssrc \in left
          \/ phone[p.spk.remote].session.ssrc = p.session.ssrc

LEMMA TreeStep ==
  ASSUME IInv, TreeInv, NEW n \in Node, NEW p \in Phone, Changes(n, p),
         \A k \in p.jobs :
           k.type = "START" => k \in phone[n].jobs \/ k.ssrc = p.session.ssrc,
         HearsACaller(n, p),
         \A m \in net' : \/ m \in net
                         \/ /\ m.src = n /\ m.packet \in phone[n].jobs
                            /\ m.dst \in Target[n]
  PROVE  TreeInv'
<1> DEFINE old == phone[n]
<1>1. /\ phone'[n] = p
      /\ \A m \in Node \ {n} : phone'[m] = phone[m]
      /\ \A m \in Node : phone'[m] = IF m = n THEN p ELSE phone[m]
      /\ \A m \in net : m.src \in Node /\ m.packet.ssrc \in Call
      /\ \A m \in Node : \A k \in phone[m].jobs : k.ssrc \in Call
  <2>1. phone \in [Node -> Phone]
    BY DEF IInv, TypeOK
  <2>2. /\ \A m \in net : m.packet \in Packets /\ m.src \in Node
        /\ \A m \in Node : \A k \in phone[m].jobs : k \in Packets
    BY Given
  <2>3. \A k \in Packets : k.ssrc \in Call
    BY DEF IInv, PacketFits
  <2> QED BY <2>1, <2>2, <2>3 DEF Changes
<1>2. left \subseteq left'
  BY DEF Changes
<1>3. ASSUME NEW c \in Call \ left', NEW m \in Node,
             phone[m].session.ssrc = c
      PROVE  phone'[m].session.ssrc = c
  <2>1. c # NoCall
    BY NoCallAssumption
  <2> QED BY <1>1, <1>3, <2>1 DEF Changes
<1>4. \A m \in Node : \A k \in phone[m].jobs : Origin(m, k)'
  BY <1>1, <1>2, <1>3 DEF TreeInv, Origin
<1>5. \A k \in p.jobs : Origin(n, k)'
  BY <1>1, <1>4 DEF Origin
<1>6. \A m \in Node : \A k \in phone'[m].jobs : Origin(m, k)'
  BY <1>1, <1>4, <1>5
<1>7. \A m \in net' : Origin(m.src, m.packet)' /\ m.dst \in Target[m.src]
  <2> SUFFICES ASSUME NEW m \in net'
               PROVE  Origin(m.src, m.packet)' /\ m.dst \in Target[m.src]
    OBVIOUS
  <2>1. CASE m \in net
    BY <1>1, <1>2, <1>3, <2>1 DEF TreeInv, Origin
  <2>2. CASE m \notin net
    BY <1>4, <2>2
  <2> QED BY <2>1, <2>2
<1>8. ASSUME NEW c \in Call \ left', NEW m \in Listeners(c)'
      PROVE  LET r == phone'[m].spk.remote
             IN  /\ m \in Target[r] /\ phone'[r].session.ssrc = c
                 /\ \/ m \in Listeners(c) /\ r = phone[m].spk.remote
                    \/ /\ m = n /\ phone[n].session.ssrc # c
                       /\ phone[r].session.ssrc = c
  <2> DEFINE r == phone'[m].spk.remote
  <2>1. /\ m \in Node /\ c \notin left
        /\ phone'[m].spk.state = "running" /\ phone'[m].session.ssrc = c
    BY <1>2 DEF Listeners
  <2>2. CASE m \in Listeners(c) /\ r = phone[m].spk.remote
    <3>1. m \in Target[r] /\ phone[r].session.ssrc = c
      BY <2>1, <2>2 DEF TreeInv, RelayTree
    <3>2. r \in Node
      BY <2>2 DEF TreeInv, Listeners
    <3> QED BY <1>3, <2>2, <3>1, <3>2
  <2>3. CASE ~(m \in Listeners(c) /\ r = phone[m].spk.remote)
    <3>1. m = n
      BY <1>1, <2>1, <2>3 DEF Listeners
    <3>2. /\ r \in Node /\ n \in Target[r]
          /\ phone[n].session.ssrc # c /\ phone[r].session.ssrc = c
      BY <1>1, <2>1, <2>3, <3>1 DEF HearsACaller, SpkKept, Listeners
    <3> QED BY <1>3, <3>1, <3>2
  <2> QED BY <2>2, <2>3
<1>9. \A c \in Call \ left' : \A circle \in SUBSET Listeners(c)' :
        circle # {} => \E m \in circle : phone'[m].spk.remote \notin circle
  <2> SUFFICES ASSUME NEW c \in Call \ left',
                      NEW circle \in SUBSET Listeners(c)', circle # {}
               PROVE  \E m \in circle : phone'[m].spk.remote \notin circle
    OBVIOUS
  <2>1. CASE \A m \in circle : /\ m \in Listeners(c)
                               /\ phone'[m].spk.remote = phone[m].spk.remote
    BY <1>2, <2>1 DEF TreeInv, RelayTree
  <2>2. CASE /\ n \in circle /\ phone[n].session.ssrc # c
             /\ phone[phone'[n].spk.remote].session.ssrc = c
    <3>1. CASE circle = {n}
      BY <2>2, <3>1
    <3>2. CASE circle # {n}
      <4> DEFINE rest == circle \ {n}
      <4>1. /\ rest # {}
            /\ \A m \in rest : /\ m \in Listeners(c)
                               /\ phone'[m].spk.remote = phone[m].spk.remote
        BY <1>8, <3>2, <2>2
      <4>2. PICK m \in rest : phone[m].spk.remote \notin rest
        BY <1>2, <4>1 DEF TreeInv, RelayTree
      <4>3. phone[m].spk.remote # n
        BY <1>2, <2>2, <4>1 DEF TreeInv, RelayTree
      <4> QED BY <4>1, <4>2, <4>3
    <3> QED BY <3>1, <3>2
  <2> QED BY <1>8, <2>1, <2>2
<1>10. RelayTree'
  BY <1>8, <1>9 DEF RelayTree
<1>11. \A m \in Node :
         phone'[m].spk.state = "running" => phone'[m].spk.remote \in Node
  BY <1>1 DEF TreeInv, HearsACaller, SpkKept
<1> QED BY <1>6, <1>7, <1>10, <1>11 DEF TreeInv

LEMMA BecomeChanges ==
  ASSUME NEW n \in Node, NEW p, Become(n, p)
  PROVE  Changes(n, p)
BY DEF Become, Changes

(* The same for a phone that begins no call and joins none. *)
LEMMA TreeKeptStep ==
  ASSUME IInv, TreeInv, NEW n \in Node, NEW p \in Phone, Changes(n, p),
         PhoneFits(call, n, p),
         p.session = phone[n].session \/ ~IsSession(p.session),
         \A k \in p.jobs : k.type = "START" => k \in phone[n].jobs,
         SpkKept(phone[n], p),
         \A m \in net' : \/ m \in net
                         \/ /\ m.src = n /\ m.packet \in phone[n].jobs
                            /\ m.dst \in Target[n]
  PROVE  TreeInv'
<1>1. phone[n] \in Phone
  BY Given
<1>2. p.session = phone[n].session \/ p.session.ssrc = NoCall
  BY <1>1, OverOrKept
<1>3. HearsACaller(n, p)
  BY <1>2 DEF HearsACaller, PhoneFits
<1> QED BY <1>3, TreeStep

LEMMA StopIsNoStart == \A s : CtrlPacketStop(s).type = "STOP"
BY DEF CtrlPacketStop

(* A fresh call changes nothing for a phone as it was. *)
LEMMA FreshCallFits ==
  ASSUME IInv, NEW n \in Node, NEW c \in Call, call[c] = NotBegun, NEW level
  PROVE  LET cl == [call EXCEPT ![c] = [talker |-> n, level |-> level]]
         IN  /\ cl[c].talker = n /\ cl[c].level = level
             /\ PhoneFits(cl, n, phone[n])
<1> DEFINE old == phone[n]
           cl == [call EXCEPT ![c] = [talker |-> n, level |-> level]]
<1>1. /\ call \in [Call -> CallRecord] /\ old \in Phone
      /\ PhoneFits(call, n, old)
  BY Given DEF TypeOK
<1>2. old.session.ssrc \in Call \cup {NoCall}
  BY <1>1, PhoneParts DEF Session
<1>3. old.session.ssrc # c
  BY <1>1, NoCallAssumption DEF PhoneFits, SessionFits, NotBegun
<1>4. /\ old.session.ssrc # NoCall =>
           cl[old.session.ssrc] = call[old.session.ssrc]
      /\ cl[c] = [talker |-> n, level |-> level]
  BY <1>1, <1>2, <1>3
<1> HIDE DEF cl
<1> QED BY <1>1, <1>4 DEF PhoneFits, SessionFits

LEMMA TreePressToTalk ==
  ASSUME IInv, IInv', TreeInv, NEW n \in Node, PressToTalk(n)
  PROVE  TreeInv'
<1> DEFINE old == phone[n]
<1>1. /\ TypeOK /\ old \in Phone /\ PhoneFits(call, n, old)
  BY Given
<1>2. PICK level \in AccountLevels[n], c \in Call,
           outcome \in {"running", "noOutputter"} :
        /\ BeginSession(old.session, level)
        /\ call[c] = NotBegun
        /\ call' = [call EXCEPT ![c] = [talker |-> n, level |-> level]]
        /\ Become(n, BeginRtpSender(old, level, c, outcome))
  BY DEF PressToTalk
<1> DEFINE p == BeginRtpSender(old, level, c, outcome)
           cl == [call EXCEPT ![c] = [talker |-> n, level |-> level]]
<1>3. level \in Int /\ net' = net
  BY AccountLevelsAssumption DEF PressToTalk
<1>4. cl[c].talker = n /\ cl[c].level = level /\ PhoneFits(cl, n, old)
  BY <1>1, <1>2, FreshCallFits
<1> HIDE DEF cl
<1>5. /\ p \in Phone /\ PhoneFits(cl, n, p) /\ Begun(p, c, level)
      /\ p.session.wide
      /\ JobsFrom(old, p, {CtrlPacketStart(p.session)})
  <2> HIDE DEF old
  <2> QED BY <1>1, <1>2, <1>3, <1>4, BeginRtpSenderEffect
<1>6. Changes(n, p)
  BY <1>2, BecomeChanges
<1> HIDE DEF p
<1>7. CtrlPacketStart(p.session).ssrc = p.session.ssrc
  BY DEF CtrlPacketStart
<1>8. \A k \in p.jobs :
        k.type = "START" => k \in phone[n].jobs \/ k.ssrc = p.session.ssrc
  BY <1>5, <1>7, StopIsNoStart DEF JobsFrom
<1>9. HearsACaller(n, p)
  BY <1>5 DEF PhoneFits, HearsACaller
<1> QED BY <1>3, <1>5, <1>6, <1>8, <1>9, TreeStep

LEMMA TreeRelease ==
  ASSUME IInv, TreeInv, NEW n \in Node, Release(n)
  PROVE  TreeInv'
<1> DEFINE old == phone[n]
           p == EndRtpSender(old)
<1>1. old \in Phone /\ PhoneFits(call, n, old)
  BY Given
<1>2. /\ p \in Phone /\ PhoneFits(call, n, p) /\ p.spk = old.spk
      /\ \A k \in p.jobs :
           \/ k \in old.jobs
           \/ old.mic.state # "null" /\ k = CtrlPacketStop(old.session)
      /\ p.session = old.session \/ ~IsSession(p.session)
  BY <1>1, EndRtpSenderEffect
<1>3. Changes(n, p) /\ net' = net
  BY BecomeChanges DEF Release
<1> HIDE DEF p
<1>4. /\ \A k \in p.jobs : k.type = "START" => k \in old.jobs
      /\ SpkKept(old, p)
  BY <1>2, StopIsNoStart DEF SpkKept
<1> QED BY <1>2, <1>3, <1>4, TreeKeptStep

LEMMA TreeRunJob ==
  ASSUME IInv, TreeInv, NEW n \in Node, NEW packet \in phone[n].jobs,
         RunJob(n, packet)
  PROVE  TreeInv'
<1> DEFINE old == phone[n]
           p == [old EXCEPT !.jobs = @ \ {packet}]
<1>1. old \in Phone /\ PhoneFits(call, n, old)
  BY Given
<1>2. /\ p \in Phone /\ p.session = old.session /\ p.mic = old.mic
      /\ p.spk = old.spk /\ p.jobs \subseteq old.jobs
  BY <1>1 DEF Phone
<1>3. /\ phone' = [phone EXCEPT ![n] = p] /\ left' = left
      /\ \A m \in net' : \/ m \in net
                         \/ /\ m.src = n /\ m.packet \in old.jobs
                            /\ m.dst \in Target[n]
  BY DEF RunJob
<1> HIDE DEF p
<1>4. Changes(n, p) /\ PhoneFits(call, n, p) /\ SpkKept(old, p)
  BY <1>1, <1>2, <1>3 DEF Changes, PhoneFits, SpkKept
<1> QED BY <1>2, <1>3, <1>4, TreeKeptStep

(* A datagram that changes nothing at its phone. *)
LEMMA TreeDrop ==
  ASSUME IInv, TreeInv, NEW m \in net, Lose(m) \/ RefuseStart(m)
  PROVE  TreeInv'
<1> DEFINE n == m.dst
           p == phone[n]
<1>1. n \in Node /\ phone \in [Node -> Phone]
  BY DEF IInv, TypeOK, Message
<1>2. p \in Phone /\ PhoneFits(call, n, p)
  BY <1>1, Given
<1>3. phone' = phone /\ left' = left /\ net' \subseteq net
  BY DEF Lose, RefuseStart
<1>4. phone' = [phone EXCEPT ![n] = phone[n]]
  BY <1>1, <1>3
<1> HIDE DEF n
<1>5. Changes(n, p) /\ SpkKept(phone[n], p)
  BY <1>3, <1>4 DEF Changes, SpkKept
<1> QED BY <1>1, <1>2, <1>3, <1>5, TreeKeptStep

LEMMA TreeTakenOver ==
  ASSUME IInv, TreeInv, NEW m \in net, m.packet.type = "START",
         BeginSession(phone[m.dst].session, m.packet.level),
         NEW outcome \in {"running", "noSocket", "noOutputter"},
         Become(m.dst, BeginRtpReceiver(phone[m.dst], m.packet, m.src, outcome)),
         net' \subseteq net
  PROVE  TreeInv'
<1> DEFINE n == m.dst
           src == m.src
           start == m.packet
           old == phone[n]
           p == BeginRtpReceiver(old, start, src, outcome)
<1>1. /\ n \in Node /\ src \in Node /\ start \in Packet /\ start \in Packets
  BY Given, NoNodeAssumption DEF IInv, TypeOK, Message, Packets
<1>2. /\ old \in Phone /\ PhoneFits(call, n, old) /\ PacketFits(call, start)
  BY <1>1, Given
<1>3. Origin(src, start) /\ n \in Target[src]
  BY DEF TreeInv
<1>4. old.session.ssrc # start.ssrc
  <2>1. start.type = "START" /\ BeginSession(old.session, start.level)
    OBVIOUS
  <2> HIDE DEF start, n
  <2> QED BY <1>1, <2>1, NotAgain
<1>5. Changes(n, p)
  <2>1. Become(n, p)
    OBVIOUS
  <2> HIDE DEF p, n
  <2> QED BY <1>1, <2>1, BecomeChanges
<1>6. start.type = "START"
  OBVIOUS
<1>7. /\ p \in Phone /\ PhoneFits(call, n, p)
      /\ Begun(p, start.ssrc, start.level)
      /\ JobsFrom(old, p, {start})
      /\ p.spk.state = "running" => p.spk.remote = src
  <2> HIDE DEF start, old, n, src
  <2>1. LET q == BeginRtpReceiver(old, start, src, outcome)
        IN  /\ q \in Phone /\ PhoneFits(call, n, q)
            /\ Begun(q, start.ssrc, start.level)
            /\ JobsFrom(old, q, {start})
    BY <1>1, <1>2, <1>6, BeginRtpReceiverEffect
  <2>2. LET q == BeginRtpReceiver(old, start, src, outcome)
        IN  q.spk.state = "running" => q.spk.remote = src
    BY <1>1, <1>2, <1>6, BeginRtpReceiverSpk
  <2> QED BY <2>1, <2>2
<1> HIDE DEF p, start, src, n
<1>8. p.session.ssrc = start.ssrc
  BY <1>7 DEF Begun
<1>9. \A k \in p.jobs :
        k.type = "START" => k \in phone[n].jobs \/ k.ssrc = p.session.ssrc
  BY <1>7, <1>8, StopIsNoStart DEF JobsFrom
<1>10. HearsACaller(n, p)
  BY <1>1, <1>3, <1>4, <1>6, <1>7, <1>8 DEF HearsACaller, Origin
<1> QED BY <1>1, <1>5, <1>7, <1>9, <1>10, TreeStep

LEMMA TreeStoppedBy ==
  ASSUME IInv, TreeInv, NEW m \in net, m.packet.type = "STOP",
         Become(m.dst, EndRtpReceiverStop(phone[m.dst], m.packet)),
         net' \subseteq net
  PROVE  TreeInv'
<1> DEFINE n == m.dst
           stop == m.packet
           old == phone[n]
           p == EndRtpReceiverStop(old, stop)
<1>1. n \in Node /\ stop \in Packet
  BY Given, NoNodeAssumption DEF IInv, TypeOK, Message
<1>2. old \in Phone /\ PhoneFits(call, n, old)
  BY <1>1, Given
<1>3. Changes(n, p)
  <2>1. Become(n, p)
    OBVIOUS
  <2> HIDE DEF p, n
  <2> QED BY <1>1, <2>1, BecomeChanges
<1>4. stop.type = "STOP"
  OBVIOUS
<1>5. /\ p \in Phone /\ PhoneFits(call, n, p)
      /\ JobsFrom(old, p, {stop})
      /\ p.session = old.session \/ ~IsSession(p.session)
      /\ SpkKept(old, p)
  <2> HIDE DEF stop, old, n
  <2> QED BY <1>1, <1>2, <1>4, EndRtpReceiverStopEffect, EndRtpReceiverStopSpk
<1> HIDE DEF p, stop, n
<1>6. \A k \in p.jobs : k.type = "START" => k \in old.jobs
  BY <1>4, <1>5, StopIsNoStart DEF JobsFrom
<1> QED BY <1>1, <1>3, <1>5, <1>6, TreeKeptStep

LEMMA TreeReceive ==
  ASSUME IInv, TreeInv, NEW m \in net,
         ReceiveStart(m) \/ ReceiveStop(m) \/ Repeat(m)
  PROVE  TreeInv'
<1> DEFINE p == phone[m.dst]
<1>1. net' \subseteq net
  BY DEF ReceiveStart, ReceiveStop, Repeat
<1>2. CASE \/ ReceiveStart(m)
           \/ Repeat(m) /\ m.packet.type = "START"
  <2>1. PICK outcome \in {"running", "noSocket", "noOutputter"} :
          /\ m.packet.type = "START"
          /\ BeginSession(p.session, m.packet.level)
          /\ Become(m.dst, BeginRtpReceiver(p, m.packet, m.src, outcome))
    BY <1>2 DEF ReceiveStart, Repeat
  <2> QED BY <1>1, <2>1, TreeTakenOver
<1>3. CASE \/ ReceiveStop(m)
           \/ Repeat(m) /\ m.packet.type = "STOP"
  <2>1. /\ m.packet.type = "STOP"
        /\ Become(m.dst, EndRtpReceiverStop(p, m.packet))
    BY <1>3 DEF ReceiveStop, Repeat
  <2> QED BY <1>1, <2>1, TreeStoppedBy
<1>4. Repeat(m) => m.packet.type \in {"START", "STOP"}
  BY DEF Repeat
<1> QED BY <1>2, <1>3, <1>4

(* FirstAudio, RelayerFails, LinkChanges and AddressChanges. *)
LEMMA TreeQuietPhone ==
  ASSUME IInv, IInv', TreeInv, NEW n \in Node,
         \/ FirstAudio(n) \/ RelayerFails(n)
         \/ LinkChanges(n) \/ AddressChanges(n)
  PROVE  TreeInv'
<1> DEFINE old == phone[n]
           p == phone'[n]
<1>1. /\ old \in Phone /\ old.mic \in Mic /\ old.spk \in Spk
      /\ phone \in [Node -> Phone]
  BY Given, PhoneParts DEF IInv, TypeOK
<1>2. left' = left /\ net' \subseteq net /\ call' = call
  BY DEF FirstAudio, RelayerFails, LinkChanges, AddressChanges
<1>3. p \in Phone /\ PhoneFits(call, n, p)
  BY <1>2 DEF IInv, TypeOK
<1> DEFINE armed == [old EXCEPT !.spk.armed = TRUE]
           noMic == [old EXCEPT !.mic.state = "dead"]
           noSpk == [old EXCEPT !.spk.state = "dead"]
           other == [old EXCEPT !.link = ~@]
           moved == [old EXCEPT !.link = TRUE, !.local = "stale",
                                !.jobs = {}]
<1>4. \/ phone' = [phone EXCEPT ![n] = armed]
      \/ phone' = [phone EXCEPT ![n] = noMic]
      \/ phone' = [phone EXCEPT ![n] = noSpk]
      \/ phone' = [phone EXCEPT ![n] = other]
      \/ phone' = [phone EXCEPT ![n] = moved]
  <2>1. AddressChanges(n) => phone' = [phone EXCEPT ![n] = moved]
    BY <1>1 DEF AddressChanges, Phone
  <2> QED BY <2>1 DEF FirstAudio, RelayerFails, LinkChanges
<1>5. \A x \in {armed, noMic, noSpk, other, moved} :
        /\ x.session = old.session /\ x.jobs \subseteq old.jobs
        /\ SpkKept(old, x)
  <2>1. \A x \in {armed, noMic, noSpk, other} :
          x.session = old.session /\ x.jobs = old.jobs /\ SpkKept(old, x)
    BY <1>1 DEF Phone, Spk, SpkKept
  <2>2. moved.session = old.session /\ moved.jobs = {} /\ moved.spk = old.spk
    BY <1>1 DEF Phone
  <2> HIDE DEF armed, noMic, noSpk, other, moved
  <2> QED BY <2>1, <2>2 DEF SpkKept
<1> HIDE DEF armed, noMic, noSpk, other, moved
<1>6. /\ phone' = [phone EXCEPT ![n] = p]
      /\ p.session = old.session /\ p.jobs \subseteq old.jobs
      /\ SpkKept(old, p)
  BY <1>1, <1>4, <1>5
<1>7. Changes(n, p)
  BY <1>2, <1>6 DEF Changes
<1> HIDE DEF p
<1> QED BY <1>2, <1>3, <1>6, <1>7, TreeKeptStep

(* AudioTimeout, SilenceTimeout, ConnectivityAction, Destroy and Kill. *)
LEMMA TreeEnding ==
  ASSUME IInv, IInv', TreeInv, NEW n \in Node,
         \/ AudioTimeout(n) \/ SilenceTimeout(n) \/ ConnectivityAction(n)
         \/ Destroy(n) \/ Kill(n)
  PROVE  TreeInv'
<1> DEFINE old == phone[n]
           Ending(p) ==
             /\ p \in Phone
             /\ \A k \in p.jobs : k.type = "START" => k \in old.jobs
             /\ p.session = old.session \/ ~IsSession(p.session)
             /\ SpkKept(old, p)
<1>1. /\ TypeOK /\ old \in Phone /\ PhoneFits(call, n, old)
      /\ old.mic \in Mic /\ old.spk \in Spk /\ old.session \in Session
      /\ old.link \in BOOLEAN /\ phone \in [Node -> Phone]
  BY Given, PhoneParts DEF Phone, TypeOK
<1>2. call' = call /\ net' = net
  BY DEF AudioTimeout, SilenceTimeout, ConnectivityAction, Destroy, Kill
<1>3. ASSUME AudioTimeout(n) \/ SilenceTimeout(n)
      PROVE  \E p : Become(n, p) /\ Ending(p)
  <2> DEFINE p == [old EXCEPT !.spk.state = "dead", !.session = EndSession(@)]
  <2>1. Become(n, p)
    BY <1>3 DEF AudioTimeout, SilenceTimeout, TimesOut
  <2>2. /\ p \in Phone /\ p.session = EndSession(old.session)
        /\ p.jobs = old.jobs /\ p.spk.state = "dead"
    BY <1>1, EndSessionEffect DEF Phone, Spk, RelayerState
  <2> HIDE DEF p
  <2>3. p.session.level = INVALID_SESSION_LEVEL
    BY <1>1, <2>2, EndSessionEffect
  <2>4. ~IsSession(p.session)
    BY <2>3 DEF IsSession, INVALID_SESSION_LEVEL
  <2>5. Ending(p)
    BY <2>2, <2>4 DEF SpkKept
  <2> QED BY <2>1, <2>5
<1>4. ASSUME ConnectivityAction(n)
      PROVE  \E p : Become(n, p) /\ Ending(p)
  <2>1. PICK listens \in BOOLEAN : Become(n, SetLocalIpAddress(old, listens))
    BY <1>4 DEF ConnectivityAction
  <2> DEFINE p == SetLocalIpAddress(old, listens)
  <2>2. /\ p \in Phone /\ JobsFrom(old, p, {})
        /\ p.session = old.session \/ ~IsSession(p.session)
        /\ SpkKept(old, p)
    BY <1>1, SetLocalIpAddressEffect, SetLocalIpAddressSpk
  <2> HIDE DEF p
  <2>3. Ending(p)
    BY <2>2, StopIsNoStart DEF JobsFrom
  <2> QED BY <2>1, <2>3 DEF p
<1>5. ASSUME Destroy(n)
      PROVE  \E p : Become(n, p) /\ Ending(p)
  <2> DEFINE ended == EndRtpSender(EndRtpReceiver(old))
             fresh == OnCreate(ended.link)
  <2>1. PICK sent \in SUBSET ended.jobs :
          Become(n, [fresh EXCEPT !.jobs = sent])
    BY <1>5 DEF Destroy
  <2> DEFINE p == [fresh EXCEPT !.jobs = sent]
  <2>2. ended \in Phone /\ JobsFrom(old, ended, {})
    BY <1>1, EndBothEffect
  <2> HIDE DEF ended
  <2>3. ended.link \in BOOLEAN /\ ended.jobs \subseteq Packet
    BY <2>2 DEF Phone
  <2>4. /\ fresh \in Phone /\ ~IsSession(fresh.session)
        /\ fresh.spk.state # "running"
    BY <2>3, OnCreateEffect, OnCreateSpk
  <2> HIDE DEF fresh
  <2>5. /\ p \in Phone /\ p.session = fresh.session
        /\ p.spk = fresh.spk /\ p.jobs = sent
    BY <2>3, <2>4 DEF Phone
  <2> HIDE DEF p
  <2>6. Ending(p)
    BY <2>2, <2>4, <2>5, StopIsNoStart DEF JobsFrom, SpkKept
  <2> QED BY <2>1, <2>6 DEF p
<1>6. ASSUME Kill(n)
      PROVE  \E p : Become(n, p) /\ Ending(p)
  <2> DEFINE p == OnCreate(old.link)
  <2>1. Become(n, p)
    BY <1>6 DEF Kill
  <2>2. /\ p \in Phone /\ p.jobs = {} /\ ~IsSession(p.session)
        /\ p.spk.state # "running"
    BY <1>1, OnCreateEffect, OnCreateSpk
  <2> HIDE DEF p
  <2>3. Ending(p)
    BY <2>2 DEF SpkKept
  <2> QED BY <2>1, <2>3
<1>7. PICK p : Become(n, p) /\ Ending(p)
  BY <1>3, <1>4, <1>5, <1>6
<1>8. Changes(n, p)
  BY <1>7, BecomeChanges
<1>9. PhoneFits(call, n, p)
  <2>1. phone'[n] = p
    BY <1>1, <1>8 DEF Changes
  <2> QED BY <1>2, <2>1 DEF IInv
<1> QED BY <1>2, <1>7, <1>8, <1>9, TreeKeptStep

LEMMA TreeInit == Init => TreeInv
<1> SUFFICES ASSUME Init PROVE TreeInv
  OBVIOUS
<1>1. \A n \in Node : \E link \in BOOLEAN : phone[n] = OnCreate(link)
  BY DEF Init, Links
<1>2. \A n \in Node : phone[n].jobs = {} /\ phone[n].spk.state # "running"
  BY <1>1, OnCreateEffect, OnCreateSpk
<1>3. \A c : Listeners(c) = {}
  BY <1>2 DEF Listeners
<1>4. RelayTree
  BY <1>3 DEF RelayTree
<1> QED BY <1>2, <1>4 DEF TreeInv, Init

LEMMA TreeNext == IInv /\ TreeInv /\ [Next]_vars => TreeInv'
<1> SUFFICES ASSUME IInv, TreeInv, [Next]_vars PROVE TreeInv'
  OBVIOUS
<1>1. IInv'
  BY NextStep
<1>2. CASE UserNext
  BY <1>1, <1>2, TreePressToTalk, TreeRelease DEF UserNext
<1>3. CASE NetworkNext
  BY <1>3, TreeRunJob, TreeDrop, TreeReceive DEF NetworkNext
<1>4. CASE PhoneNext
  BY <1>1, <1>4, TreeQuietPhone, TreeEnding DEF PhoneNext
<1>5. CASE UNCHANGED vars
  BY <1>5 DEF vars, TreeInv, Origin, RelayTree, Listeners
<1> QED BY <1>2, <1>3, <1>4, <1>5 DEF Next

LEMMA TreeInvariance == Spec => []TreeInv
BY TreeInit, TreeNext, Invariance, PTL DEF Spec

(* Whatever the targets, cycles and self-targets included, and whatever    *)
(* fails: audio of a call that nobody has left never runs in a circle, and *)
(* every listener hears a phone of the same call.                          *)
THEOREM RelayTreeHolds == Spec => []RelayTree
<1>1. TreeInv => RelayTree
  BY DEF TreeInv
<1> QED BY <1>1, TreeInvariance, PTL

-----------------------------------------------------------------------------
(* A floor without faults: every phone has its link and listens on its     *)
(* control port, and whoever is in a call talks or has a relayer that runs. *)

Online(p) == p.link /\ p.local = "current" /\ p.ctrl

Steady(p) ==
  /\ Online(p)
  /\ p.spk.state \in {"null", "running"}
  /\ p.session.ssrc # NoCall =>
       p.mic.state # "null" \/ p.spk.state = "running"

SteadyInv == \A n \in Node : Steady(phone[n])

(* The STOP that endRtpSender queues. *)
Stops(p) ==
  IF p.mic.state # "null" THEN {CtrlPacketStop(p.session)} ELSE {}

(* The START of call c from its talker. *)
StartOf(c, level) ==
  [type |-> "START", ssrc |-> c, level |-> level % LevelMod, key |-> c]

LEMMA SendCtrlPacketOnline ==
  ASSUME NEW p \in Phone, Online(p), NEW k \in Packet
  PROVE  LET q == SendCtrlPacket(p, k)
         IN  q \in Phone /\ Online(q) /\ q.jobs = p.jobs \cup {k}
BY DEF SendCtrlPacket, CanBind, Attached, Online, Phone

LEMMA EndRtpReceiverOnline ==
  ASSUME NEW p \in Phone, Online(p)
  PROVE  Online(EndRtpReceiver(p))
BY DEF EndRtpReceiver, Online, Phone

LEMMA EndRtpSenderOnline ==
  ASSUME NEW cl, NEW n \in Node, NEW p \in Phone, PhoneFits(cl, n, p),
         Online(p)
  PROVE  LET q == EndRtpSender(p)
         IN  Online(q) /\ q.jobs = p.jobs \cup Stops(p)
<1> DEFINE q == EndRtpSender(p)
           stop == CtrlPacketStop(p.session)
           r == [p EXCEPT !.mic = NullMic]
           t == SendCtrlPacket(r, stop)
<1>1. CASE p.mic.state = "null"
  BY <1>1 DEF EndRtpSender, Stops
<1>2. CASE p.mic.state # "null"
  <2>1. q = [t EXCEPT !.session = EndSession(@)]
    BY <1>2 DEF EndRtpSender
  <2>2. stop \in Packet
    <3>1. p.session.ssrc \in Call
      BY <1>2, PhoneParts DEF PhoneFits, Session
    <3> QED BY <3>1 DEF CtrlPacketStop, Packet, StopPacket
  <2>3. r \in Phone /\ r.jobs = p.jobs /\ Online(r)
    BY NullRelayers DEF Phone, Online
  <2>4. t \in Phone /\ Online(t) /\ t.jobs = p.jobs \cup {stop}
    BY <2>2, <2>3, SendCtrlPacketOnline
  <2> HIDE DEF t
  <2>5. Online(q) /\ q.jobs = t.jobs
    BY <2>1, <2>4 DEF Phone, Online
  <2> QED BY <1>2, <2>4, <2>5 DEF Stops
<1> QED BY <1>1, <1>2

LEMMA EndBothOnline ==
  ASSUME NEW cl, NEW n \in Node, NEW p \in Phone, PhoneFits(cl, n, p),
         Online(p)
  PROVE  LET q == EndRtpSender(EndRtpReceiver(p))
         IN  Online(q) /\ q.jobs = p.jobs \cup Stops(p)
<1> DEFINE r == EndRtpReceiver(p)
           q == EndRtpSender(r)
<1>1. /\ r \in Phone /\ PhoneFits(cl, n, r) /\ r.mic = p.mic
      /\ r.jobs = p.jobs /\ Online(r)
      /\ p.mic.state # "null" => r = p
  BY EndRtpReceiverEffect, EndRtpReceiverOnline
<1>2. Stops(r) = Stops(p)
  BY <1>1 DEF Stops
<1> HIDE DEF r
<1>3. Online(q) /\ q.jobs = r.jobs \cup Stops(r)
  BY <1>1, EndRtpSenderOnline
<1> HIDE DEF q
<1> QED BY <1>1, <1>2, <1>3 DEF q, r

LEMMA BeginRtpReceiverOnline ==
  ASSUME NEW cl, NEW n \in Node, NEW p \in Phone, PhoneFits(cl, n, p),
         Online(p),
         NEW start \in Packet, start.type = "START", PacketFits(cl, start),
         NEW src \in Node
  PROVE  LET q == BeginRtpReceiver(p, start, src, "running")
         IN  Online(q) /\ q.jobs = p.jobs \cup Stops(p) \cup {start}
<1> DEFINE q == EndRtpSender(EndRtpReceiver(p))
           r == SendCtrlPacket([q EXCEPT !.shown = TRUE], start)
           s == [r EXCEPT !.session = SetSessionParamStart(@, start)]
           relayer == [state |-> "running", key |-> s.session.key,
                       remote |-> src, armed |-> FALSE]
           final == BeginRtpReceiver(p, start, src, "running")
<1>1. q \in Phone /\ Online(q) /\ q.jobs = p.jobs \cup Stops(p)
  BY EndBothEffect, EndBothOnline
<1> HIDE DEF q
<1>2. LET shown == [q EXCEPT !.shown = TRUE]
      IN  shown \in Phone /\ Online(shown) /\ shown.jobs = q.jobs
  BY <1>1 DEF Phone, Online
<1>3. r \in Phone /\ Online(r) /\ r.jobs = q.jobs \cup {start}
  BY <1>2, SendCtrlPacketOnline
<1> HIDE DEF r
<1>4. Online(s) /\ s.jobs = r.jobs
  BY <1>3 DEF Phone, Online
<1>5. final = [s EXCEPT !.spk = relayer]
  BY DEF BeginRtpReceiver, q, r, s, relayer
<1> HIDE DEF s, relayer, final
<1>6. Online(final) /\ final.jobs = s.jobs
  BY <1>4, <1>5 DEF Online
<1> QED BY <1>1, <1>3, <1>4, <1>6 DEF final

LEMMA BeginRtpSenderOnline ==
  ASSUME NEW cl, NEW n \in Node, NEW p \in Phone, PhoneFits(cl, n, p),
         Online(p),
         NEW level, level \in Int, BeginSession(p.session, level),
         NEW c \in Call, cl[c].talker = n, cl[c].level = level
  PROVE  LET q == BeginRtpSender(p, level, c, "running")
         IN  /\ Online(q)
             /\ q.jobs = p.jobs \cup Stops(p) \cup {StartOf(c, level)}
<1> DEFINE q == EndRtpSender(EndRtpReceiver(p))
           r == [q EXCEPT !.session =
                   SetKey(SetSessionParamCodec(@, level, c), c)]
           new == SetKey(SetSessionParamCodec(q.session, level, c), c)
           relayer == [state |-> "running", key |-> r.session.key]
           start == CtrlPacketStart(r.session)
           t == [r EXCEPT !.mic = relayer]
           final == BeginRtpSender(p, level, c, "running")
<1>1. q \in Phone /\ Online(q) /\ q.jobs = p.jobs \cup Stops(p)
  BY EndBothEffect, EndBothOnline
<1> HIDE DEF q
<1>2. new.level = level /\ new.ssrc = c /\ new.key = c
  <2>1. q.session \in Session
    BY <1>1, PhoneParts
  <2> QED BY <2>1 DEF SetKey, SetSessionParamCodec, Session
<1> HIDE DEF new
<1>3. Online(r) /\ r.jobs = q.jobs /\ r.session = new
  BY <1>1 DEF Phone, Online, new
<1> HIDE DEF r
<1>4. start = StartOf(c, level)
  BY <1>2, <1>3 DEF CtrlPacketStart, StartOf
<1> HIDE DEF relayer, start
<1>5. Online(t) /\ t.jobs = r.jobs
  BY <1>3 DEF Online
<1>6. final = SendCtrlPacket(t, start)
  BY DEF BeginRtpSender, q, r, relayer, start, t
<1> HIDE DEF t, final
<1>7. final.jobs = t.jobs \cup {start} /\ Online(final)
  BY <1>5, <1>6 DEF SendCtrlPacket, CanBind, Attached, Online
<1> QED BY <1>1, <1>3, <1>4, <1>5, <1>7 DEF final

LEMMA EndRtpReceiverStopOnline ==
  ASSUME NEW cl, NEW n \in Node, NEW p \in Phone, PhoneFits(cl, n, p),
         Steady(p), NEW stop \in Packet, stop.type = "STOP",
         SameSsrc(p.session, stop)
  PROVE  LET q == EndRtpReceiverStop(p, stop)
         IN  /\ Online(q) /\ q.jobs = p.jobs \cup {stop}
             /\ q.session.ssrc = NoCall /\ q.spk.state = "null"
             /\ p.mic.state = "null" /\ q.mic.state = "null"
<1> DEFINE r == EndRtpReceiver(p)
           q == EndRtpReceiverStop(p, stop)
<1>1. stop.ssrc \in Call /\ stop.ssrc # NoCall
  BY NoCallAssumption DEF Packet, StartPacket, StopPacket
<1>2. p.mic.state = "null" /\ p.spk.state = "running"
  BY <1>1 DEF SameSsrc, PhoneFits, Steady
<1>3. r = [p EXCEPT !.shown = FALSE, !.spk = NullSpk, !.session = EndSession(@)]
  BY <1>2 DEF EndRtpReceiver
<1>4. p.session \in Session
  BY PhoneParts
<1>5. /\ r \in Phone /\ r.jobs = p.jobs /\ r.mic = p.mic
      /\ r.spk.state = "null" /\ r.session.ssrc = NoCall
  BY <1>3, <1>4, EndRtpReceiverEffect, EndRtpReceiverSpk, EndSessionEffect
  DEF Phone
<1>6. Online(r)
  BY EndRtpReceiverOnline DEF Steady
<1>7. q = SendCtrlPacket(r, stop)
  BY DEF EndRtpReceiverStop
<1> HIDE DEF q, r
<1>8. /\ q.jobs = r.jobs \cup {stop} /\ Online(q)
      /\ q.session = r.session /\ q.spk = r.spk /\ q.mic = r.mic
  BY <1>5, <1>6, <1>7, SendCtrlPacketOnline, SendCtrlPacketEffect
<1> QED BY <1>2, <1>5, <1>8 DEF q

-----------------------------------------------------------------------------
(* What a step may be when nothing goes wrong but that datagrams arrive    *)
(* twice: phone n becomes p, and one of these.                             *)

MayRepeat == Faults \subseteq {"repeat"}

(* The call of the phone and whom it hears. *)
Kept(p, q) ==
  /\ q.session = p.session
  /\ q.spk.state = p.spk.state /\ q.spk.remote = p.spk.remote

Idles(n, p) ==
  /\ Kept(phone[n], p) /\ p.jobs = phone[n].jobs
  /\ call' = call /\ net' = net

Sends(n, p, k) ==
  /\ Kept(phone[n], p)
  /\ k \in phone[n].jobs /\ p.jobs = phone[n].jobs \ {k}
  /\ call' = call
  /\ net' = net \cup {[packet |-> k, src |-> n, dst |-> d] : d \in Target[n]}

Ignores(n, p, m) ==
  /\ m \in net /\ m.dst = n
  /\ m.packet.type = "START" =>
       ~BeginSession(phone[n].session, m.packet.level)
  /\ m.packet.type = "STOP" => ~SameSsrc(phone[n].session, m.packet)
  /\ Kept(phone[n], p) /\ p.jobs = phone[n].jobs
  /\ call' = call /\ net' \in {net, net \ {m}}

BeginsACall(n, p, c, level) ==
  /\ level \in AccountLevels[n] /\ call[c] = NotBegun
  /\ BeginSession(phone[n].session, level)
  /\ Begun(p, c, level) /\ p.session.wide /\ p.spk.state = "null"
  /\ p.jobs = phone[n].jobs \cup Stops(phone[n])
                \cup {StartOf(c, level)}
  /\ call' = [call EXCEPT ![c] = [talker |-> n, level |-> level]]
  /\ net' = net

JoinsACall(n, p, m) ==
  /\ m \in net /\ m.dst = n /\ m.packet.type = "START"
  /\ BeginSession(phone[n].session, m.packet.level)
  /\ Begun(p, m.packet.ssrc, m.packet.level)
  /\ p.spk.state = "running" /\ p.spk.remote = m.src
  /\ p.jobs = phone[n].jobs \cup Stops(phone[n]) \cup {m.packet}
  /\ call' = call /\ net' \in {net, net \ {m}}

HangsUp(n, p) ==
  /\ releases' = releases + 1
  /\ phone[n].mic.state # "null"
  /\ p.session.ssrc = NoCall /\ p.spk.state = "null"
  /\ p.jobs = phone[n].jobs \cup Stops(phone[n])
  /\ call' = call /\ net' = net

IsReleased(n, p, m) ==
  /\ m \in net /\ m.dst = n /\ m.packet.type = "STOP"
  /\ SameSsrc(phone[n].session, m.packet)
  /\ p.session.ssrc = NoCall /\ p.spk.state = "null"
  /\ p.jobs = phone[n].jobs \cup {m.packet}
  /\ call' = call /\ net' \in {net, net \ {m}}

CalmStep(n, p) ==
  /\ Become(n, p)
  /\ p \in Phone /\ Steady(p)
  /\ \/ Idles(n, p)
     \/ \E k \in phone[n].jobs : Sends(n, p, k)
     \/ \E m \in net : Ignores(n, p, m)
     \/ \E c \in Call, level \in AccountLevels[n] : BeginsACall(n, p, c, level)
     \/ \E m \in net : JoinsACall(n, p, m)
     \/ HangsUp(n, p)
     \/ \E m \in net : IsReleased(n, p, m)

LEMMA KeptIsSteady ==
  ASSUME NEW p \in Phone, NEW q \in Phone, Steady(p), Kept(p, q),
         q.mic = p.mic, Online(q)
  PROVE  Steady(q)
BY DEF Steady, Kept

(* A phone whose session stays leaves no call. *)
LEMMA KeptLeavesNothing ==
  ASSUME NEW n \in Node, NEW p, p.session = phone[n].session,
         phone' = [phone EXCEPT ![n] = p], left' = left, torn' = torn
  PROVE  Become(n, p)
BY DEF Become

LEMMA CalmPressToTalk ==
  ASSUME IInv, SteadyInv, MayRepeat, NEW n \in Node, PressToTalk(n)
  PROVE  \E p : CalmStep(n, p)
<1> DEFINE old == phone[n]
<1>1. /\ TypeOK /\ old \in Phone /\ PhoneFits(call, n, old) /\ Steady(old)
  BY Given DEF SteadyInv
<1>2. PICK level \in AccountLevels[n], c \in Call :
        /\ BeginSession(old.session, level)
        /\ call[c] = NotBegun
        /\ call' = [call EXCEPT ![c] = [talker |-> n, level |-> level]]
        /\ Become(n, BeginRtpSender(old, level, c, "running"))
  BY <1>1 DEF PressToTalk, Fault, MayRepeat, CanBind, Attached,
                 Steady, Online
<1> DEFINE p == BeginRtpSender(old, level, c, "running")
           cl == [call EXCEPT ![c] = [talker |-> n, level |-> level]]
<1>3. level \in Int /\ net' = net
  BY AccountLevelsAssumption DEF PressToTalk
<1>4. cl[c].talker = n /\ cl[c].level = level /\ PhoneFits(cl, n, old)
  BY <1>1, <1>2, FreshCallFits
<1> HIDE DEF cl
<1>5. /\ p \in Phone /\ PhoneFits(cl, n, p) /\ Begun(p, c, level)
      /\ p.session.wide
      /\ Online(p) /\ p.jobs = old.jobs \cup Stops(old) \cup {StartOf(c, level)}
  <2>1. "running" \in {"running", "noOutputter"} /\ Online(old)
    BY <1>1 DEF Steady
  <2> HIDE DEF old
  <2>2. LET q == BeginRtpSender(old, level, c, "running")
        IN  q \in Phone /\ PhoneFits(cl, n, q) /\ Begun(q, c, level)
            /\ q.session.wide
    BY <1>1, <1>2, <1>3, <1>4, <2>1, BeginRtpSenderEffect
  <2>3. LET q == BeginRtpSender(old, level, c, "running")
        IN  /\ Online(q)
            /\ q.jobs = old.jobs \cup Stops(old) \cup {StartOf(c, level)}
    BY <1>1, <1>2, <1>3, <1>4, <2>1, BeginRtpSenderOnline
  <2> QED BY <2>2, <2>3
<1>6. Become(n, p)
  BY <1>2
<1> HIDE DEF p
<1>7. p.mic.state # "null" /\ p.spk.state = "null"
  BY <1>5 DEF PhoneFits
<1>8. Steady(p)
  BY <1>5, <1>7 DEF Steady
<1>9. BeginsACall(n, p, c, level)
  BY <1>2, <1>3, <1>5, <1>7 DEF BeginsACall
<1> QED BY <1>5, <1>6, <1>8, <1>9 DEF CalmStep

LEMMA CalmRelease ==
  ASSUME IInv, SteadyInv, NEW n \in Node, Release(n)
  PROVE  \E p : CalmStep(n, p)
<1> DEFINE old == phone[n]
           p == EndRtpSender(old)
<1>1. old \in Phone /\ PhoneFits(call, n, old) /\ Steady(old) /\ Online(old)
  BY Given DEF SteadyInv, Steady
<1>2. /\ Become(n, p) /\ net' = net /\ call' = call
      /\ releases' = releases + 1 /\ old.mic.state # "null"
  BY DEF Release
<1>3. /\ p \in Phone /\ PhoneFits(call, n, p)
      /\ p.mic.state = "null" /\ p.spk = old.spk /\ p.session.ssrc = NoCall
      /\ Online(p) /\ p.jobs = old.jobs \cup Stops(old)
  BY <1>1, <1>2, EndRtpSenderEffect, EndRtpSenderOnline
<1> HIDE DEF p
<1>4. p.spk.state = "null"
  BY <1>1, <1>2, <1>3 DEF PhoneFits
<1>5. Steady(p) /\ HangsUp(n, p)
  BY <1>2, <1>3, <1>4 DEF Steady, HangsUp
<1> QED BY <1>2, <1>3, <1>5 DEF CalmStep

LEMMA CalmRunJob ==
  ASSUME IInv, SteadyInv, NEW n \in Node, NEW packet \in phone[n].jobs,
         RunJob(n, packet)
  PROVE  \E p : CalmStep(n, p)
<1> DEFINE old == phone[n]
           p == [old EXCEPT !.jobs = @ \ {packet}]
<1>1. old \in Phone /\ Steady(old) /\ Online(old)
  BY Given DEF SteadyInv, Steady
<1>2. /\ p \in Phone /\ Kept(old, p) /\ p.mic = old.mic /\ Online(p)
      /\ p.jobs = old.jobs \ {packet} /\ p.session = old.session
  BY <1>1 DEF Phone, Kept, Online
<1>3. /\ phone' = [phone EXCEPT ![n] = p] /\ left' = left /\ torn' = torn
      /\ call' = call
      /\ net' = net \cup {[packet |-> packet, src |-> n, dst |-> d] :
                            d \in Target[n]}
  BY <1>1 DEF RunJob, Attached, Online
<1> HIDE DEF p
<1>4. Become(n, p) /\ Steady(p) /\ Sends(n, p, packet)
  BY <1>1, <1>2, <1>3, KeptLeavesNothing, KeptIsSteady DEF Sends
<1> QED BY <1>2, <1>4 DEF CalmStep

LEMMA CalmReceiveStart ==
  ASSUME IInv, SteadyInv, MayRepeat, NEW m \in net,
         ReceiveStart(m) \/ (Repeat(m) /\ m.packet.type = "START")
  PROVE  \E n \in Node : \E p : CalmStep(n, p)
<1> DEFINE n == m.dst
           src == m.src
           start == m.packet
           old == phone[n]
           p == BeginRtpReceiver(old, start, src, "running")
<1>1. /\ n \in Node /\ src \in Node /\ start \in Packet /\ start \in Packets
  BY Given, NoNodeAssumption DEF IInv, TypeOK, Message, Packets
<1>2. /\ old \in Phone /\ PhoneFits(call, n, old) /\ PacketFits(call, start)
      /\ Steady(old) /\ Online(old)
  BY <1>1, Given DEF SteadyInv, Steady
<1>3. /\ start.type = "START" /\ BeginSession(old.session, start.level)
      /\ Become(n, p) /\ net' \in {net, net \ {m}} /\ call' = call
  BY DEF ReceiveStart, Repeat, Fault, MayRepeat
<1>4. /\ p \in Phone /\ Begun(p, start.ssrc, start.level)
      /\ p.spk.state = "running" /\ p.spk.remote = src
      /\ Online(p) /\ p.jobs = old.jobs \cup Stops(old) \cup {start}
  <2> DEFINE outcome == "running"
  <2>1. outcome \in {"running", "noSocket", "noOutputter"}
    OBVIOUS
  <2> HIDE DEF start, old, n, src
  <2>2. LET q == BeginRtpReceiver(old, start, src, outcome)
        IN  q \in Phone /\ Begun(q, start.ssrc, start.level)
    BY <1>1, <1>2, <1>3, <2>1, BeginRtpReceiverEffect
  <2>3. LET q == BeginRtpReceiver(old, start, src, outcome)
        IN  /\ q.spk.state = "running" => q.spk.remote = src
            /\ outcome = "running" => q.spk.state = "running"
    BY <1>1, <1>2, <1>3, <2>1, BeginRtpReceiverSpk
  <2>4. LET q == BeginRtpReceiver(old, start, src, "running")
        IN  Online(q) /\ q.jobs = old.jobs \cup Stops(old) \cup {start}
    BY <1>1, <1>2, <1>3, BeginRtpReceiverOnline
  <2> QED BY <2>2, <2>3, <2>4
<1> HIDE DEF p
<1>5. Steady(p) /\ JoinsACall(n, p, m)
  BY <1>3, <1>4 DEF Steady, JoinsACall
<1>6. CalmStep(n, p)
  BY <1>3, <1>4, <1>5 DEF CalmStep
<1> QED BY <1>1, <1>6

LEMMA CalmRefuseStart ==
  ASSUME IInv, SteadyInv, NEW m \in net, RefuseStart(m)
  PROVE  \E n \in Node : \E p : CalmStep(n, p)
<1> DEFINE n == m.dst
           p == phone[n]
<1>1. n \in Node /\ phone \in [Node -> Phone]
  BY DEF IInv, TypeOK, Message
<1>2. p \in Phone /\ Steady(p) /\ Kept(p, p)
  BY <1>1 DEF SteadyInv, Kept
<1>3. /\ phone' = [phone EXCEPT ![n] = p] /\ left' = left /\ torn' = torn
      /\ call' = call /\ net' = net \ {m}
      /\ m.packet.type = "START"
      /\ ~BeginSession(p.session, m.packet.level)
  BY <1>1 DEF RefuseStart
<1>4. Ignores(n, p, m)
  BY <1>2, <1>3 DEF Ignores
<1>5. Become(n, p)
  <2> HIDE DEF n
  <2> QED BY <1>1, <1>3, KeptLeavesNothing
<1>6. CalmStep(n, p)
  BY <1>2, <1>4, <1>5 DEF CalmStep
<1> QED BY <1>1, <1>6

LEMMA CalmReceiveStop ==
  ASSUME IInv, SteadyInv, NEW m \in net,
         ReceiveStop(m) \/ (Repeat(m) /\ m.packet.type = "STOP")
  PROVE  \E n \in Node : \E p : CalmStep(n, p)
<1> DEFINE n == m.dst
           stop == m.packet
           old == phone[n]
           p == EndRtpReceiverStop(old, stop)
<1>1. n \in Node /\ stop \in Packet
  BY Given, NoNodeAssumption DEF IInv, TypeOK, Message
<1>2. old \in Phone /\ PhoneFits(call, n, old) /\ Steady(old) /\ Online(old)
  BY <1>1, Given DEF SteadyInv, Steady
<1>3. /\ stop.type = "STOP" /\ Become(n, p)
      /\ net' \in {net, net \ {m}} /\ call' = call
  BY DEF ReceiveStop, Repeat
<1>4. CASE SameSsrc(old.session, stop)
  <2>1. /\ p \in Phone
        /\ Online(p) /\ p.jobs = old.jobs \cup {stop}
        /\ p.session.ssrc = NoCall /\ p.spk.state = "null"
    <3> HIDE DEF stop, old, n
    <3>1. LET q == EndRtpReceiverStop(old, stop) IN q \in Phone
      BY <1>1, <1>2, <1>3, EndRtpReceiverStopEffect
    <3>2. LET q == EndRtpReceiverStop(old, stop)
          IN  /\ Online(q) /\ q.jobs = old.jobs \cup {stop}
              /\ q.session.ssrc = NoCall /\ q.spk.state = "null"
      BY <1>1, <1>2, <1>3, <1>4, EndRtpReceiverStopOnline
    <3> QED BY <3>1, <3>2
  <2> HIDE DEF p
  <2>2. Steady(p) /\ IsReleased(n, p, m)
    BY <1>3, <1>4, <2>1 DEF Steady, IsReleased
  <2>3. CalmStep(n, p)
    BY <1>3, <2>1, <2>2 DEF CalmStep
  <2> QED BY <1>1, <2>3
<1>5. CASE ~SameSsrc(old.session, stop)
  <2>1. p = old
    BY <1>5 DEF EndRtpReceiverStop
  <2>2. Ignores(n, p, m)
    BY <1>3, <1>5, <2>1 DEF Ignores, Kept
  <2>3. CalmStep(n, p)
    BY <1>2, <1>3, <2>1, <2>2 DEF CalmStep
  <2> QED BY <1>1, <2>3
<1> QED BY <1>4, <1>5

LEMMA CalmPhone ==
  ASSUME IInv, SteadyInv, MayRepeat, PhoneNext
  PROVE  \E n \in Node : \E p : CalmStep(n, p)
<1>1. PICK n \in Node : FirstAudio(n) \/ ConnectivityAction(n)
  BY DEF PhoneNext, AudioTimeout, SilenceTimeout, RelayerFails, LinkChanges,
         AddressChanges, Destroy, Kill, Fault, MayRepeat, SteadyInv, Steady, Online
<1> DEFINE old == phone[n]
<1>2. /\ old \in Phone /\ Steady(old) /\ Online(old)
      /\ old.spk \in Spk
  BY Given, PhoneParts DEF SteadyInv, Steady
<1>3. CASE FirstAudio(n)
  <2> DEFINE p == [old EXCEPT !.spk.armed = TRUE]
  <2>1. /\ phone' = [phone EXCEPT ![n] = p] /\ left' = left /\ torn' = torn
        /\ call' = call /\ net' = net
    BY <1>3 DEF FirstAudio
  <2>2. /\ p \in Phone /\ Kept(old, p) /\ p.mic = old.mic /\ Online(p)
        /\ p.jobs = old.jobs /\ p.session = old.session
    BY <1>2 DEF Phone, Spk, Kept, Online
  <2> HIDE DEF p
  <2>3. Become(n, p) /\ Steady(p) /\ Idles(n, p)
    BY <1>2, <2>1, <2>2, KeptLeavesNothing, KeptIsSteady DEF Idles
  <2> QED BY <2>2, <2>3 DEF CalmStep
<1>4. CASE ConnectivityAction(n)
  <2>1. PICK listens \in BOOLEAN :
          /\ listens
          /\ Become(n, SetLocalIpAddress(old, listens))
    BY <1>2, <1>4 DEF ConnectivityAction, Online
  <2>2. SetLocalIpAddress(old, listens) = old
    BY <1>2 DEF SetLocalIpAddress, Online
  <2>3. Become(n, old) /\ Idles(n, old)
    BY <1>4, <2>1, <2>2 DEF Idles, Kept, ConnectivityAction
  <2> QED BY <1>2, <2>3 DEF CalmStep
<1> QED BY <1>1, <1>3, <1>4

LEMMA CalmNext ==
  ASSUME IInv, SteadyInv, MayRepeat, Next
  PROVE  \E n \in Node : \E p : CalmStep(n, p)
<1>1. CASE UserNext
  BY <1>1, CalmPressToTalk, CalmRelease DEF UserNext
<1>2. CASE \E n \in Node : \E k \in phone[n].jobs : RunJob(n, k)
  BY <1>2, CalmRunJob
<1>3. CASE \E m \in net :
             ReceiveStart(m) \/ RefuseStart(m) \/ ReceiveStop(m) \/ Repeat(m)
  <2>1. \A m \in net : Repeat(m) => m.packet.type \in {"START", "STOP"}
    BY DEF Repeat
  <2> QED BY <1>3, <2>1, CalmReceiveStart, CalmRefuseStart, CalmReceiveStop
<1>4. ~\E m \in net : Lose(m)
  <2>1. \A m \in net : m.dst \in Node
    BY DEF IInv, TypeOK, Message
  <2> QED BY <2>1 DEF Lose, Listens, Attached, Fault, MayRepeat, SteadyInv,
                      Steady, Online
<1>5. CASE PhoneNext
  BY <1>5, CalmPhone
<1> QED BY <1>1, <1>2, <1>3, <1>4, <1>5 DEF Next, NetworkNext

LEMMA SteadyInit ==
  ASSUME MayRepeat, Init
  PROVE  SteadyInv
<1>1. \A n \in Node : phone[n] = OnCreate(TRUE)
  BY DEF Init, Links, MayRepeat
<1> DEFINE p == NewPhone(TRUE)
           set == [p EXCEPT !.local = "current"]
<1>2. OnCreate(TRUE) = [EndRtpReceiver(EndRtpSender(set)) EXCEPT !.ctrl = TRUE]
  BY DEF OnCreate, SetLocalIpAddress, NewPhone
<1>3. /\ set.mic.state = "null" /\ set.spk.state = "null"
      /\ set.link /\ set.local = "current" /\ set.session.ssrc = NoCall
      /\ DOMAIN set = DOMAIN p /\ "ctrl" \in DOMAIN p
  BY DEF NewPhone, NullMic, NullSpk, NoSession
<1>4. EndRtpReceiver(EndRtpSender(set)) = set
  BY <1>3 DEF EndRtpReceiver, EndRtpSender
<1> HIDE DEF p
<1>5. LET q == [set EXCEPT !.ctrl = TRUE]
      IN  /\ q.link /\ q.local = "current" /\ q.ctrl /\ q.spk.state = "null"
          /\ q.session.ssrc = NoCall
  BY <1>3
<1>6. Steady(OnCreate(TRUE))
  BY <1>2, <1>4, <1>5 DEF Steady, Online
<1> QED BY <1>1, <1>6 DEF SteadyInv

-----------------------------------------------------------------------------
(* The levels of calls, where no user sets one that 16 bits cannot carry.  *)

LevelsFit == \A n \in Node : \A level \in AccountLevels[n] : level < LevelMod

CallsFit ==
  \A c \in Call :
    call[c] # NotBegun =>
      call[c].talker \in Node /\ call[c].level \in 0 .. LevelMod - 1

CalmInv == SteadyInv /\ CallsFit

LEMMA WireLevelKept ==
  ASSUME NEW l \in 0 .. LevelMod - 1
  PROVE  l % LevelMod = l
BY LevelModAssumption

(* Who is in a call has its level, and so has every START of it.           *)
LEMMA LevelOfCall ==
  ASSUME IInv, CallsFit
  PROVE  /\ \A n \in Node :
              LET s == phone[n].session
              IN  /\ s.ssrc \in Call \cup {NoCall}
                  /\ s.level \in Int /\ s.level >= -1
                  /\ s.ssrc = NoCall => s.level = -1
                  /\ s.ssrc # NoCall =>
                       /\ call[s.ssrc] # NotBegun
                       /\ s.level = call[s.ssrc].level
                       /\ s.level \in 0 .. LevelMod - 1
         /\ \A k \in Packets :
              /\ k.ssrc \in Call /\ call[k.ssrc] # NotBegun
              /\ k.type = "START" => k.level = call[k.ssrc].level
<1>1. NotBegun.talker = NoNode
  BY DEF NotBegun
<1>2. ASSUME NEW n \in Node
      PROVE  LET s == phone[n].session
             IN  /\ s.ssrc \in Call \cup {NoCall}
                 /\ s.level \in Int /\ s.level >= -1
                 /\ s.ssrc = NoCall => s.level = -1
                 /\ s.ssrc # NoCall =>
                      /\ call[s.ssrc] # NotBegun
                      /\ s.level = call[s.ssrc].level
                      /\ s.level \in 0 .. LevelMod - 1
  <2> DEFINE s == phone[n].session
  <2>1. /\ s \in Session /\ SessionFits(call, n, s)
        /\ s.ssrc \in Call \cup {NoCall} /\ s.level \in Int
    <3>1. phone[n] \in Phone /\ PhoneFits(call, n, phone[n])
      BY Given
    <3> QED BY <3>1, PhoneParts DEF PhoneFits, Session
  <2> HIDE DEF s
  <2>2. s.level >= -1 /\ (s.ssrc = NoCall => s.level = -1)
    BY <2>1 DEF SessionFits, INVALID_SESSION_LEVEL
  <2>3. ASSUME s.ssrc # NoCall
        PROVE  /\ call[s.ssrc] # NotBegun
               /\ s.level = call[s.ssrc].level
               /\ s.level \in 0 .. LevelMod - 1
    <3>1. /\ call[s.ssrc].talker # NoNode /\ s.ssrc \in Call
          /\ \/ s.level = call[s.ssrc].level
             \/ s.level = call[s.ssrc].level % LevelMod
      BY <2>1, <2>3 DEF SessionFits
    <3>2. call[s.ssrc] # NotBegun /\ call[s.ssrc].level \in 0 .. LevelMod - 1
      BY <1>1, <3>1 DEF CallsFit
    <3> QED BY <3>1, <3>2, WireLevelKept
  <2> QED BY <2>1, <2>2, <2>3 DEF s
<1>3. ASSUME NEW k \in Packets
      PROVE  /\ k.ssrc \in Call /\ call[k.ssrc] # NotBegun
             /\ k.type = "START" => k.level = call[k.ssrc].level
  <2>1. PacketFits(call, k)
    BY DEF IInv
  <2>2. k.ssrc \in Call /\ call[k.ssrc] # NotBegun
    BY <1>1, <2>1 DEF PacketFits
  <2> QED BY <2>1, <2>2, WireLevelKept DEF PacketFits, CallsFit
<1> QED BY <1>2, <1>3

(* What a step of phone n leaves of the others. *)
LEMMA CalmPhones ==
  ASSUME IInv, NEW n \in Node, NEW p, CalmStep(n, p)
  PROVE  /\ phone'[n] = p
         /\ \A m \in Node \ {n} : phone'[m] = phone[m]
BY DEF CalmStep, Become, IInv, TypeOK

LEMMA CalmInvNext ==
  ASSUME IInv, CalmInv, LevelsFit, NEW n \in Node, NEW p, CalmStep(n, p)
  PROVE  CalmInv'
<1>1. SteadyInv'
  BY CalmPhones DEF CalmInv, SteadyInv, CalmStep
<1>2. CASE call' = call
  BY <1>1, <1>2 DEF CalmInv, CallsFit
<1>3. CASE \E c \in Call, level \in AccountLevels[n] :
             BeginsACall(n, p, c, level)
  <2>1. PICK c \in Call, level \in AccountLevels[n] :
          BeginsACall(n, p, c, level)
    BY <1>3
  <2>2. /\ phone[n].session.level < level /\ level < LevelMod
        /\ call' = [call EXCEPT ![c] = [talker |-> n, level |-> level]]
        /\ call \in [Call -> CallRecord]
        /\ level \in Int
    BY <2>1, AccountLevelsAssumption
    DEF BeginsACall, BeginSession, LevelsFit, IInv, TypeOK
  <2>3. phone[n].session.level \in Int /\ phone[n].session.level >= -1
    BY LevelOfCall DEF CalmInv
  <2>4. level \in 0 .. LevelMod - 1
    BY <2>2, <2>3, LevelModAssumption
  <2>5. CallsFit'
    BY <2>2, <2>4 DEF CalmInv, CallsFit
  <2> QED BY <1>1, <2>5 DEF CalmInv
<1> QED BY <1>2, <1>3
        DEF CalmStep, Idles, Sends, Ignores, JoinsACall, HangsUp, IsReleased

LEMMA CalmInvInit ==
  ASSUME MayRepeat, Init
  PROVE  CalmInv
BY SteadyInit DEF Init, CalmInv, CallsFit

(* Packet k goes from phone r to its target d: its job has not run, or the *)
(* datagram is in flight.                                                  *)
OnWay(r, d, k) ==
  k \in phone[r].jobs \/ [packet |-> k, src |-> r, dst |-> d] \in net

(* It stays so until d reads it. *)
LEMMA OnWayStep ==
  ASSUME IInv, NEW n \in Node, NEW p, CalmStep(n, p),
         NEW r \in Node, NEW d \in Target[r], NEW k, OnWay(r, d, k)
  PROVE  \/ OnWay(r, d, k)'
         \/ /\ d = n
            /\ \E m \in net : /\ m.packet = k /\ m.src = r
                              /\ \/ Ignores(n, p, m)
                                 \/ JoinsACall(n, p, m)
                                 \/ IsReleased(n, p, m)
<1> DEFINE msg == [packet |-> k, src |-> r, dst |-> d]
<1>1. /\ phone'[n] = p
      /\ \A m \in Node \ {n} : phone'[m] = phone[m]
  BY CalmPhones
<1>2. CASE k \in phone[r].jobs
  <2>1. CASE k \in phone'[r].jobs
    BY <2>1 DEF OnWay
  <2>2. CASE k \notin phone'[r].jobs
    <3>1. r = n /\ Sends(n, p, k)
      BY <1>1, <1>2, <2>2
      DEF CalmStep, Idles, Sends, Ignores, BeginsACall, JoinsACall, HangsUp,
          IsReleased
    <3>2. msg \in net'
      BY <3>1 DEF Sends
    <3> QED BY <3>2 DEF OnWay
  <2> QED BY <2>1, <2>2
<1>3. CASE msg \in net
  <2>1. CASE msg \in net'
    BY <2>1 DEF OnWay
  <2>2. CASE msg \notin net'
    <3>1. \/ Ignores(n, p, msg) /\ msg.dst = n
          \/ JoinsACall(n, p, msg) /\ msg.dst = n
          \/ IsReleased(n, p, msg) /\ msg.dst = n
      BY <1>3, <2>2
      DEF CalmStep, Idles, Sends, Ignores, BeginsACall, JoinsACall, HangsUp,
          IsReleased
    <3> QED BY <1>3, <3>1
  <2> QED BY <2>1, <2>2
<1> QED BY <1>2, <1>3 DEF OnWay

-----------------------------------------------------------------------------
(* The highest level gets the floor.                                       *)

(* No call was begun at a higher level than c. *)
Top(c) ==
  /\ call[c] # NotBegun
  /\ \A x \in Call : call[x] # NotBegun => call[x].level <= call[c].level

(* A START of this level goes from r to d. *)
Called(r, d, level) ==
  \E k \in Packets : k.type = "START" /\ k.level = level /\ OnWay(r, d, k)

(* Phone r has passed this level on to its target d. *)
PassesOn(r, d, level) ==
  phone[r].session.level = level =>
    phone[d].session.level = level \/ Called(r, d, level)

PriorityInv ==
  /\ (\E c \in Call : call[c] # NotBegun) => \E c \in Call : Top(c)
  /\ \A c \in Call :
       Top(c) =>
         LET s == phone[call[c].talker].session
         IN  /\ s.ssrc = c /\ s.wide
             /\ \A l \in Int :
                  l = call[c].level =>
                    \A r \in Node : \A d \in Target[r] : PassesOn(r, d, l)

(* While nobody gives a call up, the phones of the highest level keep it.  *)
LEMMA TopStays ==
  ASSUME IInv, IInv', CallsFit, PriorityInv, releases' = 0,
         NEW n \in Node, NEW p, CalmStep(n, p), call' = call,
         NEW c \in Call, Top(c)
  PROVE  /\ phone[n].session.level = call[c].level =>
              p.session = phone[n].session
         /\ p.session.level <= call[c].level
<1> DEFINE s == phone[n].session
           l == call[c].level
<1>1. /\ s.ssrc \in Call \cup {NoCall} /\ s.level \in Int
      /\ s.ssrc = NoCall => s.level = -1
      /\ s.ssrc # NoCall => call[s.ssrc] # NotBegun /\ s.level = call[s.ssrc].level
      /\ l \in 0 .. LevelMod - 1
  BY LevelOfCall DEF CallsFit, Top
<1>2. s.level <= l
  BY <1>1, LevelModAssumption DEF Top
<1>3. CASE Kept(phone[n], p)
  BY <1>2, <1>3 DEF Kept
<1>4. CASE \E m \in net : JoinsACall(n, p, m)
  <2>1. PICK m \in net : JoinsACall(n, p, m)
    BY <1>4
  <2>2. m.packet \in Packets /\ m.packet.type = "START"
    BY <2>1 DEF Packets, JoinsACall
  <2>3. /\ m.packet.ssrc \in Call /\ call[m.packet.ssrc] # NotBegun
        /\ m.packet.level = call[m.packet.ssrc].level
    BY <2>2, LevelOfCall
  <2>4. m.packet.level <= l /\ m.packet.level \in Int
    BY <2>3 DEF Top, CallsFit
  <2>5. s.level < m.packet.level /\ p.session.level = m.packet.level
    BY <2>1 DEF JoinsACall, BeginSession, Begun
  <2> QED BY <1>1, <2>4, <2>5
<1>5. CASE HangsUp(n, p)
  BY <1>5, BoundsAssumption DEF HangsUp, IInv, TypeOK
<1>6. CASE \E m \in net : IsReleased(n, p, m)
  <2>1. PICK m \in net : IsReleased(n, p, m)
    BY <1>6
  <2>2. /\ m.packet \in Packets /\ m.packet.type = "STOP"
        /\ s.ssrc = m.packet.ssrc /\ ~s.wide /\ p.session.ssrc = NoCall
    BY <2>1 DEF Packets, IsReleased, SameSsrc
  <2>3. s.ssrc \in Call
    BY <2>2, LevelOfCall
  <2>4. p.session.level = -1
    <3>1. PhoneFits(call', n, p)
      BY CalmPhones DEF IInv
    <3> QED BY <2>2, <3>1 DEF PhoneFits, SessionFits, INVALID_SESSION_LEVEL
  <2>5. ASSUME s.level = l PROVE FALSE
    <3> DEFINE x == s.ssrc
               t == call[x].talker
    <3>1. Top(x) /\ t \in Node
      BY <1>1, <2>3, <2>5, NoCallAssumption DEF Top, CallsFit
    <3>2. phone[t].session.ssrc = x /\ phone[t].session.wide
      BY <2>3, <3>1 DEF PriorityInv
    <3>3. PhoneFits(call, t, phone[t]) /\ NotTalking(phone[t], m.packet)
      BY <2>2, <3>1, Given
    <3> QED BY <2>2, <3>2, <3>3 DEF NotTalking, PhoneFits
  <2> QED BY <1>1, <2>4, <2>5
<1>7. ~\E x \in Call, level \in AccountLevels[n] : BeginsACall(n, p, x, level)
  <2>1. SUFFICES ASSUME NEW x \in Call, NEW level \in AccountLevels[n],
                        BeginsACall(n, p, x, level)
                 PROVE  FALSE
    OBVIOUS
  <2>2. call \in [Call -> CallRecord]
    BY DEF IInv, TypeOK
  <2>3. call'[x] = [talker |-> n, level |-> level] /\ call[x] = NotBegun
    BY <2>1, <2>2 DEF BeginsACall
  <2> QED BY <2>3, NoNodeAssumption DEF NotBegun
<1> QED BY <1>3, <1>4, <1>5, <1>6, <1>7
        DEF CalmStep, Idles, Sends, Ignores

(* A step that begins no call. *)
LEMMA PriorityKept ==
  ASSUME IInv, IInv', CallsFit, PriorityInv, releases' = 0,
         NEW n \in Node, NEW p, CalmStep(n, p), call' = call
  PROVE  PriorityInv'
<1>1. /\ phone'[n] = p
      /\ \A m \in Node \ {n} : phone'[m] = phone[m]
  BY CalmPhones
<1>2. \A c \in Call : Top(c)' <=> Top(c)
  BY DEF Top
<1>3. (\E c \in Call : call'[c] # NotBegun) => \E c \in Call : Top(c)'
  BY <1>2 DEF PriorityInv
<1>4. ASSUME NEW c \in Call, Top(c), NEW l \in Int, l = call[c].level
      PROVE  LET s == phone'[call'[c].talker].session
             IN  /\ s.ssrc = c /\ s.wide
                 /\ \A r \in Node : \A d \in Target[r] : PassesOn(r, d, l)'
  <2> DEFINE t == call[c].talker
  <2>1. /\ phone[t].session.ssrc = c /\ phone[t].session.wide
        /\ \A r \in Node : \A d \in Target[r] : PassesOn(r, d, l)
        /\ t \in Node /\ l \in 0 .. LevelMod - 1
    BY <1>4 DEF PriorityInv, Top, CallsFit
  <2>2. /\ phone[n].session.level = l => p.session = phone[n].session
        /\ p.session.level <= l
    BY <1>4, TopStays
  <2>3. \A m \in Node :
          phone[m].session.level = l => phone'[m].session = phone[m].session
    BY <1>1, <2>2
  <2>4. phone[t].session.level = l
    BY <1>4, <2>1, LevelOfCall, NoCallAssumption
  <2>5. phone'[t].session = phone[t].session
    BY <2>1, <2>3, <2>4
  <2>6. ASSUME NEW r \in Node, NEW d \in Target[r],
               phone'[r].session.level = l, phone'[d].session.level # l
        PROVE  Called(r, d, l)'
    <3>0. d \in Node
      BY TargetAssumption
    <3>1. CASE phone[r].session.level = l
      <4>1. Called(r, d, l)
        BY <2>1, <2>3, <2>6, <3>0, <3>1 DEF PassesOn
      <4>2. PICK k \in Packets :
              k.type = "START" /\ k.level = l /\ OnWay(r, d, k)
        BY <4>1 DEF Called
      <4>3. CASE OnWay(r, d, k)'
        <5>1. k \in Packets'
          BY <3>0, <4>3 DEF OnWay, Packets
        <5> QED BY <4>2, <4>3, <5>1 DEF Called
      <4>4. CASE ~OnWay(r, d, k)'
        <5>1. PICK m \in net :
                /\ m.packet = k /\ d = n
                /\ \/ Ignores(n, p, m)
                   \/ JoinsACall(n, p, m)
                   \/ IsReleased(n, p, m)
          BY <4>2, <4>4, OnWayStep
        <5>2. CASE Ignores(n, p, m)
          <6>1. ~(phone[n].session.level < l) /\ p.session = phone[n].session
            BY <4>2, <5>1, <5>2 DEF Ignores, BeginSession, Kept
          <6>2. phone[n].session.level \in Int
            BY LevelOfCall
          <6> QED BY <1>1, <2>1, <2>2, <2>6, <5>1, <6>1, <6>2
        <5>3. CASE JoinsACall(n, p, m)
          BY <1>1, <2>6, <4>2, <5>1, <5>3 DEF JoinsACall, Begun
        <5>4. CASE IsReleased(n, p, m)
          BY <4>2, <5>1, <5>4 DEF IsReleased
        <5> QED BY <5>1, <5>2, <5>3, <5>4
      <4> QED BY <4>3, <4>4
    <3>2. CASE phone[r].session.level # l
      <4>1. r = n /\ p.session.level = l /\ p.session # phone[n].session
        BY <1>1, <2>6, <3>2
      <4>2. p.session.ssrc # NoCall
        <5>1. PhoneFits(call', n, p)
          BY <1>1 DEF IInv
        <5> QED BY <2>1, <4>1, <5>1
                DEF PhoneFits, SessionFits, INVALID_SESSION_LEVEL
      <4>3. ~\E x \in Call, level \in AccountLevels[n] :
               BeginsACall(n, p, x, level)
        BY NoNodeAssumption DEF BeginsACall, NotBegun, IInv, TypeOK
      <4>4. PICK m \in net : JoinsACall(n, p, m)
        BY <4>1, <4>2, <4>3
        DEF CalmStep, Idles, Sends, Ignores, HangsUp, IsReleased, Kept
      <4>5. /\ m.packet \in phone'[n].jobs
            /\ m.packet.type = "START" /\ m.packet.level = l
        BY <1>1, <4>1, <4>4 DEF JoinsACall, Begun
      <4>6. m.packet \in Packets'
        BY <4>5 DEF Packets
      <4> QED BY <4>1, <4>5, <4>6 DEF Called, OnWay
    <3> QED BY <3>1, <3>2
  <2>7. \A r \in Node : \A d \in Target[r] : PassesOn(r, d, l)'
    BY <2>6 DEF PassesOn
  <2> QED BY <2>1, <2>5, <2>7
<1>5. \A c \in Call : Top(c) => call[c].level \in Int
  BY DEF Top, CallsFit
<1> QED BY <1>2, <1>3, <1>4, <1>5 DEF PriorityInv

(* A phone begins a call: of the highest level, or of a lower one that     *)
(* does not matter.                                                        *)
LEMMA PriorityBegun ==
  ASSUME IInv, IInv', CallsFit, CallsFit', PriorityInv,
         NEW n \in Node, NEW p, CalmStep(n, p),
         NEW c0 \in Call, NEW l0 \in AccountLevels[n],
         BeginsACall(n, p, c0, l0)
  PROVE  PriorityInv'
<1>1. /\ phone'[n] = p
      /\ \A m \in Node \ {n} : phone'[m] = phone[m]
  BY CalmPhones
<1>2. /\ call' = [call EXCEPT ![c0] = [talker |-> n, level |-> l0]]
      /\ call[c0] = NotBegun /\ phone[n].session.level < l0
      /\ p.session.ssrc = c0 /\ p.session.level = l0 /\ p.session.wide
      /\ net' = net
      /\ phone[n].jobs \subseteq p.jobs /\ StartOf(c0, l0) \in p.jobs
  BY DEF BeginsACall, BeginSession, Begun
<1>3. /\ call'[c0].talker = n /\ call'[c0].level = l0
      /\ call'[c0] # NotBegun
      /\ \A x \in Call \ {c0} : call'[x] = call[x]
  BY <1>2, NoNodeAssumption DEF IInv, TypeOK, NotBegun
<1>4. l0 \in 0 .. LevelMod - 1 /\ l0 % LevelMod = l0
  BY <1>3, WireLevelKept DEF CallsFit
<1>5. phone[n].session.level \in Int
  BY LevelOfCall
<1>6. \A r \in Node : \A d, k : OnWay(r, d, k) => OnWay(r, d, k)'
  BY <1>1, <1>2 DEF OnWay
<1>7. \E c \in Call : Top(c)'
  <2>1. CASE \A c \in Call : call[c] = NotBegun
    BY <1>3, <1>4, <2>1 DEF Top
  <2>2. CASE \E c \in Call : call[c] # NotBegun
    <3>1. PICK c \in Call : Top(c)
      BY <2>2 DEF PriorityInv
    <3>2. call'[c] = call[c] /\ call[c].level \in Int
      BY <1>2, <1>3, <3>1 DEF Top, CallsFit
    <3>3. \A x \in Call : call[x] # NotBegun => call[x].level \in Int
      BY DEF CallsFit
    <3>4. CASE l0 <= call[c].level
      BY <1>3, <3>1, <3>2, <3>4 DEF Top
    <3>5. CASE ~(l0 <= call[c].level)
      BY <1>3, <1>4, <3>1, <3>2, <3>3, <3>5 DEF Top
    <3> QED BY <3>4, <3>5
  <2> QED BY <2>1, <2>2
<1>8. ASSUME NEW c \in Call, Top(c)', NEW l \in Int, l = call'[c].level
      PROVE  LET s == phone'[call'[c].talker].session
             IN  /\ s.ssrc = c /\ s.wide
                 /\ \A r \in Node : \A d \in Target[r] : PassesOn(r, d, l)'
  <2> DEFINE t == call'[c].talker
  <2>1. l0 <= l /\ l \in 0 .. LevelMod - 1
    BY <1>3, <1>8 DEF Top, CallsFit
  <2>2. phone[n].session.level # l
    BY <1>2, <1>4, <1>5, <2>1
  <2>3. \A x \in Call \ {c0} :
          call[x] # NotBegun /\ call[x].level = l => Top(x)
    BY <1>2, <1>3, <1>8 DEF Top
  <2>4. phone'[t].session.ssrc = c /\ phone'[t].session.wide
    <3>1. CASE c = c0
      BY <1>1, <1>2, <1>3, <3>1
    <3>2. CASE c # c0
      <4>1. Top(c) /\ t = call[c].talker /\ l = call[c].level
        BY <1>3, <1>8, <2>3, <3>2 DEF Top
      <4>2. /\ t \in Node /\ phone[t].session.ssrc = c
            /\ phone[t].session.wide
        BY <4>1 DEF PriorityInv, Top, CallsFit
      <4>3. t # n
        BY <2>2, <4>1, <4>2, LevelOfCall, NoCallAssumption
      <4> QED BY <1>1, <4>2, <4>3
    <3> QED BY <3>1, <3>2
  <2>5. ASSUME NEW r \in Node, NEW d \in Target[r],
               phone'[r].session.level = l, phone'[d].session.level # l
        PROVE  Called(r, d, l)'
    <3>0. d \in Node
      BY TargetAssumption
    <3>1. CASE r = n
      <4> DEFINE k == StartOf(c0, l0)
      <4>1. /\ k \in phone'[n].jobs /\ k.type = "START" /\ k.level = l
        BY <1>1, <1>2, <1>4, <2>5, <3>1 DEF StartOf
      <4>2. k \in Packets'
        BY <4>1 DEF Packets
      <4> QED BY <3>1, <4>1, <4>2 DEF Called, OnWay
    <3>2. CASE r # n
      <4> DEFINE x == phone[r].session.ssrc
      <4>1. phone[r].session.level = l
        BY <1>1, <2>5, <3>2
      <4>2. x \in Call /\ call[x] # NotBegun /\ call[x].level = l
        BY <2>1, <4>1, LevelOfCall
      <4>3. Top(x)
        BY <1>2, <2>3, <4>2
      <4>4. PassesOn(r, d, l)
        BY <4>2, <4>3 DEF PriorityInv
      <4>5. phone[d].session.level # l
        BY <1>1, <2>2, <2>5, <3>0
      <4>6. PICK k \in Packets :
              k.type = "START" /\ k.level = l /\ OnWay(r, d, k)
        BY <4>1, <4>4, <4>5 DEF PassesOn, Called
      <4>7. OnWay(r, d, k)'
        BY <1>6, <4>6
      <4>8. k \in Packets'
        BY <3>0, <4>7 DEF OnWay, Packets
      <4> QED BY <4>6, <4>7, <4>8 DEF Called
    <3> QED BY <3>1, <3>2
  <2>6. \A r \in Node : \A d \in Target[r] : PassesOn(r, d, l)'
    BY <2>5 DEF PassesOn
  <2> QED BY <2>4, <2>6
<1>9. \A c \in Call : Top(c)' => call'[c].level \in Int
  BY DEF Top, CallsFit
<1> QED BY <1>7, <1>8, <1>9 DEF PriorityInv

LEMMA PriorityInit == Init => PriorityInv
BY DEF Init, PriorityInv, Top

(* A release is never taken back.                                          *)
LEMMA ReleasesCount ==
  ASSUME IInv, [Next]_vars, releases' = 0
  PROVE  releases = 0
<1>1. releases \in Nat
  BY BoundsAssumption DEF IInv, TypeOK
<1>2. releases' \in {releases, releases + 1}
  BY DEF vars, Next, UserNext, PressToTalk, Release, NetworkNext, RunJob, Lose,
         ReceiveStart, RefuseStart, ReceiveStop, Repeat, PhoneNext, FirstAudio,
         AudioTimeout, SilenceTimeout, RelayerFails, LinkChanges,
         AddressChanges, ConnectivityAction, Destroy, Kill
<1> QED BY <1>1, <1>2

(* As long as there has been none.                                         *)
UnreleasedInv == releases = 0 => PriorityInv

LEMMA PriorityNext ==
  ASSUME MayRepeat, LevelsFit
  PROVE  IInv /\ CalmInv /\ UnreleasedInv /\ [Next]_vars
           => CalmInv' /\ UnreleasedInv'
<1> SUFFICES ASSUME IInv, CalmInv, UnreleasedInv, [Next]_vars
             PROVE  CalmInv' /\ UnreleasedInv'
  OBVIOUS
<1>0. releases' = 0 => PriorityInv
  BY ReleasesCount DEF UnreleasedInv
<1>1. CASE Next
  <2>0. PICK n \in Node : \E p : CalmStep(n, p)
    BY <1>1, CalmNext DEF CalmInv
  <2>1. PICK p : CalmStep(n, p)
    BY <2>0
  <2>2. CalmInv' /\ IInv'
    BY <2>1, CalmInvNext, NextStep
  <2>3. ASSUME releases' = 0, call' = call PROVE PriorityInv'
    BY <1>0, <2>1, <2>2, <2>3, PriorityKept DEF CalmInv
  <2>4. ASSUME releases' = 0,
               \E c \in Call, level \in AccountLevels[n] :
                 BeginsACall(n, p, c, level)
        PROVE  PriorityInv'
    BY <1>0, <2>1, <2>2, <2>4, PriorityBegun DEF CalmInv
  <2>5. \/ call' = call
        \/ \E c \in Call, level \in AccountLevels[n] :
             BeginsACall(n, p, c, level)
    BY <2>1
    DEF CalmStep, Idles, Sends, Ignores, JoinsACall, HangsUp, IsReleased
  <2> QED BY <2>2, <2>3, <2>4, <2>5 DEF UnreleasedInv
<1>2. CASE UNCHANGED vars
  <2>1. CalmInv'
    BY <1>2 DEF vars, CalmInv, SteadyInv, CallsFit
  <2>2. phone' = phone /\ net' = net /\ call' = call
    BY <1>2 DEF vars
  <2>3. \A c \in Call : Top(c)' <=> Top(c)
    BY <2>2 DEF Top
  <2>4. \A r, d, level : PassesOn(r, d, level)' <=> PassesOn(r, d, level)
    BY <2>2 DEF PassesOn, Called, OnWay, Packets
  <2>5. PriorityInv => PriorityInv'
    BY <2>2, <2>3, <2>4 DEF PriorityInv
  <2> QED BY <1>0, <2>1, <2>5 DEF UnreleasedInv
<1> QED BY <1>1, <1>2

(* Every phone reaches every other one over targets.                       *)
Connected ==
  \A S \in SUBSET Node :
    S # {} /\ (\A n \in S : Target[n] \subseteq S) => S = Node

LEMMA PriorityConclusion ==
  ASSUME Connected
  PROVE  IInv /\ CalmInv /\ UnreleasedInv => PriorityWins
<1> SUFFICES ASSUME IInv, CalmInv, PriorityInv, Quiet,
                    NEW c \in Call, NEW n \in Node, call[c] # NotBegun
             PROVE  phone[n].session.level >= call[c].level
  BY DEF PriorityWins, UnreleasedInv
<1>1. PICK top \in Call : Top(top)
  BY DEF PriorityInv
<1> DEFINE l == call[top].level
           t == call[top].talker
           S == {m \in Node : phone[m].session.level = l}
<1>2. /\ t \in Node /\ l \in Int /\ phone[t].session.ssrc = top
      /\ \A r \in Node : \A d \in Target[r] : PassesOn(r, d, l)
  BY <1>1 DEF PriorityInv, CalmInv, CallsFit, Top
<1>3. t \in S
  BY <1>2, LevelOfCall, NoCallAssumption DEF CalmInv
<1>4. \A r \in Node : \A d, k : ~OnWay(r, d, k)
  BY DEF Quiet, OnWay
<1>5. \A m \in S : Target[m] \subseteq S
  BY <1>2, <1>4, TargetAssumption DEF PassesOn, Called
<1>6. S = Node
  BY <1>3, <1>5 DEF Connected
<1>7. phone[n].session.level = l
  BY <1>6
<1>8. call[c].level <= l
  BY <1>1 DEF Top
<1>9. call[c].level \in Int
  BY DEF CalmInv, CallsFit
<1> QED BY <1>2, <1>7, <1>8, <1>9

(* When no packet is lost, but packets may arrive twice and in any order,  *)
(* and until somebody gives a call up, the highest level begun wins on     *)
(* every phone once the floods have died out: no order in which presses,   *)
(* jobs and datagrams meet leaves a phone behind, as long as the targets   *)
(* connect the phones and no level exceeds 16 bits.                        *)
THEOREM PriorityWinsHolds ==
  ASSUME MayRepeat, LevelsFit, Connected
  PROVE  Spec => []PriorityWins
<1>1. Init => CalmInv /\ UnreleasedInv
  BY CalmInvInit, PriorityInit DEF UnreleasedInv
<1>2. IInv /\ (CalmInv /\ UnreleasedInv) /\ [Next]_vars
        => (CalmInv /\ UnreleasedInv)'
  BY PriorityNext
<1>3. IInv /\ CalmInv /\ UnreleasedInv => PriorityWins
  BY PriorityConclusion
<1> QED BY <1>1, <1>2, <1>3, Invariance, PTL DEF Spec

-----------------------------------------------------------------------------
(* A release reaches all.                                                  *)

(* What will take d, a listener of call c, out of it comes from r.         *)
Relieved(r, d, c) ==
  \E k \in Packets :
    /\ OnWay(r, d, k)
    /\ \/ k.type = "STOP" /\ k.ssrc = c
       \/ k.type = "START" /\ k.level > phone[d].session.level

(* Whom a listener hears is in the call, or has told it why not.           *)
Led(c) ==
  \A d \in Listeners(c) :
    /\ phone[d].spk.remote \in Node
    /\ \A r \in Node :
         r = phone[d].spk.remote =>
           /\ d \in Target[r]
           /\ phone[r].session.ssrc = c \/ Relieved(r, d, c)

NoCircle(c) ==
  \A circle \in SUBSET Listeners(c) :
    circle # {} => \E n \in circle : phone[n].spk.remote \notin circle

(* Once someone has left the call nobody joins it any more. *)
LeftInv ==
  \A c \in left \ torn :
    /\ c \in Call /\ call[c] # NotBegun
    /\ ~UnderWay("START", c)
    /\ Led(c) /\ NoCircle(c)

(* What a call has been before it is left, or since. *)
LEMMA LedBefore ==
  ASSUME TreeInv, LeftInv, NEW c \in Call, c \notin torn
  PROVE  Led(c) /\ NoCircle(c)
<1>1. CASE c \in left
  BY <1>1 DEF LeftInv
<1>2. CASE c \notin left
  <2>1. NoCircle(c)
    BY <1>2 DEF TreeInv, RelayTree, NoCircle
  <2>2. Led(c)
    BY <1>2 DEF TreeInv, RelayTree, Led, Listeners
  <2> QED BY <2>1, <2>2
<1> QED BY <1>1, <1>2

(* A START of a call that was left is not under way after the step either, *)
(* unless it was when the call was left.                                   *)
LEMMA NoStartStep ==
  ASSUME IInv, CalmInv, LeftInv, NEW n \in Node, NEW p, CalmStep(n, p),
         NEW c \in left' \ torn'
  PROVE  /\ c \in Call /\ c \notin torn
         /\ call[c] # NotBegun /\ call'[c] = call[c]
         /\ ~UnderWay("START", c)'
<1> DEFINE old == phone[n]
           gone == {old.session.ssrc} \ {p.session.ssrc, NoCall}
<1>1. /\ phone'[n] = p
      /\ \A m \in Node \ {n} : phone'[m] = phone[m]
  BY CalmPhones
<1>2. /\ left' = left \cup gone
      /\ torn' = torn \cup {x \in gone : UnderWay("START", x)}
  BY DEF CalmStep, Become
<1>3. c \in Call /\ call[c] # NotBegun /\ ~UnderWay("START", c) /\ c \notin torn
  <2>1. CASE c \in left
    BY <1>2, <2>1 DEF LeftInv
  <2>2. CASE c \in gone
    BY <1>2, <2>2, LevelOfCall DEF CalmInv
  <2> QED BY <1>2, <2>1, <2>2
<1>4. call'[c] = call[c]
  BY <1>3 DEF CalmStep, Idles, Sends, Ignores, JoinsACall, HangsUp, IsReleased,
              BeginsACall, IInv, TypeOK
<1>5. \A k \in Packets : k.type = "START" => k.ssrc # c
  BY <1>3 DEF UnderWay, Packets
<1>6. \A k \in Packets' : k.type = "START" => k.ssrc # c
  <2>1. \A k \in p.jobs :
          k.type = "START" => k \in Packets \/ k.ssrc # c
    <3>1. \A k \in Stops(old) : k.type = "STOP"
      BY StopIsNoStart DEF Stops
    <3>2. \A x \in Call : \A level : call[x] = NotBegun => StartOf(x, level).ssrc # c
      BY <1>3 DEF StartOf
    <3>3. old.jobs \subseteq Packets /\ \A m \in net : m.packet \in Packets
      BY DEF Packets
    <3>4. CASE \E x \in Call, level \in AccountLevels[n] :
                 BeginsACall(n, p, x, level)
      BY <3>1, <3>2, <3>3, <3>4 DEF BeginsACall
    <3>5. CASE p.jobs \subseteq Packets \cup Stops(old)
      BY <3>1, <3>5
    <3> QED BY <3>3, <3>4, <3>5
            DEF CalmStep, Idles, Sends, Ignores, JoinsACall, HangsUp,
                IsReleased
  <2>2. \A m \in net' : m \in net \/ m.packet \in old.jobs
    BY DEF CalmStep, Idles, Sends, Ignores, JoinsACall, HangsUp,
           IsReleased, BeginsACall
  <2>3. \A k \in Packets' : k \in Packets \/ k \in p.jobs
    BY <1>1, <2>2 DEF Packets
  <2> QED BY <1>5, <2>1, <2>3
<1>7. ~UnderWay("START", c)'
  BY <1>6 DEF UnderWay, Packets
<1> QED BY <1>3, <1>4, <1>7

LEMMA LedStep ==
  ASSUME IInv, IInv', CalmInv, CalmInv', TreeInv, LeftInv,
         NEW n \in Node, NEW p, CalmStep(n, p), NEW c \in left' \ torn'
  PROVE  Led(c)' /\ NoCircle(c)'
<1> DEFINE old == phone[n]
<1>1. /\ phone'[n] = p
      /\ \A m \in Node \ {n} : phone'[m] = phone[m]
  BY CalmPhones
<1>2. /\ c \in Call /\ c \notin torn /\ c # NoCall
      /\ call[c] # NotBegun /\ call'[c] = call[c]
      /\ ~UnderWay("START", c)'
  BY NoStartStep, NoCallAssumption
<1>3. Led(c) /\ NoCircle(c)
  BY <1>2, LedBefore
<1>4. ASSUME NEW d \in Listeners(c)'
      PROVE  /\ d \in Listeners(c) /\ d \in Node
             /\ phone'[d].session = phone[d].session
             /\ phone'[d].spk.remote = phone[d].spk.remote
             /\ d = n => Kept(old, p)
  <2>1. /\ d \in Node /\ phone'[d].spk.state = "running"
        /\ phone'[d].session.ssrc = c
    BY DEF Listeners
  <2>2. CASE d # n
    BY <1>1, <2>1, <2>2 DEF Listeners
  <2>3. CASE d = n
    <3>1. ASSUME NEW m \in net, JoinsACall(n, p, m) PROVE FALSE
      <4>1. /\ m.packet \in phone'[n].jobs /\ m.packet.type = "START"
            /\ m.packet.ssrc = c
        BY <1>1, <2>1, <2>3, <3>1 DEF JoinsACall, Begun
      <4> QED BY <1>2, <4>1 DEF UnderWay
    <3>2. Kept(old, p)
      BY <1>1, <2>1, <2>3, <3>1
      DEF CalmStep, Idles, Sends, Ignores, BeginsACall, HangsUp, IsReleased
    <3> QED BY <1>1, <2>1, <2>3, <3>2 DEF Kept, Listeners
  <2> QED BY <2>2, <2>3
<1>5. NoCircle(c)'
  <2> SUFFICES ASSUME NEW circle \in SUBSET Listeners(c)', circle # {}
               PROVE  \E m \in circle : phone'[m].spk.remote \notin circle
    BY DEF NoCircle
  <2>1. circle \in SUBSET Listeners(c)
    BY <1>4
  <2>2. PICK m \in circle : phone[m].spk.remote \notin circle
    BY <1>3, <2>1 DEF NoCircle
  <2> QED BY <1>4, <2>2
<1>6. ASSUME NEW d \in Listeners(c)', NEW r, r = phone'[d].spk.remote
      PROVE  /\ r \in Node /\ d \in Target[r]
             /\ phone'[r].session.ssrc = c \/ Relieved(r, d, c)'
  <2>1. /\ d \in Listeners(c) /\ d \in Node
        /\ phone'[d].session = phone[d].session
        /\ phone'[d].spk.remote = r
        /\ d = n => Kept(old, p)
        /\ r \in Node /\ d \in Target[r]
        /\ phone[r].session.ssrc = c \/ Relieved(r, d, c)
    BY <1>3, <1>4, <1>6 DEF Led
  <2>2. /\ phone[d].session.ssrc = c /\ ~phone[d].session.wide
        /\ phone'[d].spk.state = "running"
    <3>1. PhoneFits(call, d, phone[d]) /\ phone[d].session \in Session
      BY <2>1, Given, PhoneParts
    <3> QED BY <2>1, <3>1 DEF Listeners, PhoneFits
  <2>3. ASSUME NEW k, k \in phone'[n].jobs, r = n,
               \/ k.type = "STOP" /\ k.ssrc = c
               \/ k.type = "START" /\ k.level > phone[d].session.level
        PROVE  Relieved(r, d, c)'
    <3>1. k \in Packets'
      BY <2>3 DEF Packets
    <3> QED BY <2>1, <2>3, <3>1 DEF Relieved, OnWay
  <2>4. CASE phone[r].session.ssrc = c /\ phone'[r].session.ssrc # c
    <3> SUFFICES Relieved(r, d, c)'
      BY <2>1
    <3>1. r = n /\ ~Kept(old, p)
      BY <1>1, <2>1, <2>4 DEF Kept
    <3>2. old.session.level = phone[d].session.level /\ old.session.ssrc = c
      BY <1>2, <2>1, <2>2, <2>4, <3>1, LevelOfCall DEF CalmInv
    <3>3. CASE \E x \in Call, level \in AccountLevels[n] :
                 BeginsACall(n, p, x, level)
      <4>1. PICK x \in Call, level \in AccountLevels[n] :
              BeginsACall(n, p, x, level)
        BY <3>3
      <4>2. /\ StartOf(x, level) \in phone'[n].jobs
            /\ call'[x].level = level /\ call'[x] # NotBegun
            /\ old.session.level < level
        BY <1>1, <4>1, NoNodeAssumption
        DEF BeginsACall, BeginSession, IInv, TypeOK, NotBegun
      <4>3. level % LevelMod = level
        BY <4>2, WireLevelKept DEF CalmInv, CallsFit
      <4>4. /\ StartOf(x, level).type = "START"
            /\ StartOf(x, level).level = level
        BY <4>3 DEF StartOf
      <4>5. old.session.level \in Int /\ level \in Int
        BY LevelOfCall, AccountLevelsAssumption DEF CalmInv
      <4> QED BY <2>3, <3>1, <3>2, <4>2, <4>4, <4>5
    <3>4. CASE \E m \in net : JoinsACall(n, p, m)
      <4>1. PICK m \in net : JoinsACall(n, p, m)
        BY <3>4
      <4>2. /\ m.packet \in phone'[n].jobs /\ m.packet.type = "START"
            /\ m.packet.level > old.session.level
        BY <1>1, <4>1 DEF JoinsACall, BeginSession
      <4> QED BY <2>3, <3>1, <3>2, <4>2
    <3>5. CASE HangsUp(n, p)
      <4> DEFINE stop == CtrlPacketStop(old.session)
      <4>1. stop \in phone'[n].jobs
        BY <1>1, <3>5 DEF HangsUp, Stops
      <4>2. stop.type = "STOP" /\ stop.ssrc = c
        BY <3>2 DEF CtrlPacketStop
      <4> QED BY <2>3, <3>1, <4>1, <4>2
    <3>6. CASE \E m \in net : IsReleased(n, p, m)
      <4>1. PICK m \in net : IsReleased(n, p, m)
        BY <3>6
      <4>2. /\ m.packet \in phone'[n].jobs /\ m.packet.type = "STOP"
            /\ m.packet.ssrc = c
        BY <1>1, <3>2, <4>1 DEF IsReleased, SameSsrc
      <4> QED BY <2>3, <3>1, <4>2
    <3> QED
      BY <3>1, <3>3, <3>4, <3>5, <3>6 DEF CalmStep, Idles, Sends, Ignores
  <2>5. CASE Relieved(r, d, c)
    <3>1. PICK k \in Packets :
            /\ OnWay(r, d, k)
            /\ \/ k.type = "STOP" /\ k.ssrc = c
               \/ k.type = "START" /\ k.level > phone[d].session.level
      BY <2>5 DEF Relieved
    <3>2. OnWay(r, d, k)'
      <4>1. SUFFICES ASSUME ~OnWay(r, d, k)' PROVE FALSE
        OBVIOUS
      <4>2. PICK m \in net :
              /\ m.packet = k /\ d = n
              /\ \/ Ignores(n, p, m)
                 \/ JoinsACall(n, p, m)
                 \/ IsReleased(n, p, m)
        BY <2>1, <3>1, <4>1, OnWayStep
      <4>3. ~Ignores(n, p, m)
        BY <2>2, <3>1, <4>2 DEF Ignores, BeginSession, SameSsrc
      <4>4. ~IsReleased(n, p, m)
        BY <1>1, <2>2, <4>2 DEF IsReleased
      <4>5. ~JoinsACall(n, p, m)
        <5>1. phone[n].session.level \in Int
          BY LevelOfCall DEF CalmInv
        <5> QED BY <2>1, <4>2, <5>1 DEF JoinsACall, BeginSession, Begun, Kept
      <4> QED BY <4>2, <4>3, <4>4, <4>5
    <3>3. k \in Packets'
      BY <2>1, <3>2 DEF OnWay, Packets
    <3>4. Relieved(r, d, c)'
      BY <2>1, <3>1, <3>2, <3>3 DEF Relieved
    <3> QED BY <2>1, <3>4
  <2>6. CASE phone'[r].session.ssrc = c
    BY <2>1, <2>6
  <2> QED BY <2>1, <2>4, <2>5, <2>6
<1>7. Led(c)'
  BY <1>6 DEF Led
<1> QED BY <1>5, <1>7

LEMMA LeftInit == Init => LeftInv
BY DEF Init, LeftInv

LEMMA LeftNext ==
  ASSUME MayRepeat, LevelsFit
  PROVE  IInv /\ TreeInv /\ CalmInv /\ LeftInv /\ [Next]_vars
           => CalmInv' /\ LeftInv'
<1> SUFFICES ASSUME IInv, TreeInv, CalmInv, LeftInv, [Next]_vars
             PROVE  CalmInv' /\ LeftInv'
  OBVIOUS
<1>1. CASE Next
  <2>0. PICK n \in Node : \E p : CalmStep(n, p)
    BY <1>1, CalmNext DEF CalmInv
  <2>1. PICK p : CalmStep(n, p)
    BY <2>0
  <2>2. CalmInv' /\ IInv'
    BY <2>1, CalmInvNext, NextStep
  <2>3. LeftInv'
    BY <2>1, <2>2, NoStartStep, LedStep DEF LeftInv
  <2> QED BY <2>2, <2>3
<1>2. CASE UNCHANGED vars
  <2>1. /\ \A c : Listeners(c)' = Listeners(c)
        /\ \A c : UnderWay("START", c)' <=> UnderWay("START", c)
        /\ \A r, d, k : OnWay(r, d, k)' <=> OnWay(r, d, k)
        /\ Packets' = Packets
    BY <1>2 DEF vars, Listeners, UnderWay, OnWay, Packets
  <2>2. \A r, d, c : Relieved(r, d, c) => Relieved(r, d, c)'
    BY <1>2, <2>1 DEF vars, Relieved
  <2>3. \A c : (Led(c) => Led(c)') /\ (NoCircle(c) => NoCircle(c)')
    BY <1>2, <2>1, <2>2 DEF vars, Led, NoCircle
  <2>4. LeftInv'
    BY <1>2, <2>1, <2>3 DEF vars, LeftInv
  <2> QED BY <1>2, <2>4 DEF vars, CalmInv, SteadyInv, CallsFit
<1> QED BY <1>1, <1>2

LEMMA LeftConclusion == IInv /\ CalmInv /\ LeftInv => ReleaseReachesAll
<1> SUFFICES ASSUME IInv, CalmInv, LeftInv, Quiet, NEW c \in left \ torn,
                    phone[call[c].talker].session.ssrc # c,
                    NEW n \in Node, phone[n].session.ssrc = c
             PROVE  FALSE
  BY DEF ReleaseReachesAll
<1> DEFINE S == Listeners(c)
<1>1. c \in Call /\ c # NoCall /\ Led(c) /\ NoCircle(c)
  BY NoCallAssumption DEF LeftInv
<1>2. \A m \in Node : phone[m].session.ssrc = c => m \in S
  <2> SUFFICES ASSUME NEW m \in Node, phone[m].session.ssrc = c
               PROVE  m \in S
    OBVIOUS
  <2>1. PhoneFits(call, m, phone[m]) /\ Steady(phone[m])
    BY Given DEF CalmInv, SteadyInv
  <2>2. phone[m].mic.state = "null"
    BY <1>1, <2>1 DEF PhoneFits, SessionFits
  <2> QED BY <1>1, <2>1, <2>2 DEF Steady, Listeners
<1>3. \A d \in S : phone[d].spk.remote \in S
  <2>1. \A r \in Node : \A d : ~Relieved(r, d, c)
    BY DEF Quiet, Relieved, OnWay
  <2> QED BY <1>1, <1>2, <2>1 DEF Led
<1>4. n \in S
  BY <1>2
<1> QED BY <1>1, <1>3, <1>4 DEF NoCircle

(* When no packet is lost, though some may arrive twice, a call that is    *)
(* given up after its START has settled is over on every phone once the    *)
(* STOPs have died out, whoever else begins or gives up calls meanwhile    *)
(* and over whatever targets: each listener hears a phone that is still in *)
(* the call, or from which a STOP of it or a START of a higher level is on *)
(* its way.                                                                *)
THEOREM ReleaseReachesAllHolds ==
  ASSUME MayRepeat, LevelsFit
  PROVE  Spec => []ReleaseReachesAll
<1>1. Init => CalmInv /\ LeftInv
  BY CalmInvInit, LeftInit
<1>2. IInv /\ TreeInv /\ (CalmInv /\ LeftInv) /\ [Next]_vars
        => (CalmInv /\ LeftInv)'
  BY LeftNext
<1>3. IInv /\ CalmInv /\ LeftInv => ReleaseReachesAll
  BY LeftConclusion
<1> QED BY <1>1, <1>2, <1>3, Invariance, TreeInvariance, PTL DEF Spec
=============================================================================
