---------------------------- MODULE FloorControl ----------------------------
(***************************************************************************)
(* The push-to-talk protocol of SimpleTransceiver: every phone runs one    *)
(* service/RtpServiceBinderImpl.java, which takes the floor with START,    *)
(* gives it back with STOP, and floods both to the phones of its send      *)
(* target list over UDP.                                                   *)
(*                                                                         *)
(* Handlers of the binder are atomic here.  Sending is not: sendCtrlPacket *)
(* only queues a job on the executor, and the jobs of a phone run later    *)
(* and in any order.  The network loses, repeats and reorders packets.     *)
(***************************************************************************)
EXTENDS RtpSession, FiniteSets

CONSTANTS
  Node,           \* phones, and the addresses they have
  NoNode,
  Target,         \* the send target list of each phone (mSendTargetList)
  AccountLevels,  \* the account levels the user of each phone may set
  Faults,         \* the kinds of fault that may happen
  MaxFaults,      \* bound: faults in one behaviour
  MaxReleases     \* bound: releases of a button in one behaviour

FaultKind ==
  {"lose", "repeat", "bind", "relayer", "timeout", "link", "restart"}

ASSUME NoNodeAssumption == NoNode \notin Node
ASSUME TargetAssumption == Target \in [Node -> SUBSET Node]
ASSUME AccountLevelsAssumption == AccountLevels \in [Node -> SUBSET Int]
ASSUME FaultsAssumption == Faults \subseteq FaultKind
ASSUME BoundsAssumption == MaxFaults \in Nat /\ MaxReleases \in Nat

VARIABLES
  phone,    \* the state of each phone
  net,      \* the control packets in flight
  call,     \* history: who began each call, and at which account level
  left,     \* history: calls that some phone has left
  torn,     \* history: calls left while a START of them was under way
  faults,   \* bound: number of faults so far
  releases  \* bound: number of releases so far

vars == <<phone, net, call, left, torn, faults, releases>>

-----------------------------------------------------------------------------
(* The state of a phone. *)

RelayerState == {"null", "running", "dead"}   \* "dead": not null, no thread

(* mLocalInetAddress: null, the last address of the phone, or an older one *)
(* that the phone no longer has.                                           *)
LocalAddress == {"none", "current", "stale"}

Mic == [state : RelayerState, key : Call \cup {NoCall}]
Spk == [state : RelayerState, key : Call \cup {NoCall},
        remote : Node \cup {NoNode}, armed : BOOLEAN]

NullMic == [state |-> "null", key |-> NoCall]
NullSpk == [state |-> "null", key |-> NoCall, remote |-> NoNode,
            armed |-> FALSE]

Phone ==
  [session : Session,       \* mRtpSession
   mic     : Mic,           \* mMic2Packet and the cipher of its inputter
   spk     : Spk,           \* mPacket2Speaker, its filter and its time-out
   jobs    : SUBSET Packet, \* CtrlPacketSendJobs that have not run
   ctrl    : BOOLEAN,       \* mCtrlPacketReceiver listens
   link    : BOOLEAN,       \* the phone has an address
   local   : LocalAddress,  \* mLocalInetAddress
   shown   : BOOLEAN]       \* the last broadcast was ACTION_BEGIN_RTP_RECEIVE

Message == [packet : Packet, src : Node, dst : Node]

CallRecord == [talker : Node \cup {NoNode}, level : Int]
NotBegun == [talker |-> NoNode, level |-> INVALID_SESSION_LEVEL]

(* The phone has the address that its sockets are bound to.                *)
Attached(p) == p.link /\ p.local # "stale"

(* A socket is bound to mLocalInetAddress: with an address that is gone    *)
(* that fails, with the null of a process that never had one it does not.  *)
CanBind(p) == Attached(p) \/ p.local = "none"

-----------------------------------------------------------------------------
(* The methods of RtpServiceBinderImpl, as functions of the phone. *)

SendCtrlPacket(p, packet) ==
  IF CanBind(p) THEN [p EXCEPT !.jobs = @ \cup {packet}] ELSE p

EndRtpReceiver(p) ==
  IF p.spk.state = "null" THEN p
  ELSE [p EXCEPT !.shown = FALSE, !.spk = NullSpk, !.session = EndSession(@)]

(* Plausible bug: the STOP is built from the session already ended. *)
EndRtpSenderStopsLate(p) ==
  IF p.mic.state = "null" THEN p
  ELSE LET q == [p EXCEPT !.mic = NullMic, !.session = EndSession(@)]
       IN  SendCtrlPacket(q, CtrlPacketStop(q.session))

EndRtpSender(p) ==
  IF p.mic.state = "null" THEN p
  ELSE LET q == SendCtrlPacket([p EXCEPT !.mic = NullMic],
                               CtrlPacketStop(p.session))
       IN  [q EXCEPT !.session = EndSession(@)]

(* Plausible bugs: the session is taken over before the talk that runs is  *)
(* ended; the cipher of the speaker is made before the key arrives.        *)
BeginRtpReceiverTakesFirst(p, start, src, outcome) ==
  LET q == EndRtpReceiver(p)
      r == EndRtpSender([q EXCEPT !.session = SetSessionParamStart(@, start)])
      s == SendCtrlPacket([r EXCEPT !.shown = TRUE], start)
  IN  IF outcome = "noSocket" THEN s
      ELSE [s EXCEPT !.spk =
              [state |-> IF outcome = "running" THEN "running" ELSE "dead",
               key |-> s.session.key, remote |-> src, armed |-> FALSE]]

BeginRtpReceiverOldKey(p, start, src, outcome) ==
  LET q == EndRtpSender(EndRtpReceiver(p))
      r == SendCtrlPacket([q EXCEPT !.shown = TRUE], start)
      s == [r EXCEPT !.session = SetSessionParamStart(@, start)]
  IN  IF outcome = "noSocket" THEN s
      ELSE [s EXCEPT !.spk =
              [state |-> IF outcome = "running" THEN "running" ELSE "dead",
               key |-> r.session.key, remote |-> src, armed |-> FALSE]]

(* beginRtpReceiver after its guard.  The packet is passed on and the      *)
(* session taken over before the sockets are made, so both stand when that *)
(* fails: at the RTP port ("noSocket", mPacket2Speaker stays null) or at   *)
(* the socket of a target ("noOutputter", it is assigned but never run).   *)
BeginRtpReceiver(p, start, src, outcome) ==
  LET q == EndRtpSender(EndRtpReceiver(p))
      r == SendCtrlPacket([q EXCEPT !.shown = TRUE], start)
      s == [r EXCEPT !.session = SetSessionParamStart(@, start)]
      relayer(state) == [state |-> state, key |-> s.session.key,
                         remote |-> src, armed |-> FALSE]
  IN  CASE outcome = "running"     -> [s EXCEPT !.spk = relayer("running")]
        [] outcome = "noSocket"    -> s
        [] outcome = "noOutputter" -> [s EXCEPT !.spk = relayer("dead")]

(* Plausible bugs: the receiver is left running; START is built before the *)
(* cipher has made the key.                                                *)
BeginRtpSenderKeepsReceiver(p, level, c, outcome) ==
  LET r == [EndRtpSender(p) EXCEPT !.session =
              SetKey(SetSessionParamCodec(@, level, c), c)]
  IN  IF outcome = "running"
      THEN SendCtrlPacket(
             [r EXCEPT !.mic = [state |-> "running", key |-> r.session.key]],
             CtrlPacketStart(r.session))
      ELSE [r EXCEPT !.mic = [state |-> "dead", key |-> r.session.key]]

BeginRtpSenderStartsEarly(p, level, c, outcome) ==
  LET q == EndRtpSender(EndRtpReceiver(p))
      r == [q EXCEPT !.session = SetSessionParamCodec(@, level, c)]
      s == [r EXCEPT !.session = SetKey(@, c)]
  IN  IF outcome = "running"
      THEN SendCtrlPacket(
             [s EXCEPT !.mic = [state |-> "running", key |-> s.session.key]],
             CtrlPacketStart(r.session))
      ELSE [s EXCEPT !.mic = [state |-> "dead", key |-> s.session.key]]

(* beginRtpSender after its guard, for the fresh ssrc and key c. *)
BeginRtpSender(p, level, c, outcome) ==
  LET q == EndRtpSender(EndRtpReceiver(p))
      r == [q EXCEPT !.session =
              SetKey(SetSessionParamCodec(@, level, c), c)]
      relayer(state) == [state |-> state, key |-> r.session.key]
  IN  CASE outcome = "running" ->
             SendCtrlPacket([r EXCEPT !.mic = relayer("running")],
                            CtrlPacketStart(r.session))
        [] outcome = "noOutputter" -> [r EXCEPT !.mic = relayer("dead")]

(* Plausible bugs: every STOP is passed on, or none. *)
EndRtpReceiverStopFloods(p, stop) ==
  SendCtrlPacket(IF SameSsrc(p.session, stop) THEN EndRtpReceiver(p) ELSE p,
                 stop)

EndRtpReceiverStopSilent(p, stop) ==
  IF SameSsrc(p.session, stop) THEN EndRtpReceiver(p) ELSE p

EndRtpReceiverStop(p, stop) ==
  IF SameSsrc(p.session, stop) THEN SendCtrlPacket(EndRtpReceiver(p), stop)
  ELSE p

(* setLocalIpAddress.  When the address is lost mLocalInetAddress keeps    *)
(* it, so that the same address coming back changes nothing; another one   *)
(* ends both relayers and renews the control receiver.                     *)
SetLocalIpAddress(p, listens) ==
  CASE p.link /\ p.local = "current" -> p
    [] p.link /\ p.local # "current" ->
         [EndRtpReceiver(EndRtpSender([p EXCEPT !.local = "current"]))
            EXCEPT !.ctrl = listens]
    [] ~p.link ->
         [EndRtpReceiver(EndRtpSender(p)) EXCEPT !.ctrl = FALSE]

(* A new process: RtpService.onCreate. *)
NewPhone(link) ==
  [session |-> NoSession, mic |-> NullMic, spk |-> NullSpk, jobs |-> {},
   ctrl |-> FALSE, link |-> link, local |-> "none", shown |-> FALSE]

OnCreate(link) == SetLocalIpAddress(NewPhone(link), TRUE)

-----------------------------------------------------------------------------
(* A phone may come up without an address only where links may fail. *)
Links == IF "link" \in Faults THEN BOOLEAN ELSE {TRUE}

Init ==
  /\ phone \in [Node -> {OnCreate(link) : link \in Links}]
  /\ net = {}
  /\ call = [c \in Call |-> NotBegun]
  /\ left = {}
  /\ torn = {}
  /\ faults = 0
  /\ releases = 0

(* Control packets of call c, queued or in flight. *)
UnderWay(type, c) ==
  \/ \E n \in Node : \E k \in phone[n].jobs : k.type = type /\ k.ssrc = c
  \/ \E m \in net : m.packet.type = type /\ m.packet.ssrc = c

(* Phone n becomes p; the histories record the call that it leaves. *)
Become(n, p) ==
  LET gone == {phone[n].session.ssrc} \ {p.session.ssrc, NoCall}
  IN  /\ phone' = [phone EXCEPT ![n] = p]
      /\ left' = left \cup gone
      /\ torn' = torn \cup {c \in gone : UnderWay("START", c)}

NoFault == faults' = faults
Fault(kind) == kind \in Faults /\ faults < MaxFaults /\ faults' = faults + 1

-----------------------------------------------------------------------------
(* What the user does. *)

(* The button is pressed.  c is the ssrc and the key that are drawn. *)
PressToTalk(n) ==
  /\ \E level \in AccountLevels[n], c \in Call,
        outcome \in {"running", "noOutputter"} :
       /\ BeginSession(phone[n].session, level)
       /\ call[c] = NotBegun
       /\ outcome = "noOutputter" => Target[n] # {}
       /\ \/ /\ outcome = "running"
             /\ CanBind(phone[n]) \/ Target[n] = {}
             /\ NoFault
          \/ outcome = "noOutputter" /\ ~CanBind(phone[n]) /\ NoFault
          \/ outcome = "noOutputter" /\ CanBind(phone[n]) /\ Fault("bind")
       /\ call' = [call EXCEPT ![c] = [talker |-> n, level |-> level]]
       /\ Become(n, BeginRtpSender(phone[n], level, c, outcome))
  /\ UNCHANGED <<net, releases>>

(* The button is released, or the switch falls back after a failure. *)
Release(n) ==
  /\ phone[n].mic.state # "null"
  /\ releases < MaxReleases /\ releases' = releases + 1
  /\ Become(n, EndRtpSender(phone[n]))
  /\ NoFault
  /\ UNCHANGED <<net, call>>

-----------------------------------------------------------------------------
(* The executor and the network. *)

(* CtrlPacketSendJob.action, once: one datagram for each target.  Without  *)
(* a link the first send fails and the job is over.                        *)
RunJob(n, packet) ==
  /\ packet \in phone[n].jobs
  /\ phone' = [phone EXCEPT ![n].jobs = @ \ {packet}]
  /\ net' = IF Attached(phone[n])
            THEN net \cup {[packet |-> packet, src |-> n, dst |-> d] :
                             d \in Target[n]}
            ELSE net
  /\ NoFault
  /\ UNCHANGED <<call, left, torn, releases>>

Listens(p) == p.ctrl /\ Attached(p)

Lose(m) ==
  /\ m \in net
  /\ net' = net \ {m}
  /\ \/ Listens(phone[m.dst]) /\ Fault("lose")
     \/ ~Listens(phone[m.dst]) /\ NoFault
  /\ UNCHANGED <<phone, call, left, torn, releases>>

(* CtrlPacketReceiveJob.action for a START that takes the phone over. *)
ReceiveStart(m) ==
  LET p == phone[m.dst]
  IN  /\ m \in net /\ m.packet.type = "START"
      /\ Listens(p)
      /\ BeginSession(p.session, m.packet.level)
      /\ \E outcome \in {"running", "noSocket", "noOutputter"} :
           /\ \/ outcome = "running" /\ NoFault
              \/ outcome = "noSocket" /\ Fault("bind")
              \/ /\ outcome = "noOutputter" /\ Target[m.dst] # {}
                 /\ Fault("bind")
           /\ Become(m.dst, BeginRtpReceiver(p, m.packet, m.src, outcome))
      /\ net' = net \ {m}
      /\ UNCHANGED <<call, releases>>

(* A START that does not: beginRtpReceiver returns false. *)
RefuseStart(m) ==
  LET p == phone[m.dst]
  IN  /\ m \in net /\ m.packet.type = "START"
      /\ Listens(p)
      /\ ~BeginSession(p.session, m.packet.level)
      /\ net' = net \ {m}
      /\ NoFault
      /\ UNCHANGED <<phone, call, left, torn, releases>>

ReceiveStop(m) ==
  LET p == phone[m.dst]
  IN  /\ m \in net /\ m.packet.type = "STOP"
      /\ Listens(p)
      /\ Become(m.dst, EndRtpReceiverStop(p, m.packet))
      /\ net' = net \ {m}
      /\ NoFault
      /\ UNCHANGED <<call, releases>>

(* UDP may deliver a datagram twice. *)
Repeat(m) ==
  LET p == phone[m.dst]
  IN  /\ m \in net
      /\ Listens(p)
      /\ Fault("repeat")
      /\ \/ /\ m.packet.type = "START"
            /\ BeginSession(p.session, m.packet.level)
            /\ Become(m.dst, BeginRtpReceiver(p, m.packet, m.src, "running"))
         \/ /\ m.packet.type = "STOP"
            /\ Become(m.dst, EndRtpReceiverStop(p, m.packet))
      /\ UNCHANGED <<net, call, releases>>

-----------------------------------------------------------------------------
(* Audio.  RtpPacketInputter waits without a time-out for its first packet *)
(* and gives the session up when, after that, the sender falls silent.     *)

Transmits(n, c) ==
  /\ phone[n].session.ssrc = c
  /\ Attached(phone[n])
  /\ \/ phone[n].mic.state = "running"
     \/ phone[n].spk.state = "running" /\ phone[n].spk.armed

(* The phone that n listens to sends audio of the session of n to n. *)
Hears(n) ==
  /\ Attached(phone[n])
  /\ n \in Target[phone[n].spk.remote]
  /\ Transmits(phone[n].spk.remote, phone[n].session.ssrc)

FirstAudio(n) ==
  /\ phone[n].spk.state = "running" /\ ~phone[n].spk.armed
  /\ Hears(n)
  /\ phone' = [phone EXCEPT ![n].spk.armed = TRUE]
  /\ NoFault
  /\ UNCHANGED <<net, call, left, torn, releases>>

(* Plausible bug: the relayer ends and its session goes on. *)
TimesOutKeepsSession(p) == [p EXCEPT !.spk.state = "dead"]

(* More than MAX_TIMEOUT_COUNT time-outs: the session ends on the relayer  *)
(* thread, mPacket2Speaker stays, and no broadcast is sent.                *)
TimesOut(p) == [p EXCEPT !.spk.state = "dead", !.session = EndSession(@)]

(* Audio that comes, but too late for the adapted time-out, is a fault. *)
AudioTimeout(n) ==
  /\ phone[n].spk.state = "running" /\ phone[n].spk.armed
  /\ Fault("timeout")
  /\ Become(n, TimesOut(phone[n]))
  /\ UNCHANGED <<net, call, releases>>

(* Silence is none: where time-outs are looked at, nothing else ends it. *)
SilenceTimeout(n) ==
  /\ "timeout" \in Faults
  /\ phone[n].spk.state = "running" /\ phone[n].spk.armed
  /\ ~Hears(n)
  /\ NoFault
  /\ Become(n, TimesOut(phone[n]))
  /\ UNCHANGED <<net, call, releases>>

(* An exception ends the loop of a DataRelayer. *)
RelayerFails(n) ==
  /\ Fault("relayer")
  /\ \/ /\ phone[n].mic.state = "running"
        /\ phone' = [phone EXCEPT ![n].mic.state = "dead"]
     \/ /\ phone[n].spk.state = "running"
        /\ phone' = [phone EXCEPT ![n].spk.state = "dead"]
  /\ UNCHANGED <<net, call, left, torn, releases>>

-----------------------------------------------------------------------------
(* Connectivity and the life of the service. *)

(* A link that is lost may come back: that is no further fault. *)
LinkChanges(n) ==
  /\ \/ phone[n].link /\ Fault("link")
     \/ ~phone[n].link /\ NoFault
  /\ phone' = [phone EXCEPT ![n].link = ~@]
  /\ UNCHANGED <<net, call, left, torn, releases>>

(* The phone gets another address: what is bound to the old one, the jobs  *)
(* that wait included, no longer sends or receives.  The targets and the   *)
(* filters of the others name phones here, whatever address they have.     *)
AddressChanges(n) ==
  /\ phone[n].local = "current"
  /\ \/ phone[n].link /\ Fault("link")
     \/ ~phone[n].link /\ NoFault
  /\ phone' = [phone EXCEPT ![n].link = TRUE, ![n].local = "stale",
                            ![n].jobs = {}]
  /\ net' = {m \in net : m.dst # n}
  /\ UNCHANGED <<call, left, torn, releases>>

(* RtpServiceBroadcastReceiver.onReceive: CONNECTIVITY_ACTION. *)
ConnectivityAction(n) ==
  /\ \E listens \in BOOLEAN :
       /\ \/ listens /\ NoFault
          \/ /\ ~listens /\ phone[n].link /\ phone[n].local # "current"
             /\ Fault("bind")
       /\ Become(n, SetLocalIpAddress(phone[n], listens))
  /\ UNCHANGED <<net, call, releases>>

(* RtpService.onDestroy and a later onCreate.  close() halts the workers:  *)
(* a job that has not run by then, the STOP just queued too, is dropped.   *)
Destroy(n) ==
  /\ Fault("restart")
  /\ LET p == EndRtpSender(EndRtpReceiver(phone[n]))
     IN  \E sent \in SUBSET p.jobs :
           Become(n, [OnCreate(p.link) EXCEPT !.jobs = sent])
  /\ UNCHANGED <<net, call, releases>>

(* The process is killed, and START_STICKY brings a new one. *)
Kill(n) ==
  /\ Fault("restart")
  /\ Become(n, OnCreate(phone[n].link))
  /\ UNCHANGED <<net, call, releases>>

-----------------------------------------------------------------------------
UserNext == \E n \in Node : PressToTalk(n) \/ Release(n)

NetworkNext ==
  \/ \E n \in Node : \E packet \in phone[n].jobs : RunJob(n, packet)
  \/ \E m \in net :
       \/ ReceiveStart(m) \/ RefuseStart(m) \/ ReceiveStop(m)
       \/ Lose(m) \/ Repeat(m)

PhoneNext ==
  \E n \in Node :
    \/ FirstAudio(n) \/ AudioTimeout(n) \/ SilenceTimeout(n)
    \/ RelayerFails(n)
    \/ LinkChanges(n) \/ AddressChanges(n) \/ ConnectivityAction(n)
    \/ Destroy(n) \/ Kill(n)

Next == UserNext \/ NetworkNext \/ PhoneNext

Spec == Init /\ [][Next]_vars

(* A queued job gets a thread (the pool is a cached one), and a datagram   *)
(* does not stay in the network: it is read, or lost.  A relayer that      *)
(* waits for audio with a time-out reaches its last time-out.              *)
Arrive(n, d, type, c) ==
  \E m \in net :
    /\ m.src = n /\ m.dst = d /\ m.packet.type = type /\ m.packet.ssrc = c
    /\ ReceiveStart(m) \/ RefuseStart(m) \/ ReceiveStop(m) \/ Lose(m)

Send(n, type, c) ==
  \E packet \in phone[n].jobs :
    packet.type = type /\ packet.ssrc = c /\ RunJob(n, packet)

Fairness ==
  /\ \A n \in Node : WF_vars(SilenceTimeout(n))
  /\ \A n \in Node, type \in {"START", "STOP"}, c \in Call :
       /\ WF_vars(Send(n, type, c))
       /\ \A d \in Target[n] : WF_vars(Arrive(n, d, type, c))

FairSpec == Spec /\ Fairness
-----------------------------------------------------------------------------
(* Correctness. *)

(* Every variable holds a value of its kind. *)
TypeOK ==
  /\ phone \in [Node -> Phone]
  /\ net \in SUBSET Message
  /\ call \in [Call -> CallRecord]
  /\ left \in SUBSET Call
  /\ torn \in SUBSET Call
  /\ faults \in 0 .. MaxFaults
  /\ releases \in 0 .. MaxReleases

(* A phone never talks and listens at once: whatever order presses, STARTs *)
(* and faults come in, beginRtpSender and beginRtpReceiver end both sides  *)
(* before they begin one.                                                  *)
HalfDuplex ==
  \A n \in Node : phone[n].mic.state = "null" \/ phone[n].spk.state = "null"

(* A relayer never works for a session that is over or not its own: a      *)
(* phone that has a microphone relayer is in the call it began, and a      *)
(* running speaker relayer decrypts with the key of the current session.   *)
RelayerOwnsSession ==
  \A n \in Node :
    LET p == phone[n]
    IN  /\ p.mic.state # "null" =>
             /\ IsSession(p.session)
             /\ call[p.session.ssrc].talker = n
             /\ p.mic.key = p.session.key
        /\ p.spk.state = "running" =>
             /\ IsSession(p.session)
             /\ p.spk.key = p.session.key

(* All phones in one call agree on its key, however many hops its START    *)
(* took, and on its level as far as the 16 bits of the packet tell it.     *)
CallAgreement ==
  \A m, n \in Node :
    LET s == phone[m].session
        t == phone[n].session
    IN  s.ssrc = t.ssrc /\ s.ssrc # NoCall =>
          s.key = t.key /\ s.level % LevelMod = t.level % LevelMod

(* No STOP of a call is queued or in flight while its talker still talks:  *)
(* endRtpSender builds it from the session that ends, not from a next one. *)
StopOnlyAfterEnd ==
  \A c \in Call, n \in Node :
    UnderWay("STOP", c) /\ phone[n].session.ssrc = c =>
      phone[n].mic.state = "null"

(* Listeners of call c, and whom they hear it from. *)
Listeners(c) ==
  {n \in Node : phone[n].spk.state = "running" /\ phone[n].session.ssrc = c}

(* As long as nobody has left a call, its relayers form a tree rooted at   *)
(* the talker: every listener hears a phone that talks or listens in the   *)
(* same call, and audio never runs in a circle.  Each phone forwards to    *)
(* all its targets, so only the level check of beginSession sees to this.  *)
RelayTree ==
  \A c \in Call \ left :
    /\ \A n \in Listeners(c) :
         LET r == phone[n].spk.remote
         IN  n \in Target[r] /\ phone[r].session.ssrc = c
    /\ \A circle \in SUBSET Listeners(c) :
         circle # {} => \E n \in circle : phone[n].spk.remote \notin circle

Quiet == net = {} /\ \A n \in Node : phone[n].jobs = {}

(* When the floods have died out after nothing but presses, every phone is *)
(* in the call of the highest level that was begun.                        *)
PriorityWins ==
  Quiet /\ releases = 0 =>
    \A c \in Call : \A n \in Node :
      (call[c] # NotBegun /\ c \notin left) =>
        \/ phone[n].session.ssrc = c
        \/ phone[n].session.level >= call[c].level

(* When a call has been settled everywhere before its talker gives it up,  *)
(* nobody is left in it once the STOPs have died out.                      *)
ReleaseReachesAll ==
  Quiet =>
    \A c \in left \ torn :
      phone[call[c].talker].session.ssrc # c =>
        \A n \in Node : phone[n].session.ssrc # c

(* The floods die out: a phone passes a packet on only when it changes its *)
(* session, so that no START and no STOP circulates for ever, even where   *)
(* the targets form a cycle, as long as no call is given up while one of   *)
(* its STARTs is under way.                                                *)
FloodsDieOut == [](torn = {}) => <>[]Quiet

(* A call whose talker has vanished, killed or with a STOP that was lost,  *)
(* does not go on among its listeners: they forward and repeat packets to  *)
(* each other, but silence spreads from the talker outwards, and each      *)
(* phone that has heard audio ends its session and never comes back to it. *)
Orphaned(c) ==
  /\ call[c] # NotBegun
  /\ phone[call[c].talker].session.ssrc # c

OrphansLeave ==
  [](torn = {}) =>
    \A c \in Call :
      Orphaned(c) ~>
        [](\A n \in Node : phone[n].session.ssrc = c => ~phone[n].spk.armed)

(* The screen shows "receiving" only while a session goes on. *)
ScreenShowsSession ==
  \A n \in Node : phone[n].shown => IsSession(phone[n].session)

(* The floor as Floor.tla promises it: whatever packets, relayers and      *)
(* faults do, a phone begins a fresh call, is taken into a begun one by a  *)
(* higher level, leaves its call, or nothing happens to the floor.         *)
TheFloor ==
  INSTANCE Floor WITH
    begun   <- call,
    member  <- [n \in Node |-> phone[n].session.ssrc],
    level   <- [n \in Node |-> phone[n].session.level],
    talkers <- {n \in Node : phone[n].mic.state # "null"}

FloorPromise == TheFloor!Spec
=============================================================================
