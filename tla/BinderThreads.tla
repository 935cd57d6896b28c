--------------------------- MODULE BinderThreads ---------------------------
(***************************************************************************)
(* One service/RtpServiceBinderImpl.java, statement by statement, under    *)
(* the threads that call it: the main thread (the button, the address of   *)
(* the phone, the send target list), the control receivers (START and      *)
(* STOP) and the relayer of a listener, which ends the session by itself.  *)
(* FloorControl takes each of these calls to be one step.                  *)
(*                                                                         *)
(* A thread is the list of the statements it has still to do; only those   *)
(* that read or write a field which another thread uses are there.         *)
(***************************************************************************)
EXTENDS RtpSession, Sequences

CONSTANTS
  None,
  Receiver,      \* the control receivers, old ones that still run too
  OwnCall,       \* the calls that this phone may begin
  AccountLevel,
  Levels,        \* the levels of the STARTs that arrive
  MainCalls,     \* bound: what the main thread is made to do
  MaxCalls       \* bound: calls of all threads

ASSUME OwnCallAssumption == OwnCall \subseteq Call
ASSUME LevelsAssumption == AccountLevel \in Nat /\ Levels \subseteq Nat
ASSUME MaxCallsAssumption == MaxCalls \in Nat

Main == "main"
Thread == {Main} \cup Receiver
Relayer == 1 .. MaxCalls

ASSUME NamesAssumption ==
  Main \notin Receiver /\ None \notin Thread /\ None \notin Relayer
ASSUME MainCallsAssumption ==
  MainCalls \subseteq {"press", "release", "link", "reload"}

VARIABLES
  binder,      \* the fields of the binder and what they refer to
  thread,      \* per thread: what it has been called for and what is left
  overlapped,  \* history: the pairs of calls that have been under way at once
  calls        \* bound: number of calls so far

vars == <<binder, thread, overlapped, calls>>

(* open: its socket has the RTP port.  started: its thread runs, as long   *)
(* as it is working.  gaveUp: it is about to end the session.              *)
NoRelayer == [kind |-> "none", call |-> NoCall, key |-> NoCall, open |-> FALSE,
              started |-> FALSE, working |-> FALSE, gaveUp |-> FALSE]

NoPacket == [type |-> "none", ssrc |-> NoCall]
Idle == [call |-> "none", todo |-> <<>>, packet |-> NoPacket, made |-> NoPacket,
         relayer |-> None, seen |-> 0, alive |-> TRUE]
Dead == [Idle EXCEPT !.alive = FALSE]

Init ==
  \E first \in Receiver :
    /\ binder = [session |-> NoSession, mic |-> None, spk |-> None,
                 relayer |-> [r \in Relayer |-> NoRelayer],
                 monitor |-> <<None, 0>>, modCount |-> 0,
                 ctrl |-> first, begun |-> {}]
    /\ thread = [t \in Thread |-> IF t \in {Main, first} THEN Idle ELSE Dead]
    /\ overlapped = {} /\ calls = 0

-----------------------------------------------------------------------------
(* The methods as lists of statements. *)

SendCtrlPacket == <<"sockets", "queue">>

(* Plausible bug: the field is set to null before it is halted. *)
EndRtpReceiverClearsFirst == <<"hasSpk", "clearSpk", "haltSpk", "endSession">>

EndRtpReceiver == <<"hasSpk", "haltSpk", "clearSpk", "endSession">>

(* Plausible bug: the STOP is made of a session already ended. *)
EndRtpSenderStopsLate ==
  <<"hasMic", "haltMic", "clearMic", "endSession", "stop">> \o SendCtrlPacket

EndRtpSender ==
  <<"hasMic", "haltMic", "clearMic", "stop">> \o SendCtrlPacket \o <<"endSession">>

(* Plausible bug: the cipher of the speaker is made before the key arrives. *)
BeginRtpReceiverOldKey ==
  <<"mayBegin">> \o EndRtpReceiver \o EndRtpSender \o SendCtrlPacket
    \o <<"bind", "decipher", "takeOver", "setSpk", "outputters", "run">>

BeginRtpReceiver ==
  <<"mayBegin">> \o EndRtpReceiver \o EndRtpSender \o SendCtrlPacket
    \o <<"takeOver", "bind", "decipher", "setSpk", "outputters", "run">>

EndRtpReceiverStop == <<"isOfCall">> \o EndRtpReceiver \o SendCtrlPacket

(* Plausible bug: a listener that talks goes on listening. *)
BeginRtpSenderKeepsReceiver ==
  <<"mayBegin">> \o EndRtpSender
    \o <<"newCall", "key", "setMic", "run", "start">> \o SendCtrlPacket

BeginRtpSender ==
  <<"mayBegin">> \o EndRtpReceiver \o EndRtpSender
    \o <<"newCall", "key", "setMic", "run", "start">> \o SendCtrlPacket

SetLocalIpAddress(up) ==
  <<"lock">> \o EndRtpSender \o EndRtpReceiver \o <<"endCtrl">>
    \o (IF up THEN <<"beginCtrl">> ELSE <<>>) \o <<"unlock">>
OnCursorLoadFinish == <<"clearTargets", "fillTargets">>

Busy(t) == thread[t].todo # <<>>
Running == thread[Main].alive   \* no exception has ended the process
GivingUp == {r \in Relayer : binder.relayer[r].gaveUp}

Calls(t, call, packet, todo) ==
  /\ Running /\ thread[t].alive /\ ~Busy(t)
  /\ calls < MaxCalls
  /\ calls' = calls + 1
  /\ thread' = [thread EXCEPT ![t] = [Idle EXCEPT
                  !.call = call, !.packet = packet, !.todo = todo]]
  /\ overlapped' = overlapped
       \cup {{call, thread[u].call} : u \in {v \in Thread : Busy(v)}}
       \cup {{call, "giveUp"} : r \in GivingUp}
  /\ UNCHANGED binder

MainCall ==
  \E call \in MainCalls, up \in BOOLEAN :
    Calls(Main, call, NoPacket,
      CASE call = "press" -> BeginRtpSender
        [] call = "release" -> EndRtpSender
        [] call = "link" -> SetLocalIpAddress(up)
        [] call = "reload" -> OnCursorLoadFinish)

ReceiveStart(t) ==
  \E c \in Call \ OwnCall, level \in Levels :
    Calls(t, "start",
          [type |-> "START", ssrc |-> c, level |-> level, key |-> c],
          BeginRtpReceiver)

ReceiveStop(t) ==
  \E c \in Call :
    Calls(t, "stop", [type |-> "STOP", ssrc |-> c], EndRtpReceiverStop)

-----------------------------------------------------------------------------
(* A statement leaves the binder as b and its thread as w. *)

At(t, statement) == Running /\ Busy(t) /\ Head(thread[t].todo) = statement

Rests(w) == IF w.todo = <<>> THEN [Idle EXCEPT !.alive = w.alive] ELSE w

Does(t, statement, b, w) ==
  /\ At(t, statement)
  /\ binder' = b
  /\ thread' = [thread EXCEPT ![t] = Rests(w)]
  /\ UNCHANGED <<overlapped, calls>>

Goes(t) == [thread[t] EXCEPT !.todo = Tail(@)]
Returns(t) == [thread[t] EXCEPT !.todo = <<>>]

(* The rest of the method that was called is not done. *)
Skips(t, method) ==
  [thread[t] EXCEPT !.todo = SubSeq(@, Len(method) + 1, Len(@))]

(* Plausible bug: a lock is not given back. *)
ThrowsLocked(t, statement) == Does(t, statement, binder, Dead)

(* An exception: JobWorker.run catches it and ends.  From the main thread  *)
(* it ends the process.                                                    *)
Throws(t, statement) ==
  Does(t, statement,
       IF binder.monitor[1] = t THEN [binder EXCEPT !.monitor = <<None, 0>>]
       ELSE binder, Dead)

-----------------------------------------------------------------------------
(* endRtpReceiver and endRtpSender: every statement reads the field anew.  *)

Has(t) ==
  \/ Does(t, "hasSpk", binder,
          IF binder.spk # None THEN Goes(t) ELSE Skips(t, EndRtpReceiver))
  \/ Does(t, "hasMic", binder,
          IF binder.mic # None THEN Goes(t) ELSE Skips(t, EndRtpSender))

(* Plausible bug: the relayer is closed, but not told to stop. *)
HaltsNot(t, statement, r) ==
  IF r = None THEN Throws(t, statement)
  ELSE Does(t, statement, [binder EXCEPT !.relayer[r].open = FALSE],
            [Goes(t) EXCEPT !.relayer = r])

Halts(t, statement, r) ==
  IF r = None THEN Throws(t, statement)
  ELSE Does(t, statement,
            [binder EXCEPT !.relayer[r].working = FALSE,
                           !.relayer[r].open = FALSE],
            [Goes(t) EXCEPT !.relayer = r])

Halt(t) == Halts(t, "haltSpk", binder.spk) \/ Halts(t, "haltMic", binder.mic)

Clears(t) ==
  \/ Does(t, "clearSpk", [binder EXCEPT !.spk = None], Goes(t))
  \/ Does(t, "clearMic", [binder EXCEPT !.mic = None], Goes(t))

(* stopReceiveSession and stopSendSession *)
EndsSession(t) ==
  Does(t, "endSession", [binder EXCEPT !.session = EndSession(@)], Goes(t))

(* new CtrlPacketStop(mRtpSession), new CtrlPacketStart(mRtpSession) *)
Makes(t) ==
  \/ Does(t, "stop", binder,
          [Goes(t) EXCEPT !.made = CtrlPacketStop(binder.session)])
  \/ Does(t, "start", binder,
          [Goes(t) EXCEPT !.made = CtrlPacketStart(binder.session)])

-----------------------------------------------------------------------------
(* sendCtrlPacket is synchronized; the list it goes through is not.        *)

MayEnter(t) == binder.monitor[1] \in {None, t}
Enter(t) == [binder EXCEPT !.monitor = <<t, @[2] + 1>>]

(* Plausible bug: the lock is given back by an inner call already. *)
LeaveAll == [binder EXCEPT !.monitor = <<None, @[2] - 1>>]

Leave ==
  [binder EXCEPT !.monitor = IF @[2] = 1 THEN <<None, 0>> ELSE <<@[1], @[2] - 1>>]

Iterates(t) ==
  LET w == [Goes(t) EXCEPT !.seen = binder.modCount]
  IN  \/ MayEnter(t) /\ Does(t, "sockets", Enter(t), w)
      \/ Does(t, "outputters", binder, w)

Queues(t) == Does(t, "queue", Leave, [Goes(t) EXCEPT !.made = NoPacket])

(* The field is read again, when outputters are added and for execute: it  *)
(* may be null by now, or hold what another thread has made.               *)
ToRun(t) == IF thread[t].call = "press" THEN binder.mic ELSE binder.spk

Runs(t) ==
  IF ToRun(t) = None THEN Throws(t, "run")
  ELSE Does(t, "run", [binder EXCEPT !.relayer[ToRun(t)].started = TRUE],
            Goes(t))

(* ConcurrentModificationException, unless the list was at its end.        *)
ListChanged(t) ==
  /\ thread[t].call \in {"start", "stop"} /\ thread[t].seen # binder.modCount
  /\ Throws(t, "queue") \/ Throws(t, "run")

-----------------------------------------------------------------------------
(* beginRtpReceiver and beginRtpSender.  Sockets are made without error    *)
(* here, but two do not get the RTP port at once.                          *)

Decides(t) ==
  LET level == IF t = Main THEN AccountLevel ELSE thread[t].packet.level
  IN  \/ Does(t, "mayBegin", binder,
              IF BeginSession(binder.session, level) THEN Goes(t) ELSE Returns(t))
      \/ Does(t, "isOfCall", binder,
              IF SameSsrc(binder.session, thread[t].packet) THEN Goes(t)
              ELSE Returns(t))

TakesOver(t) ==
  Does(t, "takeOver",
       [binder EXCEPT !.session = SetSessionParamStart(@, thread[t].packet)],
       Goes(t))

New == CHOOSE r \in Relayer : /\ binder.relayer[r] = NoRelayer
                              /\ \A q \in 1 .. r - 1 : binder.relayer[q] # NoRelayer

Binds(t) ==
  IF \E r \in Relayer : binder.relayer[r].open
  THEN Does(t, "bind", binder, Returns(t))
  ELSE Does(t, "bind",
            [binder EXCEPT !.relayer[New] =
               [NoRelayer EXCEPT !.kind = "spk", !.call = thread[t].packet.ssrc,
                                 !.open = TRUE, !.working = TRUE]],
            [Goes(t) EXCEPT !.relayer = New])

Deciphers(t) ==
  Does(t, "decipher",
       [binder EXCEPT !.relayer[thread[t].relayer].key = binder.session.key],
       Goes(t))

SetsSpeaker(t) ==
  Does(t, "setSpk", [binder EXCEPT !.spk = thread[t].relayer], Goes(t))

NewCall(t) ==
  \E c \in OwnCall \ binder.begun :
    Does(t, "newCall",
         [binder EXCEPT !.begun = @ \cup {c},
            !.session = SetSessionParamCodec(@, AccountLevel, c)],
         [Goes(t) EXCEPT !.packet = [NoPacket EXCEPT !.ssrc = c]])

MakesKey(t) ==
  Does(t, "key",
       [binder EXCEPT !.session = SetKey(@, thread[t].packet.ssrc)], Goes(t))

SetsMic(t) ==
  LET c == thread[t].packet.ssrc
  IN  Does(t, "setMic",
           [binder EXCEPT !.mic = New,
              !.relayer[New] = [NoRelayer EXCEPT !.kind = "mic", !.call = c,
                                                 !.key = c, !.working = TRUE]],
           [Goes(t) EXCEPT !.relayer = New])

-----------------------------------------------------------------------------
(* setLocalIpAddress, where the address has changed or is gone, and        *)
(* onCursorLoadFinish.                                                     *)

Locks(t) ==
  \/ MayEnter(t) /\ Does(t, "lock", Enter(t), Goes(t))
  \/ Does(t, "unlock", Leave, Goes(t))

(* A receiver that is halted finishes what it has been called for. *)
EndsCtrl(t) ==
  /\ At(t, "endCtrl")
  /\ binder' = [binder EXCEPT !.ctrl = None]
  /\ thread' = [u \in Thread |-> IF u = t THEN Rests(Goes(t))
                                 ELSE [thread[u] EXCEPT !.alive = FALSE]]
  /\ UNCHANGED <<overlapped, calls>>

BeginsCtrl(t) ==
  /\ At(t, "beginCtrl")
  /\ \E r \in {u \in Receiver : ~Busy(u)} :
       /\ binder' = [binder EXCEPT !.ctrl = r]
       /\ thread' = [thread EXCEPT ![t] = Rests(Goes(t)), ![r] = Idle]
  /\ UNCHANGED <<overlapped, calls>>

(* The control port is not to be had. *)
BindsNoCtrl(t) == Does(t, "beginCtrl", binder, Goes(t))

Reloads(t) ==
  \E statement \in {"clearTargets", "fillTargets"} :
    Does(t, statement, [binder EXCEPT !.modCount = @ + 1], Goes(t))

-----------------------------------------------------------------------------
(* RtpPacketInputter on the relayer of a listener: time-outs have run out, *)
(* or it sees that the session is over.                                    *)

GivesUp(r) ==
  /\ Running
  /\ binder.relayer[r].open /\ binder.relayer[r].started
  /\ binder' = [binder EXCEPT !.relayer[r].open = FALSE,
                              !.relayer[r].working = FALSE,
                              !.relayer[r].gaveUp = IsSession(binder.session)]
  /\ overlapped' = overlapped \cup
       {{"giveUp", thread[u].call} : u \in {v \in Thread : Busy(v)}}
  /\ UNCHANGED <<thread, calls>>

StopsReceiving(r) ==
  /\ Running
  /\ binder.relayer[r].gaveUp
  /\ binder' = [binder EXCEPT !.relayer[r].gaveUp = FALSE,
                              !.session = EndSession(@)]
  /\ UNCHANGED <<thread, overlapped, calls>>

-----------------------------------------------------------------------------
Step(t) ==
  \/ Has(t) \/ Halt(t) \/ Clears(t) \/ EndsSession(t) \/ Makes(t)
  \/ Iterates(t) \/ Queues(t) \/ Runs(t) \/ ListChanged(t)
  \/ Decides(t) \/ TakesOver(t) \/ Binds(t) \/ Deciphers(t) \/ SetsSpeaker(t)
  \/ NewCall(t) \/ MakesKey(t) \/ SetsMic(t)
  \/ Locks(t) \/ EndsCtrl(t) \/ BeginsCtrl(t) \/ BindsNoCtrl(t) \/ Reloads(t)

Next ==
  \/ MainCall
  \/ \E t \in Receiver : ReceiveStart(t) \/ ReceiveStop(t)
  \/ \E t \in Thread : Step(t)
  \/ \E r \in Relayer : GivesUp(r) \/ StopsReceiving(r)

Spec == Init /\ [][Next]_vars
FairSpec == Spec /\ \A t \in Thread : WF_vars(Step(t))

-----------------------------------------------------------------------------
(* Properties.  Which promises survive which overlap: EndRace are the      *)
(* pairs of calls that both end a relayer, or that begin while one is      *)
(* ended; SessionRace has a listener's relayer giving up besides.          *)

AtRest == Running /\ GivingUp = {} /\ \A t \in Thread : ~Busy(t)

EndRace ==
  {{x, "start"} : x \in {"press", "release", "link"}}
    \cup {{x, "stop"} : x \in {"press", "link"}}
SessionRace == EndRace \cup {{x, "giveUp"} : x \in {"press", "start"}}

Safe(races) == overlapped \cap races = {}
Working == {r \in Relayer : /\ binder.relayer[r].started
                            /\ binder.relayer[r].working}

(* The variables keep their types, and the lock of the binder is held      *)
(* exactly as often as it has been taken.                                  *)
TypeOK ==
  /\ binder.session \in Session
  /\ {binder.mic, binder.spk} \subseteq Relayer \cup {None}
  /\ binder.monitor[1] \in Thread \cup {None}
  /\ binder.monitor[2] \in 0 .. 2
  /\ binder.monitor[1] = None <=> binder.monitor[2] = 0
  /\ \A r \in Relayer : binder.relayer[r].kind \in {"none", "mic", "spk"}
  /\ calls \in 0 .. MaxCalls

(* A phone at rest either talks or listens, as beginRtpReceiver and        *)
(* beginRtpSender say ("送信or受信を判定して強制終了": find out whether it *)
(* sends or receives and end that): violated, see the run binder_overlap.  *)
OneDirection == AtRest => binder.mic = None \/ binder.spk = None

(* It does so unless a press and a START have crossed; no other overlap    *)
(* can break it.                                                           *)
OneDirectionUnlessCrossed == Safe({{"press", "start"}}) => OneDirection

(* The process does not end by a field that another thread has set to null *)
(* in the middle of endRtpReceiver or endRtpSender, except in EndRace; a   *)
(* target list that is reloaded under a control receiver, a relayer that   *)
(* gives up and a release under a STOP do not end it.                      *)
SurvivesUnlessCrossed == Safe(EndRace) => Running

(* A relayer that works is known to the binder, so that it can be halted.  *)
NoOrphanUnlessCrossed ==
  AtRest /\ Safe(EndRace) => Working \subseteq {binder.mic, binder.spk}

(* A relayer that works has the call and the key of the session.           *)
OwnSessionUnlessCrossed ==
  AtRest /\ Safe(SessionRace) =>
    \A r \in Working : /\ binder.relayer[r].call = binder.session.ssrc
                       /\ binder.relayer[r].key = binder.session.key

(* The START and the STOP of this phone's own are those of the call whose  *)
(* microphone has just been started or halted.                             *)
OwnPacketUnlessCrossed ==
  Safe(SessionRace) =>
    \A t \in Thread : thread[t].made # NoPacket =>
      thread[t].made.ssrc = binder.relayer[thread[t].relayer].call

(* Once nothing more is asked of it the phone comes to rest: nobody waits  *)
(* for the lock of the binder for ever, also when the control receiver     *)
(* that has it is ended by an exception.                                   *)
ComesToRest == <>[](Running => \A t \in Thread : ~Busy(t))
=============================================================================
