------------------------- MODULE RtpPacketInputter -------------------------
(***************************************************************************)
(* io/RtpPacketInputter.java on its relayer thread: the end of the audio   *)
(* path of a listener.  It follows the 16-bit sequence numbers of the      *)
(* talker, adapts the socket time-out to the arrival of the packets, and   *)
(* ends the session when the talker falls silent.  The socket is that of   *)
(* io/PacketInputter.java, the loop that of io/DataRelayer.java.           *)
(*                                                                         *)
(* The binder works on its own threads: it may close the socket, end the   *)
(* session and begin another between the return of receive and the rest of *)
(* input.  Payloads, time stamps and the never read wrap-around count are  *)
(* left out.                                                               *)
(***************************************************************************)
EXTENDS Integers

CONSTANTS
  SeqMod,            \* 2^16
  MAX_DROPOUT,       \* 3000
  MAX_MISORDER,      \* 100
  MAX_TIMEOUT_COUNT, \* 10
  Frame,             \* 20 ms, the time from one packet to the next
  FirstLimit,        \* 100 ms, the first time-out
  Elapsed,           \* what now - mLastReceiveTime may be, in ms
  IntMax             \* 2^31 - 1, the largest int

ASSUME WindowAssumption ==
  /\ {SeqMod, MAX_DROPOUT, MAX_MISORDER} \subseteq Nat \ {0}
  /\ MAX_DROPOUT + MAX_MISORDER < SeqMod
ASSUME TimeoutAssumption ==
  /\ {MAX_TIMEOUT_COUNT, IntMax} \subseteq Nat
  /\ {Frame, FirstLimit} \subseteq 1 .. IntMax
ASSUME ElapsedAssumption == Elapsed \in (SUBSET Int) \ {{}}

VARIABLES
  pc,       \* where the thread is: in receive, after it, or ended
  got,      \* what receive returned
  in,       \* the fields of the inputter and its socket
  session,  \* mRtpSession: this call, another one, or ended
  seqNum,   \* mRtpSession.mSeqNum
  halted,   \* the binder has called halt
  silent,   \* the talker has fallen silent for good
  last,     \* history: the audio packet handled last
  run,      \* history: how many came in a row up to it (to a limit)
  jumps     \* history: how many of these were far out of the window

vars == <<pc, got, in, session, seqNum, halted, silent, last, run, jumps>>

SeqNum == 0 .. SeqMod - 1
Next16(seq) == (seq + 1) % SeqMod

Audio == [kind : {"audio"}, seq : SeqNum]
(* An int, and the cast of a long, or of the sum of two ints, to it. *)
JavaInt == -(IntMax + 1) .. IntMax
ToInt(x) == ((x + IntMax + 1) % (2 * IntMax + 2)) - (IntMax + 1)

Got == Audio \cup [kind : {"other", "timeout", "nothing"}]

Inputter ==
  [timeoutCount : 0 .. MAX_TIMEOUT_COUNT,
   badSeq       : -1 .. SeqMod,      \* mBadSequenceNumber
   heard        : BOOLEAN,           \* mLastReceiveTime > 0
   limit        : JavaInt,           \* mTimeoutLimit
   soTimeout    : Nat,               \* SO_TIMEOUT: 0 waits for ever
   open         : BOOLEAN]

Enough == MAX_MISORDER + 3     \* where the history run stops counting

-----------------------------------------------------------------------------
(* The window of sequence numbers, as RFC 3550 has it. *)

Delta(s, seq) == (seq - s) % SeqMod
InWindow(s, seq) == Delta(s, seq) < MAX_DROPOUT
Behind(s, seq) == Delta(s, seq) > SeqMod - 1 - MAX_MISORDER
Jumps(s, seq) == ~InWindow(s, seq) /\ ~Behind(s, seq)
Dropped(s, seq) == Behind(s, seq) /\ seq <= s

(* Plausible bug: the number of a jump itself is remembered. *)
NextBadSeqSame(s, bad, seq) ==
  IF Jumps(s, seq) /\ seq # bad THEN seq ELSE bad

(* mBadSequenceNumber is not brought back into 16 bits. *)
NextBadSeq(s, bad, seq) ==
  IF Jumps(s, seq) /\ seq # bad THEN seq + 1 ELSE bad

NextSeqNum(s, bad, seq) ==
  IF InWindow(s, seq) \/ (Jumps(s, seq) /\ seq = bad) THEN seq ELSE s

(* Plausible bug: the limit has no floor. *)
NextLimitNoFloor(i, sub) ==
  IF ~i.heard THEN FirstLimit ELSE ToInt(i.limit - (sub - Frame))

NextLimit(i, sub) ==
  IF ~i.heard THEN FirstLimit
  ELSE LET l == ToInt(i.limit - (sub - Frame)) IN IF l <= 0 THEN 1 ELSE l

(* PacketInputter.setTimeout: a closed socket throws a SocketException,    *)
(* which is caught; a negative time-out throws one that is not.            *)
Takes(i, timeout) == i.open => timeout >= 0
SetTimeout(i, timeout) ==
  IF i.open THEN [i EXCEPT !.soTimeout = timeout] ELSE i

InitParam(i) ==
  SetTimeout([i EXCEPT !.timeoutCount = 0, !.heard = FALSE, !.badSeq = -1], 0)

-----------------------------------------------------------------------------
Nothing == [kind |-> "nothing"]

Init ==
  /\ pc = "receive"
  /\ got = Nothing
  /\ in = [timeoutCount |-> 0, badSeq |-> -1, heard |-> FALSE, limit |-> 0,
           soTimeout |-> 0, open |-> TRUE]
  /\ session = "own"
  /\ seqNum \in SeqNum        \* from the START packet
  /\ halted = FALSE
  /\ silent = FALSE
  /\ last = -1
  /\ run = 0
  /\ jumps = 0

history == <<last, run, jumps>>
binder == <<session, seqNum, halted>>

(* PacketInputter.input: a packet of the call, or one that a filter or a   *)
(* check drops.                                                            *)
Receive ==
  /\ pc = "receive" /\ in.open
  /\ ~silent
  /\ got' \in Audio \cup [kind : {"other"}]
  /\ pc' = "handle"
  /\ UNCHANGED <<in, binder, silent, history>>

TimesOut ==
  /\ pc = "receive" /\ in.open
  /\ in.soTimeout > 0
  /\ got' = [kind |-> "timeout"]
  /\ pc' = "handle"
  /\ UNCHANGED <<in, binder, silent, history>>

(* receive on a closed socket throws, and the relayer's loop is left. *)
ReceiveFails ==
  /\ pc = "receive" /\ ~in.open
  /\ pc' = "done"
  /\ UNCHANGED <<got, in, binder, silent, history>>

Return ==
  /\ pc' = "receive"
  /\ got' = Nothing
  /\ UNCHANGED <<halted, silent>>

NoSession ==
  /\ pc = "handle" /\ session = "ended"
  /\ in' = [InitParam(in) EXCEPT !.open = FALSE]
  /\ Return
  /\ UNCHANGED <<session, seqNum, history>>

(* One more time-out: the limit grows after it was set on the socket. *)
Waits ==
  /\ pc = "handle" /\ session # "ended" /\ got.kind = "timeout"
  /\ Takes(in, in.limit)
  /\ in.timeoutCount < MAX_TIMEOUT_COUNT
  /\ in' = [SetTimeout(in, in.limit) EXCEPT !.timeoutCount = @ + 1,
                                            !.limit = ToInt(@ + Frame)]
  /\ Return
  /\ UNCHANGED <<session, seqNum, history>>

(* Plausible bug: the socket stays open. *)
GivesUpOpen ==
  /\ pc = "handle" /\ session # "ended" /\ got.kind = "timeout"
  /\ Takes(in, in.limit) /\ in.timeoutCount = MAX_TIMEOUT_COUNT
  /\ in' = InitParam(in)
  /\ session' = "ended"
  /\ seqNum' = -1
  /\ Return
  /\ UNCHANGED history

(* The last one: stopReceiveSession, whatever session there is by now. *)
GivesUp ==
  /\ pc = "handle" /\ session # "ended" /\ got.kind = "timeout"
  /\ Takes(in, in.limit) /\ in.timeoutCount = MAX_TIMEOUT_COUNT
  /\ in' = [InitParam(in) EXCEPT !.open = FALSE]
  /\ session' = "ended"
  /\ seqNum' = -1
  /\ Return
  /\ UNCHANGED history

(* The limit had grown past the largest int: DataRelayer.run catches the   *)
(* exception and halts, and the session goes on.                           *)
SetTimeoutThrows ==
  /\ pc = "handle" /\ session # "ended" /\ got.kind = "timeout"
  /\ ~Takes(in, in.limit)
  /\ in' = [in EXCEPT !.open = FALSE]
  /\ pc' = "done"
  /\ got' = Nothing
  /\ UNCHANGED <<binder, silent, history>>

(* A packet of another version, ssrc or payload type. *)
Ignores ==
  /\ pc = "handle" /\ session # "ended"
  /\ got.kind = "other" \/ (got.kind = "audio" /\ session = "other")
  /\ Return
  /\ UNCHANGED <<in, session, seqNum, history>>

(* A packet of the call.  One that is dropped has reset the time-out count *)
(* all the same, but not the limit.                                        *)
Hears ==
  /\ pc = "handle" /\ session = "own" /\ got.kind = "audio"
  /\ LET seq == got.seq
         inRow == last >= 0 /\ seq = Next16(last)
     IN  /\ seqNum' = NextSeqNum(seqNum, in.badSeq, seq)
         /\ \E sub \in Elapsed :
              in' = IF Dropped(seqNum, seq)
                    THEN [in EXCEPT !.timeoutCount = 0]
                    ELSE [SetTimeout(in, NextLimit(in, sub)) EXCEPT
                            !.timeoutCount = 0,
                            !.badSeq = NextBadSeq(seqNum, @, seq),
                            !.limit = NextLimit(in, sub),
                            !.heard = TRUE]
         /\ last' = seq
         /\ run' = IF ~inRow THEN 1 ELSE IF run < Enough THEN run + 1 ELSE run
         /\ jumps' = CASE ~Jumps(seqNum, seq) -> 0
                       [] Jumps(seqNum, seq) /\ inRow /\ jumps > 0 -> 2
                       [] OTHER -> 1
  /\ Return
  /\ UNCHANGED session

Handle ==
  NoSession \/ Waits \/ GivesUp \/ SetTimeoutThrows \/ Ignores \/ Hears

-----------------------------------------------------------------------------
(* RtpServiceBinderImpl on other threads: endRtpReceiver halts the relayer *)
(* and then ends the session; a new session may begin right after.         *)

Halt ==
  /\ ~halted
  /\ halted' = TRUE
  /\ in' = [in EXCEPT !.open = FALSE]
  /\ UNCHANGED <<pc, got, session, seqNum, silent, history>>

StopReceiveSession ==
  /\ halted /\ session = "own"
  /\ session' = "ended"
  /\ seqNum' = -1
  /\ UNCHANGED <<pc, got, in, halted, silent, history>>

SetSessionParam ==
  /\ halted /\ session = "ended"
  /\ session' = "other"
  /\ seqNum' \in SeqNum
  /\ UNCHANGED <<pc, got, in, halted, silent, history>>

FallsSilent ==
  /\ ~silent
  /\ silent' = TRUE
  /\ UNCHANGED <<pc, got, in, binder, history>>

Next ==
  \/ Receive \/ TimesOut \/ ReceiveFails \/ Handle
  \/ Halt \/ StopReceiveSession \/ SetSessionParam \/ FallsSilent

Spec == Init /\ [][Next]_vars

(* The relayer has a thread of its own, and SO_TIMEOUT is a real timer. *)
FairSpec ==
  Spec /\ WF_vars(TimesOut) /\ WF_vars(ReceiveFails) /\ WF_vars(Handle)
-----------------------------------------------------------------------------
(* Every variable holds a value of its kind. *)
TypeOK ==
  /\ pc \in {"receive", "handle", "done"}
  /\ got \in Got
  /\ in \in Inputter
  /\ session \in {"own", "other", "ended"}
  /\ seqNum \in SeqNum \cup {-1}
  /\ halted \in BOOLEAN /\ silent \in BOOLEAN
  /\ last \in SeqNum \cup {-1}
  /\ run \in 0 .. Enough /\ jumps \in 0 .. 2

(* Once audio has been heard the thread never waits without a time-out,    *)
(* however late or early the packets come, wherever the clock jumps and    *)
(* where the limit overflows: SO_TIMEOUT 0 would mean for ever.            *)
TimerArmed == in.open => (in.heard <=> in.soTimeout > 0)

(* Whatever was lost, repeated or out of order, and wherever the numbers   *)
(* wrap around: after MAX_MISORDER + 3 packets in a row the session        *)
(* follows the talker again.                                               *)
CatchesUp == session = "own" /\ run = Enough => seqNum = last

(* A listener that has heard its talker does not outlive him: when nothing *)
(* comes any more the relayer thread ends.                                 *)
EndsAfterSilence == silent /\ in.heard ~> pc = "done"

(* The comment at line 128: two packets with numbers in a row are taken    *)
(* for a talker who has started again.                                     *)
ResyncAfterTwo == session = "own" /\ jumps = 2 => seqNum = last
=============================================================================
