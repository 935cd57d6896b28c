------------------------------ MODULE CtrlJobs ------------------------------
(***************************************************************************)
(* The control packets inside one phone: CtrlPacketReceiveJob and          *)
(* PacketInputter, which receive every datagram into one and the same      *)
(* buffer, CtrlPacketSendJob, which sends a packet to the targets on a     *)
(* thread of its own, and the loop of io/JobWorker.java that runs both.    *)
(*                                                                         *)
(* A START or STOP that is passed on is not copied: its job sends what the *)
(* receive buffer holds when it comes to run.  FloorControl takes jobs to  *)
(* hold their packets; here is how far that is so.                         *)
(*                                                                         *)
(* Whether the binder accepts a packet depends on its session and is left  *)
(* open, and so is when the user makes it send packets of its own.         *)
(***************************************************************************)
EXTENDS Integers

CONSTANTS
  Call,         \* ssrc values; a key is named by the call it was made for
  OwnCall,      \* those that this phone draws itself
  None,         \* the zeros of a new buffer
  NTargets,     \* the length of mSendTargetList
  MaxJobs,      \* bound: control packets sent
  MaxArrivals   \* bound: datagrams received

ASSUME NoneAssumption == None \notin Call
ASSUME OwnCallAssumption == OwnCall \subseteq Call
ASSUME BoundsAssumption ==
  NTargets \in Nat /\ MaxJobs \in Nat /\ MaxArrivals \in Nat

Job == 1 .. MaxJobs

VARIABLES
  buffer,    \* byte arrays: 0 is mBuffer of the PacketInputter
  receiver,  \* the JobWorker of the CtrlPacketReceiveJob
  job,       \* the JobWorkers of the CtrlPacketSendJobs
  arrivals   \* bound: number of datagrams so far

vars == <<buffer, receiver, job, arrivals>>

(* A buffer in the pieces that a copy of it may be caught between: type    *)
(* and sequence number, ssrc and level, key and IV.  STOP (16 bytes) has   *)
(* no key, START (64 bytes) is whole.                                      *)
Piece == {"type", "ssrc", "key"}
StartPieces == Piece
StopPieces == {"type", "ssrc"}

Content == [Piece -> {"START", "STOP", None} \cup Call]
EmptyBuffer == [x \in Piece |-> None]

CtrlPacketStart(c) == [type |-> "START", ssrc |-> c, key |-> c]
CtrlPacketStop(c) == [type |-> "STOP", ssrc |-> c]

(* What other phones send: their own packets, and those that a job of      *)
(* theirs has sent at the length of another packet.                        *)
Datagram ==
  UNION {{CtrlPacketStart(c), CtrlPacketStop(c),
          [type |-> "START", ssrc |-> c],
          [type |-> "STOP", ssrc |-> c, key |-> c]} : c \in Call \ OwnCall}

Taken(content, pieces) == [x \in pieces |-> content[x]]

(* The last four are history: the packet the job was made for, the number  *)
(* of datagrams that had arrived then, how many it has sent, and the last. *)
NoJob == [pc |-> "none", buf |-> 0, pieces |-> {}, next |-> 1, counter |-> 0,
          working |-> FALSE, open |-> FALSE,
          made |-> <<>>, arrival |-> 0, sent |-> 0, last |-> <<>>]

Init ==
  /\ buffer = [b \in {0} \cup Job |-> EmptyBuffer]
  /\ receiver = [pc |-> "test", todo |-> <<>>, pieces |-> {},
                 working |-> TRUE, open |-> TRUE]
  /\ job = [j \in Job |-> NoJob]
  /\ arrivals = 0

-----------------------------------------------------------------------------
(* sendCtrlPacket: a job, its sockets and its worker. *)

SendCtrlPacket(j, b, pieces, content) ==
  /\ job[j].pc = "none" /\ \A i \in Job : i < j => job[i].pc # "none"
  /\ job' = [job EXCEPT ![j] =
       [NoJob EXCEPT !.pc = "test", !.buf = b, !.pieces = pieces,
                     !.working = TRUE, !.open = TRUE,
                     !.made = Taken(content, pieces), !.arrival = arrivals]]

(* Plausible bug: a packet of our own is built in the receive buffer. *)
SendsOwnInPlace(j, packet) ==
  LET content == [x \in Piece |->
                    IF x \in DOMAIN packet THEN packet[x] ELSE buffer[0][x]]
  IN  /\ SendCtrlPacket(j, 0, DOMAIN packet, content)
      /\ buffer' = [buffer EXCEPT ![0] = content]
      /\ UNCHANGED <<receiver, arrivals>>

(* The binder sends a START or a STOP of this phone's own: a new array. *)
SendsOwn(j, packet) ==
  LET content == [x \in Piece |->
                    IF x \in DOMAIN packet THEN packet[x] ELSE None]
  IN  /\ SendCtrlPacket(j, j, DOMAIN packet, content)
      /\ buffer' = [buffer EXCEPT ![j] = content]
      /\ UNCHANGED <<receiver, arrivals>>

-----------------------------------------------------------------------------
(* The control receiver. *)

(* JobWorker.run ends with a halt of its own. *)
ReceiverEnds ==
  receiver' = [receiver EXCEPT !.pc = "ended", !.pieces = {},
                               !.working = FALSE, !.open = FALSE]

(* The loop goes on unless the worker is halted or its thread interrupted. *)
ReceiverTests ==
  /\ receiver.pc = "test"
  /\ \/ receiver.working /\ receiver' = [receiver EXCEPT !.pc = "receive"]
     \/ ReceiverEnds
  /\ UNCHANGED <<buffer, job, arrivals>>

Arrives(d) ==
  /\ receiver.pc = "receive" /\ receiver.open
  /\ arrivals < MaxArrivals
  /\ arrivals' = arrivals + 1
  /\ receiver' = [receiver EXCEPT !.pc = "fill", !.todo = d,
                                  !.pieces = DOMAIN d]
  /\ UNCHANGED <<buffer, job>>

(* receive writes what the datagram has and leaves the rest of the buffer; *)
(* send jobs may look at it meanwhile.                                     *)
Fills ==
  /\ receiver.pc = "fill"
  /\ \E x \in DOMAIN receiver.todo :
       /\ buffer' = [buffer EXCEPT ![0][x] = receiver.todo[x]]
       /\ receiver' =
            [receiver EXCEPT !.todo = Taken(@, (DOMAIN @) \ {x})]
  /\ UNCHANGED <<job, arrivals>>

(* Plausible bug: the next receive is begun before the packet is handled. *)
AcceptsNotYet(j) ==
  /\ receiver.pc = "fill"
  /\ SendCtrlPacket(j, 0, receiver.pieces,
       [x \in Piece |-> IF x \in DOMAIN receiver.todo THEN receiver.todo[x]
                        ELSE buffer[0][x]])
  /\ receiver' = [receiver EXCEPT !.pc = "test", !.pieces = {}]
  /\ UNCHANGED <<buffer, arrivals>>

(* The binder accepts the packet and passes it on as it lies in the        *)
(* buffer, at the length that was received.                                *)
Accepts(j) ==
  /\ receiver.pc = "fill" /\ receiver.todo = <<>>
  /\ SendCtrlPacket(j, 0, receiver.pieces, buffer[0])
  /\ receiver' = [receiver EXCEPT !.pc = "test", !.pieces = {}]
  /\ UNCHANGED <<buffer, arrivals>>

(* The session does not let it in, or a socket of the job cannot be made. *)
Ignores ==
  /\ receiver.pc = "fill" /\ receiver.todo = <<>>
  /\ receiver' = [receiver EXCEPT !.pc = "test", !.pieces = {}]
  /\ UNCHANGED <<buffer, job, arrivals>>

(* The binder throws something else than an IOException. *)
ReceiverThrows ==
  /\ receiver.pc = "fill" /\ receiver.todo = <<>>
  /\ ReceiverEnds
  /\ UNCHANGED <<buffer, job, arrivals>>

(* receive throws an IOException; action returns true all the same.        *)
ReceiveThrows ==
  /\ receiver.pc = "receive"
  /\ receiver' = [receiver EXCEPT !.pc = "test", !.pieces = {}]
  /\ UNCHANGED <<buffer, job, arrivals>>

(* It may, and on a socket that has been closed it does. *)
ReceiveFails == ~receiver.open /\ ReceiveThrows

(* Plausible bug: the socket is closed and the worker told nothing. *)
EndCtrlReceiverClosesOnly ==
  /\ receiver.open
  /\ receiver' = [receiver EXCEPT !.open = FALSE]
  /\ UNCHANGED <<buffer, job, arrivals>>

(* endCtrlReceiver, or close: JobWorker.halt on another thread, which      *)
(* clears the flag ...                                                     *)
EndCtrlReceiver ==
  /\ receiver.open
  /\ receiver' = [receiver EXCEPT !.working = FALSE]
  /\ UNCHANGED <<buffer, job, arrivals>>

(* ... and then closes the socket. *)
ClosesReceiver ==
  /\ receiver.open /\ ~receiver.working
  /\ receiver' = [receiver EXCEPT !.open = FALSE]
  /\ UNCHANGED <<buffer, job, arrivals>>

-----------------------------------------------------------------------------
(* A send job. *)

(* JobWorker.run ends with a halt of its own, and the history is over. *)
Ended == [NoJob EXCEPT !.pc = "ended"]

Tests(j) ==
  /\ job[j].pc = "test"
  /\ job' = [job EXCEPT ![j] =
       IF @.working THEN [@ EXCEPT !.pc = "send", !.next = 1] ELSE Ended]
  /\ UNCHANGED <<buffer, receiver, arrivals>>

Outputs(j) ==
  /\ job[j].pc = "send" /\ job[j].next <= NTargets /\ job[j].open
  /\ job' = [job EXCEPT ![j].next = @ + 1, ![j].sent = @ + 1,
                        ![j].last = Taken(buffer[job[j].buf], job[j].pieces)]
  /\ UNCHANGED <<buffer, receiver, arrivals>>

(* Closed by halt, or an error of the network. *)
OutputThrows(j) ==
  /\ job[j].pc = "send" /\ job[j].next <= NTargets
  /\ job' = [job EXCEPT ![j] = Ended]
  /\ UNCHANGED <<buffer, receiver, arrivals>>

REPEAT_COUNT == 3

(* Plausible bug: what REPEAT_COUNT may have been meant to do. *)
AgainUntilCount(counter) == counter < REPEAT_COUNT

Again(counter) == counter >= REPEAT_COUNT

ActionEnds(j) ==
  LET counter == job[j].counter + 1
  IN  /\ job[j].pc = "send" /\ job[j].next > NTargets
      /\ job' = [job EXCEPT ![j] =
           IF Again(counter) THEN [@ EXCEPT !.pc = "test", !.counter = counter]
           ELSE Ended]
      /\ UNCHANGED <<buffer, receiver, arrivals>>

(* close() of the binder halts every worker. *)
Halt(j) ==
  /\ job[j].open
  /\ job' = [job EXCEPT ![j].working = FALSE, ![j].open = FALSE]
  /\ UNCHANGED <<buffer, receiver, arrivals>>

-----------------------------------------------------------------------------
JobStep(j) == Tests(j) \/ Outputs(j) \/ OutputThrows(j) \/ ActionEnds(j)

ReceiverStep ==
  \/ ReceiverTests \/ Fills \/ Ignores \/ ReceiverThrows \/ ReceiveFails
  \/ \E j \in Job : Accepts(j)

OwnPacket ==
  UNION {{CtrlPacketStart(c), CtrlPacketStop(c)} : c \in OwnCall}

Next ==
  \/ \E j \in Job : JobStep(j) \/ Halt(j)
  \/ \E j \in Job, packet \in OwnPacket : SendsOwn(j, packet)
  \/ \E d \in Datagram : Arrives(d)
  \/ ReceiverStep \/ ReceiveThrows
  \/ EndCtrlReceiver \/ ClosesReceiver

Spec == Init /\ [][Next]_vars
FairSpec == Spec /\ WF_vars(ReceiverStep) /\ WF_vars(ClosesReceiver)

-----------------------------------------------------------------------------
(* Properties. *)

(* The variables keep their types. *)
TypeOK ==
  /\ DOMAIN buffer = {0} \cup Job
  /\ \A b \in {0} \cup Job : buffer[b] \in Content
  /\ receiver.pc \in {"test", "receive", "fill", "ended"}
  /\ receiver.pieces \in {{}, StartPieces, StopPieces}
  /\ DOMAIN receiver.todo \subseteq receiver.pieces
  /\ receiver.working \in BOOLEAN /\ receiver.open \in BOOLEAN
  /\ \A j \in Job :
       /\ job[j].pc \in {"none", "test", "send", "ended"}
       /\ job[j].buf \in {0, j}
       /\ job[j].pieces \in {{}, StartPieces, StopPieces}
       /\ job[j].next \in 1 .. NTargets + 1
  /\ arrivals \in 0 .. MaxArrivals

(* What a job sends is what it was made for, the packet of its own phone   *)
(* or the datagram that CtrlPacketReceiveJob accepted, at its own length:  *)
(* unless the job passes on the receive buffer and another datagram has    *)
(* arrived since.                                                          *)
AsMadeUnlessOverwritten ==
  \A j \in Job : job[j].sent > 0 =>
    \/ job[j].last = job[j].made
    \/ job[j].buf = 0 /\ job[j].arrival < arrivals

(* A job sends no packet twice to a target: action returns false after its *)
(* first round, whatever REPEAT_COUNT says, and JobWorker.run stops there. *)
AtMostOnce == \A j \in Job : job[j].sent <= NTargets

(* A control receiver whose halt has begun ends, whatever it does between  *)
(* the two statements of the halt: it may be about to enter receive with   *)
(* the socket still open, and when that closes its action returns true.    *)
HaltEndsReceiver ==
  ~(receiver.working /\ receiver.open) ~> receiver.pc = "ended"
=============================================================================
