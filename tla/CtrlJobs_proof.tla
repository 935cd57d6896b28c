-------------------------- MODULE CtrlJobs_proof --------------------------
(***************************************************************************)
(* Proofs about CtrlJobs, for any number of calls, targets, jobs and       *)
(* datagrams.                                                              *)
(*                                                                         *)
(* Neither property is inductive alone.  That a job sends at most once to  *)
(* each target needs that no counter ever reaches REPEAT_COUNT, because    *)
(* every worker stops after its first round.  That it sends what it was    *)
(* made for needs to be known of the buffer as well as of what was sent:   *)
(* the pieces it will send are still those it was made for and nobody is   *)
(* filling them, or a datagram has arrived since.                          *)
(***************************************************************************)
EXTENDS CtrlJobs, TLAPS

Value == {"START", "STOP", None} \cup Call
Partial == UNION {[S -> Value] : S \in SUBSET Piece}
Pieces == {{}, StartPieces, StopPieces}

ReceiverType ==
  [pc : {"test", "receive", "fill", "ended"}, todo : Partial,
   pieces : Pieces, working : BOOLEAN, open : BOOLEAN]

JobType ==
  [pc : {"none", "test", "send", "ended"}, buf : {0} \cup Job,
   pieces : Pieces, next : 1 .. NTargets + 1, counter : {0},
   working : BOOLEAN, open : BOOLEAN,
   made : Partial, arrival : Nat, sent : Nat, last : Partial]

(* Pieces wait to be written only while a datagram is being received, and  *)
(* then the receiver knows its length.                                     *)
ReceiverFits ==
  /\ receiver \in ReceiverType
  /\ IF receiver.pc = "fill"
     THEN receiver.pieces # {} /\ DOMAIN receiver.todo \subseteq receiver.pieces
     ELSE DOMAIN receiver.todo = {}

Types ==
  /\ buffer \in [{0} \cup Job -> Content]
  /\ ReceiverFits
  /\ job \in [Job -> JobType]
  /\ arrivals \in 0 .. MaxArrivals

(* What job j is to send is still what it was made for, and is not being   *)
(* overwritten.                                                            *)
Current(j) ==
  /\ Taken(buffer[job[j].buf], job[j].pieces) = job[j].made
  /\ job[j].buf = 0 => receiver.pc # "fill"

Overtaken(j) == job[j].buf = 0 /\ job[j].arrival < arrivals

JobFits(j) ==
  /\ job[j].buf \in {0, j}
  /\ job[j].arrival <= arrivals
  /\ job[j].sent = IF job[j].pc = "send" THEN job[j].next - 1 ELSE 0
  /\ job[j].pc \in {"test", "send"} => Current(j) \/ Overtaken(j)
  /\ job[j].sent > 0 => job[j].last = job[j].made \/ Overtaken(j)

IInv == Types /\ \A j \in Job : JobFits(j)

-----------------------------------------------------------------------------
(* What a copy of some pieces is. *)
LEMMA TakenType ==
  ASSUME NEW S \in SUBSET Piece, NEW f, \A x \in S : f[x] \in Value
  PROVE  Taken(f, S) \in Partial
<1>1. Taken(f, S) \in [S -> Value]
  BY DEF Taken
<1> QED
  BY <1>1 DEF Partial

LEMMA EmptyPartial == <<>> \in Partial /\ DOMAIN <<>> = {}
<1>1. <<>> \in [{} -> Value] /\ DOMAIN <<>> = {}
  OBVIOUS
<1> QED
  BY <1>1 DEF Partial

LEMMA NoJobType == NoJob \in JobType /\ Ended \in JobType
<1>1. 1 \in 1 .. NTargets + 1
  BY BoundsAssumption
<1> QED
  BY <1>1, EmptyPartial DEF NoJob, Ended, JobType, Pieces

LEMMA DatagramType ==
  ASSUME NEW d \in Datagram
  PROVE  d \in Partial /\ DOMAIN d \in {StartPieces, StopPieces}
<1>1. PICK c \in Call :
        \/ d = CtrlPacketStart(c) \/ d = CtrlPacketStop(c)
        \/ d = [type |-> "START", ssrc |-> c]
        \/ d = [type |-> "STOP", ssrc |-> c, key |-> c]
  BY DEF Datagram
<1>2. CASE d = CtrlPacketStart(c)
  <2>1. d \in [Piece -> Value]
    BY <1>2 DEF CtrlPacketStart, Piece, Value
  <2> QED
    BY <2>1 DEF Partial, StartPieces
<1>3. CASE d = CtrlPacketStop(c)
  <2>1. d \in [StopPieces -> Value]
    BY <1>3 DEF CtrlPacketStop, StopPieces, Value
  <2> QED
    BY <2>1 DEF Partial, StopPieces, Piece
<1>4. CASE d = [type |-> "START", ssrc |-> c]
  <2>1. d \in [StopPieces -> Value]
    BY <1>4 DEF StopPieces, Value
  <2> QED
    BY <2>1 DEF Partial, StopPieces, Piece
<1>5. CASE d = [type |-> "STOP", ssrc |-> c, key |-> c]
  <2>1. d \in [Piece -> Value]
    BY <1>5 DEF Piece, Value
  <2> QED
    BY <2>1 DEF Partial, StartPieces
<1> QED
  BY <1>1, <1>2, <1>3, <1>4, <1>5

LEMMA OwnPacketType ==
  ASSUME NEW packet \in OwnPacket
  PROVE  packet \in Partial /\ DOMAIN packet \in {StartPieces, StopPieces}
<1>1. PICK c \in Call : packet = CtrlPacketStart(c) \/ packet = CtrlPacketStop(c)
  BY OwnCallAssumption DEF OwnPacket
<1>2. CASE packet = CtrlPacketStart(c)
  <2>1. packet \in [Piece -> Value]
    BY <1>2 DEF CtrlPacketStart, Piece, Value
  <2> QED
    BY <2>1 DEF Partial, StartPieces
<1>3. CASE packet = CtrlPacketStop(c)
  <2>1. packet \in [StopPieces -> Value]
    BY <1>3 DEF CtrlPacketStop, StopPieces, Value
  <2> QED
    BY <2>1 DEF Partial, StopPieces, Piece
<1> QED
  BY <1>1, <1>2, <1>3

(* The invariant says all that the three properties say. *)
LEMMA IInvImplies ==
  IInv => TypeOK /\ AtMostOnce /\ AsMadeUnlessOverwritten
<1> SUFFICES ASSUME IInv PROVE TypeOK /\ AtMostOnce /\ AsMadeUnlessOverwritten
  OBVIOUS
<1>1. TypeOK
  BY DEF IInv, Types, ReceiverFits, JobFits, TypeOK, ReceiverType,
         JobType, Pieces
<1>2. AtMostOnce
  BY BoundsAssumption DEF IInv, Types, JobFits, AtMostOnce, JobType
<1>3. AsMadeUnlessOverwritten
  BY DEF IInv, JobFits, Overtaken, AsMadeUnlessOverwritten
<1> QED
  BY <1>1, <1>2, <1>3

LEMMA InitIInv == Init => IInv
<1> SUFFICES ASSUME Init PROVE IInv
  OBVIOUS
<1>1. buffer \in [{0} \cup Job -> Content]
  BY DEF Init, EmptyBuffer, Content
<1>2. ReceiverFits
  BY EmptyPartial DEF Init, ReceiverFits, ReceiverType, Pieces
<1>3. job \in [Job -> JobType]
  BY NoJobType DEF Init
<1>4. \A j \in Job : JobFits(j)
  BY DEF Init, JobFits, NoJob
<1> QED
  BY <1>1, <1>2, <1>3, <1>4, BoundsAssumption DEF Init, IInv, Types

-----------------------------------------------------------------------------
(* A new job for pieces that lie in a buffer of its own, or in the receive *)
(* buffer when the receiver has handed it over.                            *)
LEMMA SendCtrlPacketStep ==
  ASSUME IInv, NEW j \in Job, NEW b \in {0, j},
         NEW pieces \in {StartPieces, StopPieces}, NEW content \in Content,
         SendCtrlPacket(j, b, pieces, content),
         buffer' \in [{0} \cup Job -> Content],
         buffer'[b] = content,
         \A c \in {0} \cup (Job \ {j}) : buffer'[c] = buffer[c],
         b = 0 => receiver'.pc # "fill",
         receiver' = receiver \/ receiver.pc = "fill",
         ReceiverFits',
         arrivals' = arrivals
  PROVE  IInv'
<1> DEFINE new == [NoJob EXCEPT !.pc = "test", !.buf = b, !.pieces = pieces,
                     !.working = TRUE, !.open = TRUE,
                     !.made = Taken(content, pieces), !.arrival = arrivals]
<1>1. job' = [job EXCEPT ![j] = new]
  BY DEF SendCtrlPacket
<1>2. Taken(content, pieces) \in Partial
  <2>1. pieces \in SUBSET Piece
    BY DEF StartPieces, StopPieces, Piece
  <2>2. \A x \in pieces : content[x] \in Value
    BY <2>1 DEF Content, Value
  <2> QED
    BY <2>1, <2>2, TakenType
<1>3. new \in JobType /\ new.pc = "test" /\ new.buf = b /\ new.pieces = pieces
      /\ new.made = Taken(content, pieces) /\ new.arrival = arrivals
      /\ new.sent = 0
  <2>1. arrivals \in Nat /\ b \in {0} \cup Job /\ pieces \in Pieces
    BY BoundsAssumption DEF IInv, Types, Pieces
  <2>2. NoJob \in JobType /\ NoJob.sent = 0
    BY NoJobType DEF NoJob
  <2> HIDE DEF new
  <2>3. new = [NoJob EXCEPT !.pc = "test", !.buf = b, !.pieces = pieces,
                 !.working = TRUE, !.open = TRUE,
                 !.made = Taken(content, pieces), !.arrival = arrivals]
    BY DEF new
  <2> QED
    BY <1>2, <2>1, <2>2, <2>3 DEF JobType
<1> HIDE DEF new
<1>4. Types'
  BY <1>1, <1>3 DEF IInv, Types
<1>5. JobFits(j)'
  BY <1>1, <1>3, <1>4 DEF IInv, Types, JobFits, Current, Overtaken
<1>6. ASSUME NEW i \in Job, i # j
      PROVE  JobFits(i)'
  <2>1. job'[i] = job[i] /\ buffer'[job[i].buf] = buffer[job[i].buf]
    BY <1>1, <1>6 DEF IInv, Types, JobFits
  <2>2. Current(i) => Current(i)' \/ Overtaken(i)'
    BY <2>1 DEF Current, Overtaken, Taken
  <2>3. Overtaken(i) => Overtaken(i)'
    BY <2>1 DEF Overtaken
  <2> QED
    BY <2>1, <2>2, <2>3, <1>6 DEF IInv, JobFits
<1> QED
  BY <1>4, <1>5, <1>6 DEF IInv

(* A step of the receiver that makes no job and writes no buffer, except   *)
(* the one that has arrived.                                               *)
LEMMA ReceiverOnlyStep ==
  ASSUME IInv, UNCHANGED <<buffer, job>>, arrivals' \in 0 .. MaxArrivals,
         ReceiverFits',
         arrivals' >= arrivals,
         receiver'.pc = "fill" => receiver.pc = "fill" \/ arrivals' > arrivals
  PROVE  IInv'
<1>1. Types'
  BY DEF IInv, Types, ReceiverFits
<1>2. ASSUME NEW j \in Job
      PROVE  JobFits(j)'
  <2>1. job[j].arrival \in Nat /\ arrivals \in Nat /\ arrivals' \in Nat
    BY <1>2, <1>1 DEF IInv, Types, JobType
  <2>2. Current(j) => Current(j)' \/ Overtaken(j)'
    BY <2>1, <1>2 DEF Current, Overtaken, IInv, JobFits
  <2>3. Overtaken(j) => Overtaken(j)'
    BY <2>1 DEF Overtaken
  <2> QED
    BY <2>1, <2>2, <2>3, <1>2 DEF IInv, JobFits
<1> QED
  BY <1>1, <1>2 DEF IInv

(* What a step may make of job j. *)
Follows(k, j) ==
  /\ k.buf \in {0, j}
  /\ k.arrival <= arrivals
  /\ k.sent = IF k.pc = "send" THEN k.next - 1 ELSE 0
  /\ k.pc \in {"test", "send"} =>
       /\ job[j].pc \in {"test", "send"}
       /\ k.buf = job[j].buf /\ k.pieces = job[j].pieces
       /\ k.made = job[j].made /\ k.arrival = job[j].arrival
  /\ k.sent > 0 => \/ k.last = k.made
                   \/ k.buf = 0 /\ k.arrival < arrivals

LEMMA JobOnlyStep ==
  ASSUME IInv, NEW j \in Job, NEW k \in JobType, Follows(k, j),
         job' = [job EXCEPT ![j] = k],
         UNCHANGED <<buffer, receiver, arrivals>>
  PROVE  IInv'
<1>1. Types'
  BY DEF IInv, Types, ReceiverFits
<1>2. ASSUME NEW i \in Job
      PROVE  JobFits(i)'
  <2>1. CASE i = j
    <3>1. job'[i] = k
      BY <2>1 DEF IInv, Types
    <3>2. k.pc \in {"test", "send"} => Current(i)' \/ Overtaken(i)'
      BY <3>1, <2>1 DEF IInv, JobFits, Current, Overtaken, Follows
    <3> QED
      BY <3>1, <3>2, <2>1 DEF JobFits, Overtaken, Follows
  <2>2. CASE i # j
    <3>1. job'[i] = job[i]
      BY <2>2 DEF IInv, Types
    <3> QED
      BY <3>1, <1>2 DEF IInv, JobFits, Current, Overtaken
  <2> QED
    BY <2>1, <2>2
<1> QED
  BY <1>1, <1>2 DEF IInv

-----------------------------------------------------------------------------
LEMMA SendsOwnStep ==
  ASSUME IInv, NEW j \in Job, NEW packet \in OwnPacket, SendsOwn(j, packet)
  PROVE  IInv'
<1> DEFINE content == [x \in Piece |->
                         IF x \in DOMAIN packet THEN packet[x] ELSE None]
<1>1. content \in Content
  <2>1. packet \in [DOMAIN packet -> Value]
    BY OwnPacketType DEF Partial
  <2> QED
    BY <2>1 DEF Content, Value
<1>2. /\ SendCtrlPacket(j, j, DOMAIN packet, content)
      /\ buffer' = [buffer EXCEPT ![j] = content]
      /\ UNCHANGED <<receiver, arrivals>>
  BY DEF SendsOwn
<1> HIDE DEF content
<1>3. buffer' \in [{0} \cup Job -> Content] /\ buffer'[j] = content
      /\ \A c \in {0} \cup (Job \ {j}) : buffer'[c] = buffer[c]
  BY <1>1, <1>2 DEF IInv, Types, Job
<1>4. j # 0
  BY DEF Job
<1>5. ReceiverFits'
  BY <1>2 DEF IInv, Types, ReceiverFits
<1>6. DOMAIN packet \in {StartPieces, StopPieces}
  BY OwnPacketType
<1> QED
  BY <1>1, <1>2, <1>3, <1>4, <1>5, <1>6, SendCtrlPacketStep

LEMMA AcceptsStep ==
  ASSUME IInv, NEW j \in Job, Accepts(j)
  PROVE  IInv'
<1>1. /\ SendCtrlPacket(j, 0, receiver.pieces, buffer[0])
      /\ receiver' = [receiver EXCEPT !.pc = "test", !.pieces = {}]
      /\ UNCHANGED <<buffer, arrivals>>
      /\ receiver.pc = "fill" /\ receiver.todo = <<>>
  BY DEF Accepts
<1>2. ReceiverFits' /\ receiver'.pc = "test"
  BY <1>1, EmptyPartial DEF IInv, Types, ReceiverFits, ReceiverType, Pieces
<1>3. receiver.pieces \in {StartPieces, StopPieces}
  BY <1>1 DEF IInv, Types, ReceiverFits, ReceiverType, Pieces
<1> QED
  BY <1>1, <1>2, <1>3, SendCtrlPacketStep DEF IInv, Types

LEMMA FillsStep ==
  ASSUME IInv, Fills
  PROVE  IInv'
<1>1. PICK x \in DOMAIN receiver.todo :
        /\ buffer' = [buffer EXCEPT ![0][x] = receiver.todo[x]]
        /\ receiver' = [receiver EXCEPT
                          !.todo = Taken(@, (DOMAIN @) \ {x})]
  BY DEF Fills
<1>2. PICK S \in SUBSET Piece : receiver.todo \in [S -> Value]
  BY DEF IInv, Types, ReceiverFits, ReceiverType, Partial
<1>3. Taken(receiver.todo, S \ {x}) \in Partial
  BY <1>2, TakenType
<1>4. ReceiverFits' /\ receiver'.pc = receiver.pc
  <2>1. DOMAIN receiver.todo = S
    BY <1>2
  <2>2. receiver' = [receiver EXCEPT !.todo = Taken(receiver.todo, S \ {x})]
    BY <1>1, <2>1 DEF IInv, Types, ReceiverFits, ReceiverType
  <2>3. DOMAIN Taken(receiver.todo, S \ {x}) \subseteq S
    BY DEF Taken
  <2> QED
    BY <1>3, <2>1, <2>2, <2>3
       DEF IInv, Types, ReceiverFits, ReceiverType, Fills
<1>5. buffer' \in [{0} \cup Job -> Content]
      /\ \A c \in Job : buffer'[c] = buffer[c]
  BY <1>1, <1>2 DEF IInv, Types, Content, Value, Job
<1>6. Types'
  BY <1>4, <1>5 DEF IInv, Types, Fills
<1>7. ASSUME NEW j \in Job
      PROVE  JobFits(j)'
  <2>1. job'[j] = job[j] /\ arrivals' = arrivals
    BY DEF Fills
  <2>2. Current(j) => Current(j)'
    BY <2>1, <1>4, <1>5 DEF Current, IInv, JobFits, Fills
  <2> QED
    BY <2>1, <2>2, <1>7 DEF IInv, JobFits, Overtaken
<1> QED
  BY <1>6, <1>7 DEF IInv

LEMMA ReceiverStepKeeps ==
  ASSUME IInv,
         \/ ReceiverTests \/ Ignores \/ ReceiverThrows \/ ReceiveThrows
         \/ EndCtrlReceiver \/ ClosesReceiver
         \/ \E d \in Datagram : Arrives(d)
  PROVE  IInv'
<1>1. arrivals \in 0 .. MaxArrivals /\ arrivals \in Nat
  BY DEF IInv, Types
<1>2. CASE ReceiverTests
  <2>1. ReceiverFits' /\ receiver'.pc # "fill"
    BY <1>2 DEF ReceiverTests, ReceiverEnds, IInv, Types, ReceiverFits,
               ReceiverType, Pieces
  <2> QED
    BY <1>1, <1>2, <2>1, ReceiverOnlyStep DEF ReceiverTests
<1>3. CASE Ignores
  <2>1. ReceiverFits' /\ receiver'.pc # "fill"
    BY <1>3, EmptyPartial DEF Ignores, IInv, Types, ReceiverFits, ReceiverType, Pieces
  <2> QED
    BY <1>1, <1>3, <2>1, ReceiverOnlyStep DEF Ignores
<1>3a. CASE ReceiverThrows
  <2>1. ReceiverFits' /\ receiver'.pc # "fill"
    BY <1>3a, EmptyPartial
       DEF ReceiverThrows, ReceiverEnds, IInv, Types, ReceiverFits,
           ReceiverType, Pieces
  <2> QED
    BY <1>1, <1>3a, <2>1, ReceiverOnlyStep DEF ReceiverThrows
<1>4. CASE ReceiveThrows
  <2>1. ReceiverFits' /\ receiver'.pc # "fill"
    BY <1>4 DEF ReceiveThrows, IInv, Types, ReceiverFits, ReceiverType, Pieces
  <2> QED
    BY <1>1, <1>4, <2>1, ReceiverOnlyStep DEF ReceiveThrows
<1>5. CASE EndCtrlReceiver \/ ClosesReceiver
  <2>1. ReceiverFits' /\ receiver'.pc = receiver.pc
    BY <1>5 DEF EndCtrlReceiver, ClosesReceiver, IInv, Types, ReceiverFits,
                ReceiverType
  <2> QED
    BY <1>1, <1>5, <2>1, ReceiverOnlyStep DEF EndCtrlReceiver, ClosesReceiver
<1>6. CASE \E d \in Datagram : Arrives(d)
  <2>1. PICK d \in Datagram : Arrives(d)
    BY <1>6
  <2>2. ReceiverFits'
    <3>1. d \in Partial /\ DOMAIN d \in Pieces /\ DOMAIN d # {}
      BY DatagramType DEF Pieces, StartPieces, StopPieces, Piece
    <3> QED
      BY <2>1, <3>1 DEF Arrives, IInv, Types, ReceiverFits, ReceiverType
  <2>3. arrivals' \in 0 .. MaxArrivals /\ arrivals' > arrivals
    <3>1. arrivals' = arrivals + 1 /\ arrivals < MaxArrivals
      BY <2>1 DEF Arrives
    <3> QED
      BY <1>1, <3>1, BoundsAssumption
  <2>4. UNCHANGED <<buffer, job>>
    BY <2>1 DEF Arrives
  <2>5. arrivals' >= arrivals
    BY <1>1, <2>3
  <2> QED
    BY <2>2, <2>3, <2>4, <2>5, ReceiverOnlyStep
<1> QED
  BY <1>2, <1>3, <1>3a, <1>4, <1>5, <1>6

LEMMA JobStepKeeps ==
  ASSUME IInv, NEW j \in Job, JobStep(j) \/ Halt(j)
  PROVE  IInv'
<1>1. job[j] \in JobType /\ JobFits(j)
  BY DEF IInv, Types
<1>2. Ended \in JobType /\ Follows(Ended, j)
  BY NoJobType DEF Ended, NoJob, IInv, Types, Follows
<1>3. ASSUME job' = [job EXCEPT ![j] = Ended],
             UNCHANGED <<buffer, receiver, arrivals>>
      PROVE  IInv'
  BY <1>2, <1>3, JobOnlyStep
<1>4. CASE Tests(j) /\ job[j].working
  <2> DEFINE k == [job[j] EXCEPT !.pc = "send", !.next = 1]
  <2>1. job' = [job EXCEPT ![j] = k]
    BY <1>4 DEF Tests, IInv, Types
  <2>2. 1 \in 1 .. NTargets + 1
    BY BoundsAssumption
  <2>3. k \in JobType
    BY <1>1, <2>2 DEF JobType
  <2>4. Follows(k, j)
    BY <1>1, <1>4 DEF JobType, Tests, JobFits, Follows
  <2> HIDE DEF k
  <2> QED
    BY <1>4, <2>1, <2>3, <2>4, JobOnlyStep DEF Tests
<1>5. CASE Tests(j) /\ ~job[j].working
  <2>1. job' = [job EXCEPT ![j] = Ended]
    BY <1>5 DEF Tests, IInv, Types
  <2> QED
    BY <1>3, <1>5, <2>1 DEF Tests
<1>6. CASE Outputs(j)
  <2> DEFINE sent == Taken(buffer[job[j].buf], job[j].pieces)
             k == [job[j] EXCEPT !.next = @ + 1, !.sent = @ + 1, !.last = sent]
  <2>1. job' = [job EXCEPT ![j] = k]
    BY <1>6 DEF Outputs, IInv, Types
  <2>2. sent \in Partial
    <3>1. buffer[job[j].buf] \in Content
      BY <1>1 DEF IInv, Types, JobType
    <3>2. job[j].pieces \in SUBSET Piece
      BY <1>1 DEF JobType, Pieces, StartPieces, StopPieces, Piece
    <3> QED
      BY <3>1, <3>2, TakenType DEF Content, Value
  <2>3. sent = job[j].made \/ (job[j].buf = 0 /\ job[j].arrival < arrivals)
    <3>1. Current(j) \/ Overtaken(j)
      BY <1>1, <1>6 DEF Outputs, JobFits
    <3> QED
      BY <3>1 DEF Current, Overtaken
  <2> HIDE DEF sent
  <2>4. job[j].next + 1 \in 1 .. NTargets + 1 /\ job[j].sent + 1 \in Nat
    BY <1>1, <1>6, BoundsAssumption DEF JobType, Outputs
  <2>5. k \in JobType
    BY <1>1, <2>2, <2>4 DEF JobType
  <2>6. job[j].sent = job[j].next - 1 /\ job[j].next \in Int
    BY <1>1, <1>6 DEF Outputs, JobFits, JobType
  <2>7. /\ k.buf = job[j].buf /\ k.pieces = job[j].pieces
        /\ k.made = job[j].made /\ k.arrival = job[j].arrival
        /\ k.pc = "send" /\ k.last = sent
        /\ k.next = job[j].next + 1 /\ k.sent = job[j].sent + 1
    BY <1>1, <1>6 DEF JobType, Outputs
  <2> HIDE DEF k
  <2>8. Follows(k, j)
    BY <1>1, <1>6, <2>3, <2>6, <2>7 DEF Outputs, JobFits, Follows
  <2> QED
    BY <1>6, <2>1, <2>5, <2>8, JobOnlyStep DEF Outputs
<1>7. CASE OutputThrows(j)
  BY <1>3, <1>7 DEF OutputThrows
<1>8. CASE ActionEnds(j)
  <2>1. ~Again(job[j].counter + 1)
    BY <1>1 DEF JobType, Again, REPEAT_COUNT
  <2> QED
    BY <1>3, <1>8, <2>1 DEF ActionEnds
<1>9. CASE Halt(j)
  <2> DEFINE k == [job[j] EXCEPT !.working = FALSE, !.open = FALSE]
  <2>1. job' = [job EXCEPT ![j] = k]
    BY <1>9 DEF Halt, IInv, Types
  <2>2. k \in JobType
    BY <1>1 DEF JobType
  <2>3. Follows(k, j)
    BY <1>1 DEF JobType, JobFits, Follows, Overtaken
  <2> HIDE DEF k
  <2> QED
    BY <1>9, <2>1, <2>2, <2>3, JobOnlyStep DEF Halt
<1> QED
  BY <1>4, <1>5, <1>6, <1>7, <1>8, <1>9 DEF JobStep, Tests

LEMMA NextIInv == IInv /\ [Next]_vars => IInv'
<1> SUFFICES ASSUME IInv, [Next]_vars PROVE IInv'
  OBVIOUS
<1>1. CASE \E j \in Job : JobStep(j) \/ Halt(j)
  BY <1>1, JobStepKeeps
<1>2. CASE \E j \in Job, packet \in OwnPacket : SendsOwn(j, packet)
  BY <1>2, SendsOwnStep
<1>3. CASE \E d \in Datagram : Arrives(d)
  BY <1>3, ReceiverStepKeeps
<1>4. CASE ReceiverStep \/ ReceiveThrows
  BY <1>4, ReceiverStepKeeps, FillsStep, AcceptsStep
     DEF ReceiverStep, ReceiveFails
<1>5. CASE EndCtrlReceiver \/ ClosesReceiver
  BY <1>5, ReceiverStepKeeps
<1>6. CASE UNCHANGED vars
  BY <1>6 DEF vars, IInv, Types, ReceiverFits, JobFits, Current, Overtaken
<1> QED
  BY <1>1, <1>2, <1>3, <1>4, <1>5, <1>6 DEF Next

LEMMA Invariant == Spec => []IInv
BY InitIInv, NextIInv, PTL DEF Spec

(* The buffers hold what packets are made of, a job uses its own buffer or *)
(* the receive buffer, and no round goes past the last target.             *)
THEOREM TypeCorrect == Spec => []TypeOK
BY Invariant, IInvImplies, PTL

(* However many targets there are, CtrlPacketSendJob sends its packet at   *)
(* most once to each of them, and REPEAT_COUNT is never reached.           *)
THEOREM AtMostOnceHolds == Spec => []AtMostOnce
BY Invariant, IInvImplies, PTL

(* A packet that is sent is the packet its job was made for, unless the    *)
(* job passes on the receive buffer and a datagram has arrived since.      *)
THEOREM AsMadeUnlessOverwrittenHolds == Spec => []AsMadeUnlessOverwritten
BY Invariant, IInvImplies, PTL
=============================================================================
