------------------------- MODULE DataRelayer_proof -------------------------
(***************************************************************************)
(* Proofs about DataRelayer, for any number of targets and halting         *)
(* threads.                                                                *)
(*                                                                         *)
(* The argument is that of a lock: only its owner is at its outputs or at  *)
(* its closes, and while the owner closes, what is open is either nothing  *)
(* or everything from its next outputter on.                               *)
(***************************************************************************)
EXTENDS DataRelayer, TLAPS

Inside == {"outputs", "closeOuts"}

LockHeld == \A t \in Thread : pc[t] \in Inside <=> owner = t

Whole == outOpen \in {{}, Outputter}

(* Outside the closes of some thread all is open or all is closed. *)
WholeUnlessClosing == owner = NoThread \/ pc[Relayer] = "outputs" => Whole

Closing ==
  \A t \in Thread :
    pc[t] = "closeOuts" => outOpen \in {{}, {o \in Outputter : o >= next[t]}}

Ended ==
  \A t \in Thread :
    /\ pc[t] \in {"lock", "closeOuts", "end"} => ~inOpen
    /\ pc[t] = "end" => outOpen = {}

(* Up to the speaker, a round has what input returned in the buffer. *)
BufferFresh ==
  /\ pc[Relayer] = "output" => buffer = "cipher"
  /\ pc[Relayer] = "outputs" /\ next[Relayer] \in Outputter =>
       buffer = "cipher"

IInv ==
  /\ TypeOK
  /\ LockHeld
  /\ WholeUnlessClosing
  /\ Closing
  /\ Ended
  /\ BufferFresh
  /\ ForwardsAsReceived

-----------------------------------------------------------------------------
LEMMA InitInv == Init => IInv
<1> SUFFICES ASSUME Init PROVE IInv
  OBVIOUS
<1> USE ThreadAssumption, NoThreadAssumption, TargetsAssumption
<1>1. TypeOK
  <2>1. 1 \in 1 .. Targets + 2
    OBVIOUS
  <2>2. next \in [Thread -> 1 .. Targets + 2]
    BY <2>1 DEF Init
  <2>3. outOpen \subseteq Outputter
    BY DEF Init
  <2>4. pc \in [Thread -> {"idle", "start"}]
    BY DEF Init
  <2> QED
    BY <2>2, <2>3, <2>4 DEF Init, TypeOK
<1>2. LockHeld /\ WholeUnlessClosing /\ Closing /\ Ended
  BY DEF Init, LockHeld, WholeUnlessClosing, Whole, Closing, Ended, Inside,
         Thread
<1>3. BufferFresh /\ ForwardsAsReceived
  BY DEF Init, BufferFresh, ForwardsAsReceived, Thread
<1> QED
  BY <1>1, <1>2, <1>3 DEF IInv

LEMMA RunInv ==
  ASSUME IInv, Run
  PROVE  IInv'
<1> USE ThreadAssumption, NoThreadAssumption, TargetsAssumption
<1> USE DEF IInv, TypeOK, Goto, flags, data, Thread, Outputter
<1>1. ASSUME Tests PROVE IInv'
  BY <1>1 DEF Tests, LockHeld, WholeUnlessClosing, Whole, Closing, Ended,
              BufferFresh, ForwardsAsReceived, Inside
<1>2. ASSUME Inputs PROVE IInv'
  BY <1>2 DEF Inputs, LockHeld, WholeUnlessClosing, Whole, Closing, Ended,
              BufferFresh, ForwardsAsReceived, Inside
<1>3. ASSUME InputThrows PROVE IInv'
  BY <1>3 DEF InputThrows, LockHeld, WholeUnlessClosing, Whole, Closing, Ended,
              BufferFresh, ForwardsAsReceived, Inside
<1>4. ASSUME BeginsRound PROVE IInv'
  BY <1>4 DEF BeginsRound, LockHeld, WholeUnlessClosing, Whole, Closing, Ended,
              BufferFresh, ForwardsAsReceived, Inside
<1>5. ASSUME Outputs PROVE IInv'
  <2>1. /\ pc[Relayer] = "outputs" /\ next[Relayer] \in Outputter
        /\ next' = [next EXCEPT ![Relayer] = @ + 1]
        /\ UNCHANGED <<pc, owner, working, interrupted, inOpen, outOpen>>
    BY <1>5 DEF Outputs
  <2>2. buffer = "cipher"
    BY <2>1 DEF BufferFresh
  <2>3. CASE next[Relayer] = Targets + 1
    <3>1. buffer' \in {"cipher", "plain"} /\ forwarded' = forwarded
      BY <1>5, <2>2, <2>3 DEF Outputs, IsSpeaker
    <3> QED
      BY <2>1, <2>3, <3>1 DEF LockHeld, WholeUnlessClosing, Whole, Closing,
           Ended, BufferFresh, ForwardsAsReceived, Inside
  <2>4. CASE next[Relayer] # Targets + 1
    <3>1. buffer' = "cipher" /\ forwarded' = forwarded \cup {"cipher"}
      BY <1>5, <2>2, <2>4 DEF Outputs, IsSpeaker
    <3> QED
      BY <2>1, <2>4, <3>1 DEF LockHeld, WholeUnlessClosing, Whole, Closing,
           Ended, BufferFresh, ForwardsAsReceived, Inside
  <2> QED
    BY <2>3, <2>4
<1>6. ASSUME OutputThrows PROVE IInv'
  BY <1>6 DEF OutputThrows, LockHeld, WholeUnlessClosing, Whole, Closing,
              Ended, BufferFresh, ForwardsAsReceived, Inside
<1>7. ASSUME EndsRound PROVE IInv'
  BY <1>7 DEF EndsRound, LockHeld, WholeUnlessClosing, Whole, Closing, Ended,
              BufferFresh, ForwardsAsReceived, Inside
<1> QED
  BY <1>1, <1>2, <1>3, <1>4, <1>5, <1>6, <1>7 DEF Run

LEMMA HaltInv ==
  ASSUME IInv, NEW t \in Thread, HaltStep(t) \/ CallsHalt(t)
  PROVE  IInv'
<1> USE ThreadAssumption, NoThreadAssumption, TargetsAssumption
<1> USE DEF IInv, TypeOK, Goto, flags, data, Thread, Outputter
<1>1. ASSUME CallsHalt(t) PROVE IInv'
  BY <1>1 DEF CallsHalt, LockHeld, WholeUnlessClosing, Whole, Closing, Ended,
              BufferFresh, ForwardsAsReceived, Inside
<1>2. ASSUME StopsWorking(t) PROVE IInv'
  BY <1>2 DEF StopsWorking, LockHeld, WholeUnlessClosing, Whole, Closing,
              Ended, BufferFresh, ForwardsAsReceived, Inside
<1>3. ASSUME ClosesIn(t) PROVE IInv'
  BY <1>3 DEF ClosesIn, LockHeld, WholeUnlessClosing, Whole, Closing, Ended,
              BufferFresh, ForwardsAsReceived, Inside
<1>4. ASSUME Locks(t) PROVE IInv'
  BY <1>4 DEF Locks, LockHeld, WholeUnlessClosing, Whole, Closing, Ended,
              BufferFresh, ForwardsAsReceived, Inside
<1>5. ASSUME ClosesOut(t) PROVE IInv'
  <2>1. /\ pc[t] = "closeOuts" /\ next[t] \in Outputter
        /\ outOpen' = outOpen \ {next[t]}
        /\ next' = [next EXCEPT ![t] = @ + 1]
        /\ UNCHANGED <<pc, owner, working, interrupted, inOpen, buffer,
                      forwarded>>
    BY <1>5 DEF ClosesOut
  <2>2. owner = t /\ \A u \in Thread : pc[u] \in Inside => u = t
    BY <2>1 DEF LockHeld, Inside
  <2>3. TypeOK'
    <3>1. next[t] + 1 \in 1 .. Targets + 2
      BY <2>1
    <3>2. next' \in [Thread -> 1 .. Targets + 2]
      BY <2>1, <3>1
    <3> QED
      BY <2>1, <3>2
  <2>4. LockHeld'
    BY <2>1 DEF LockHeld
  <2>5. WholeUnlessClosing'
    BY <2>1, <2>2 DEF WholeUnlessClosing, Inside
  <2>6. Closing'
    <3>1. SUFFICES ASSUME NEW u \in Thread, pc'[u] = "closeOuts"
                   PROVE  outOpen' \in {{}, {o \in Outputter : o >= next'[u]}}
      BY DEF Closing
    <3>2. u = t
      BY <2>1, <2>2, <3>1 DEF Inside
    <3>3. outOpen \in {{}, {o \in Outputter : o >= next[t]}}
      BY <2>1 DEF Closing
    <3>4. next'[t] = next[t] + 1 /\ next[t] \in Int
      BY <2>1
    <3>5. CASE outOpen = {}
      BY <2>1, <3>5
    <3>6. CASE outOpen = {o \in Outputter : o >= next[t]}
      BY <2>1, <3>2, <3>4, <3>6
    <3> QED
      BY <3>3, <3>5, <3>6
  <2>7. Ended'
    BY <2>1 DEF Ended
  <2>8. BufferFresh' /\ ForwardsAsReceived'
    <3>1. pc[Relayer] = "outputs" => t = Relayer
      BY <2>2 DEF Inside
    <3>2. pc[Relayer] # "outputs"
      BY <2>1, <3>1
    <3> QED
      BY <2>1, <3>2 DEF BufferFresh, ForwardsAsReceived
  <2> QED
    BY <2>3, <2>4, <2>5, <2>6, <2>7, <2>8
<1>6. ASSUME Returns(t) PROVE IInv'
  BY <1>6 DEF Returns, LockHeld, WholeUnlessClosing, Whole, Closing, Ended,
              BufferFresh, ForwardsAsReceived, Inside
<1> QED
  BY <1>1, <1>2, <1>3, <1>4, <1>5, <1>6 DEF HaltStep

(* Every step keeps the invariant. *)
LEMMA NextInv == IInv /\ [Next]_vars => IInv'
<1> SUFFICES ASSUME IInv, [Next]_vars PROVE IInv'
  OBVIOUS
<1>1. CASE UNCHANGED vars
  BY <1>1 DEF vars, IInv, TypeOK, LockHeld, WholeUnlessClosing, Whole, Closing,
              Ended, BufferFresh, ForwardsAsReceived
<1>2. CASE Interrupts
  BY <1>2 DEF Interrupts, data, IInv, TypeOK, LockHeld, WholeUnlessClosing,
              Whole, Closing, Ended, BufferFresh, ForwardsAsReceived
<1>3. CASE Run
  BY <1>3, RunInv
<1>4. ASSUME NEW t \in Thread, HaltStep(t) \/ CallsHalt(t) PROVE IInv'
  BY <1>4, HaltInv
<1> QED
  BY <1>1, <1>2, <1>3, <1>4 DEF Next

-----------------------------------------------------------------------------
LEMMA Invariant == Spec => []IInv
BY InitInv, NextInv, PTL DEF Spec

(* The variables keep their kinds: nothing but packets is forwarded. *)
THEOREM TypeCorrect == Spec => []TypeOK
<1>1. IInv => TypeOK
  BY DEF IInv
<1> QED
  BY <1>1, Invariant, PTL

(* No halt, of however many threads, cuts a round of outputs in two. *)
THEOREM RoundIsWholeHolds == Spec => []RoundIsWhole
<1>1. IInv => RoundIsWhole
  BY DEF IInv, WholeUnlessClosing, Whole, RoundIsWhole
<1> QED
  BY <1>1, Invariant, PTL

(* Targets never get what the speaker has decrypted in the buffer. *)
THEOREM ForwardsAsReceivedHolds == Spec => []ForwardsAsReceived
<1>1. IInv => ForwardsAsReceived
  BY DEF IInv
<1> QED
  BY <1>1, Invariant, PTL

(* A relayer that has ended has closed everything. *)
THEOREM NothingLeftOpenHolds == Spec => []NothingLeftOpen
<1>1. IInv => NothingLeftOpen
  BY DEF IInv, Ended, NothingLeftOpen, Thread
<1> QED
  BY <1>1, Invariant, PTL
=============================================================================
