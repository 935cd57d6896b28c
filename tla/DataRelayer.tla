---------------------------- MODULE DataRelayer ----------------------------
(***************************************************************************)
(* io/DataRelayer.java as the listener uses it: a thread of the executor   *)
(* reads packets and gives each to the outputters, while the threads that  *)
(* run RtpServiceBinderImpl call halt.  Targets come first in the list and *)
(* the speaker last, since DecryptSpeakerOutputter decrypts in the buffer  *)
(* that all of them share.                                                 *)
(*                                                                         *)
(* The unit of a step is what other threads can see: the test of           *)
(* mIsWorking, the return of input, the lock of mOutputterList, and one    *)
(* output or close.                                                        *)
(***************************************************************************)
EXTENDS Integers

CONSTANTS
  Halter,    \* threads that call halt
  Relayer,   \* the thread of the executor
  NoThread,  \* the owner of a lock that is free
  Targets    \* number of phones the audio is passed on to

ASSUME ThreadAssumption == Relayer \notin Halter
ASSUME NoThreadAssumption == NoThread \notin Halter \cup {Relayer}
ASSUME TargetsAssumption == Targets \in Nat

VARIABLES
  pc,          \* where each thread is
  next,        \* the outputter it comes to next, inside the lock
  owner,       \* who holds the lock of mOutputterList
  working,     \* mIsWorking
  interrupted, \* the interrupt flag of the relayer's thread
  inOpen,      \* mIn is not closed
  outOpen,     \* the outputters that are not closed
  buffer,      \* what is in the buffer of mIn
  forwarded    \* history: what the targets have been sent

vars == <<pc, next, owner, working, interrupted, inOpen, outOpen, buffer,
          forwarded>>

Thread == Halter \cup {Relayer}
Outputter == 1 .. Targets + 1

(* Plausible bug: the speaker is added before the targets. *)
IsSpeakerFirst(o) == o = 1
IsSpeaker(o) == o = Targets + 1

Goto(t, label) == pc' = [pc EXCEPT ![t] = label]

Init ==
  /\ pc = [t \in Thread |-> IF t = Relayer THEN "start" ELSE "idle"]
  /\ next = [t \in Thread |-> 1]
  /\ owner = NoThread
  /\ working = TRUE
  /\ interrupted = FALSE
  /\ inOpen = TRUE
  /\ outOpen = Outputter
  /\ buffer = "empty"
  /\ forwarded = {}

flags == <<working, interrupted, inOpen>>
data == <<outOpen, buffer, forwarded>>

-----------------------------------------------------------------------------
(* run *)

Tests ==
  /\ pc[Relayer] \in {"start", "test"}
  /\ IF ~interrupted /\ working
     THEN Goto(Relayer, "input") ELSE Goto(Relayer, "halt")
  /\ interrupted' = FALSE          \* Thread.interrupted() clears the flag
  /\ UNCHANGED <<next, owner, working, inOpen, data>>

(* Plausible bug: nothing was read, and the relayer goes on to its outputs. *)
InputsNothing ==
  /\ pc[Relayer] = "input" /\ inOpen
  /\ Goto(Relayer, "output")
  /\ UNCHANGED <<next, owner, flags, data>>

(* input returns a packet, or nothing. *)
Inputs ==
  /\ pc[Relayer] = "input" /\ inOpen
  /\ \/ Goto(Relayer, "output") /\ buffer' = "cipher"
     \/ Goto(Relayer, "test") /\ UNCHANGED buffer
  /\ UNCHANGED <<next, owner, flags, outOpen, forwarded>>

(* Plausible bug: the exception leaves the thread without the finally. *)
InputThrowsAway ==
  /\ pc[Relayer] = "input"
  /\ Goto(Relayer, "end")
  /\ UNCHANGED <<next, owner, flags, data>>

(* input throws: mIn is closed, or its device fails.  A receive that is    *)
(* under way returns when the socket is closed.                            *)
InputThrows ==
  /\ pc[Relayer] = "input"
  /\ Goto(Relayer, "halt")
  /\ UNCHANGED <<next, owner, flags, data>>

BeginsRound ==
  /\ pc[Relayer] = "output" /\ owner = NoThread
  /\ owner' = Relayer
  /\ next' = [next EXCEPT ![Relayer] = 1]
  /\ Goto(Relayer, "outputs")
  /\ UNCHANGED <<flags, data>>

(* The next outputter takes the buffer.  A closed socket throws; a stopped *)
(* speaker does not.  Without a cipher the speaker leaves the buffer.      *)
Outputs ==
  LET o == next[Relayer]
  IN  /\ pc[Relayer] = "outputs" /\ o \in Outputter
      /\ o \in outOpen \/ IsSpeaker(o)
      /\ IF IsSpeaker(o) THEN buffer' \in {buffer, "plain"} /\ UNCHANGED forwarded
         ELSE forwarded' = forwarded \cup {buffer} /\ UNCHANGED buffer
      /\ next' = [next EXCEPT ![Relayer] = @ + 1]
      /\ UNCHANGED <<pc, owner, flags, outOpen>>

OutputThrows ==
  /\ pc[Relayer] = "outputs" /\ next[Relayer] \in Outputter
  /\ owner' = NoThread
  /\ Goto(Relayer, "halt")
  /\ UNCHANGED <<next, flags, data>>

EndsRound ==
  /\ pc[Relayer] = "outputs" /\ next[Relayer] \notin Outputter
  /\ owner' = NoThread
  /\ Goto(Relayer, "test")
  /\ UNCHANGED <<next, flags, data>>

-----------------------------------------------------------------------------
(* halt, by a thread of the binder or in the relayer's own finally. *)

CallsHalt(t) ==
  /\ t # Relayer /\ pc[t] = "idle"
  /\ Goto(t, "halt")
  /\ UNCHANGED <<next, owner, flags, data>>

StopsWorking(t) ==
  /\ pc[t] = "halt"
  /\ working' = FALSE
  /\ Goto(t, "closeIn")
  /\ UNCHANGED <<next, owner, interrupted, inOpen, data>>

(* Plausible bug: the socket is left open. *)
ClosesInNot(t) ==
  /\ pc[t] = "closeIn"
  /\ Goto(t, "lock")
  /\ UNCHANGED <<next, owner, flags, data>>

ClosesIn(t) ==
  /\ pc[t] = "closeIn"
  /\ inOpen' = FALSE
  /\ Goto(t, "lock")
  /\ UNCHANGED <<next, owner, working, interrupted, data>>

(* Plausible bug: the list is not locked. *)
LocksNot(t) ==
  /\ pc[t] = "lock"
  /\ next' = [next EXCEPT ![t] = 1]
  /\ Goto(t, "closeOuts")
  /\ UNCHANGED <<owner, flags, data>>

Locks(t) ==
  /\ pc[t] = "lock" /\ owner = NoThread
  /\ owner' = t
  /\ next' = [next EXCEPT ![t] = 1]
  /\ Goto(t, "closeOuts")
  /\ UNCHANGED <<flags, data>>

ClosesOut(t) ==
  /\ pc[t] = "closeOuts" /\ next[t] \in Outputter
  /\ outOpen' = outOpen \ {next[t]}
  /\ next' = [next EXCEPT ![t] = @ + 1]
  /\ UNCHANGED <<pc, owner, flags, buffer, forwarded>>

Returns(t) ==
  /\ pc[t] = "closeOuts" /\ next[t] \notin Outputter
  /\ owner' = NoThread
  /\ Goto(t, "end")
  /\ UNCHANGED <<next, flags, data>>

(* close of the binder: shutdownNow interrupts the threads. *)
Interrupts ==
  /\ ~interrupted
  /\ \E t \in Halter : pc[t] = "end"
  /\ interrupted' = TRUE
  /\ UNCHANGED <<pc, next, owner, working, inOpen, data>>

-----------------------------------------------------------------------------
Run ==
  Tests \/ Inputs \/ InputThrows \/ BeginsRound \/ Outputs \/ OutputThrows
  \/ EndsRound

HaltStep(t) ==
  StopsWorking(t) \/ ClosesIn(t) \/ Locks(t) \/ ClosesOut(t) \/ Returns(t)

Next ==
  \/ Run
  \/ \E t \in Thread : HaltStep(t) \/ CallsHalt(t)
  \/ Interrupts

Spec == Init /\ [][Next]_vars

(* Threads that can go on do; a receive on an open socket need not return, *)
(* one on a closed socket throws.  No fairness of the lock is needed.      *)
RunsOn ==
  Tests \/ BeginsRound \/ Outputs \/ OutputThrows \/ EndsRound
  \/ (~inOpen /\ InputThrows)

Fairness == WF_vars(RunsOn) /\ \A t \in Thread : WF_vars(HaltStep(t))

FairSpec == Spec /\ Fairness
-----------------------------------------------------------------------------
(* Every variable holds a value of its kind. *)
TypeOK ==
  /\ pc \in [Thread -> {"idle", "start", "test", "input", "output", "outputs",
                        "halt", "closeIn", "lock", "closeOuts", "end"}]
  /\ next \in [Thread -> 1 .. Targets + 2]
  /\ owner \in Thread \cup {NoThread}
  /\ {working, interrupted, inOpen} \subseteq BOOLEAN
  /\ outOpen \subseteq Outputter
  /\ buffer \in {"empty", "cipher", "plain"}
  /\ forwarded \subseteq {"cipher", "plain"}

(* A halt never cuts a round of outputs in two: as long as the relayer is  *)
(* at its outputters, either all are open or all are closed.               *)
RoundIsWhole == pc[Relayer] = "outputs" => outOpen \in {{}, Outputter}

(* Targets are passed the packet as it came, never what the speaker has    *)
(* decrypted in the same buffer.                                           *)
ForwardsAsReceived == forwarded \subseteq {"cipher"}

(* A relayer that has ended has left no socket and no speaker open, also   *)
(* when an exception ended it and no binder thread ever calls halt.        *)
NothingLeftOpen == pc[Relayer] = "end" => ~inOpen /\ outOpen = {}

(* Whoever calls halt comes back, and then the relayer ends with all of    *)
(* its sockets closed, even if it had not run yet or was blocked in input. *)
HaltEndsAll ==
  \A t \in Halter :
    pc[t] = "halt" ~>
      pc[t] = "end" /\ pc[Relayer] = "end" /\ ~inOpen /\ outOpen = {}
=============================================================================
