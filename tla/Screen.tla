------------------------------- MODULE Screen -------------------------------
(***************************************************************************)
(* The main screen (activitys/main) and the service it is bound to, on one *)
(* phone: the toggle by which the user talks, the label that says that     *)
(* something is received, and the life of the activity, which the system   *)
(* stops, destroys and makes anew while the service goes on.               *)
(*                                                                         *)
(* All but the control receiver is done on the main thread, one message    *)
(* after the other.  Of the service only what the screen can tell apart is *)
(* here; FloorControl has the rest.                                        *)
(***************************************************************************)
EXTENDS Integers, Sequences

CONSTANTS
  AccountLevel,  \* the level at which this phone talks
  Levels,        \* the levels of the STARTs that arrive
  MaxPending,    \* bound: broadcasts under way
  MaxCalls       \* bound: STARTs, STOPs and changes of the link

ASSUME LevelsAssumption == AccountLevel \in Nat /\ Levels \subseteq Nat
ASSUME BoundsAssumption == MaxPending \in Nat /\ MaxCalls \in Nat

INVALID_SESSION_LEVEL == -1

VARIABLES
  screen,     \* the MainActivity with its view model, views and use case
  service,    \* RtpService with its binder
  pending,    \* broadcasts that have not arrived, oldest first
  made,       \* history: made anew, and not touched since
  taken,      \* history: others have ended the talk that the toggle began
  missed,     \* history: the last broadcast has found no receiver, or the
              \*   screen that got it has been made anew
  untrue,     \* history: the last broadcast sent was the BEGIN of a reception
              \*   that did not come about
  calls       \* bound: number of STARTs, STOPs and changes of the link

vars == <<screen, service, pending, made, taken, missed, untrue, calls>>

NoService == [up |-> FALSE, stopping |-> FALSE, level |-> INVALID_SESSION_LEVEL,
              mic |-> "null", spk |-> FALSE]

(* A new view model says that nothing is sent (mSendStatus, which nobody   *)
(* ever sets to true); the first frame brings the toggle into line.        *)
NewScreen(toggle) ==
  [life |-> "started", connected |-> FALSE, toggle |-> toggle, dirty |-> TRUE,
   receives |-> FALSE]
NoScreen == [NewScreen(FALSE) EXCEPT !.life = "none", !.dirty = FALSE]

Init ==
  /\ screen = NoScreen /\ service = NoService /\ pending = <<>>
  /\ made = FALSE /\ taken = FALSE /\ missed = FALSE /\ untrue = FALSE
  /\ calls = 0

-----------------------------------------------------------------------------
(* The binder, as far as the screen sees it: the service afterwards, and   *)
(* the broadcasts that endRtpReceiver and beginRtpReceiver send.           *)

(* Plausible bug: the session is released and the relayer kept. *)
EndRtpSenderKeepsMic(s) ==
  IF s.mic = "null" THEN s ELSE [s EXCEPT !.level = INVALID_SESSION_LEVEL]

EndRtpSender(s) ==
  IF s.mic = "null" THEN s
  ELSE [s EXCEPT !.mic = "null", !.level = INVALID_SESSION_LEVEL]

EndRtpReceiver(s) ==
  IF s.spk THEN [s EXCEPT !.spk = FALSE, !.level = INVALID_SESSION_LEVEL] ELSE s

(* Plausible bug: nobody is told. *)
EndsSilently(s) == <<>>

Ends(s) == IF s.spk THEN <<"END">> ELSE <<>>

(* Plausible bug: the toggle is left as it is. *)
RefusedNot(scr) == scr

(* setSendStatus(false), when beginRtpSender has returned false.           *)
Refused(scr) == [scr EXCEPT !.dirty = TRUE]

(* Plausible bug: a sender that has failed half way is not cleaned up. *)
StopSendRtpIfRunning(scr, s) ==
  IF scr.connected /\ s.mic = "running" THEN EndRtpSender(s) ELSE s

(* MainUseCaseImpl.stopSendRtp *)
StopSendRtp(scr, s) == IF scr.connected THEN EndRtpSender(s) ELSE s

-----------------------------------------------------------------------------
(* The user and the toggle. *)

(* MainUseCaseImpl.startSendRtp; setSendStatus(false) takes effect with    *)
(* the next frame.  fails: beginRtpSender gets no socket for a target,     *)
(* when the microphone relayer has been made already.                      *)
SwitchesOn(fails) ==
  LET scr == [screen EXCEPT !.toggle = TRUE]
      begins == screen.connected /\ service.level < AccountLevel
      s == EndRtpSender(EndRtpReceiver(service))
  IN  /\ screen.life = "started" /\ ~screen.toggle
      /\ Len(pending) < MaxPending
      /\ fails => begins
      /\ screen' = IF begins /\ ~fails THEN scr ELSE Refused(scr)
      /\ service' = IF begins
                    THEN [s EXCEPT !.level = AccountLevel,
                                   !.mic = IF fails THEN "dead" ELSE "running"]
                    ELSE service
      /\ pending' = IF begins THEN pending \o Ends(service) ELSE pending
      /\ made' = (made /\ ~screen.connected)
      /\ taken' = FALSE
      /\ UNCHANGED <<missed, untrue, calls>>

SwitchesOff ==
  /\ screen.life = "started" /\ screen.toggle
  /\ screen' = [screen EXCEPT !.toggle = FALSE]
  /\ service' = StopSendRtp(screen, service)
  /\ made' = (made /\ ~screen.connected)
  /\ taken' = FALSE
  /\ UNCHANGED <<pending, missed, untrue, calls>>

(* The frame that sets the toggle to mSendStatus; its listener is called   *)
(* as if the user had switched it off.                                     *)
Rebinds ==
  /\ screen.dirty
  /\ screen' = [screen EXCEPT !.dirty = FALSE, !.toggle = FALSE]
  /\ service' = IF screen.toggle THEN StopSendRtp(screen, service) ELSE service
  /\ taken' = FALSE
  /\ UNCHANGED <<pending, made, missed, untrue, calls>>

-----------------------------------------------------------------------------
(* The life of the activity. *)

Launches ==
  /\ screen.life = "none" /\ ~service.stopping
  /\ screen' = NewScreen(FALSE)
  /\ service' = [service EXCEPT !.up = TRUE]
  /\ made' = FALSE /\ taken' = FALSE /\ missed' = FALSE
  /\ untrue' = (untrue /\ pending # <<>>)
  /\ UNCHANGED <<pending, calls>>

Connects ==
  /\ screen.life \in {"started", "stopped"} /\ ~screen.connected
  /\ screen' = [screen EXCEPT !.connected = TRUE]
  /\ UNCHANGED <<service, pending, made, taken, missed, untrue, calls>>

ComesAndGoes ==
  /\ \/ screen.life = "started" /\ screen' = [screen EXCEPT !.life = "stopped"]
     \/ screen.life = "stopped" /\ screen' = [screen EXCEPT !.life = "started"]
  /\ UNCHANGED <<service, pending, made, taken, missed, untrue, calls>>

(* The system destroys a stopped activity; only the toggle is saved.       *)
IsDestroyed ==
  /\ screen.life = "stopped"
  /\ screen' = [NoScreen EXCEPT !.life = "saved", !.toggle = screen.toggle]
  /\ UNCHANGED <<service, pending, made, taken, missed, untrue, calls>>

(* It is made anew, also at once after a change of the configuration.  The *)
(* toggle that is restored calls its listener when no binder is there yet. *)
IsMadeAnew ==
  /\ screen.life \in {"saved", "started"}
  /\ screen' = NewScreen(screen.toggle)
  /\ made' = TRUE /\ missed' = TRUE
  /\ UNCHANGED <<service, pending, taken, untrue, calls>>

(* Plausible bug: the service is left running. *)
FinishesOnly ==
  /\ screen.life = "started"
  /\ screen' = NoScreen
  /\ UNCHANGED <<service, pending, made, taken, missed, untrue, calls>>

Finishes ==
  /\ screen.life = "started"
  /\ screen' = NoScreen
  /\ service' = [service EXCEPT !.stopping = TRUE]
  /\ UNCHANGED <<pending, made, taken, missed, untrue, calls>>

(* RtpService.onDestroy *)
ServiceIsDestroyed ==
  /\ service.stopping /\ Len(pending) < MaxPending
  /\ service' = NoService
  /\ pending' = pending \o Ends(service)
  /\ UNCHANGED <<screen, made, taken, missed, untrue, calls>>

(* MainBroadcastReceiver is registered from onStart to onStop.             *)
BroadcastArrives ==
  /\ pending # <<>>
  /\ pending' = Tail(pending)
  /\ missed' = (screen.life # "started")
  /\ screen' = IF screen.life = "started"
               THEN [screen EXCEPT !.receives = Head(pending) = "BEGIN"]
               ELSE screen
  /\ UNCHANGED <<service, made, taken, untrue, calls>>

-----------------------------------------------------------------------------
(* What happens to the service without the screen. *)

Called ==
  /\ service.up /\ ~service.stopping
  /\ calls < MaxCalls /\ calls' = calls + 1
  /\ Len(pending) + 2 <= MaxPending

ReceiveStart ==
  \E level \in Levels, bound \in BOOLEAN :
    /\ Called /\ service.level < level
    /\ service' = [EndRtpSender(EndRtpReceiver(service)) EXCEPT
                     !.level = level, !.spk = bound]
    /\ pending' = pending \o Ends(service) \o <<"BEGIN">>
    /\ taken' = (taken \/ service.mic # "null")
    /\ untrue' = ~bound
    /\ UNCHANGED <<screen, made, missed>>

ReceiveStop ==
  /\ Called /\ service.mic = "null" /\ service.level > INVALID_SESSION_LEVEL
  /\ service' = EndRtpReceiver(service)
  /\ pending' = pending \o Ends(service)
  /\ UNCHANGED <<screen, made, taken, missed, untrue>>

LinkChanges ==
  /\ Called
  /\ service' = EndRtpReceiver(EndRtpSender(service))
  /\ pending' = pending \o Ends(service)
  /\ taken' = (taken \/ service.mic # "null")
  /\ UNCHANGED <<screen, made, missed, untrue>>

(* The talker has fallen silent; mPacket2Speaker stays, nobody is told.    *)
ReceptionTimesOut ==
  /\ service.spk /\ service.level > INVALID_SESSION_LEVEL
  /\ service' = [service EXCEPT !.level = INVALID_SESSION_LEVEL]
  /\ UNCHANGED <<screen, pending, made, taken, missed, untrue, calls>>

-----------------------------------------------------------------------------
MainThread == Rebinds \/ Connects \/ ServiceIsDestroyed \/ BroadcastArrives

Next ==
  \/ \E fails \in BOOLEAN : SwitchesOn(fails)
  \/ SwitchesOff \/ MainThread
  \/ Launches \/ ComesAndGoes \/ IsDestroyed \/ IsMadeAnew \/ Finishes
  \/ ReceiveStart \/ ReceiveStop \/ LinkChanges \/ ReceptionTimesOut

Spec == Init /\ [][Next]_vars
FairSpec == Spec /\ WF_vars(MainThread)

-----------------------------------------------------------------------------
(* Properties. *)

(* The variables keep their types; a phone never talks and listens.        *)
TypeOK ==
  /\ screen \in [life : {"none", "started", "stopped", "saved"},
                 connected : BOOLEAN, toggle : BOOLEAN, dirty : BOOLEAN,
                 receives : BOOLEAN]
  /\ service \in [up : BOOLEAN, stopping : BOOLEAN,
                  level : Levels \cup {AccountLevel, INVALID_SESSION_LEVEL},
                  mic : {"null", "running", "dead"}, spk : BOOLEAN]
  /\ service.mic = "null" \/ ~service.spk
  /\ Len(pending) <= MaxPending
  /\ calls \in 0 .. MaxCalls

(* No frame, connection or broadcast is due. *)
Settled ==
  /\ screen.life = "started" /\ screen.connected
  /\ ~screen.dirty /\ pending = <<>>

(* A microphone that is open, or has failed half way, shows as a toggle    *)
(* that is on, so that it can be switched off: only a screen that has been *)
(* made anew loses it, and the next touch of the toggle mends that         *)
(* (MainUseCaseImpl.startSendRtp is refused and falls back to stopSendRtp).*)
MicrophoneIsShown ==
  Settled /\ ~made /\ service.mic # "null" => screen.toggle

(* A toggle that is on means that the phone talks, unless others have      *)
(* ended the talk, of which the screen is not told.                        *)
ToggleMeansTalk ==
  Settled /\ screen.toggle => service.mic = "running" \/ taken

(* The label tells of every reception that goes on, and of nothing but a   *)
(* receiver that the binder has.  It may be wrong only until the next      *)
(* broadcast: after one that found no receiver, or that announced what did *)
(* not come about (beginRtpReceiver sends it before it binds).  When the   *)
(* talker has fallen silent the session is over, the binder keeps its      *)
(* receiver and nobody tells the screen (the TODO of RtpPacketInputter):   *)
(* what the label says from then on is not claimed.                        *)
ReceptionIsShown ==
  Settled /\ ~missed /\ ~untrue =>
    /\ service.spk /\ service.level > INVALID_SESSION_LEVEL => screen.receives
    /\ screen.receives => service.spk

(* Once the user has left the screen for good the microphone is closed, or *)
(* the screen is there again (MainActivity.onDestroy stops the service).   *)
FinishSilences ==
  screen.life = "none" ~> service.mic = "null" \/ screen.life # "none"
=============================================================================
