---------------------------- MODULE Screen_proof ----------------------------
(***************************************************************************)
(* Proofs about Screen, for any levels and any number of calls and         *)
(* broadcasts.                                                             *)
(*                                                                         *)
(* The properties speak of a screen that has settled.  The invariants say  *)
(* how it stands at any time: an open microphone needs a toggle that is on *)
(* and a connection to switch it off; a toggle that is on, and will not be *)
(* brought into line with the next frame, has a connection and a talk; and *)
(* the last broadcast under way, or if there is none the label of a screen *)
(* that has missed nothing, says whether there is a receiver.  All of them *)
(* rest on a service that is gone, or about to go, whenever there is no    *)
(* screen.                                                                 *)
(***************************************************************************)
EXTENDS Screen, SequenceTheorems, TLAPS

Alive == screen.life \in {"started", "stopped"}

(* A service outlives its screen only until it has been stopped. *)
ServiceNeedsScreen ==
  /\ screen.life = "none" => service.stopping \/ service = NoService
  /\ service.stopping => screen.life = "none"

MicrophoneKept ==
  Alive /\ ~made /\ service.mic # "null" => screen.toggle /\ screen.connected

ToggleKept ==
  Alive /\ screen.toggle /\ ~screen.dirty
    => screen.connected /\ (service.mic = "running" \/ taken)

LastSays ==
  IF pending = <<>> THEN screen.receives ELSE pending[Len(pending)] = "BEGIN"

ReceptionKept ==
  ~untrue /\ (pending # <<>> \/ (Alive /\ ~missed))
    => (LastSays <=> service.spk)

PendingOK == pending \in Seq({"BEGIN", "END"}) /\ Len(pending) <= MaxPending

ScreenType ==
  [life : {"none", "started", "stopped", "saved"},
   connected : BOOLEAN, toggle : BOOLEAN, dirty : BOOLEAN, receives : BOOLEAN]

ServiceType ==
  [up : BOOLEAN, stopping : BOOLEAN,
   level : Levels \cup {AccountLevel, INVALID_SESSION_LEVEL},
   mic : {"null", "running", "dead"}, spk : BOOLEAN]

Types ==
  /\ screen \in ScreenType
  /\ service \in ServiceType
  /\ service.mic = "null" \/ ~service.spk
  /\ PendingOK
  /\ calls \in 0 .. MaxCalls
  /\ made \in BOOLEAN /\ taken \in BOOLEAN /\ missed \in BOOLEAN
  /\ untrue \in BOOLEAN

IInv ==
  /\ Types
  /\ ServiceNeedsScreen /\ MicrophoneKept /\ ToggleKept /\ ReceptionKept

-----------------------------------------------------------------------------
LEMMA NoServiceType == NoService \in ServiceType
BY DEF NoService, ServiceType

LEMMA NewScreenType ==
  ASSUME NEW toggle \in BOOLEAN
  PROVE  /\ NewScreen(toggle) \in ScreenType
         /\ NewScreen(toggle).life = "started"
         /\ NewScreen(toggle).connected = FALSE
         /\ NewScreen(toggle).dirty = TRUE
         /\ NewScreen(toggle).receives = FALSE
BY DEF NewScreen, ScreenType

LEMMA NoScreenType == NoScreen \in ScreenType /\ NoScreen.life = "none"
BY DEF NoScreen, NewScreen, ScreenType

LEMMA IInvImplies ==
  IInv => TypeOK /\ MicrophoneIsShown /\ ToggleMeansTalk /\ ReceptionIsShown
<1> SUFFICES ASSUME IInv
             PROVE  TypeOK /\ MicrophoneIsShown /\ ToggleMeansTalk /\ ReceptionIsShown
  OBVIOUS
<1>1. TypeOK
  BY DEF IInv, Types, PendingOK, ScreenType, ServiceType, TypeOK
<1>2. MicrophoneIsShown
  BY DEF IInv, MicrophoneKept, Alive, MicrophoneIsShown, Settled
<1>3. ToggleMeansTalk
  BY DEF IInv, ToggleKept, Alive, ToggleMeansTalk, Settled
<1>4. ReceptionIsShown
  BY DEF IInv, ReceptionKept, LastSays, Alive, ReceptionIsShown, Settled
<1> QED
  BY <1>1, <1>2, <1>3, <1>4

LEMMA InitIInv == Init => IInv
<1> SUFFICES ASSUME Init PROVE IInv
  OBVIOUS
<1>1. Types
  <2>1. PendingOK
    BY BoundsAssumption DEF Init, PendingOK
  <2>2. calls \in 0 .. MaxCalls
    BY BoundsAssumption DEF Init
  <2> QED
    BY <2>1, <2>2, NoServiceType, NoScreenType DEF Init, Types, NoService
<1>2. /\ screen.life = "none" /\ service = NoService /\ ~service.stopping
      /\ pending = <<>>
  BY NoScreenType DEF Init, NoService
<1> QED
  BY <1>1, <1>2 DEF IInv, ServiceNeedsScreen, MicrophoneKept, ToggleKept,
                    ReceptionKept, Alive

-----------------------------------------------------------------------------
(* What the methods of the binder do to the service. *)
LEMMA EndRtpSenderEffect ==
  ASSUME NEW s \in ServiceType
  PROVE  /\ EndRtpSender(s) \in ServiceType
         /\ EndRtpSender(s).mic = "null" /\ EndRtpSender(s).spk = s.spk
         /\ EndRtpSender(s).stopping = s.stopping
BY DEF EndRtpSender, ServiceType

LEMMA EndRtpReceiverEffect ==
  ASSUME NEW s \in ServiceType
  PROVE  /\ EndRtpReceiver(s) \in ServiceType
         /\ EndRtpReceiver(s).mic = s.mic /\ EndRtpReceiver(s).spk = FALSE
         /\ EndRtpReceiver(s).stopping = s.stopping
BY DEF EndRtpReceiver, ServiceType

(* Broadcasts are queued behind those under way. *)
LEMMA AppendedSays ==
  ASSUME NEW q \in Seq({"BEGIN", "END"}), NEW x \in {"BEGIN", "END"}
  PROVE  LET r == q \o <<x>>
         IN  /\ r \in Seq({"BEGIN", "END"}) /\ Len(r) = Len(q) + 1
             /\ r # <<>> /\ r[Len(r)] = x
OBVIOUS

LEMMA EndsEffect ==
  ASSUME PendingOK, NEW s \in ServiceType
  PROVE  LET r == pending \o Ends(s)
         IN  /\ r \in Seq({"BEGIN", "END"})
             /\ Len(r) <= Len(pending) + 1 /\ Len(r) \in Nat
             /\ s.spk => r # <<>> /\ r[Len(r)] = "END"
             /\ ~s.spk => r = pending
<1>1. CASE s.spk
  BY <1>1, AppendedSays DEF Ends, PendingOK
<1>2. CASE ~s.spk
  BY <1>2 DEF Ends, PendingOK
<1> QED
  BY <1>1, <1>2 DEF ServiceType

(* A step that ends what the service does and begins nothing: the last     *)
(* broadcast says so.                                                      *)
LEMMA EndedIsSaid ==
  ASSUME IInv, NEW s \in ServiceType, s.spk = FALSE, service' = s,
         pending' = pending \o Ends(service),
         missed' = missed, untrue' = untrue,
         Alive' => Alive /\ screen'.receives = screen.receives
  PROVE  ReceptionKept'
<1>1. PendingOK /\ service \in ServiceType
  BY DEF IInv, Types
<1>2. CASE service.spk
  BY <1>1, <1>2, EndsEffect DEF ReceptionKept, LastSays
<1>3. CASE ~service.spk
  <2>1. pending' = pending
    BY <1>1, <1>3, EndsEffect
  <2> QED
    BY <2>1, <1>3 DEF IInv, ReceptionKept, LastSays
<1> QED
  BY <1>2, <1>3

-----------------------------------------------------------------------------
LEMMA SwitchesOnStep ==
  ASSUME IInv, NEW fails \in BOOLEAN, SwitchesOn(fails)
  PROVE  IInv'
<1> DEFINE begins == screen.connected /\ service.level < AccountLevel
           s == EndRtpSender(EndRtpReceiver(service))
           r == [s EXCEPT !.level = AccountLevel,
                          !.mic = IF fails THEN "dead" ELSE "running"]
<1>1. /\ screen \in ScreenType /\ service \in ServiceType /\ PendingOK
      /\ made \in BOOLEAN /\ missed \in BOOLEAN
      /\ screen.life = "started" /\ ~screen.toggle
      /\ Len(pending) < MaxPending
      /\ ~service.stopping
  BY DEF IInv, Types, ServiceNeedsScreen, SwitchesOn
<1>2. /\ screen' \in ScreenType /\ screen'.toggle /\ screen'.life = "started"
      /\ screen'.connected = screen.connected
      /\ screen'.receives = screen.receives
      /\ ~screen'.dirty => begins /\ ~fails
  BY <1>1 DEF SwitchesOn, Refused, ScreenType
<1>3. /\ r \in ServiceType /\ r.spk = FALSE /\ r.stopping = service.stopping
      /\ r.mic = IF fails THEN "dead" ELSE "running"
  BY EndRtpSenderEffect, EndRtpReceiverEffect, <1>1 DEF ServiceType
<1>4. /\ calls' = calls /\ missed' = missed /\ untrue' = untrue
      /\ taken' = FALSE
      /\ made' = (made /\ ~screen.connected)
  BY DEF SwitchesOn
<1>5. CASE begins
  <2>1. service' = r /\ pending' = pending \o Ends(service)
    BY <1>5 DEF SwitchesOn
  <2> HIDE DEF r
  <2>2. PendingOK'
    BY <1>1, <2>1, EndsEffect, BoundsAssumption DEF PendingOK
  <2>3. Types'
    BY <1>1, <1>2, <1>3, <1>4, <2>1, <2>2 DEF IInv, Types
  <2>4. ReceptionKept'
    BY <1>1, <1>2, <1>3, <1>4, <2>1, EndedIsSaid DEF Alive
  <2>5. ServiceNeedsScreen'
    BY <1>1, <1>2, <1>3, <2>1 DEF ServiceNeedsScreen
  <2>6. MicrophoneKept'
    BY <1>2, <1>5 DEF MicrophoneKept
  <2>7. ToggleKept'
    BY <1>2, <1>3, <1>5, <2>1 DEF ToggleKept
  <2> QED
    BY <2>3, <2>4, <2>5, <2>6, <2>7 DEF IInv
<1>6. CASE ~begins
  <2>1. service' = service /\ pending' = pending
    BY <1>6 DEF SwitchesOn
  <2>2. Types'
    BY <1>1, <1>2, <1>4, <2>1 DEF IInv, Types, PendingOK
  <2>3. ReceptionKept'
    BY <1>1, <1>2, <1>4, <2>1 DEF IInv, ReceptionKept, LastSays, Alive
  <2>4. ServiceNeedsScreen'
    BY <1>1, <1>2, <2>1 DEF ServiceNeedsScreen
  <2>5. MicrophoneKept'
    BY <1>1, <1>2, <1>4, <2>1 DEF IInv, MicrophoneKept, Alive
  <2>6. ToggleKept'
    BY <1>2, <1>6 DEF ToggleKept
  <2> QED
    BY <2>2, <2>3, <2>4, <2>5, <2>6 DEF IInv
<1> QED
  BY <1>5, <1>6

(* The toggle falls back, by the user or with a frame, and with it the     *)
(* sender ends, if the screen is connected.                                *)
LEMMA TogglesOff ==
  ASSUME IInv, SwitchesOff \/ Rebinds
  PROVE  IInv'
<1>1. /\ screen \in ScreenType /\ service \in ServiceType /\ PendingOK
      /\ made \in BOOLEAN
  BY DEF IInv, Types
<1>2. /\ screen' \in ScreenType /\ ~screen'.toggle
      /\ screen'.life = screen.life /\ screen'.connected = screen.connected
      /\ screen'.receives = screen.receives
  BY <1>1 DEF SwitchesOff, Rebinds, ScreenType
<1>3. /\ pending' = pending /\ missed' = missed /\ untrue' = untrue
      /\ calls' = calls
      /\ taken' = FALSE
      /\ made' \in {made, made /\ ~screen.connected}
  BY DEF SwitchesOff, Rebinds
<1>4. \/ service' = service /\ (screen.connected => ~screen.toggle) /\ made' = made
      \/ service' = service /\ ~screen.connected /\ made' = made
      \/ service' = EndRtpSender(service)
  BY <1>1 DEF SwitchesOff, Rebinds, StopSendRtp, ScreenType
<1>5. /\ service' \in ServiceType /\ service'.spk = service.spk
      /\ service'.stopping = service.stopping
      /\ service'.mic \in {"null", service.mic}
      /\ service = NoService => service' = NoService
  BY <1>1, <1>4, EndRtpSenderEffect DEF EndRtpSender, NoService
<1>6. Types'
  BY <1>1, <1>2, <1>3, <1>5 DEF IInv, Types, PendingOK
<1>7. ReceptionKept'
  BY <1>2, <1>3, <1>5 DEF IInv, ReceptionKept, LastSays, Alive
<1>8. ServiceNeedsScreen'
  BY <1>2, <1>5 DEF IInv, ServiceNeedsScreen
<1>9. MicrophoneKept'
  BY <1>1, <1>2, <1>4, EndRtpSenderEffect DEF IInv, MicrophoneKept, Alive
<1>10. ToggleKept'
  BY <1>2 DEF ToggleKept
<1> QED
  BY <1>6, <1>7, <1>8, <1>9, <1>10 DEF IInv

(* What only the activity does: it comes, ... *)
LEMMA ComesStep ==
  ASSUME IInv, Launches \/ IsMadeAnew
  PROVE  IInv'
<1>1. PICK toggle \in BOOLEAN : screen' = NewScreen(toggle)
                              /\ (toggle => ~Launches)
  BY DEF IInv, Types, ScreenType, Launches, IsMadeAnew
<1>2. /\ screen' \in ScreenType /\ screen'.life = "started"
      /\ ~screen'.connected /\ screen'.dirty /\ ~screen'.receives
  BY <1>1, NewScreenType
<1>3. /\ pending' = pending /\ calls' = calls
      /\ made' \in BOOLEAN /\ taken' \in BOOLEAN /\ missed' \in BOOLEAN
      /\ untrue' \in BOOLEAN
  BY DEF IInv, Types, Launches, IsMadeAnew
<1>4. /\ service' \in ServiceType /\ service'.stopping = service.stopping
      /\ service'.mic = service.mic /\ service'.spk = service.spk
      /\ ~service.stopping
  BY DEF IInv, Types, ServiceNeedsScreen, ServiceType, Launches, IsMadeAnew
<1>5. Types'
  BY <1>2, <1>3, <1>4 DEF IInv, Types, PendingOK
<1>6. ServiceNeedsScreen'
  BY <1>2, <1>4 DEF ServiceNeedsScreen
<1>7. Launches => service.mic = "null" /\ ~service.spk
  BY DEF IInv, ServiceNeedsScreen, Launches, NoService
<1>8. MicrophoneKept'
  BY <1>4, <1>7 DEF MicrophoneKept, Launches, IsMadeAnew
<1>9. ToggleKept'
  BY <1>2 DEF ToggleKept
<1>10. ReceptionKept'
  BY <1>2, <1>3, <1>4, <1>7
     DEF IInv, ReceptionKept, LastSays, Launches, IsMadeAnew
<1> QED
  BY <1>5, <1>6, <1>8, <1>9, <1>10 DEF IInv

(* ... stays, ... *)
LEMMA StaysStep ==
  ASSUME IInv, Connects \/ ComesAndGoes
  PROVE  IInv'
<1>1. /\ screen' \in ScreenType /\ screen'.toggle = screen.toggle
      /\ screen'.dirty = screen.dirty /\ screen'.receives = screen.receives
      /\ Alive /\ Alive'
      /\ screen'.connected \in {TRUE, screen.connected}
  BY DEF IInv, Types, ScreenType, Connects, ComesAndGoes, Alive
<1>2. UNCHANGED <<service, pending, made, taken, missed, untrue, calls>>
  BY DEF Connects, ComesAndGoes
<1>3. Types'
  BY <1>1, <1>2 DEF IInv, Types, PendingOK
<1>4. ServiceNeedsScreen'
  BY <1>1, <1>2 DEF IInv, ServiceNeedsScreen, Alive
<1>5. MicrophoneKept' /\ ToggleKept' /\ ReceptionKept'
  BY <1>1, <1>2
     DEF IInv, MicrophoneKept, ToggleKept, ReceptionKept, LastSays
<1> QED
  BY <1>3, <1>4, <1>5 DEF IInv

(* ... and goes. *)
LEMMA GoesStep ==
  ASSUME IInv, IsDestroyed \/ Finishes
  PROVE  IInv'
<1>1. /\ screen' \in ScreenType /\ screen'.life \in {"none", "saved"}
      /\ service' \in ServiceType /\ service'.mic = service.mic
      /\ service'.spk = service.spk
      /\ UNCHANGED <<pending, made, taken, missed, untrue, calls>>
  BY NoScreenType DEF IInv, Types, ScreenType, ServiceType, IsDestroyed, Finishes
<1>2. Types'
  BY <1>1 DEF IInv, Types, PendingOK
<1>3. ServiceNeedsScreen'
  <2>1. CASE IsDestroyed
    <3>1. screen'.life = "saved" /\ service' = service /\ screen.life = "stopped"
      BY <2>1, NoScreenType DEF IsDestroyed, ScreenType
    <3> QED
      BY <3>1 DEF IInv, ServiceNeedsScreen
  <2>2. CASE Finishes
    <3>1. screen'.life = "none" /\ service'.stopping
      BY <2>2, NoScreenType DEF IInv, Types, Finishes, ServiceType
    <3> QED
      BY <3>1 DEF ServiceNeedsScreen
  <2> QED
    BY <2>1, <2>2
<1>4. ~Alive'
  BY <1>1 DEF Alive
<1>5. ReceptionKept'
  BY <1>1, <1>4 DEF IInv, ReceptionKept, LastSays
<1> QED
  BY <1>2, <1>3, <1>4, <1>5 DEF IInv, MicrophoneKept, ToggleKept

LEMMA ServiceIsDestroyedStep ==
  ASSUME IInv, ServiceIsDestroyed
  PROVE  IInv'
<1>1. /\ service \in ServiceType /\ PendingOK /\ screen.life = "none"
      /\ Len(pending) < MaxPending
  BY DEF IInv, Types, ServiceNeedsScreen, ServiceIsDestroyed
<1>2. /\ service' = NoService /\ pending' = pending \o Ends(service)
      /\ UNCHANGED <<screen, made, taken, missed, untrue, calls>>
  BY DEF ServiceIsDestroyed
<1>3. PendingOK'
  BY <1>1, <1>2, EndsEffect, BoundsAssumption DEF PendingOK
<1>4. Types'
  BY <1>2, <1>3, NoServiceType DEF IInv, Types, NoService
<1>5. ServiceNeedsScreen'
  BY <1>2 DEF ServiceNeedsScreen, NoService
<1>6. ~Alive'
  BY <1>1, <1>2 DEF Alive
<1>7. ReceptionKept'
  BY <1>2, <1>6, NoServiceType, EndedIsSaid DEF NoService
<1> QED
  BY <1>4, <1>5, <1>6, <1>7 DEF IInv, MicrophoneKept, ToggleKept

LEMMA BroadcastArrivesStep ==
  ASSUME IInv, BroadcastArrives
  PROVE  IInv'
<1>1. /\ screen \in ScreenType /\ PendingOK /\ pending # <<>>
      /\ pending' = Tail(pending)
      /\ UNCHANGED <<service, made, taken, untrue, calls>>
  BY DEF IInv, Types, BroadcastArrives
<1>2. /\ pending \in Seq({"BEGIN", "END"}) /\ Len(pending) \in Nat
      /\ Len(pending) > 0
  BY <1>1 DEF PendingOK
<1>3. /\ pending' \in Seq({"BEGIN", "END"}) /\ Len(pending') = Len(pending) - 1
      /\ pending' = <<>> => Head(pending) = pending[Len(pending)]
      /\ pending' # <<>> => pending'[Len(pending')] = pending[Len(pending)]
  <2>1. /\ pending' \in Seq({"BEGIN", "END"})
        /\ Len(pending') = Len(pending) - 1 /\ Len(pending') \in Nat
        /\ \A i \in 1 .. Len(pending') : pending'[i] = pending[i + 1]
    BY <1>1, <1>2, HeadTailProperties
  <2>2. pending' = <<>> => Len(pending) = 1
    BY <1>2, <2>1
  <2>3. Head(pending) = pending[1]
    BY <1>2
  <2>4. ASSUME pending' # <<>>
        PROVE  pending'[Len(pending')] = pending[Len(pending)]
    <3>1. Len(pending') # 0
      BY <2>1, <2>4, EmptySeq
    <3>2. Len(pending') \in 1 .. Len(pending')
      BY <2>1, <3>1
    <3> QED
      BY <1>2, <2>1, <3>2
  <2> QED
    BY <2>1, <2>2, <2>3, <2>4
<1>4. PendingOK'
  BY <1>1, <1>2, <1>3, BoundsAssumption DEF PendingOK
<1>5. /\ screen' \in ScreenType /\ screen'.life = screen.life
      /\ screen'.connected = screen.connected /\ screen'.toggle = screen.toggle
      /\ screen'.dirty = screen.dirty /\ missed' \in BOOLEAN
      /\ ~missed' => screen'.receives = (Head(pending) = "BEGIN")
  BY <1>1 DEF BroadcastArrives, ScreenType, Alive, IInv, Types
<1>6. Types'
  BY <1>1, <1>4, <1>5 DEF IInv, Types
<1>7. ServiceNeedsScreen' /\ MicrophoneKept' /\ ToggleKept'
  BY <1>1, <1>5 DEF IInv, ServiceNeedsScreen, MicrophoneKept, ToggleKept, Alive
<1>8. ReceptionKept'
  BY <1>1, <1>3, <1>5 DEF IInv, ReceptionKept, LastSays, Alive
<1> QED
  BY <1>6, <1>7, <1>8 DEF IInv

-----------------------------------------------------------------------------
(* What happens without the screen: the service is up and has its screen,  *)
(* and a microphone that is closed is marked as taken.                     *)
LEMMA CalledNeedsScreen ==
  ASSUME IInv, Called
  PROVE  /\ screen.life # "none" /\ ~service.stopping
         /\ calls' \in 0 .. MaxCalls
         /\ Len(pending) + 2 <= MaxPending
BY BoundsAssumption
   DEF Called, IInv, Types, ServiceNeedsScreen, NoService

LEMMA ReceiveStartStep ==
  ASSUME IInv, ReceiveStart
  PROVE  IInv'
<1>1. PICK level \in Levels, bound \in BOOLEAN :
        /\ Called
        /\ service' = [EndRtpSender(EndRtpReceiver(service)) EXCEPT
                         !.level = level, !.spk = bound]
        /\ pending' = pending \o Ends(service) \o <<"BEGIN">>
        /\ taken' = (taken \/ service.mic # "null")
        /\ untrue' = ~bound
        /\ UNCHANGED <<screen, made, missed>>
  BY DEF ReceiveStart
<1>2. service \in ServiceType /\ PendingOK /\ missed \in BOOLEAN
  BY DEF IInv, Types
<1>3. /\ service' \in ServiceType /\ service'.mic = "null"
      /\ service'.spk = bound /\ service'.stopping = service.stopping
  BY <1>1, <1>2, EndRtpSenderEffect, EndRtpReceiverEffect DEF ServiceType
<1>4. /\ pending' \in Seq({"BEGIN", "END"}) /\ Len(pending') <= Len(pending) + 2
      /\ Len(pending') \in Nat
      /\ pending' # <<>> /\ pending'[Len(pending')] = "BEGIN"
  <2> DEFINE r == pending \o Ends(service)
  <2>1. r \in Seq({"BEGIN", "END"}) /\ Len(r) <= Len(pending) + 1 /\ Len(r) \in Nat
    BY <1>2, EndsEffect
  <2>2. pending' = r \o <<"BEGIN">>
    BY <1>1
  <2> HIDE DEF r
  <2>3. Len(pending') = Len(r) + 1
    BY <2>1, <2>2, AppendedSays
  <2>4. Len(pending) \in Nat
    BY <1>2 DEF PendingOK
  <2> QED
    BY <2>1, <2>2, <2>3, <2>4, AppendedSays
<1>5. PendingOK'
  BY <1>1, <1>2, <1>4, CalledNeedsScreen, BoundsAssumption DEF PendingOK
<1>6. Types'
  BY <1>1, <1>2, <1>3, <1>5, CalledNeedsScreen DEF IInv, Types
<1>7. ServiceNeedsScreen'
  BY <1>1, <1>3, CalledNeedsScreen DEF ServiceNeedsScreen
<1>8. MicrophoneKept'
  BY <1>3 DEF MicrophoneKept
<1>9. ToggleKept'
  BY <1>1 DEF IInv, ToggleKept, Alive
<1>10. ReceptionKept'
  BY <1>1, <1>2, <1>3, <1>4 DEF ReceptionKept, LastSays
<1> QED
  BY <1>6, <1>7, <1>8, <1>9, <1>10 DEF IInv

LEMMA ReceiveStopStep ==
  ASSUME IInv, ReceiveStop
  PROVE  IInv'
<1>1. /\ Called /\ service.mic = "null"
      /\ service' = EndRtpReceiver(service)
      /\ pending' = pending \o Ends(service)
      /\ UNCHANGED <<screen, made, taken, missed, untrue>>
  BY DEF ReceiveStop
<1>2. service \in ServiceType /\ PendingOK
  BY DEF IInv, Types
<1>3. /\ service' \in ServiceType /\ service'.mic = "null"
      /\ service'.spk = FALSE /\ service'.stopping = service.stopping
  BY <1>1, <1>2, EndRtpReceiverEffect
<1>4. PendingOK'
  BY <1>1, <1>2, EndsEffect, CalledNeedsScreen, BoundsAssumption DEF PendingOK
<1>5. Types'
  BY <1>1, <1>3, <1>4, CalledNeedsScreen DEF IInv, Types
<1>6. ServiceNeedsScreen'
  BY <1>1, <1>3, CalledNeedsScreen DEF ServiceNeedsScreen
<1>7. MicrophoneKept' /\ ToggleKept'
  BY <1>1, <1>3 DEF IInv, MicrophoneKept, ToggleKept, Alive
<1>8. ReceptionKept'
  BY <1>1, <1>3, EndedIsSaid DEF Alive
<1> QED
  BY <1>5, <1>6, <1>7, <1>8 DEF IInv

LEMMA LinkChangesStep ==
  ASSUME IInv, LinkChanges
  PROVE  IInv'
<1>1. /\ Called
      /\ service' = EndRtpReceiver(EndRtpSender(service))
      /\ pending' = pending \o Ends(service)
      /\ taken' = (taken \/ service.mic # "null")
      /\ UNCHANGED <<screen, made, missed, untrue>>
  BY DEF LinkChanges
<1>2. service \in ServiceType /\ PendingOK
  BY DEF IInv, Types
<1>3. /\ service' \in ServiceType /\ service'.mic = "null"
      /\ service'.spk = FALSE /\ service'.stopping = service.stopping
  BY <1>1, <1>2, EndRtpReceiverEffect, EndRtpSenderEffect
<1>4. PendingOK'
  BY <1>1, <1>2, EndsEffect, CalledNeedsScreen, BoundsAssumption DEF PendingOK
<1>5. Types'
  BY <1>1, <1>3, <1>4, CalledNeedsScreen DEF IInv, Types
<1>6. ServiceNeedsScreen'
  BY <1>1, <1>3, CalledNeedsScreen DEF ServiceNeedsScreen
<1>7. MicrophoneKept'
  BY <1>3 DEF MicrophoneKept
<1>8. ToggleKept'
  BY <1>1 DEF IInv, ToggleKept, Alive
<1>9. ReceptionKept'
  BY <1>1, <1>3, EndedIsSaid DEF Alive
<1> QED
  BY <1>5, <1>6, <1>7, <1>8, <1>9 DEF IInv

LEMMA ReceptionTimesOutStep ==
  ASSUME IInv, ReceptionTimesOut
  PROVE  IInv'
<1>1. /\ service \in ServiceType /\ service.spk
      /\ service' = [service EXCEPT !.level = INVALID_SESSION_LEVEL]
      /\ UNCHANGED <<screen, pending, made, taken, missed, untrue, calls>>
  BY DEF IInv, Types, ReceptionTimesOut
<1>2. /\ service' \in ServiceType /\ service'.mic = service.mic
      /\ service'.spk = service.spk /\ service'.stopping = service.stopping
  BY <1>1 DEF ServiceType
<1>3. Types'
  BY <1>1, <1>2 DEF IInv, Types, PendingOK
<1>4. ServiceNeedsScreen'
  BY <1>1, <1>2 DEF IInv, ServiceNeedsScreen, NoService
<1>5. MicrophoneKept' /\ ToggleKept' /\ ReceptionKept'
  BY <1>1, <1>2 DEF IInv, MicrophoneKept, ToggleKept, ReceptionKept, LastSays,
                    Alive
<1> QED
  BY <1>3, <1>4, <1>5 DEF IInv

LEMMA NextIInv == IInv /\ [Next]_vars => IInv'
<1> SUFFICES ASSUME IInv, [Next]_vars PROVE IInv'
  OBVIOUS
<1>1. CASE \E fails \in BOOLEAN : SwitchesOn(fails)
  BY <1>1, SwitchesOnStep
<1>2. CASE SwitchesOff \/ Rebinds
  BY <1>2, TogglesOff
<1>3. CASE Launches \/ Connects \/ ComesAndGoes \/ IsDestroyed \/ IsMadeAnew
           \/ Finishes
  BY <1>3, ComesStep, StaysStep, GoesStep
<1>4. CASE ServiceIsDestroyed
  BY <1>4, ServiceIsDestroyedStep
<1>5. CASE BroadcastArrives
  BY <1>5, BroadcastArrivesStep
<1>6. CASE ReceiveStart
  BY <1>6, ReceiveStartStep
<1>7. CASE ReceiveStop
  BY <1>7, ReceiveStopStep
<1>8. CASE LinkChanges
  BY <1>8, LinkChangesStep
<1>9. CASE ReceptionTimesOut
  BY <1>9, ReceptionTimesOutStep
<1>10. CASE UNCHANGED vars
  BY <1>10 DEF vars, IInv, Types, PendingOK, ServiceNeedsScreen,
               MicrophoneKept, ToggleKept, ReceptionKept, LastSays, Alive
<1> QED
  BY <1>1, <1>2, <1>3, <1>4, <1>5, <1>6, <1>7, <1>8, <1>9, <1>10
     DEF Next, MainThread

LEMMA Invariant == Spec => []IInv
BY InitIInv, NextIInv, PTL DEF Spec

(* The screen and the service keep their types, the phone never talks and  *)
(* listens, and no more broadcasts are under way than the bound allows.    *)
THEOREM TypeCorrect == Spec => []TypeOK
BY Invariant, IInvImplies, PTL

(* Whatever the user, the system and the other phones do, a settled screen *)
(* that was not made anew shows an open microphone as a toggle that is on. *)
THEOREM MicrophoneIsShownHolds == Spec => []MicrophoneIsShown
BY Invariant, IInvImplies, PTL

(* A settled toggle that is on means a talk, unless others have ended it.  *)
THEOREM ToggleMeansTalkHolds == Spec => []ToggleMeansTalk
BY Invariant, IInvImplies, PTL

(* Unless the last broadcast was missed or untrue, a settled screen tells  *)
(* of a reception that goes on, and only of a receiver that there is.      *)
THEOREM ReceptionIsShownHolds == Spec => []ReceptionIsShown
BY Invariant, IInvImplies, PTL
=============================================================================
