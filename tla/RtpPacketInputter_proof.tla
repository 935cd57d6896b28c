---------------------- MODULE RtpPacketInputter_proof ----------------------
(***************************************************************************)
(* Proofs about RtpPacketInputter, for every window, limit and clock.      *)
(*                                                                         *)
(* TimerArmed is not inductive: Waits puts the limit of the field on the   *)
(* socket.  So the invariant also says that this limit is never 0 once     *)
(* audio has been heard (it is negative when it has overflowed, and then   *)
(* setTimeout throws), and that the socket times out only after that.      *)
(*                                                                         *)
(* CatchesUp counts the packets in a row since the session last followed   *)
(* the talker.  Its invariant bounds that count by where the last packet   *)
(* lies: a jump is remembered and followed by the next, or the next but    *)
(* one, and a number behind the session's comes nearer with each packet.   *)
(***************************************************************************)
EXTENDS RtpPacketInputter, TLAPS

LimitNotZero == in.open /\ in.heard => in.limit # 0

TimeoutHeard == got.kind = "timeout" => in.heard

(* A session of this call has a sequence number. *)
SessionHasNumber == session = "own" => seqNum \in SeqNum

IInv ==
  TypeOK /\ TimerArmed /\ LimitNotZero /\ TimeoutHeard /\ SessionHasNumber

(* What TypeOK, TimerArmed and LimitNotZero say of the inputter alone. *)
InputterFits(i) ==
  /\ i \in Inputter
  /\ i.open => (i.heard <=> i.soTimeout > 0)
  /\ i.open /\ i.heard => i.limit # 0

-----------------------------------------------------------------------------
(* The cast gives an int, and one that is in range is not changed.         *)
LEMMA ToIntIsInt ==
  ASSUME NEW x \in Int
  PROVE  /\ ToInt(x) \in JavaInt
         /\ x \in JavaInt => ToInt(x) = x
<1> DEFINE m == 2 * IntMax + 2
           y == x + IntMax + 1
<1>1. m \in Nat /\ m > 0 /\ y \in Int /\ IntMax \in Nat
  BY TimeoutAssumption
<1>2. m = 2 * (IntMax + 1)
  BY TimeoutAssumption
<1>3. ToInt(x) = (y % m) - (IntMax + 1)
  BY DEF ToInt
<1>4. x \in JavaInt => y \in 0 .. m - 1
  BY <1>1 DEF JavaInt
<1> HIDE DEF m, y
<1>5. y % m \in 0 .. m - 1
  BY <1>1
<1>6. y \in 0 .. m - 1 => y % m = y
  BY <1>1
<1>7. ToInt(x) \in JavaInt
  BY <1>1, <1>2, <1>3, <1>5 DEF JavaInt
<1> QED
  BY <1>1, <1>3, <1>4, <1>6, <1>7 DEF y

(* A frame more is never 0 for a limit that setTimeout takes. *)
LEMMA GrowsNotToZero ==
  ASSUME NEW l \in JavaInt, l >= 0
  PROVE  ToInt(l + Frame) \in JavaInt /\ ToInt(l + Frame) # 0
<1>1. IntMax \in Nat /\ Frame \in 1 .. IntMax /\ l \in Int /\ l <= IntMax
  BY TimeoutAssumption DEF JavaInt
<1>2. CASE l + Frame <= IntMax
  BY <1>1, <1>2, ToIntIsInt DEF JavaInt
<1>3. CASE l + Frame > IntMax
  <2> DEFINE m == 2 * IntMax + 2
             y == l + Frame + IntMax + 1
  <2>1. m \in Nat /\ m > 0 /\ y - m \in 0 .. m - 1 /\ y \in Int
    BY <1>1, <1>3
  <2>2. y - m < IntMax + 1
    BY <1>1
  <2>3. ToInt(l + Frame) = (y % m) - (IntMax + 1)
    BY <1>1 DEF ToInt
  <2> HIDE DEF m, y
  <2>4. y % m = y - m
    BY <2>1
  <2>5. ToInt(l + Frame) # 0
    BY <1>1, <2>1, <2>2, <2>3, <2>4
  <2>6. ToInt(l + Frame) \in JavaInt
    BY <1>1, ToIntIsInt
  <2> QED
    BY <2>5, <2>6
<1> QED
  BY <1>1, <1>2, <1>3

(* The new limit is at least 1, whatever the clock says. *)
LEMMA NextLimitPositive ==
  ASSUME NEW i \in Inputter, NEW sub \in Elapsed
  PROVE  NextLimit(i, sub) \in JavaInt /\ NextLimit(i, sub) > 0
<1> DEFINE l == ToInt(i.limit - (sub - Frame))
<1>1. i.limit - (sub - Frame) \in Int
  BY ElapsedAssumption, TimeoutAssumption DEF Inputter, JavaInt
<1>2. l \in JavaInt
  BY <1>1, ToIntIsInt
<1>3. NextLimit(i, sub) = IF ~i.heard THEN FirstLimit
                          ELSE IF l <= 0 THEN 1 ELSE l
  BY DEF NextLimit
<1> HIDE DEF l
<1>4. 1 \in JavaInt /\ FirstLimit \in JavaInt /\ FirstLimit > 0
  BY TimeoutAssumption DEF JavaInt
<1>5. l \in Int
  BY <1>2 DEF JavaInt
<1> QED
  BY <1>2, <1>3, <1>4, <1>5

(* The numbers that are kept stay numbers of 16 bits, but for the one that *)
(* is remembered after a jump: it may be 2^16.                             *)
LEMMA NextNumbers ==
  ASSUME NEW s \in SeqNum, NEW bad \in -1 .. SeqMod, NEW seq \in SeqNum
  PROVE  /\ NextSeqNum(s, bad, seq) \in SeqNum
         /\ NextBadSeq(s, bad, seq) \in -1 .. SeqMod
<1>1. NextSeqNum(s, bad, seq) \in SeqNum
  BY DEF NextSeqNum
<1>2. seq + 1 \in -1 .. SeqMod
  BY WindowAssumption DEF SeqNum
<1>3. NextBadSeq(s, bad, seq) \in -1 .. SeqMod
  BY <1>2 DEF NextBadSeq
<1> QED
  BY <1>1, <1>3

(* What setTimeout leaves alone, and the time-out of an open socket. *)
LEMMA SetTimeoutFits ==
  ASSUME NEW i \in Inputter, NEW t \in Nat
  PROVE  LET j == SetTimeout(i, t) IN
         /\ j \in Inputter
         /\ (j.open => j.soTimeout = t)
         /\ j.open = i.open /\ j.heard = i.heard /\ j.limit = i.limit
         /\ j.timeoutCount = i.timeoutCount /\ j.badSeq = i.badSeq
BY DEF SetTimeout, Inputter

(* initParam, and the close that follows it. *)
LEMMA InitParamFits ==
  ASSUME NEW i \in Inputter
  PROVE  InputterFits([InitParam(i) EXCEPT !.open = FALSE])
<1> DEFINE h == [i EXCEPT !.timeoutCount = 0, !.heard = FALSE, !.badSeq = -1]
           k == SetTimeout(h, 0)
           j == [k EXCEPT !.open = FALSE]
<1>1. -1 \in -1 .. SeqMod /\ 0 \in 0 .. MAX_TIMEOUT_COUNT
  BY WindowAssumption, TimeoutAssumption
<1>2. h \in Inputter /\ h.heard = FALSE
  BY <1>1 DEF Inputter
<1> HIDE DEF h
<1>3. k \in Inputter /\ k.heard = FALSE
  BY <1>2, SetTimeoutFits
<1> HIDE DEF k
<1>4. j \in Inputter /\ j.heard = FALSE /\ j.open = FALSE
  BY <1>3 DEF Inputter
<1> HIDE DEF j
<1>5. InputterFits(j)
  BY <1>4 DEF InputterFits
<1> QED
  BY <1>5 DEF j, k, h, InitParam

LEMMA CloseFits ==
  ASSUME NEW i, InputterFits(i)
  PROVE  /\ InputterFits([i EXCEPT !.open = FALSE])
         /\ [i EXCEPT !.open = FALSE].heard = i.heard
BY DEF InputterFits, Inputter

LEMMA WaitsFits ==
  ASSUME NEW i, InputterFits(i), i.heard, Takes(i, i.limit),
         i.timeoutCount < MAX_TIMEOUT_COUNT
  PROVE  InputterFits([SetTimeout(i, i.limit) EXCEPT
                         !.timeoutCount = @ + 1, !.limit = ToInt(@ + Frame)])
<1> DEFINE l == ToInt(i.limit + Frame)
           k == SetTimeout(i, i.limit)
           j == [k EXCEPT !.timeoutCount = @ + 1, !.limit = ToInt(@ + Frame)]
<1>1. i \in Inputter
  BY DEF InputterFits
<1>2. /\ i.limit \in JavaInt /\ i.limit + Frame \in Int
      /\ i.open => i.limit \in Nat /\ i.limit > 0 /\ i.limit >= 0
  BY <1>1, TimeoutAssumption DEF InputterFits, Inputter, Takes, JavaInt
<1>3. l \in JavaInt /\ (i.open => l # 0)
  BY <1>2, GrowsNotToZero, ToIntIsInt
<1>4. i.timeoutCount + 1 \in 0 .. MAX_TIMEOUT_COUNT
  BY <1>1, TimeoutAssumption DEF Inputter
<1>5. /\ k \in Inputter /\ (k.open => k.soTimeout = i.limit)
      /\ k.open = i.open /\ k.heard = i.heard /\ k.limit = i.limit
      /\ k.timeoutCount = i.timeoutCount
  <2>1. CASE i.open
    BY <1>1, <1>2, <2>1, SetTimeoutFits
  <2>2. CASE ~i.open
    BY <1>1, <2>2 DEF SetTimeout
  <2> QED
    BY <2>1, <2>2
<1> HIDE DEF k, l
<1>6. j = [k EXCEPT !.timeoutCount = k.timeoutCount + 1, !.limit = l]
  BY <1>5 DEF l
<1>a. i.timeoutCount + 1 = k.timeoutCount + 1
  BY <1>5
<1> HIDE DEF j
<1>7. /\ j \in Inputter /\ j.limit = l /\ j.open = k.open
      /\ j.soTimeout = k.soTimeout /\ j.heard = k.heard
  BY <1>3, <1>4, <1>5, <1>6, <1>a DEF Inputter
<1>8. InputterFits(j)
  BY <1>2, <1>3, <1>5, <1>7 DEF InputterFits
<1> QED
  BY <1>8 DEF j, k

LEMMA HearsFits ==
  ASSUME NEW i, InputterFits(i), NEW s \in SeqNum, NEW seq \in SeqNum,
         NEW sub \in Elapsed
  PROVE  /\ InputterFits([i EXCEPT !.timeoutCount = 0])
         /\ InputterFits([SetTimeout(i, NextLimit(i, sub)) EXCEPT
                            !.timeoutCount = 0,
                            !.badSeq = NextBadSeq(s, @, seq),
                            !.limit = NextLimit(i, sub),
                            !.heard = TRUE])
<1> DEFINE l == NextLimit(i, sub)
           k == SetTimeout(i, l)
           bad == NextBadSeq(s, i.badSeq, seq)
           j == [k EXCEPT !.timeoutCount = 0, !.badSeq = NextBadSeq(s, @, seq),
                          !.limit = l, !.heard = TRUE]
<1>1. i \in Inputter /\ i.badSeq \in -1 .. SeqMod
  BY DEF InputterFits, Inputter
<1>2. 0 \in 0 .. MAX_TIMEOUT_COUNT
  BY TimeoutAssumption
<1>3. InputterFits([i EXCEPT !.timeoutCount = 0])
  BY <1>2 DEF InputterFits, Inputter
<1>4. l \in JavaInt /\ l \in Nat /\ l > 0
  BY <1>1, NextLimitPositive DEF JavaInt
<1>5. bad \in -1 .. SeqMod
  BY <1>1, NextNumbers
<1> HIDE DEF l
<1>6. k \in Inputter /\ (k.open => k.soTimeout = l) /\ k.badSeq = i.badSeq
  BY <1>1, <1>4, SetTimeoutFits
<1> HIDE DEF k, bad
<1>7. j = [k EXCEPT !.timeoutCount = 0, !.badSeq = bad, !.limit = l,
                    !.heard = TRUE]
  BY <1>6 DEF bad
<1> HIDE DEF j
<1>8. /\ j \in Inputter /\ j.limit = l /\ j.open = k.open
      /\ j.soTimeout = k.soTimeout /\ j.heard = TRUE
  BY <1>2, <1>4, <1>5, <1>6, <1>7 DEF Inputter
<1>9. InputterFits(j)
  BY <1>4, <1>6, <1>8 DEF InputterFits
<1> QED
  BY <1>3, <1>9 DEF j, k, l

-----------------------------------------------------------------------------
LEMMA InitInv == Init => IInv
<1> SUFFICES ASSUME Init PROVE IInv
  OBVIOUS
<1>1. 0 \in 0 .. Enough /\ 0 \in 0 .. 2
  BY WindowAssumption DEF Enough
<1>2. -1 \in -1 .. SeqMod /\ 0 \in 0 .. MAX_TIMEOUT_COUNT
  BY WindowAssumption, TimeoutAssumption
<1>3. in \in Inputter
  <2>1. 0 \in JavaInt
    BY TimeoutAssumption DEF JavaInt
  <2> QED
    BY <1>2, <2>1 DEF Init, Inputter
<1>4. got \in Got /\ got.kind = "nothing"
  BY DEF Init, Got, Nothing
<1>5. TypeOK
  BY <1>1, <1>3, <1>4 DEF Init, TypeOK
<1>6. TimerArmed /\ LimitNotZero
  BY DEF Init, TimerArmed, LimitNotZero
<1>7. TimeoutHeard /\ SessionHasNumber
  BY <1>4 DEF Init, TimeoutHeard, SessionHasNumber
<1> QED
  BY <1>5, <1>6, <1>7 DEF IInv

(* After Return the thread has nothing in its hands. *)
LEMMA ReturnFits ==
  ASSUME Return
  PROVE  /\ pc' = "receive" /\ got' \in Got /\ got'.kind = "nothing"
         /\ halted' = halted /\ silent' = silent
BY DEF Return, Nothing, Got

(* What is left to show of an action that ends with Return. *)
LEMMA ReturnInv ==
  ASSUME IInv, Return, InputterFits(in'),
         session' \in {"own", "other", "ended"}, seqNum' \in SeqNum \cup {-1},
         SessionHasNumber',
         last' \in SeqNum \cup {-1}, run' \in 0 .. Enough, jumps' \in 0 .. 2
  PROVE  IInv'
<1>1. TypeOK'
  BY ReturnFits DEF IInv, TypeOK, InputterFits
<1>2. (TimerArmed /\ LimitNotZero)'
  BY DEF InputterFits, TimerArmed, LimitNotZero
<1>3. TimeoutHeard'
  BY ReturnFits DEF TimeoutHeard
<1> QED
  BY <1>1, <1>2, <1>3 DEF IInv

(* Every step keeps the invariant. *)
LEMMA NextInv == IInv /\ [Next]_vars => IInv'
<1> SUFFICES ASSUME IInv, [Next]_vars PROVE IInv'
  OBVIOUS
<1>t. TypeOK
  BY DEF IInv
<1>f. InputterFits(in)
  BY DEF IInv, TypeOK, TimerArmed, LimitNotZero, InputterFits
<1>n. SessionHasNumber
  BY DEF IInv
<1>1. CASE UNCHANGED vars
  BY <1>1 DEF vars, IInv, TypeOK, TimerArmed, LimitNotZero, TimeoutHeard,
              SessionHasNumber
<1>2. ASSUME Receive PROVE IInv'
  <2>1. got' \in Got /\ got'.kind # "timeout"
    BY <1>2 DEF Receive, Got, Audio
  <2> QED
    BY <1>2, <2>1 DEF Receive, binder, history, IInv, TypeOK, TimerArmed,
         LimitNotZero, TimeoutHeard, SessionHasNumber
<1>3. ASSUME TimesOut PROVE IInv'
  <2>1. got' \in Got
    BY <1>3 DEF TimesOut, Got
  <2>2. in'.heard
    BY <1>3 DEF TimesOut, IInv, TimerArmed
  <2> QED
    BY <1>3, <2>1, <2>2 DEF TimesOut, binder, history, IInv, TypeOK,
         TimerArmed, LimitNotZero, TimeoutHeard, SessionHasNumber
<1>4. ASSUME ReceiveFails PROVE IInv'
  BY <1>4 DEF ReceiveFails, binder, history, IInv, TypeOK, TimerArmed,
       LimitNotZero, TimeoutHeard, SessionHasNumber
<1>5. ASSUME NoSession PROVE IInv'
  <2>1. InputterFits(in')
    BY <1>5, <1>f, InitParamFits DEF NoSession, InputterFits
  <2>2. SessionHasNumber'
    BY <1>5, <1>n DEF NoSession, SessionHasNumber
  <2> QED
    BY <1>5, <1>t, <2>1, <2>2, ReturnInv DEF NoSession, history, TypeOK
<1>6. ASSUME Waits PROVE IInv'
  <2>1. in.heard
    BY <1>6 DEF Waits, IInv, TimeoutHeard
  <2>2. InputterFits(in')
    BY <1>6, <1>f, <2>1, WaitsFits DEF Waits
  <2>3. SessionHasNumber'
    BY <1>6, <1>n DEF Waits, SessionHasNumber
  <2> QED
    BY <1>6, <1>t, <2>2, <2>3, ReturnInv DEF Waits, history, TypeOK
<1>7. ASSUME GivesUp PROVE IInv'
  <2>1. InputterFits(in')
    BY <1>7, <1>f, InitParamFits DEF GivesUp, InputterFits
  <2>2. SessionHasNumber'
    BY <1>7 DEF GivesUp, SessionHasNumber
  <2> QED
    BY <1>7, <1>t, <2>1, <2>2, ReturnInv DEF GivesUp, history, TypeOK
<1>7a. ASSUME SetTimeoutThrows PROVE IInv'
  <2>1. InputterFits(in') /\ in'.heard = in.heard
    BY <1>7a, <1>f, CloseFits DEF SetTimeoutThrows
  <2>2. pc' = "done" /\ got' \in Got /\ got'.kind = "nothing"
    BY <1>7a DEF SetTimeoutThrows, Nothing, Got
  <2> QED
    BY <1>7a, <2>1, <2>2 DEF SetTimeoutThrows, binder, history, IInv, TypeOK,
         InputterFits, TimerArmed, LimitNotZero, TimeoutHeard,
         SessionHasNumber
<1>8. ASSUME Ignores PROVE IInv'
  <2>1. SessionHasNumber'
    BY <1>8, <1>n DEF Ignores, SessionHasNumber
  <2> QED
    BY <1>8, <1>t, <1>f, <2>1, ReturnInv DEF Ignores, history, TypeOK
<1>9. ASSUME Hears PROVE IInv'
  <2>1. seqNum \in SeqNum /\ got.seq \in SeqNum
    BY <1>9, <1>n, <1>t DEF Hears, SessionHasNumber, TypeOK, Got, Audio
  <2>2. in.badSeq \in -1 .. SeqMod
    BY <1>t DEF TypeOK, Inputter
  <2>3. seqNum' \in SeqNum
    BY <1>9, <2>1, <2>2, NextNumbers DEF Hears
  <2>4. InputterFits(in')
    <3>1. PICK sub \in Elapsed :
            in' = IF Dropped(seqNum, got.seq)
                  THEN [in EXCEPT !.timeoutCount = 0]
                  ELSE [SetTimeout(in, NextLimit(in, sub)) EXCEPT
                          !.timeoutCount = 0,
                          !.badSeq = NextBadSeq(seqNum, @, got.seq),
                          !.limit = NextLimit(in, sub),
                          !.heard = TRUE]
      BY <1>9 DEF Hears
    <3> QED
      BY <1>f, <2>1, <3>1, HearsFits
  <2>5. last' \in SeqNum /\ jumps' \in 0 .. 2
    BY <1>9, <2>1 DEF Hears
  <2>6. run' \in 0 .. Enough
    BY <1>9, <1>t, WindowAssumption DEF Hears, TypeOK, Enough
  <2>7. session' = session /\ Return
    BY <1>9 DEF Hears
  <2> QED
    BY <1>t, <2>3, <2>4, <2>5, <2>6, <2>7, ReturnInv
       DEF TypeOK, SessionHasNumber
<1>10. ASSUME Halt PROVE IInv'
  <2>1. InputterFits(in') /\ in'.heard = in.heard
    BY <1>10, <1>f, CloseFits DEF Halt
  <2> QED
    BY <1>10, <2>1 DEF Halt, history, IInv, TypeOK, InputterFits, TimerArmed,
         LimitNotZero, TimeoutHeard, SessionHasNumber
<1>11. ASSUME StopReceiveSession PROVE IInv'
  BY <1>11 DEF StopReceiveSession, history, IInv, TypeOK, TimerArmed,
       LimitNotZero, TimeoutHeard, SessionHasNumber
<1>12. ASSUME SetSessionParam PROVE IInv'
  BY <1>12 DEF SetSessionParam, history, IInv, TypeOK, TimerArmed,
       LimitNotZero, TimeoutHeard, SessionHasNumber
<1>13. ASSUME FallsSilent PROVE IInv'
  BY <1>13 DEF FallsSilent, binder, history, IInv, TypeOK, TimerArmed,
       LimitNotZero, TimeoutHeard, SessionHasNumber
<1> QED
  BY <1>1, <1>2, <1>3, <1>4, <1>5, <1>6, <1>7, <1>8, <1>9, <1>10, <1>11,
     <1>12, <1>13, <1>7a
     DEF Next, Handle

-----------------------------------------------------------------------------
LEMMA Invariant == Spec => []IInv
BY InitInv, NextInv, PTL DEF Spec

(* The fields of the inputter and of the session keep their kinds: a limit *)
(* is never negative, a time-out count never above its maximum.            *)
THEOREM TypeCorrect == Spec => []TypeOK
<1>1. IInv => TypeOK
  BY DEF IInv
<1> QED
  BY <1>1, Invariant, PTL

(* A listener that has heard audio never waits for ever, whatever the      *)
(* arrival times, the losses and the clock do.                             *)
THEOREM TimerArmedHolds == Spec => []TimerArmed
<1>1. IInv => TimerArmed
  BY DEF IInv
<1> QED
  BY <1>1, Invariant, PTL

-----------------------------------------------------------------------------
(* CatchesUp.  While the session does not follow the talker, the number of *)
(* the last packet is either far from its own, for one packet in a row (or *)
(* two, when the second is number 0 and the first was remembered as 2^16), *)
(* or at most MAX_MISORDER behind it, and nearer with every packet.        *)
Lags(s, l, bad, r) ==
  \/ s = l
  \/ /\ Jumps(s, l) /\ bad = l + 1
     /\ r <= 1 \/ (r <= 2 /\ l = 0)
  \/ /\ Behind(s, l)
     /\ r <= Delta(s, l) - (SeqMod - MAX_MISORDER) + 3

CatchInv ==
  session = "own" =>
    /\ last < 0 => run = 0
    /\ last >= 0 => Lags(seqNum, last, in.badSeq, run)

(* Distances and successors without the modulus. *)
LEMMA DeltaIs ==
  ASSUME NEW s \in SeqNum, NEW seq \in SeqNum
  PROVE  Delta(s, seq) = IF seq >= s THEN seq - s ELSE seq - s + SeqMod
<1>1. CASE seq >= s
  BY <1>1, WindowAssumption DEF Delta, SeqNum
<1>2. CASE seq < s
  BY <1>2, WindowAssumption DEF Delta, SeqNum
<1> QED
  BY <1>1, <1>2 DEF SeqNum

LEMMA NextIs ==
  ASSUME NEW s \in SeqNum
  PROVE  Next16(s) = IF s = SeqMod - 1 THEN 0 ELSE s + 1
BY WindowAssumption DEF Next16, SeqNum

(* The packet after l is one nearer to the session's number. *)
LEMMA DeltaNext ==
  ASSUME NEW s \in SeqNum, NEW l \in SeqNum
  PROVE  /\ Next16(l) \in SeqNum
         /\ Delta(s, l) \in 0 .. SeqMod - 1
         /\ Delta(s, Next16(l)) = IF Delta(s, l) = SeqMod - 1 THEN 0
                                  ELSE Delta(s, l) + 1
<1>1. Next16(l) \in SeqNum
  BY NextIs, WindowAssumption DEF SeqNum
<1>2. SeqMod \in Nat /\ SeqMod > 0 /\ s \in Int /\ l \in Int
  BY WindowAssumption DEF SeqNum
<1>3. Delta(s, l) = IF l >= s THEN l - s ELSE l - s + SeqMod
  BY DeltaIs
<1>4. Delta(s, Next16(l)) = IF Next16(l) >= s THEN Next16(l) - s
                            ELSE Next16(l) - s + SeqMod
  BY <1>1, DeltaIs
<1>5. Next16(l) = IF l = SeqMod - 1 THEN 0 ELSE l + 1
  BY NextIs
<1> QED
  BY <1>1, <1>2, <1>3, <1>4, <1>5 DEF SeqNum

(* One packet, that the session does not follow. *)
LEMMA LagsStep ==
  ASSUME MAX_DROPOUT > 1,
         NEW s \in SeqNum, NEW q \in SeqNum, NEW l \in SeqNum \cup {-1},
         NEW bad \in -1 .. SeqMod, NEW r \in Nat, NEW r2 \in Nat,
         l >= 0 => Lags(s, l, bad, r),
         r2 = 1 \/ (l >= 0 /\ q = Next16(l) /\ r2 <= r + 1),
         NextSeqNum(s, bad, q) # q
  PROVE  Lags(s, q, NextBadSeq(s, bad, q), r2)
<1>1. ~InWindow(s, q) /\ ~(Jumps(s, q) /\ q = bad)
  BY DEF NextSeqNum
<1>2. Jumps(s, q) \/ Behind(s, q)
  BY <1>1 DEF Jumps
<1>3. Jumps(s, q) => NextBadSeq(s, bad, q) = q + 1
  BY <1>1 DEF NextBadSeq
<1>4. Delta(s, q) \in 0 .. SeqMod - 1
  BY DeltaNext
<1>5. CASE r2 = 1
  BY <1>2, <1>3, <1>4, <1>5, WindowAssumption DEF Lags, Behind
<1>6. CASE l >= 0 /\ q = Next16(l) /\ r2 <= r + 1
  <2>1. l \in SeqNum /\ Lags(s, l, bad, r)
    BY <1>6 DEF SeqNum
  <2>2. /\ Delta(s, l) \in 0 .. SeqMod - 1
        /\ Delta(s, q) = IF Delta(s, l) = SeqMod - 1 THEN 0
                         ELSE Delta(s, l) + 1
    BY <1>6, <2>1, DeltaNext
  <2>3. Delta(s, q) >= MAX_DROPOUT
    BY <1>1, <1>4, WindowAssumption DEF InWindow
  <2>4. s # l
    <3> SUFFICES ASSUME s = l PROVE FALSE
      OBVIOUS
    <3>1. Delta(s, l) = 0
      BY <2>1, DeltaIs DEF SeqNum
    <3> QED
      BY <2>2, <2>3, <3>1, WindowAssumption
  <2>5. CASE /\ Jumps(s, l) /\ bad = l + 1
             /\ r <= 1 \/ (r <= 2 /\ l = 0)
    <3>1. Delta(s, l) <= SeqMod - 1 - MAX_MISORDER
      BY <2>2, <2>5, WindowAssumption DEF Jumps, Behind
    <3>2. CASE Jumps(s, q)
      <4>1. l = SeqMod - 1 /\ q = 0
        BY <1>1, <1>6, <2>1, <2>5, <3>2, NextIs DEF SeqNum
      <4>2. r2 <= 2
        BY <1>6, <2>5, <4>1, WindowAssumption
      <4> QED
        BY <1>3, <3>2, <4>1, <4>2 DEF Lags
    <3>3. CASE Behind(s, q)
      <4>1. r2 <= 3
        BY <1>6, <2>5
      <4>2. Delta(s, q) >= SeqMod - MAX_MISORDER
        BY <1>4, <3>3, WindowAssumption DEF Behind
      <4> QED
        BY <1>4, <3>3, <4>1, <4>2, WindowAssumption DEF Lags
    <3> QED
      BY <1>2, <3>2, <3>3
  <2>6. CASE /\ Behind(s, l)
             /\ r <= Delta(s, l) - (SeqMod - MAX_MISORDER) + 3
    <3>1. Delta(s, q) = Delta(s, l) + 1
      BY <2>2, <2>3, WindowAssumption
    <3>2. Behind(s, q)
      BY <2>2, <2>6, <3>1, WindowAssumption DEF Behind
    <3>3. r2 <= Delta(s, q) - (SeqMod - MAX_MISORDER) + 3
      BY <1>6, <2>2, <2>6, <3>1, WindowAssumption
    <3> QED
      BY <3>2, <3>3 DEF Lags
  <2> QED
    BY <2>1, <2>4, <2>5, <2>6 DEF Lags
<1> QED
  BY <1>5, <1>6

LEMMA CatchInit == Init => CatchInv
BY DEF Init, CatchInv

LEMMA CatchNext ==
  ASSUME MAX_DROPOUT > 1
  PROVE  IInv /\ CatchInv /\ [Next]_vars => CatchInv'
<1> SUFFICES ASSUME IInv, CatchInv, [Next]_vars, session' = "own"
             PROVE  /\ last' < 0 => run' = 0
                    /\ last' >= 0 => Lags(seqNum', last', in'.badSeq, run')
  BY DEF CatchInv
<1>t. TypeOK /\ SessionHasNumber
  BY DEF IInv
<1>i. in \in Inputter
  BY <1>t DEF TypeOK
<1>1. ASSUME session = "own", UNCHANGED <<seqNum, last, run>>,
             in'.badSeq = in.badSeq
      PROVE  /\ last' < 0 => run' = 0
             /\ last' >= 0 => Lags(seqNum', last', in'.badSeq, run')
  BY <1>1 DEF CatchInv
<1>2. CASE UNCHANGED vars \/ Receive \/ TimesOut \/ ReceiveFails \/ FallsSilent
  BY <1>1, <1>2 DEF vars, Receive, TimesOut, ReceiveFails, FallsSilent,
                    binder, history
<1>3. CASE NoSession \/ GivesUp \/ StopReceiveSession \/ SetSessionParam
  BY <1>3 DEF NoSession, GivesUp, StopReceiveSession, SetSessionParam
<1>4. CASE Ignores \/ Waits \/ SetTimeoutThrows \/ Halt
  <2>1. in'.badSeq = in.badSeq
    BY <1>4, <1>i DEF Ignores, Waits, SetTimeoutThrows, SetTimeout, Halt,
                      Inputter
  <2> QED
    BY <1>1, <1>4, <2>1 DEF Ignores, Waits, SetTimeoutThrows, Halt, binder,
                            history
<1>5. CASE Hears
  <2> DEFINE q == got.seq
  <2>1. seqNum \in SeqNum /\ q \in SeqNum /\ in.badSeq \in -1 .. SeqMod
    BY <1>5, <1>t DEF Hears, SessionHasNumber, TypeOK, Got, Audio, Inputter
  <2>2. /\ seqNum' = NextSeqNum(seqNum, in.badSeq, q) /\ last' = q
        /\ session = "own"
    BY <1>5 DEF Hears
  <2>3. last \in SeqNum \cup {-1} /\ run \in Nat /\ Enough \in Nat
    BY <1>t, WindowAssumption DEF TypeOK, Enough
  <2>4. run' \in Nat
    BY <1>5, <2>3 DEF Hears
  <2>5. run' = 1 \/ (last >= 0 /\ q = Next16(last) /\ run' <= run + 1)
    BY <1>5, <2>3 DEF Hears
  <2>6. q >= 0 /\ ~(q < 0)
    BY <2>1 DEF SeqNum
  <2>7. CASE seqNum' = q
    <3>1. Lags(seqNum', last', in'.badSeq, run')
      BY <2>2, <2>7 DEF Lags
    <3> QED
      BY <2>2, <2>6, <3>1
  <2>8. CASE seqNum' # q
    <3>1. seqNum' = seqNum
      BY <2>2, <2>8 DEF NextSeqNum
    <3>2. Lags(seqNum, q, NextBadSeq(seqNum, in.badSeq, q), run')
      BY <2>1, <2>2, <2>3, <2>4, <2>5, <2>8, LagsStep DEF CatchInv
    <3>3. Behind(seqNum, q) \/ ~Dropped(seqNum, q)
      BY DEF Dropped
    <3>4. ~Dropped(seqNum, q) =>
            in'.badSeq = NextBadSeq(seqNum, in.badSeq, q)
      <4> SUFFICES ASSUME ~Dropped(seqNum, q)
                   PROVE  in'.badSeq = NextBadSeq(seqNum, in.badSeq, q)
        OBVIOUS
      <4>1. PICK sub \in Elapsed :
              in' = [SetTimeout(in, NextLimit(in, sub)) EXCEPT
                       !.timeoutCount = 0,
                       !.badSeq = NextBadSeq(seqNum, @, q),
                       !.limit = NextLimit(in, sub),
                       !.heard = TRUE]
        BY <1>5 DEF Hears
      <4> DEFINE k == SetTimeout(in, NextLimit(in, sub))
      <4>2. NextLimit(in, sub) \in Nat
        BY <1>i, NextLimitPositive DEF JavaInt
      <4>3. k \in Inputter /\ k.badSeq = in.badSeq
        BY <1>i, <4>2, SetTimeoutFits
      <4> HIDE DEF k
      <4>4. in' = [k EXCEPT !.timeoutCount = 0,
                     !.badSeq = NextBadSeq(seqNum, in.badSeq, q),
                     !.limit = NextLimit(in, sub), !.heard = TRUE]
        BY <4>1, <4>3 DEF k
      <4> QED
        BY <4>3, <4>4 DEF Inputter
    <3>5. CASE Behind(seqNum, q)
      BY <2>2, <2>6, <3>1, <3>2, <3>5 DEF Lags, Jumps
    <3> QED
      BY <2>2, <2>6, <3>1, <3>2, <3>3, <3>4, <3>5
  <2> QED
    BY <2>7, <2>8
<1> QED
  BY <1>2, <1>3, <1>4, <1>5 DEF Next, Handle

(* A talker who sends on is followed again after MAX_MISORDER + 3 packets  *)
(* in a row, whatever was lost, repeated or out of order before, for every *)
(* window that lets the next number in (the code's is 3000 wide).          *)
THEOREM CatchesUpHolds ==
  ASSUME MAX_DROPOUT > 1
  PROVE  Spec => []CatchesUp
<1>1. IInv /\ CatchInv => CatchesUp
  <2> SUFFICES ASSUME IInv, CatchInv, session = "own", run = Enough
               PROVE  seqNum = last
    BY DEF CatchesUp
  <2>1. last \in SeqNum \cup {-1} /\ seqNum \in SeqNum
    BY DEF IInv, TypeOK, SessionHasNumber
  <2>2. run = MAX_MISORDER + 3 /\ run > 0
    BY WindowAssumption DEF Enough
  <2>3. last \in SeqNum /\ Lags(seqNum, last, in.badSeq, run)
    BY <2>1, <2>2 DEF CatchInv, SeqNum
  <2>4. Delta(seqNum, last) \in 0 .. SeqMod - 1
    BY <2>1, <2>3, DeltaNext
  <2> QED
    BY <2>2, <2>3, <2>4, WindowAssumption DEF Lags
<1>2. IInv /\ CatchInv /\ [Next]_vars => CatchInv'
  BY CatchNext
<1> QED
  BY <1>1, <1>2, Invariant, CatchInit, PTL DEF Spec
=============================================================================
