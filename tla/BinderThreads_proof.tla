------------------------ MODULE BinderThreads_proof ------------------------
(***************************************************************************)
(* What BinderThreads promises, for any number of control receivers, calls *)
(* and levels.  The proof goes in layers:                                  *)
(*   - what a thread may have left to do (Fits) is a rest of one of seven  *)
(*     lists of statements, so the statement it is at tells which          *)
(*     statements are ahead of it (Ordered, Followed);                     *)
(*   - every step is a statement of one thread, a call or what a relayer   *)
(*     does by itself (Effect, Called, Relayed), and those are all that    *)
(*     the invariants are checked against;                                 *)
(*   - what holds whatever overlaps: Kept, Overlaps, OneReceiver, KindsFit;*)
(*   - what holds as long as some calls have not overlapped: Single,       *)
(*     EndKept and SessionKept, each of which needs those before it.       *)
(***************************************************************************)
EXTENDS BinderThreads, FiniteSetTheorems, TLAPS

-----------------------------------------------------------------------------
(* The methods as lists: which statement is where. *)

Statement ==
  {"mayBegin", "isOfCall", "hasSpk", "haltSpk", "clearSpk", "endSession",
   "hasMic", "haltMic", "clearMic", "stop", "sockets", "queue", "takeOver",
   "bind", "decipher", "setSpk", "outputters", "run", "newCall", "key",
   "setMic", "start", "lock", "unlock", "endCtrl", "beginCtrl",
   "clearTargets", "fillTargets"}

(* A list of n statements. *)
List(m, n) == m \in Seq(Statement) /\ Len(m) = n

(* List w is s, of p statements, and then u, of q.  *)
Joined(w, s, p, u, q) ==
  /\ List(w, p + q)
  /\ \A i \in 1 .. p : w[i] = s[i]
  /\ \A i \in 1 .. q : w[p + i] = u[i]

LEMMA Joins ==
  ASSUME NEW s, NEW u, NEW p, NEW q, List(s, p), List(u, q)
  PROVE  Joined(s \o u, s, p, u, q)
BY DEF List, Joined

(* In list m, the statements of a method come after the first k. *)
HasEndRtpReceiver(m, k) ==
  /\ m[k + 1] = "hasSpk" /\ m[k + 2] = "haltSpk" /\ m[k + 3] = "clearSpk"
  /\ m[k + 4] = "endSession"

HasSendCtrlPacket(m, k) == m[k + 1] = "sockets" /\ m[k + 2] = "queue"

HasEndRtpSender(m, k) ==
  /\ m[k + 1] = "hasMic" /\ m[k + 2] = "haltMic" /\ m[k + 3] = "clearMic"
  /\ m[k + 4] = "stop" /\ m[k + 5] = "sockets" /\ m[k + 6] = "queue"
  /\ m[k + 7] = "endSession"

LEMMA ListSendCtrlPacket ==
  List(SendCtrlPacket, 2) /\ HasSendCtrlPacket(SendCtrlPacket, 0)
BY DEF List, Statement, SendCtrlPacket, HasSendCtrlPacket

LEMMA ListEndRtpReceiver ==
  List(EndRtpReceiver, 4) /\ HasEndRtpReceiver(EndRtpReceiver, 0)
BY DEF List, Statement, EndRtpReceiver, HasEndRtpReceiver

LEMMA ListEndRtpSender ==
  List(EndRtpSender, 7) /\ HasEndRtpSender(EndRtpSender, 0)
<1> DEFINE a == <<"hasMic", "haltMic", "clearMic", "stop">>
           b == SendCtrlPacket
           c == <<"endSession">>
<1>1. List(a, 4) /\ List(b, 2) /\ List(c, 1)
  BY ListSendCtrlPacket DEF List, Statement
<1>2. /\ a[1] = "hasMic" /\ a[2] =  "haltMic" /\ a[3] =  "clearMic"
      /\ a[4] =  "stop" /\ c[1] =  "endSession"
  OBVIOUS
<1>3. b[1] =  "sockets" /\ b[2] =  "queue"
  BY ListSendCtrlPacket DEF HasSendCtrlPacket
<1>4. EndRtpSender = (a \o b) \o c
  BY DEF EndRtpSender
<1> HIDE DEF a, b, c
<1>5. Joined(a \o b, a, 4, b, 2)
  BY Joins, <1>1, Zenon
<1>6. List(a \o b, 6)
  BY <1>5 DEF Joined
<1>7. Joined((a \o b) \o c, a \o b, 6, c, 1)
  BY Joins, <1>1, <1>6, Zenon
<1> DEFINE x == a \o b   y == (a \o b) \o c
<1>8. Joined(x, a, 4, b, 2) /\ Joined(y, x, 6, c, 1) /\ EndRtpSender = y
  BY <1>4, <1>5, <1>7
<1> HIDE DEF x, y
<1> QED
  BY <1>2, <1>3, <1>8 DEF Joined, HasEndRtpSender

LEMMA ListEndRtpReceiverStop ==
  LET m == EndRtpReceiverStop
  IN  /\ List(m, 7) /\ m[1] = "isOfCall"
      /\ HasEndRtpReceiver(m, 1) /\ HasSendCtrlPacket(m, 5)
<1> DEFINE a == <<"isOfCall">>
           b == EndRtpReceiver
           c == SendCtrlPacket
           x == a \o b
           y == x \o c
<1>1. /\ List(a, 1) /\ List(b, 4) /\ List(c, 2)
      /\ a[1] = "isOfCall" /\ HasEndRtpReceiver(b, 0) /\ HasSendCtrlPacket(c, 0)
  BY ListSendCtrlPacket, ListEndRtpReceiver DEF List, Statement
<1>2. EndRtpReceiverStop = y
  BY DEF EndRtpReceiverStop
<1> HIDE DEF a, b, c
<1>3. Joined(x, a, 1, b, 4)
  BY Joins, <1>1, Zenon
<1>4. List(x, 5)
  BY <1>3 DEF Joined
<1> HIDE DEF x
<1>5. Joined(y, x, 5, c, 2)
  BY Joins, <1>1, <1>4, Zenon
<1> HIDE DEF y
<1> QED
  BY <1>1, <1>2, <1>3, <1>5 DEF Joined, HasEndRtpReceiver, HasSendCtrlPacket

LEMMA ListBeginRtpReceiver ==
  LET m == BeginRtpReceiver
  IN  /\ List(m, 20) /\ m[1] = "mayBegin" /\ HasEndRtpReceiver(m, 1)
      /\ HasEndRtpSender(m, 5) /\ HasSendCtrlPacket(m, 12)
      /\ m[15] = "takeOver" /\ m[16] = "bind" /\ m[17] = "decipher"
      /\ m[18] = "setSpk"
      /\ m[19] = "outputters" /\ m[20] = "run"
<1> DEFINE a == <<"mayBegin">>
           b == EndRtpReceiver
           c == EndRtpSender
           d == SendCtrlPacket
           e == <<"takeOver", "bind", "decipher", "setSpk", "outputters", "run">>
           w == a \o b
           x == w \o c
           y == x \o d
           z == y \o e
<1>1. /\ List(a, 1) /\ List(b, 4) /\ List(c, 7) /\ List(d, 2) /\ List(e, 6)
      /\ a[1] = "mayBegin" /\ HasEndRtpReceiver(b, 0) /\ HasEndRtpSender(c, 0)
      /\ HasSendCtrlPacket(d, 0)
      /\ e[1] = "takeOver" /\ e[2] = "bind" /\ e[3] = "decipher"
      /\ e[4] = "setSpk"
      /\ e[5] = "outputters" /\ e[6] = "run"
  BY ListSendCtrlPacket, ListEndRtpReceiver, ListEndRtpSender DEF List, Statement
<1>2. BeginRtpReceiver = z
  BY DEF BeginRtpReceiver
<1> HIDE DEF a, b, c, d, e
<1>3. Joined(w, a, 1, b, 4)
  BY Joins, <1>1, Zenon
<1>4. List(w, 5)
  BY <1>3 DEF Joined
<1> HIDE DEF w
<1>5. Joined(x, w, 5, c, 7)
  BY Joins, <1>1, <1>4, Zenon
<1>6. List(x, 12)
  BY <1>5 DEF Joined
<1> HIDE DEF x
<1>7. Joined(y, x, 12, d, 2)
  BY Joins, <1>1, <1>6, Zenon
<1>8. List(y, 14)
  BY <1>7 DEF Joined
<1> HIDE DEF y
<1>9. Joined(z, y, 14, e, 6)
  BY Joins, <1>1, <1>8, Zenon
<1> HIDE DEF z
<1>10. HasEndRtpReceiver(w, 1) /\ w[1] = "mayBegin"
  BY <1>1, <1>3 DEF Joined, HasEndRtpReceiver
<1>11. HasEndRtpReceiver(x, 1) /\ x[1] = "mayBegin" /\ HasEndRtpSender(x, 5)
  BY <1>1, <1>5, <1>10 DEF Joined, HasEndRtpReceiver, HasEndRtpSender
<1>12. /\ HasEndRtpReceiver(y, 1) /\ y[1] = "mayBegin" /\ HasEndRtpSender(y, 5)
       /\ HasSendCtrlPacket(y, 12)
  BY <1>1, <1>7, <1>11
  DEF Joined, HasEndRtpReceiver, HasEndRtpSender, HasSendCtrlPacket
<1> QED
  BY <1>1, <1>2, <1>9, <1>12
  DEF Joined, HasEndRtpReceiver, HasEndRtpSender, HasSendCtrlPacket

LEMMA ListBeginRtpSender ==
  LET m == BeginRtpSender
  IN  /\ List(m, 19) /\ m[1] = "mayBegin" /\ HasEndRtpReceiver(m, 1)
      /\ HasEndRtpSender(m, 5)
      /\ m[13] = "newCall" /\ m[14] = "key" /\ m[15] = "setMic" /\ m[16] = "run"
      /\ m[17] = "start" /\ HasSendCtrlPacket(m, 17)
<1> DEFINE a == <<"mayBegin">>
           b == EndRtpReceiver
           c == EndRtpSender
           d == <<"newCall", "key", "setMic", "run", "start">>
           e == SendCtrlPacket
           w == a \o b
           x == w \o c
           y == x \o d
           z == y \o e
<1>1. /\ List(a, 1) /\ List(b, 4) /\ List(c, 7) /\ List(d, 5) /\ List(e, 2)
      /\ a[1] = "mayBegin" /\ HasEndRtpReceiver(b, 0) /\ HasEndRtpSender(c, 0)
      /\ d[1] = "newCall" /\ d[2] = "key" /\ d[3] = "setMic" /\ d[4] = "run"
      /\ d[5] = "start" /\ HasSendCtrlPacket(e, 0)
  BY ListSendCtrlPacket, ListEndRtpReceiver, ListEndRtpSender DEF List, Statement
<1>2. BeginRtpSender = z
  BY DEF BeginRtpSender
<1> HIDE DEF a, b, c, d, e
<1>3. Joined(w, a, 1, b, 4)
  BY Joins, <1>1, Zenon
<1>4. List(w, 5)
  BY <1>3 DEF Joined
<1> HIDE DEF w
<1>5. Joined(x, w, 5, c, 7)
  BY Joins, <1>1, <1>4, Zenon
<1>6. List(x, 12)
  BY <1>5 DEF Joined
<1> HIDE DEF x
<1>7. Joined(y, x, 12, d, 5)
  BY Joins, <1>1, <1>6, Zenon
<1>8. List(y, 17)
  BY <1>7 DEF Joined
<1> HIDE DEF y
<1>9. Joined(z, y, 17, e, 2)
  BY Joins, <1>1, <1>8, Zenon
<1> HIDE DEF z
<1>10. HasEndRtpReceiver(w, 1) /\ w[1] = "mayBegin"
  BY <1>1, <1>3 DEF Joined, HasEndRtpReceiver
<1>11. HasEndRtpReceiver(x, 1) /\ x[1] = "mayBegin" /\ HasEndRtpSender(x, 5)
  BY <1>1, <1>5, <1>10 DEF Joined, HasEndRtpReceiver, HasEndRtpSender
<1>12. /\ HasEndRtpReceiver(y, 1) /\ y[1] = "mayBegin" /\ HasEndRtpSender(y, 5)
       /\ y[13] = "newCall" /\ y[14] = "key" /\ y[15] = "setMic" /\ y[16] = "run"
       /\ y[17] = "start"
  BY <1>1, <1>7, <1>11 DEF Joined, HasEndRtpReceiver, HasEndRtpSender
<1> QED
  BY <1>1, <1>2, <1>9, <1>12
  DEF Joined, HasEndRtpReceiver, HasEndRtpSender, HasSendCtrlPacket

LEMMA ListLinkBegin ==
  LET m == <<"lock">> \o EndRtpSender \o EndRtpReceiver \o <<"endCtrl">>
  IN  /\ List(m, 13) /\ m[1] = "lock" /\ HasEndRtpSender(m, 1)
      /\ HasEndRtpReceiver(m, 8) /\ m[13] = "endCtrl"
<1> DEFINE a == <<"lock">>
           b == EndRtpSender
           c == EndRtpReceiver
           d == <<"endCtrl">>
           w == a \o b
           x == w \o c
           y == x \o d
<1>1. /\ List(a, 1) /\ List(b, 7) /\ List(c, 4) /\ List(d, 1)
      /\ a[1] = "lock" /\ HasEndRtpSender(b, 0) /\ HasEndRtpReceiver(c, 0)
      /\ d[1] = "endCtrl"
  BY ListEndRtpReceiver, ListEndRtpSender DEF List, Statement
<1> HIDE DEF a, b, c, d
<1>2. Joined(w, a, 1, b, 7)
  BY Joins, <1>1, Zenon
<1>3. List(w, 8)
  BY <1>2 DEF Joined
<1> HIDE DEF w
<1>4. Joined(x, w, 8, c, 4)
  BY Joins, <1>1, <1>3, Zenon
<1>5. List(x, 12)
  BY <1>4 DEF Joined
<1> HIDE DEF x
<1>6. Joined(y, x, 12, d, 1)
  BY Joins, <1>1, <1>5, Zenon
<1> HIDE DEF y
<1>7. HasEndRtpSender(w, 1) /\ w[1] = "lock"
  BY <1>1, <1>2 DEF Joined, HasEndRtpSender
<1>8. HasEndRtpSender(x, 1) /\ x[1] = "lock" /\ HasEndRtpReceiver(x, 8)
  BY <1>1, <1>4, <1>7 DEF Joined, HasEndRtpReceiver, HasEndRtpSender
<1>9. /\ List(y, 13) /\ y[1] = "lock" /\ HasEndRtpSender(y, 1)
      /\ HasEndRtpReceiver(y, 8) /\ y[13] = "endCtrl"
  BY <1>1, <1>6, <1>8 DEF Joined, HasEndRtpReceiver, HasEndRtpSender
<1> QED
  BY <1>9 DEF y, x, w, a, b, c, d

LinkUp == SetLocalIpAddress(TRUE)
LinkDown == SetLocalIpAddress(FALSE)

LEMMA ListLinkUp ==
  LET m == LinkUp
  IN  /\ List(m, 15) /\ m[1] = "lock" /\ HasEndRtpSender(m, 1)
      /\ HasEndRtpReceiver(m, 8) /\ m[13] = "endCtrl" /\ m[14] = "beginCtrl"
      /\ m[15] = "unlock"
<1> DEFINE a == <<"lock">> \o EndRtpSender \o EndRtpReceiver \o <<"endCtrl">>
           b == <<"beginCtrl">>
           c == <<"unlock">>
           x == a \o b
           y == x \o c
<1>1. /\ List(a, 13) /\ a[1] = "lock" /\ HasEndRtpSender(a, 1)
      /\ HasEndRtpReceiver(a, 8) /\ a[13] = "endCtrl"
  BY ListLinkBegin
<1>2. List(b, 1) /\ b[1] = "beginCtrl" /\ List(c, 1) /\ c[1] = "unlock"
  BY DEF List, Statement
<1>3. LinkUp = y
  BY DEF SetLocalIpAddress, LinkUp
<1> HIDE DEF a, b, c
<1>4. Joined(x, a, 13, b, 1)
  BY Joins, <1>1, <1>2, Zenon
<1>5. List(x, 14)
  BY <1>4 DEF Joined
<1> HIDE DEF x
<1>6. Joined(y, x, 14, c, 1)
  BY Joins, <1>2, <1>5, Zenon
<1> HIDE DEF y
<1>7. /\ x[1] = "lock" /\ HasEndRtpSender(x, 1)
      /\ HasEndRtpReceiver(x, 8) /\ x[13] = "endCtrl" /\ x[14] = "beginCtrl"
  BY <1>1, <1>2, <1>4 DEF Joined, HasEndRtpReceiver, HasEndRtpSender
<1> QED
  BY <1>2, <1>3, <1>6, <1>7 DEF Joined, HasEndRtpReceiver, HasEndRtpSender

LEMMA ListLinkDown ==
  LET m == LinkDown
  IN  /\ List(m, 14) /\ m[1] = "lock" /\ HasEndRtpSender(m, 1)
      /\ HasEndRtpReceiver(m, 8) /\ m[13] = "endCtrl" /\ m[14] = "unlock"
<1> DEFINE a == <<"lock">> \o EndRtpSender \o EndRtpReceiver \o <<"endCtrl">>
           c == <<"unlock">>
           y == a \o c
<1>1. /\ List(a, 13) /\ a[1] = "lock" /\ HasEndRtpSender(a, 1)
      /\ HasEndRtpReceiver(a, 8) /\ a[13] = "endCtrl"
  BY ListLinkBegin
<1>2. List(c, 1) /\ c[1] = "unlock"
  BY DEF List, Statement
<1>3. LinkDown = y
  <2>1. LinkDown = (a \o <<>>) \o c
    BY DEF SetLocalIpAddress, LinkDown
  <2>2. a \o <<>> = a
    <3> HIDE DEF a
    <3> QED BY <1>1 DEF List
  <2> QED BY <2>1, <2>2
<1> HIDE DEF a, c
<1>4. Joined(y, a, 13, c, 1)
  BY Joins, <1>1, <1>2, Zenon
<1> HIDE DEF y
<1> QED
  BY <1>1, <1>2, <1>3, <1>4 DEF Joined, HasEndRtpReceiver, HasEndRtpSender

LEMMA ListOnCursorLoadFinish ==
  LET m == OnCursorLoadFinish
  IN  List(m, 2) /\ m[1] = "clearTargets" /\ m[2] = "fillTargets"
BY DEF List, Statement, OnCursorLoadFinish

-----------------------------------------------------------------------------
(* What is left of a list m of n statements, r of them.                    *)
Rest(s, m, n, r) ==
  /\ List(s, r) /\ List(m, n) /\ r <= n
  /\ \A i \in 1 .. r : s[i] = m[n - r + i]

Ahead(s, x) == \E i \in 1 .. Len(s) : s[i] = x
Is(s, x) == s # <<>> /\ Head(s) = x

LEMMA RestWhole ==
  ASSUME NEW m, NEW n, List(m, n)
  PROVE  Rest(m, m, n, n)
BY DEF Rest, List

LEMMA RestTail ==
  ASSUME NEW s, NEW m, NEW n, NEW r, Rest(s, m, n, r), s # <<>>
  PROVE  Rest(Tail(s), m, n, r - 1)
BY DEF Rest, List

LEMMA RestSkip ==
  ASSUME NEW s, NEW m, NEW n, NEW r, NEW k \in Nat, Rest(s, m, n, r), k <= r
  PROVE  Rest(SubSeq(s, k + 1, Len(s)), m, n, r - k)
<1> DEFINE u == SubSeq(s, k + 1, Len(s))
<1>1. s \in Seq(Statement) /\ Len(s) = r /\ r \in Nat /\ n \in Nat
  BY DEF Rest, List
<1>2. \A i \in k + 1 .. Len(s) : s[i] \in Statement
  BY <1>1
<1>3. u \in Seq(Statement) /\ Len(u) = r - k
  BY <1>1, <1>2
<1>4. ASSUME NEW i \in 1 .. r - k
      PROVE  u[i] = m[n - (r - k) + i]
  <2>1. u[i] = s[k + i]
    BY <1>1
  <2>2. k + i \in 1 .. r /\ n - r + (k + i) = n - (r - k) + i
    BY <1>1
  <2> QED BY <2>1, <2>2 DEF Rest
<1> QED BY <1>1, <1>3, <1>4 DEF Rest, List

LEMMA RestFacts ==
  ASSUME NEW s, NEW m, NEW n, NEW r, Rest(s, m, n, r)
  PROVE  /\ r \in 0 .. n /\ n \in Nat
         /\ s = <<>> <=> r = 0
         /\ r # 0 => Head(s) = m[n - r + 1]
         /\ \A x : Ahead(s, x) <=> \E j \in n - r + 1 .. n : m[j] = x
<1>1. /\ r \in 0 .. n /\ n \in Nat
      /\ s = <<>> <=> r = 0
      /\ r # 0 => Head(s) = m[n - r + 1]
  BY DEF Rest, List
<1>2. ASSUME NEW x, Ahead(s, x)
      PROVE  \E j \in n - r + 1 .. n : m[j] = x
  <2>1. PICK i \in 1 .. r : s[i] = x
    BY <1>2 DEF Ahead, Rest, List
  <2>2. n - r + i \in n - r + 1 .. n /\ m[n - r + i] = x
    BY <2>1, <1>1 DEF Rest
  <2> QED BY <2>2
<1>3. ASSUME NEW x, NEW j \in n - r + 1 .. n, m[j] = x
      PROVE  Ahead(s, x)
  <2>1. j - n + r \in 1 .. Len(s) /\ s[j - n + r] = m[n - r + (j - n + r)]
    BY <1>1 DEF Rest, List
  <2>2. n - r + (j - n + r) = j
    BY <1>1
  <2> QED BY <2>1, <2>2, <1>3 DEF Ahead
<1> QED BY <1>1, <1>2, <1>3

(* In endRtpReceiver or endRtpSender the field has been set to null and the *)
(* session is not yet ended.                                                *)
Ending(s) ==
  /\ s # <<>>
  /\ \/ s[1] \in {"stop", "endSession"}
     \/ s[1] = "queue" /\ Len(s) >= 2 /\ s[2] = "endSession"
     \/ s[1] = "sockets" /\ Len(s) >= 3 /\ s[3] = "endSession"

LEMMA EndingFacts ==
  ASSUME NEW s, NEW m, NEW n, NEW r, Rest(s, m, n, r)
  PROVE  Ending(s) <=>
           /\ r # 0
           /\ \/ m[n - r + 1] \in {"stop", "endSession"}
              \/ m[n - r + 1] = "queue" /\ r >= 2 /\ m[n - r + 2] = "endSession"
              \/ m[n - r + 1] = "sockets" /\ r >= 3 /\ m[n - r + 3] = "endSession"
<1>1. Len(s) = r /\ r \in Nat /\ (s = <<>> <=> r = 0)
  BY DEF Rest, List
<1>2. /\ r >= 1 => s[1] = m[n - r + 1]
      /\ r >= 2 => s[2] = m[n - r + 2]
      /\ r >= 3 => s[3] = m[n - r + 3]
  BY <1>1 DEF Rest
<1> QED BY <1>1, <1>2 DEF Ending

(* When r statements of beginRtpReceiver are left: where that is, and which *)
(* of the statements in Once are still ahead.  Then the same for the other *)
(* methods.                                                                *)
StartTable(s, r) ==
  /\ r \in 0 .. 20 /\ (s = <<>> <=> r = 0)
  /\ s # <<>> => Head(s) \in
       {"mayBegin", "hasSpk", "haltSpk", "clearSpk", "endSession", "hasMic",
        "haltMic", "clearMic", "stop", "sockets", "queue", "takeOver", "bind",
        "decipher", "setSpk", "outputters", "run"}
  /\ (Is(s, "mayBegin") <=> r = 20)  /\ (Is(s, "hasSpk") <=> r = 19)
  /\ (Is(s, "haltSpk") <=> r = 18)  /\ (Is(s, "clearSpk") <=> r = 17)
  /\ (Is(s, "endSession") <=> r \in {16, 9})  /\ (Is(s, "hasMic") <=> r = 15)
  /\ (Is(s, "haltMic") <=> r = 14)  /\ (Is(s, "clearMic") <=> r = 13)
  /\ (Is(s, "stop") <=> r = 12)  /\ (Is(s, "sockets") <=> r \in {11, 8})
  /\ (Is(s, "queue") <=> r \in {10, 7})  /\ (Is(s, "takeOver") <=> r = 6)
  /\ (Is(s, "bind") <=> r = 5)  /\ (Is(s, "decipher") <=> r = 4)
  /\ (Is(s, "setSpk") <=> r = 3)  /\ (Is(s, "outputters") <=> r = 2)
  /\ (Is(s, "run") <=> r = 1)
  /\ (Ahead(s, "clearSpk") <=> r >= 17)  /\ (Ahead(s, "clearMic") <=> r >= 13)
  /\ (Ahead(s, "takeOver") <=> r >= 6)  /\ (Ahead(s, "bind") <=> r >= 5)
  /\ (Ahead(s, "decipher") <=> r >= 4)  /\ (Ahead(s, "setSpk") <=> r >= 3)
  /\ ~Ahead(s, "newCall")  /\ ~Ahead(s, "key")  /\ ~Ahead(s, "setMic")
  /\ ~Ahead(s, "lock")  /\ ~Ahead(s, "unlock")  /\ ~Ahead(s, "endCtrl")
  /\ ~Ahead(s, "beginCtrl")
  /\ Ending(s) <=> r \in {16, 12, 11, 10, 9}

LEMMA StartFacts ==
  ASSUME NEW s, NEW r, Rest(s, BeginRtpReceiver, 20, r)
  PROVE  StartTable(s, r)
<1> DEFINE
      m == BeginRtpReceiver
      P(j) ==
        /\ m[j] \in
               {"mayBegin", "hasSpk", "haltSpk", "clearSpk", "endSession",
                "hasMic", "haltMic", "clearMic", "stop", "sockets", "queue",
                "takeOver", "bind", "decipher", "setSpk", "outputters", "run"}
        /\ (m[j] = "mayBegin" <=> j = 1)  /\ (m[j] = "hasSpk" <=> j = 2)
        /\ (m[j] = "haltSpk" <=> j = 3)  /\ (m[j] = "clearSpk" <=> j = 4)
        /\ (m[j] = "endSession" <=> j \in {5, 12})
        /\ (m[j] = "hasMic" <=> j = 6)  /\ (m[j] = "haltMic" <=> j = 7)
        /\ (m[j] = "clearMic" <=> j = 8)  /\ (m[j] = "stop" <=> j = 9)
        /\ (m[j] = "sockets" <=> j \in {10, 13})
        /\ (m[j] = "queue" <=> j \in {11, 14})
        /\ (m[j] = "takeOver" <=> j = 15)  /\ (m[j] = "bind" <=> j = 16)
        /\ (m[j] = "decipher" <=> j = 17)  /\ (m[j] = "setSpk" <=> j = 18)
        /\ (m[j] = "outputters" <=> j = 19)  /\ (m[j] = "run" <=> j = 20)
<1>1. ASSUME NEW j \in 1 .. 20
      PROVE  P(j)
  <2>1. j \in {1, 2, 3, 4, 5, 6, 7, 8, 9, 10, 11, 12, 13, 14, 15, 16, 17, 18, 19,
             20}
    OBVIOUS
  <2> HIDE DEF m
  <2> QED
    BY <2>1, ListBeginRtpReceiver
    DEF m, HasEndRtpReceiver, HasEndRtpSender, HasSendCtrlPacket
<1> HIDE DEF m, P
<1>2. Rest(s, m, 20, r)
  BY DEF m
<1>3. /\ r \in 0 .. 20 /\ (s = <<>> <=> r = 0)
      /\ \A j \in 20 - r + 1 .. 20 : P(j)
  <2>1. r \in 0 .. 20 /\ (s = <<>> <=> r = 0)
    BY <1>2, RestFacts
  <2>2. \A j \in 20 - r + 1 .. 20 : j \in 1 .. 20
    BY <2>1
  <2> QED BY <1>1, <2>1, <2>2
<1> DEFINE n == 20
<1>4. /\ \A x : Is(s, x) <=> r # 0 /\ m[n - r + 1] = x
      /\ r # 0 => Head(s) = m[n - r + 1]
      /\ \A x : Ahead(s, x) <=> \E j \in n - r + 1 .. n : m[j] = x
  <2> HIDE DEF n
  <2>1. Rest(s, m, n, r)
    BY <1>2 DEF n
  <2> QED BY <2>1, RestFacts DEF Is
<1>5. Ending(s) <=> r \in {16, 12, 11, 10, 9}
  BY <1>2, <1>3, EndingFacts DEF P
<1>6. /\ (Ahead(s, "clearSpk") <=> r >= 17)
      /\ (Ahead(s, "clearMic") <=> r >= 13)
      /\ (Ahead(s, "takeOver") <=> r >= 6)  /\ (Ahead(s, "bind") <=> r >= 5)
      /\ (Ahead(s, "decipher") <=> r >= 4)  /\ (Ahead(s, "setSpk") <=> r >= 3)
  <2>1. P(4) /\ P(8) /\ P(15) /\ P(16) /\ P(17) /\ P(18)
    BY <1>1
  <2> QED BY <1>3, <1>4, <2>1 DEF P
<1>7. /\ ~Ahead(s, "newCall")  /\ ~Ahead(s, "key")  /\ ~Ahead(s, "setMic")
      /\ ~Ahead(s, "lock")  /\ ~Ahead(s, "unlock")  /\ ~Ahead(s, "endCtrl")
      /\ ~Ahead(s, "beginCtrl")
  BY <1>3, <1>4 DEF P
<1> QED
  BY <1>3, <1>4, <1>5, <1>6, <1>7 DEF P, StartTable

StopTable(s, r) ==
  /\ r \in 0 .. 7 /\ (s = <<>> <=> r = 0)
  /\ s # <<>> => Head(s) \in
       {"isOfCall", "hasSpk", "haltSpk", "clearSpk", "endSession", "sockets",
        "queue"}
  /\ (Is(s, "isOfCall") <=> r = 7)  /\ (Is(s, "hasSpk") <=> r = 6)
  /\ (Is(s, "haltSpk") <=> r = 5)  /\ (Is(s, "clearSpk") <=> r = 4)
  /\ (Is(s, "endSession") <=> r = 3)  /\ (Is(s, "sockets") <=> r = 2)
  /\ (Is(s, "queue") <=> r = 1)
  /\ (Ahead(s, "clearSpk") <=> r >= 4)
  /\ ~Ahead(s, "clearMic")  /\ ~Ahead(s, "takeOver")  /\ ~Ahead(s, "bind")
  /\ ~Ahead(s, "decipher")  /\ ~Ahead(s, "setSpk")  /\ ~Ahead(s, "newCall")
  /\ ~Ahead(s, "key")  /\ ~Ahead(s, "setMic")  /\ ~Ahead(s, "lock")
  /\ ~Ahead(s, "unlock")  /\ ~Ahead(s, "endCtrl")  /\ ~Ahead(s, "beginCtrl")
  /\ Ending(s) <=> r \in {3}

LEMMA StopFacts ==
  ASSUME NEW s, NEW r, Rest(s, EndRtpReceiverStop, 7, r)
  PROVE  StopTable(s, r)
<1> DEFINE
      m == EndRtpReceiverStop
      P(j) ==
        /\ m[j] \in
               {"isOfCall", "hasSpk", "haltSpk", "clearSpk", "endSession",
                "sockets", "queue"}
        /\ (m[j] = "isOfCall" <=> j = 1)  /\ (m[j] = "hasSpk" <=> j = 2)
        /\ (m[j] = "haltSpk" <=> j = 3)  /\ (m[j] = "clearSpk" <=> j = 4)
        /\ (m[j] = "endSession" <=> j = 5)  /\ (m[j] = "sockets" <=> j = 6)
        /\ (m[j] = "queue" <=> j = 7)
<1>1. ASSUME NEW j \in 1 .. 7
      PROVE  P(j)
  <2>1. j \in {1, 2, 3, 4, 5, 6, 7}
    OBVIOUS
  <2> HIDE DEF m
  <2> QED
    BY <2>1, ListEndRtpReceiverStop
    DEF m, HasEndRtpReceiver, HasEndRtpSender, HasSendCtrlPacket
<1> HIDE DEF m, P
<1>2. Rest(s, m, 7, r)
  BY DEF m
<1>3. /\ r \in 0 .. 7 /\ (s = <<>> <=> r = 0)
      /\ \A j \in 7 - r + 1 .. 7 : P(j)
  <2>1. r \in 0 .. 7 /\ (s = <<>> <=> r = 0)
    BY <1>2, RestFacts
  <2>2. \A j \in 7 - r + 1 .. 7 : j \in 1 .. 7
    BY <2>1
  <2> QED BY <1>1, <2>1, <2>2
<1> DEFINE n == 7
<1>4. /\ \A x : Is(s, x) <=> r # 0 /\ m[n - r + 1] = x
      /\ r # 0 => Head(s) = m[n - r + 1]
      /\ \A x : Ahead(s, x) <=> \E j \in n - r + 1 .. n : m[j] = x
  <2> HIDE DEF n
  <2>1. Rest(s, m, n, r)
    BY <1>2 DEF n
  <2> QED BY <2>1, RestFacts DEF Is
<1>5. Ending(s) <=> r \in {3}
  BY <1>2, <1>3, EndingFacts DEF P
<1>6. /\ (Ahead(s, "clearSpk") <=> r >= 4)
  <2>1. P(4)
    BY <1>1
  <2> QED BY <1>3, <1>4, <2>1 DEF P
<1>7. /\ ~Ahead(s, "clearMic")  /\ ~Ahead(s, "takeOver")  /\ ~Ahead(s, "bind")
      /\ ~Ahead(s, "decipher")  /\ ~Ahead(s, "setSpk")  /\ ~Ahead(s, "newCall")
      /\ ~Ahead(s, "key")  /\ ~Ahead(s, "setMic")  /\ ~Ahead(s, "lock")
      /\ ~Ahead(s, "unlock")  /\ ~Ahead(s, "endCtrl")
      /\ ~Ahead(s, "beginCtrl")
  BY <1>3, <1>4 DEF P
<1> QED
  BY <1>3, <1>4, <1>5, <1>6, <1>7 DEF P, StopTable

PressTable(s, r) ==
  /\ r \in 0 .. 19 /\ (s = <<>> <=> r = 0)
  /\ s # <<>> => Head(s) \in
       {"mayBegin", "hasSpk", "haltSpk", "clearSpk", "endSession", "hasMic",
        "haltMic", "clearMic", "stop", "sockets", "queue", "newCall", "key",
        "setMic", "run", "start"}
  /\ (Is(s, "mayBegin") <=> r = 19)  /\ (Is(s, "hasSpk") <=> r = 18)
  /\ (Is(s, "haltSpk") <=> r = 17)  /\ (Is(s, "clearSpk") <=> r = 16)
  /\ (Is(s, "endSession") <=> r \in {15, 8})  /\ (Is(s, "hasMic") <=> r = 14)
  /\ (Is(s, "haltMic") <=> r = 13)  /\ (Is(s, "clearMic") <=> r = 12)
  /\ (Is(s, "stop") <=> r = 11)  /\ (Is(s, "sockets") <=> r \in {10, 2})
  /\ (Is(s, "queue") <=> r \in {9, 1})  /\ (Is(s, "newCall") <=> r = 7)
  /\ (Is(s, "key") <=> r = 6)  /\ (Is(s, "setMic") <=> r = 5)
  /\ (Is(s, "run") <=> r = 4)  /\ (Is(s, "start") <=> r = 3)
  /\ (Ahead(s, "clearSpk") <=> r >= 16)  /\ (Ahead(s, "clearMic") <=> r >= 12)
  /\ (Ahead(s, "newCall") <=> r >= 7)  /\ (Ahead(s, "key") <=> r >= 6)
  /\ (Ahead(s, "setMic") <=> r >= 5)
  /\ ~Ahead(s, "takeOver")  /\ ~Ahead(s, "bind")  /\ ~Ahead(s, "decipher")
  /\ ~Ahead(s, "setSpk")  /\ ~Ahead(s, "lock")  /\ ~Ahead(s, "unlock")
  /\ ~Ahead(s, "endCtrl")  /\ ~Ahead(s, "beginCtrl")
  /\ Ending(s) <=> r \in {15, 11, 10, 9, 8}

LEMMA PressFacts ==
  ASSUME NEW s, NEW r, Rest(s, BeginRtpSender, 19, r)
  PROVE  PressTable(s, r)
<1> DEFINE
      m == BeginRtpSender
      P(j) ==
        /\ m[j] \in
               {"mayBegin", "hasSpk", "haltSpk", "clearSpk", "endSession",
                "hasMic", "haltMic", "clearMic", "stop", "sockets", "queue",
                "newCall", "key", "setMic", "run", "start"}
        /\ (m[j] = "mayBegin" <=> j = 1)  /\ (m[j] = "hasSpk" <=> j = 2)
        /\ (m[j] = "haltSpk" <=> j = 3)  /\ (m[j] = "clearSpk" <=> j = 4)
        /\ (m[j] = "endSession" <=> j \in {5, 12})
        /\ (m[j] = "hasMic" <=> j = 6)  /\ (m[j] = "haltMic" <=> j = 7)
        /\ (m[j] = "clearMic" <=> j = 8)  /\ (m[j] = "stop" <=> j = 9)
        /\ (m[j] = "sockets" <=> j \in {10, 18})
        /\ (m[j] = "queue" <=> j \in {11, 19})
        /\ (m[j] = "newCall" <=> j = 13)  /\ (m[j] = "key" <=> j = 14)
        /\ (m[j] = "setMic" <=> j = 15)  /\ (m[j] = "run" <=> j = 16)
        /\ (m[j] = "start" <=> j = 17)
<1>1. ASSUME NEW j \in 1 .. 19
      PROVE  P(j)
  <2>1. j \in {1, 2, 3, 4, 5, 6, 7, 8, 9, 10, 11, 12, 13, 14, 15, 16, 17, 18, 19}
    OBVIOUS
  <2> HIDE DEF m
  <2> QED
    BY <2>1, ListBeginRtpSender
    DEF m, HasEndRtpReceiver, HasEndRtpSender, HasSendCtrlPacket
<1> HIDE DEF m, P
<1>2. Rest(s, m, 19, r)
  BY DEF m
<1>3. /\ r \in 0 .. 19 /\ (s = <<>> <=> r = 0)
      /\ \A j \in 19 - r + 1 .. 19 : P(j)
  <2>1. r \in 0 .. 19 /\ (s = <<>> <=> r = 0)
    BY <1>2, RestFacts
  <2>2. \A j \in 19 - r + 1 .. 19 : j \in 1 .. 19
    BY <2>1
  <2> QED BY <1>1, <2>1, <2>2
<1> DEFINE n == 19
<1>4. /\ \A x : Is(s, x) <=> r # 0 /\ m[n - r + 1] = x
      /\ r # 0 => Head(s) = m[n - r + 1]
      /\ \A x : Ahead(s, x) <=> \E j \in n - r + 1 .. n : m[j] = x
  <2> HIDE DEF n
  <2>1. Rest(s, m, n, r)
    BY <1>2 DEF n
  <2> QED BY <2>1, RestFacts DEF Is
<1>5. Ending(s) <=> r \in {15, 11, 10, 9, 8}
  BY <1>2, <1>3, EndingFacts DEF P
<1>6. /\ (Ahead(s, "clearSpk") <=> r >= 16)
      /\ (Ahead(s, "clearMic") <=> r >= 12)
      /\ (Ahead(s, "newCall") <=> r >= 7)  /\ (Ahead(s, "key") <=> r >= 6)
      /\ (Ahead(s, "setMic") <=> r >= 5)
  <2>1. P(4) /\ P(8) /\ P(13) /\ P(14) /\ P(15)
    BY <1>1
  <2> QED BY <1>3, <1>4, <2>1 DEF P
<1>7. /\ ~Ahead(s, "takeOver")  /\ ~Ahead(s, "bind")  /\ ~Ahead(s, "decipher")
      /\ ~Ahead(s, "setSpk")  /\ ~Ahead(s, "lock")  /\ ~Ahead(s, "unlock")
      /\ ~Ahead(s, "endCtrl")  /\ ~Ahead(s, "beginCtrl")
  BY <1>3, <1>4 DEF P
<1> QED
  BY <1>3, <1>4, <1>5, <1>6, <1>7 DEF P, PressTable

ReleaseTable(s, r) ==
  /\ r \in 0 .. 7 /\ (s = <<>> <=> r = 0)
  /\ s # <<>> => Head(s) \in
       {"hasMic", "haltMic", "clearMic", "stop", "sockets", "queue",
        "endSession"}
  /\ (Is(s, "hasMic") <=> r = 7)  /\ (Is(s, "haltMic") <=> r = 6)
  /\ (Is(s, "clearMic") <=> r = 5)  /\ (Is(s, "stop") <=> r = 4)
  /\ (Is(s, "sockets") <=> r = 3)  /\ (Is(s, "queue") <=> r = 2)
  /\ (Is(s, "endSession") <=> r = 1)
  /\ (Ahead(s, "clearMic") <=> r >= 5)
  /\ ~Ahead(s, "clearSpk")  /\ ~Ahead(s, "takeOver")  /\ ~Ahead(s, "bind")
  /\ ~Ahead(s, "decipher")  /\ ~Ahead(s, "setSpk")  /\ ~Ahead(s, "newCall")
  /\ ~Ahead(s, "key")  /\ ~Ahead(s, "setMic")  /\ ~Ahead(s, "lock")
  /\ ~Ahead(s, "unlock")  /\ ~Ahead(s, "endCtrl")  /\ ~Ahead(s, "beginCtrl")
  /\ Ending(s) <=> r \in {4, 3, 2, 1}

LEMMA ReleaseFacts ==
  ASSUME NEW s, NEW r, Rest(s, EndRtpSender, 7, r)
  PROVE  ReleaseTable(s, r)
<1> DEFINE
      m == EndRtpSender
      P(j) ==
        /\ m[j] \in
               {"hasMic", "haltMic", "clearMic", "stop", "sockets", "queue",
                "endSession"}
        /\ (m[j] = "hasMic" <=> j = 1)  /\ (m[j] = "haltMic" <=> j = 2)
        /\ (m[j] = "clearMic" <=> j = 3)  /\ (m[j] = "stop" <=> j = 4)
        /\ (m[j] = "sockets" <=> j = 5)  /\ (m[j] = "queue" <=> j = 6)
        /\ (m[j] = "endSession" <=> j = 7)
<1>1. ASSUME NEW j \in 1 .. 7
      PROVE  P(j)
  <2>1. j \in {1, 2, 3, 4, 5, 6, 7}
    OBVIOUS
  <2> HIDE DEF m
  <2> QED
    BY <2>1, ListEndRtpSender
    DEF m, HasEndRtpReceiver, HasEndRtpSender, HasSendCtrlPacket
<1> HIDE DEF m, P
<1>2. Rest(s, m, 7, r)
  BY DEF m
<1>3. /\ r \in 0 .. 7 /\ (s = <<>> <=> r = 0)
      /\ \A j \in 7 - r + 1 .. 7 : P(j)
  <2>1. r \in 0 .. 7 /\ (s = <<>> <=> r = 0)
    BY <1>2, RestFacts
  <2>2. \A j \in 7 - r + 1 .. 7 : j \in 1 .. 7
    BY <2>1
  <2> QED BY <1>1, <2>1, <2>2
<1> DEFINE n == 7
<1>4. /\ \A x : Is(s, x) <=> r # 0 /\ m[n - r + 1] = x
      /\ r # 0 => Head(s) = m[n - r + 1]
      /\ \A x : Ahead(s, x) <=> \E j \in n - r + 1 .. n : m[j] = x
  <2> HIDE DEF n
  <2>1. Rest(s, m, n, r)
    BY <1>2 DEF n
  <2> QED BY <2>1, RestFacts DEF Is
<1>5. Ending(s) <=> r \in {4, 3, 2, 1}
  BY <1>2, <1>3, EndingFacts DEF P
<1>6. /\ (Ahead(s, "clearMic") <=> r >= 5)
  <2>1. P(3)
    BY <1>1
  <2> QED BY <1>3, <1>4, <2>1 DEF P
<1>7. /\ ~Ahead(s, "clearSpk")  /\ ~Ahead(s, "takeOver")  /\ ~Ahead(s, "bind")
      /\ ~Ahead(s, "decipher")  /\ ~Ahead(s, "setSpk")  /\ ~Ahead(s, "newCall")
      /\ ~Ahead(s, "key")  /\ ~Ahead(s, "setMic")  /\ ~Ahead(s, "lock")
      /\ ~Ahead(s, "unlock")  /\ ~Ahead(s, "endCtrl")
      /\ ~Ahead(s, "beginCtrl")
  BY <1>3, <1>4 DEF P
<1> QED
  BY <1>3, <1>4, <1>5, <1>6, <1>7 DEF P, ReleaseTable

LinkUpTable(s, r) ==
  /\ r \in 0 .. 15 /\ (s = <<>> <=> r = 0)
  /\ s # <<>> => Head(s) \in
       {"lock", "hasMic", "haltMic", "clearMic", "stop", "sockets", "queue",
        "endSession", "hasSpk", "haltSpk", "clearSpk", "endCtrl", "beginCtrl",
        "unlock"}
  /\ (Is(s, "lock") <=> r = 15)  /\ (Is(s, "hasMic") <=> r = 14)
  /\ (Is(s, "haltMic") <=> r = 13)  /\ (Is(s, "clearMic") <=> r = 12)
  /\ (Is(s, "stop") <=> r = 11)  /\ (Is(s, "sockets") <=> r = 10)
  /\ (Is(s, "queue") <=> r = 9)  /\ (Is(s, "endSession") <=> r \in {8, 4})
  /\ (Is(s, "hasSpk") <=> r = 7)  /\ (Is(s, "haltSpk") <=> r = 6)
  /\ (Is(s, "clearSpk") <=> r = 5)  /\ (Is(s, "endCtrl") <=> r = 3)
  /\ (Is(s, "beginCtrl") <=> r = 2)  /\ (Is(s, "unlock") <=> r = 1)
  /\ (Ahead(s, "clearSpk") <=> r >= 5)  /\ (Ahead(s, "clearMic") <=> r >= 12)
  /\ (Ahead(s, "lock") <=> r >= 15)  /\ (Ahead(s, "unlock") <=> r >= 1)
  /\ (Ahead(s, "endCtrl") <=> r >= 3)  /\ (Ahead(s, "beginCtrl") <=> r >= 2)
  /\ ~Ahead(s, "takeOver")  /\ ~Ahead(s, "bind")  /\ ~Ahead(s, "decipher")
  /\ ~Ahead(s, "setSpk")  /\ ~Ahead(s, "newCall")  /\ ~Ahead(s, "key")
  /\ ~Ahead(s, "setMic")
  /\ Ending(s) <=> r \in {11, 10, 9, 8, 4}

LEMMA LinkUpFacts ==
  ASSUME NEW s, NEW r, Rest(s, LinkUp, 15, r)
  PROVE  LinkUpTable(s, r)
<1> DEFINE
      m == LinkUp
      P(j) ==
        /\ m[j] \in
               {"lock", "hasMic", "haltMic", "clearMic", "stop", "sockets",
                "queue", "endSession", "hasSpk", "haltSpk", "clearSpk",
                "endCtrl", "beginCtrl", "unlock"}
        /\ (m[j] = "lock" <=> j = 1)  /\ (m[j] = "hasMic" <=> j = 2)
        /\ (m[j] = "haltMic" <=> j = 3)  /\ (m[j] = "clearMic" <=> j = 4)
        /\ (m[j] = "stop" <=> j = 5)  /\ (m[j] = "sockets" <=> j = 6)
        /\ (m[j] = "queue" <=> j = 7)
        /\ (m[j] = "endSession" <=> j \in {8, 12})
        /\ (m[j] = "hasSpk" <=> j = 9)  /\ (m[j] = "haltSpk" <=> j = 10)
        /\ (m[j] = "clearSpk" <=> j = 11)  /\ (m[j] = "endCtrl" <=> j = 13)
        /\ (m[j] = "beginCtrl" <=> j = 14)  /\ (m[j] = "unlock" <=> j = 15)
<1>1. ASSUME NEW j \in 1 .. 15
      PROVE  P(j)
  <2>1. j \in {1, 2, 3, 4, 5, 6, 7, 8, 9, 10, 11, 12, 13, 14, 15}
    OBVIOUS
  <2> HIDE DEF m
  <2> QED
    BY <2>1, ListLinkUp
    DEF m, HasEndRtpReceiver, HasEndRtpSender, HasSendCtrlPacket
<1> HIDE DEF m, P
<1>2. Rest(s, m, 15, r)
  BY DEF m
<1>3. /\ r \in 0 .. 15 /\ (s = <<>> <=> r = 0)
      /\ \A j \in 15 - r + 1 .. 15 : P(j)
  <2>1. r \in 0 .. 15 /\ (s = <<>> <=> r = 0)
    BY <1>2, RestFacts
  <2>2. \A j \in 15 - r + 1 .. 15 : j \in 1 .. 15
    BY <2>1
  <2> QED BY <1>1, <2>1, <2>2
<1> DEFINE n == 15
<1>4. /\ \A x : Is(s, x) <=> r # 0 /\ m[n - r + 1] = x
      /\ r # 0 => Head(s) = m[n - r + 1]
      /\ \A x : Ahead(s, x) <=> \E j \in n - r + 1 .. n : m[j] = x
  <2> HIDE DEF n
  <2>1. Rest(s, m, n, r)
    BY <1>2 DEF n
  <2> QED BY <2>1, RestFacts DEF Is
<1>5. Ending(s) <=> r \in {11, 10, 9, 8, 4}
  BY <1>2, <1>3, EndingFacts DEF P
<1>6. /\ (Ahead(s, "clearSpk") <=> r >= 5)
      /\ (Ahead(s, "clearMic") <=> r >= 12)  /\ (Ahead(s, "lock") <=> r >= 15)
      /\ (Ahead(s, "unlock") <=> r >= 1)  /\ (Ahead(s, "endCtrl") <=> r >= 3)
      /\ (Ahead(s, "beginCtrl") <=> r >= 2)
  <2>1. P(11) /\ P(4) /\ P(1) /\ P(15) /\ P(13) /\ P(14)
    BY <1>1
  <2> QED BY <1>3, <1>4, <2>1 DEF P
<1>7. /\ ~Ahead(s, "takeOver")  /\ ~Ahead(s, "bind")  /\ ~Ahead(s, "decipher")
      /\ ~Ahead(s, "setSpk")  /\ ~Ahead(s, "newCall")  /\ ~Ahead(s, "key")
      /\ ~Ahead(s, "setMic")
  BY <1>3, <1>4 DEF P
<1> QED
  BY <1>3, <1>4, <1>5, <1>6, <1>7 DEF P, LinkUpTable

LinkDownTable(s, r) ==
  /\ r \in 0 .. 14 /\ (s = <<>> <=> r = 0)
  /\ s # <<>> => Head(s) \in
       {"lock", "hasMic", "haltMic", "clearMic", "stop", "sockets", "queue",
        "endSession", "hasSpk", "haltSpk", "clearSpk", "endCtrl", "unlock"}
  /\ (Is(s, "lock") <=> r = 14)  /\ (Is(s, "hasMic") <=> r = 13)
  /\ (Is(s, "haltMic") <=> r = 12)  /\ (Is(s, "clearMic") <=> r = 11)
  /\ (Is(s, "stop") <=> r = 10)  /\ (Is(s, "sockets") <=> r = 9)
  /\ (Is(s, "queue") <=> r = 8)  /\ (Is(s, "endSession") <=> r \in {7, 3})
  /\ (Is(s, "hasSpk") <=> r = 6)  /\ (Is(s, "haltSpk") <=> r = 5)
  /\ (Is(s, "clearSpk") <=> r = 4)  /\ (Is(s, "endCtrl") <=> r = 2)
  /\ (Is(s, "unlock") <=> r = 1)
  /\ (Ahead(s, "clearSpk") <=> r >= 4)  /\ (Ahead(s, "clearMic") <=> r >= 11)
  /\ (Ahead(s, "lock") <=> r >= 14)  /\ (Ahead(s, "unlock") <=> r >= 1)
  /\ (Ahead(s, "endCtrl") <=> r >= 2)
  /\ ~Ahead(s, "takeOver")  /\ ~Ahead(s, "bind")  /\ ~Ahead(s, "decipher")
  /\ ~Ahead(s, "setSpk")  /\ ~Ahead(s, "newCall")  /\ ~Ahead(s, "key")
  /\ ~Ahead(s, "setMic")  /\ ~Ahead(s, "beginCtrl")
  /\ Ending(s) <=> r \in {10, 9, 8, 7, 3}

LEMMA LinkDownFacts ==
  ASSUME NEW s, NEW r, Rest(s, LinkDown, 14, r)
  PROVE  LinkDownTable(s, r)
<1> DEFINE
      m == LinkDown
      P(j) ==
        /\ m[j] \in
               {"lock", "hasMic", "haltMic", "clearMic", "stop", "sockets",
                "queue", "endSession", "hasSpk", "haltSpk", "clearSpk",
                "endCtrl", "unlock"}
        /\ (m[j] = "lock" <=> j = 1)  /\ (m[j] = "hasMic" <=> j = 2)
        /\ (m[j] = "haltMic" <=> j = 3)  /\ (m[j] = "clearMic" <=> j = 4)
        /\ (m[j] = "stop" <=> j = 5)  /\ (m[j] = "sockets" <=> j = 6)
        /\ (m[j] = "queue" <=> j = 7)
        /\ (m[j] = "endSession" <=> j \in {8, 12})
        /\ (m[j] = "hasSpk" <=> j = 9)  /\ (m[j] = "haltSpk" <=> j = 10)
        /\ (m[j] = "clearSpk" <=> j = 11)  /\ (m[j] = "endCtrl" <=> j = 13)
        /\ (m[j] = "unlock" <=> j = 14)
<1>1. ASSUME NEW j \in 1 .. 14
      PROVE  P(j)
  <2>1. j \in {1, 2, 3, 4, 5, 6, 7, 8, 9, 10, 11, 12, 13, 14}
    OBVIOUS
  <2> HIDE DEF m
  <2> QED
    BY <2>1, ListLinkDown
    DEF m, HasEndRtpReceiver, HasEndRtpSender, HasSendCtrlPacket
<1> HIDE DEF m, P
<1>2. Rest(s, m, 14, r)
  BY DEF m
<1>3. /\ r \in 0 .. 14 /\ (s = <<>> <=> r = 0)
      /\ \A j \in 14 - r + 1 .. 14 : P(j)
  <2>1. r \in 0 .. 14 /\ (s = <<>> <=> r = 0)
    BY <1>2, RestFacts
  <2>2. \A j \in 14 - r + 1 .. 14 : j \in 1 .. 14
    BY <2>1
  <2> QED BY <1>1, <2>1, <2>2
<1> DEFINE n == 14
<1>4. /\ \A x : Is(s, x) <=> r # 0 /\ m[n - r + 1] = x
      /\ r # 0 => Head(s) = m[n - r + 1]
      /\ \A x : Ahead(s, x) <=> \E j \in n - r + 1 .. n : m[j] = x
  <2> HIDE DEF n
  <2>1. Rest(s, m, n, r)
    BY <1>2 DEF n
  <2> QED BY <2>1, RestFacts DEF Is
<1>5. Ending(s) <=> r \in {10, 9, 8, 7, 3}
  BY <1>2, <1>3, EndingFacts DEF P
<1>6. /\ (Ahead(s, "clearSpk") <=> r >= 4)
      /\ (Ahead(s, "clearMic") <=> r >= 11)  /\ (Ahead(s, "lock") <=> r >= 14)
      /\ (Ahead(s, "unlock") <=> r >= 1)  /\ (Ahead(s, "endCtrl") <=> r >= 2)
  <2>1. P(11) /\ P(4) /\ P(1) /\ P(14) /\ P(13)
    BY <1>1
  <2> QED BY <1>3, <1>4, <2>1 DEF P
<1>7. /\ ~Ahead(s, "takeOver")  /\ ~Ahead(s, "bind")  /\ ~Ahead(s, "decipher")
      /\ ~Ahead(s, "setSpk")  /\ ~Ahead(s, "newCall")  /\ ~Ahead(s, "key")
      /\ ~Ahead(s, "setMic")  /\ ~Ahead(s, "beginCtrl")
  BY <1>3, <1>4 DEF P
<1> QED
  BY <1>3, <1>4, <1>5, <1>6, <1>7 DEF P, LinkDownTable

ReloadTable(s, r) ==
  /\ r \in 0 .. 2 /\ (s = <<>> <=> r = 0)
  /\ s # <<>> => Head(s) \in
       {"clearTargets", "fillTargets"}
  /\ (Is(s, "clearTargets") <=> r = 2)  /\ (Is(s, "fillTargets") <=> r = 1)
  /\ ~Ahead(s, "clearSpk")  /\ ~Ahead(s, "clearMic")  /\ ~Ahead(s, "takeOver")
  /\ ~Ahead(s, "bind")  /\ ~Ahead(s, "decipher")  /\ ~Ahead(s, "setSpk")
  /\ ~Ahead(s, "newCall")  /\ ~Ahead(s, "key")  /\ ~Ahead(s, "setMic")
  /\ ~Ahead(s, "lock")  /\ ~Ahead(s, "unlock")  /\ ~Ahead(s, "endCtrl")
  /\ ~Ahead(s, "beginCtrl")
  /\ ~Ending(s)

LEMMA ReloadFacts ==
  ASSUME NEW s, NEW r, Rest(s, OnCursorLoadFinish, 2, r)
  PROVE  ReloadTable(s, r)
<1> DEFINE
      m == OnCursorLoadFinish
      P(j) ==
        /\ m[j] \in
               {"clearTargets", "fillTargets"}
        /\ (m[j] = "clearTargets" <=> j = 1)
        /\ (m[j] = "fillTargets" <=> j = 2)
<1>1. ASSUME NEW j \in 1 .. 2
      PROVE  P(j)
  <2>1. j \in {1, 2}
    OBVIOUS
  <2> HIDE DEF m
  <2> QED
    BY <2>1, ListOnCursorLoadFinish
    DEF m, HasEndRtpReceiver, HasEndRtpSender, HasSendCtrlPacket
<1> HIDE DEF m, P
<1>2. Rest(s, m, 2, r)
  BY DEF m
<1>3. /\ r \in 0 .. 2 /\ (s = <<>> <=> r = 0)
      /\ \A j \in 2 - r + 1 .. 2 : P(j)
  <2>1. r \in 0 .. 2 /\ (s = <<>> <=> r = 0)
    BY <1>2, RestFacts
  <2>2. \A j \in 2 - r + 1 .. 2 : j \in 1 .. 2
    BY <2>1
  <2> QED BY <1>1, <2>1, <2>2
<1> DEFINE n == 2
<1>4. /\ \A x : Is(s, x) <=> r # 0 /\ m[n - r + 1] = x
      /\ r # 0 => Head(s) = m[n - r + 1]
      /\ \A x : Ahead(s, x) <=> \E j \in n - r + 1 .. n : m[j] = x
  <2> HIDE DEF n
  <2>1. Rest(s, m, n, r)
    BY <1>2 DEF n
  <2> QED BY <2>1, RestFacts DEF Is
<1>5. ~Ending(s)
  BY <1>2, <1>3, EndingFacts DEF P
<1>7. /\ ~Ahead(s, "clearSpk")  /\ ~Ahead(s, "clearMic")
      /\ ~Ahead(s, "takeOver")  /\ ~Ahead(s, "bind")  /\ ~Ahead(s, "decipher")
      /\ ~Ahead(s, "setSpk")  /\ ~Ahead(s, "newCall")  /\ ~Ahead(s, "key")
      /\ ~Ahead(s, "setMic")  /\ ~Ahead(s, "lock")  /\ ~Ahead(s, "unlock")
      /\ ~Ahead(s, "endCtrl")  /\ ~Ahead(s, "beginCtrl")
  BY <1>3, <1>4 DEF P
<1> QED
  BY <1>3, <1>4, <1>5, <1>7 DEF P, ReloadTable

-----------------------------------------------------------------------------
(* What a thread that was called for c may have left to do. *)
Fits(c, s) ==
  \/ c = "none"    /\ s = <<>>
  \/ c = "start"   /\ \E r : Rest(s, BeginRtpReceiver, 20, r)
  \/ c = "stop"    /\ \E r : Rest(s, EndRtpReceiverStop, 7, r)
  \/ c = "press"   /\ \E r : Rest(s, BeginRtpSender, 19, r)
  \/ c = "release" /\ \E r : Rest(s, EndRtpSender, 7, r)
  \/ c = "link"    /\ \E r : Rest(s, LinkUp, 15, r) \/ Rest(s, LinkDown, 14, r)
  \/ c = "reload"  /\ \E r : Rest(s, OnCursorLoadFinish, 2, r)

(* The statements that a method has once, which the invariants speak of. *)
Once ==
  {"clearSpk", "clearMic", "takeOver", "bind", "decipher", "setSpk",
   "newCall", "key", "setMic", "lock", "unlock", "endCtrl", "beginCtrl"}

(* Which call has which statement, and what is then still ahead. *)
Ordered(c, s) ==
  /\ Is(s, "hasSpk") \/ Is(s, "haltSpk") \/ Is(s, "clearSpk") =>
       c \in {"start", "stop", "press", "link"} /\ Ahead(s, "clearSpk")
  /\ Is(s, "hasMic") \/ Is(s, "haltMic") \/ Is(s, "clearMic") =>
       c \in {"start", "press", "release", "link"} /\ Ahead(s, "clearMic")
  /\ Is(s, "stop") => c \in {"start", "press", "release", "link"}
  /\ Is(s, "mayBegin") => c \in {"start", "press"} /\ Ahead(s, "clearSpk")
  /\ Is(s, "isOfCall") => c = "stop"
  /\ Is(s, "outputters") => c = "start" /\ ~Ahead(s, "setSpk")
  /\ Is(s, "run") => /\ c \in {"start", "press"}
                     /\ ~Ahead(s, "setSpk") /\ ~Ahead(s, "setMic")
  /\ Is(s, "start") => c = "press" /\ ~Ahead(s, "setMic")
  /\ c = "start" =>
       /\ Ahead(s, "clearSpk") => Ahead(s, "clearMic")
       /\ Ahead(s, "clearMic") => Ahead(s, "takeOver")
       /\ Ahead(s, "takeOver") => Ahead(s, "bind")
       /\ Ahead(s, "bind") => Ahead(s, "decipher")
       /\ Ahead(s, "decipher") => Ahead(s, "setSpk")
       /\ Is(s, "takeOver") => ~Ahead(s, "clearMic")
       /\ Is(s, "bind") => ~Ahead(s, "takeOver")
       /\ Is(s, "decipher") => ~Ahead(s, "bind")
       /\ Is(s, "setSpk") => ~Ahead(s, "decipher")
       /\ Ending(s) => Ahead(s, "takeOver")
  /\ c = "press" =>
       /\ Ahead(s, "clearSpk") => Ahead(s, "clearMic")
       /\ Ahead(s, "clearMic") => Ahead(s, "newCall")
       /\ Ahead(s, "newCall") => Ahead(s, "key")
       /\ Ahead(s, "key") => Ahead(s, "setMic")
       /\ Is(s, "newCall") => ~Ahead(s, "clearMic")
       /\ Is(s, "key") => ~Ahead(s, "newCall")
       /\ Is(s, "setMic") => ~Ahead(s, "key")
       /\ Ending(s) => Ahead(s, "newCall")
  /\ c = "link" =>
       /\ s # <<>> => Ahead(s, "unlock")
       /\ Ahead(s, "lock") => Ahead(s, "endCtrl")
       /\ Is(s, "endCtrl") => ~Ahead(s, "lock")
       /\ Is(s, "beginCtrl") => ~Ahead(s, "endCtrl")
       /\ Is(s, "unlock") => /\ ~Ahead(s, "lock") /\ ~Ahead(s, "endCtrl")
                             /\ ~Ahead(s, "beginCtrl")
       /\ Is(s, "queue") => ~Ahead(s, "lock")
  /\ \/ Ahead(s, "takeOver") \/ Ahead(s, "bind")
     \/ Ahead(s, "decipher") \/ Ahead(s, "setSpk")
     => c = "start"
  /\ Ahead(s, "newCall") \/ Ahead(s, "key") \/ Ahead(s, "setMic") => c = "press"
  /\ \/ Ahead(s, "lock") \/ Ahead(s, "unlock")
     \/ Ahead(s, "endCtrl") \/ Ahead(s, "beginCtrl")
     => c = "link"
  /\ \A y \in Once : Is(s, y) => Ahead(s, y)
  /\ Is(s, "clearTargets") \/ Is(s, "fillTargets") => c = "reload"
  /\ s # <<>> => c # "none"
  /\ Ending(s) => c # "reload"

LEMMA FitsOrdered ==
  ASSUME NEW c, NEW s, Fits(c, s)
  PROVE  Ordered(c, s)
<1>1. CASE c = "none" /\ s = <<>>
  BY <1>1 DEF Ordered, Is, Ahead, Ending, Once
<1>2. ASSUME NEW r, c = "start", StartTable(s, r)
      PROVE  Ordered(c, s)
  BY <1>2 DEF StartTable, Ordered, Once, Is
<1>3. ASSUME NEW r, c = "stop", StopTable(s, r)
      PROVE  Ordered(c, s)
  BY <1>3 DEF StopTable, Ordered, Once, Is
<1>4. ASSUME NEW r, c = "press", PressTable(s, r)
      PROVE  Ordered(c, s)
  BY <1>4 DEF PressTable, Ordered, Once, Is
<1>5. ASSUME NEW r, c = "release", ReleaseTable(s, r)
      PROVE  Ordered(c, s)
  BY <1>5 DEF ReleaseTable, Ordered, Once, Is
<1>6. ASSUME NEW r, c = "link", LinkUpTable(s, r)
      PROVE  Ordered(c, s)
  BY <1>6 DEF LinkUpTable, Ordered, Once, Is
<1>7. ASSUME NEW r, c = "link", LinkDownTable(s, r)
      PROVE  Ordered(c, s)
  BY <1>7 DEF LinkDownTable, Ordered, Once, Is
<1>8. ASSUME NEW r, c = "reload", ReloadTable(s, r)
      PROVE  Ordered(c, s)
  BY <1>8 DEF ReloadTable, Ordered, Once, Is
<1> QED
  BY <1>1, <1>2, <1>3, <1>4, <1>5, <1>6, <1>7, <1>8, StartFacts, StopFacts,
     PressFacts, ReleaseFacts, LinkUpFacts, LinkDownFacts, ReloadFacts
  DEF Fits

(* What is ahead after the first statement of s; u is the rest. *)
Followed(s, u) ==
  /\ \A y \in Once : Ahead(u, y) <=> Ahead(s, y) /\ ~Is(s, y)
  /\ Is(u, "haltSpk") <=> Is(s, "hasSpk")
  /\ Is(u, "clearSpk") <=> Is(s, "haltSpk")
  /\ Is(u, "haltMic") <=> Is(s, "hasMic")
  /\ Is(u, "clearMic") <=> Is(s, "haltMic")
  /\ Is(u, "stop") <=> Is(s, "clearMic")
  /\ Is(u, "queue") <=> Is(s, "sockets")
  /\ Is(s, "stop") \/ Is(s, "start") => Is(u, "sockets")
  /\ Ending(u) <=> \/ Is(s, "clearSpk") \/ Is(s, "clearMic")
                   \/ Ending(s) /\ ~Is(s, "endSession")

(* No statement that needs another before it. *)
Fresh(s) ==
  /\ ~Ending(s)
  /\ ~Is(s, "haltSpk") /\ ~Is(s, "clearSpk") /\ ~Is(s, "haltMic")
  /\ ~Is(s, "clearMic") /\ ~Is(s, "stop") /\ ~Is(s, "queue")

LEMMA FitsTail ==
  ASSUME NEW c, NEW s, Fits(c, s), s # <<>>
  PROVE  Fits(c, Tail(s)) /\ Followed(s, Tail(s))
<1> DEFINE u == Tail(s)
<1>1. ASSUME NEW r, c = "start", Rest(s, BeginRtpReceiver, 20, r)
      PROVE  Fits(c, u) /\ Followed(s, u)
  <2>1. Rest(u, BeginRtpReceiver, 20, r - 1)
    BY <1>1, RestTail
  <2>2. StartTable(s, r) /\ StartTable(u, r - 1)
    BY <1>1, <2>1, StartFacts
  <2> HIDE DEF u
  <2>3. Followed(s, u)
    BY <2>2 DEF StartTable, Followed, Once, Is
  <2> QED BY <1>1, <2>1, <2>3 DEF Fits
<1>2. ASSUME NEW r, c = "stop", Rest(s, EndRtpReceiverStop, 7, r)
      PROVE  Fits(c, u) /\ Followed(s, u)
  <2>1. Rest(u, EndRtpReceiverStop, 7, r - 1)
    BY <1>2, RestTail
  <2>2. StopTable(s, r) /\ StopTable(u, r - 1)
    BY <1>2, <2>1, StopFacts
  <2> HIDE DEF u
  <2>3. Followed(s, u)
    BY <2>2 DEF StopTable, Followed, Once, Is
  <2> QED BY <1>2, <2>1, <2>3 DEF Fits
<1>3. ASSUME NEW r, c = "press", Rest(s, BeginRtpSender, 19, r)
      PROVE  Fits(c, u) /\ Followed(s, u)
  <2>1. Rest(u, BeginRtpSender, 19, r - 1)
    BY <1>3, RestTail
  <2>2. PressTable(s, r) /\ PressTable(u, r - 1)
    BY <1>3, <2>1, PressFacts
  <2> HIDE DEF u
  <2>3. Followed(s, u)
    BY <2>2 DEF PressTable, Followed, Once, Is
  <2> QED BY <1>3, <2>1, <2>3 DEF Fits
<1>4. ASSUME NEW r, c = "release", Rest(s, EndRtpSender, 7, r)
      PROVE  Fits(c, u) /\ Followed(s, u)
  <2>1. Rest(u, EndRtpSender, 7, r - 1)
    BY <1>4, RestTail
  <2>2. ReleaseTable(s, r) /\ ReleaseTable(u, r - 1)
    BY <1>4, <2>1, ReleaseFacts
  <2> HIDE DEF u
  <2>3. Followed(s, u)
    BY <2>2 DEF ReleaseTable, Followed, Once, Is
  <2> QED BY <1>4, <2>1, <2>3 DEF Fits
<1>5. ASSUME NEW r, c = "link", Rest(s, LinkUp, 15, r)
      PROVE  Fits(c, u) /\ Followed(s, u)
  <2>1. Rest(u, LinkUp, 15, r - 1)
    BY <1>5, RestTail
  <2>2. LinkUpTable(s, r) /\ LinkUpTable(u, r - 1)
    BY <1>5, <2>1, LinkUpFacts
  <2> HIDE DEF u
  <2>3. Followed(s, u)
    BY <2>2 DEF LinkUpTable, Followed, Once, Is
  <2> QED BY <1>5, <2>1, <2>3 DEF Fits
<1>6. ASSUME NEW r, c = "link", Rest(s, LinkDown, 14, r)
      PROVE  Fits(c, u) /\ Followed(s, u)
  <2>1. Rest(u, LinkDown, 14, r - 1)
    BY <1>6, RestTail
  <2>2. LinkDownTable(s, r) /\ LinkDownTable(u, r - 1)
    BY <1>6, <2>1, LinkDownFacts
  <2> HIDE DEF u
  <2>3. Followed(s, u)
    BY <2>2 DEF LinkDownTable, Followed, Once, Is
  <2> QED BY <1>6, <2>1, <2>3 DEF Fits
<1>7. ASSUME NEW r, c = "reload", Rest(s, OnCursorLoadFinish, 2, r)
      PROVE  Fits(c, u) /\ Followed(s, u)
  <2>1. Rest(u, OnCursorLoadFinish, 2, r - 1)
    BY <1>7, RestTail
  <2>2. ReloadTable(s, r) /\ ReloadTable(u, r - 1)
    BY <1>7, <2>1, ReloadFacts
  <2> HIDE DEF u
  <2>3. Followed(s, u)
    BY <2>2 DEF ReloadTable, Followed, Once, Is
  <2> QED BY <1>7, <2>1, <2>3 DEF Fits
<1> QED
  BY <1>1, <1>2, <1>3, <1>4, <1>5, <1>6, <1>7 DEF Fits

(* Without a relayer the whole of EndRtpReceiver is skipped. *)
LEMMA FitsWithoutReceiver ==
  ASSUME NEW c, NEW s, Fits(c, s), Is(s, "hasSpk")
  PROVE  LET u == SubSeq(s, Len(EndRtpReceiver) + 1, Len(s))
         IN  /\ Fits(c, u) /\ Fresh(u)
             /\ \A y \in Once : Ahead(u, y) <=> Ahead(s, y) /\ y # "clearSpk"
<1> DEFINE u == SubSeq(s, Len(EndRtpReceiver) + 1, Len(s))
           Goal == /\ Fits(c, u) /\ Fresh(u)
                   /\ \A y \in Once : Ahead(u, y) <=> Ahead(s, y) /\ y # "clearSpk"
<1>0. u = SubSeq(s, 4 + 1, Len(s))
  BY ListEndRtpReceiver DEF List
<1>1. ASSUME NEW r, c = "start", Rest(s, BeginRtpReceiver, 20, r)
      PROVE  Goal
  <2>1. StartTable(s, r)
    BY <1>1, StartFacts
  <2>2. r >= 4 /\ 4 \in Nat
    BY <2>1 DEF StartTable
  <2>3. Rest(u, BeginRtpReceiver, 20, r - 4)
    BY <1>0, <1>1, <2>2, RestSkip
  <2>4. StartTable(u, r - 4)
    BY <2>3, StartFacts
  <2> HIDE DEF u
  <2>5. Fresh(u) /\ \A y \in Once : Ahead(u, y) <=> Ahead(s, y) /\ y # "clearSpk"
    BY <2>1, <2>4 DEF StartTable, Fresh, Once, Is
  <2> QED BY <1>1, <2>3, <2>5 DEF Fits
<1>2. ASSUME NEW r, c = "stop", Rest(s, EndRtpReceiverStop, 7, r)
      PROVE  Goal
  <2>1. StopTable(s, r)
    BY <1>2, StopFacts
  <2>2. r >= 4 /\ 4 \in Nat
    BY <2>1 DEF StopTable
  <2>3. Rest(u, EndRtpReceiverStop, 7, r - 4)
    BY <1>0, <1>2, <2>2, RestSkip
  <2>4. StopTable(u, r - 4)
    BY <2>3, StopFacts
  <2> HIDE DEF u
  <2>5. Fresh(u) /\ \A y \in Once : Ahead(u, y) <=> Ahead(s, y) /\ y # "clearSpk"
    BY <2>1, <2>4 DEF StopTable, Fresh, Once, Is
  <2> QED BY <1>2, <2>3, <2>5 DEF Fits
<1>3. ASSUME NEW r, c = "press", Rest(s, BeginRtpSender, 19, r)
      PROVE  Goal
  <2>1. PressTable(s, r)
    BY <1>3, PressFacts
  <2>2. r >= 4 /\ 4 \in Nat
    BY <2>1 DEF PressTable
  <2>3. Rest(u, BeginRtpSender, 19, r - 4)
    BY <1>0, <1>3, <2>2, RestSkip
  <2>4. PressTable(u, r - 4)
    BY <2>3, PressFacts
  <2> HIDE DEF u
  <2>5. Fresh(u) /\ \A y \in Once : Ahead(u, y) <=> Ahead(s, y) /\ y # "clearSpk"
    BY <2>1, <2>4 DEF PressTable, Fresh, Once, Is
  <2> QED BY <1>3, <2>3, <2>5 DEF Fits
<1>4. ASSUME NEW r, c = "release", Rest(s, EndRtpSender, 7, r)
      PROVE  FALSE
  BY <1>4, ReleaseFacts DEF ReleaseTable, Is
<1>5. ASSUME NEW r, c = "link", Rest(s, LinkUp, 15, r)
      PROVE  Goal
  <2>1. LinkUpTable(s, r)
    BY <1>5, LinkUpFacts
  <2>2. r >= 4 /\ 4 \in Nat
    BY <2>1 DEF LinkUpTable
  <2>3. Rest(u, LinkUp, 15, r - 4)
    BY <1>0, <1>5, <2>2, RestSkip
  <2>4. LinkUpTable(u, r - 4)
    BY <2>3, LinkUpFacts
  <2> HIDE DEF u
  <2>5. Fresh(u) /\ \A y \in Once : Ahead(u, y) <=> Ahead(s, y) /\ y # "clearSpk"
    BY <2>1, <2>4 DEF LinkUpTable, Fresh, Once, Is
  <2> QED BY <1>5, <2>3, <2>5 DEF Fits
<1>6. ASSUME NEW r, c = "link", Rest(s, LinkDown, 14, r)
      PROVE  Goal
  <2>1. LinkDownTable(s, r)
    BY <1>6, LinkDownFacts
  <2>2. r >= 4 /\ 4 \in Nat
    BY <2>1 DEF LinkDownTable
  <2>3. Rest(u, LinkDown, 14, r - 4)
    BY <1>0, <1>6, <2>2, RestSkip
  <2>4. LinkDownTable(u, r - 4)
    BY <2>3, LinkDownFacts
  <2> HIDE DEF u
  <2>5. Fresh(u) /\ \A y \in Once : Ahead(u, y) <=> Ahead(s, y) /\ y # "clearSpk"
    BY <2>1, <2>4 DEF LinkDownTable, Fresh, Once, Is
  <2> QED BY <1>6, <2>3, <2>5 DEF Fits
<1>7. ASSUME NEW r, c = "reload", Rest(s, OnCursorLoadFinish, 2, r)
      PROVE  FALSE
  BY <1>7, ReloadFacts DEF ReloadTable, Is
<1> HIDE DEF Goal
<1>8. Goal
  BY <1>1, <1>2, <1>3, <1>4, <1>5, <1>6, <1>7 DEF Fits, Is
<1> QED BY <1>8 DEF Goal

(* Without a relayer the whole of EndRtpSender is skipped. *)
LEMMA FitsWithoutSender ==
  ASSUME NEW c, NEW s, Fits(c, s), Is(s, "hasMic")
  PROVE  LET u == SubSeq(s, Len(EndRtpSender) + 1, Len(s))
         IN  /\ Fits(c, u) /\ Fresh(u)
             /\ \A y \in Once : Ahead(u, y) <=> Ahead(s, y) /\ y # "clearMic"
<1> DEFINE u == SubSeq(s, Len(EndRtpSender) + 1, Len(s))
           Goal == /\ Fits(c, u) /\ Fresh(u)
                   /\ \A y \in Once : Ahead(u, y) <=> Ahead(s, y) /\ y # "clearMic"
<1>0. u = SubSeq(s, 7 + 1, Len(s))
  BY ListEndRtpSender DEF List
<1>1. ASSUME NEW r, c = "start", Rest(s, BeginRtpReceiver, 20, r)
      PROVE  Goal
  <2>1. StartTable(s, r)
    BY <1>1, StartFacts
  <2>2. r >= 7 /\ 7 \in Nat
    BY <2>1 DEF StartTable
  <2>3. Rest(u, BeginRtpReceiver, 20, r - 7)
    BY <1>0, <1>1, <2>2, RestSkip
  <2>4. StartTable(u, r - 7)
    BY <2>3, StartFacts
  <2> HIDE DEF u
  <2>5. Fresh(u) /\ \A y \in Once : Ahead(u, y) <=> Ahead(s, y) /\ y # "clearMic"
    BY <2>1, <2>4 DEF StartTable, Fresh, Once, Is
  <2> QED BY <1>1, <2>3, <2>5 DEF Fits
<1>2. ASSUME NEW r, c = "stop", Rest(s, EndRtpReceiverStop, 7, r)
      PROVE  FALSE
  BY <1>2, StopFacts DEF StopTable, Is
<1>3. ASSUME NEW r, c = "press", Rest(s, BeginRtpSender, 19, r)
      PROVE  Goal
  <2>1. PressTable(s, r)
    BY <1>3, PressFacts
  <2>2. r >= 7 /\ 7 \in Nat
    BY <2>1 DEF PressTable
  <2>3. Rest(u, BeginRtpSender, 19, r - 7)
    BY <1>0, <1>3, <2>2, RestSkip
  <2>4. PressTable(u, r - 7)
    BY <2>3, PressFacts
  <2> HIDE DEF u
  <2>5. Fresh(u) /\ \A y \in Once : Ahead(u, y) <=> Ahead(s, y) /\ y # "clearMic"
    BY <2>1, <2>4 DEF PressTable, Fresh, Once, Is
  <2> QED BY <1>3, <2>3, <2>5 DEF Fits
<1>4. ASSUME NEW r, c = "release", Rest(s, EndRtpSender, 7, r)
      PROVE  Goal
  <2>1. ReleaseTable(s, r)
    BY <1>4, ReleaseFacts
  <2>2. r >= 7 /\ 7 \in Nat
    BY <2>1 DEF ReleaseTable
  <2>3. Rest(u, EndRtpSender, 7, r - 7)
    BY <1>0, <1>4, <2>2, RestSkip
  <2>4. ReleaseTable(u, r - 7)
    BY <2>3, ReleaseFacts
  <2> HIDE DEF u
  <2>5. Fresh(u) /\ \A y \in Once : Ahead(u, y) <=> Ahead(s, y) /\ y # "clearMic"
    BY <2>1, <2>4 DEF ReleaseTable, Fresh, Once, Is
  <2> QED BY <1>4, <2>3, <2>5 DEF Fits
<1>5. ASSUME NEW r, c = "link", Rest(s, LinkUp, 15, r)
      PROVE  Goal
  <2>1. LinkUpTable(s, r)
    BY <1>5, LinkUpFacts
  <2>2. r >= 7 /\ 7 \in Nat
    BY <2>1 DEF LinkUpTable
  <2>3. Rest(u, LinkUp, 15, r - 7)
    BY <1>0, <1>5, <2>2, RestSkip
  <2>4. LinkUpTable(u, r - 7)
    BY <2>3, LinkUpFacts
  <2> HIDE DEF u
  <2>5. Fresh(u) /\ \A y \in Once : Ahead(u, y) <=> Ahead(s, y) /\ y # "clearMic"
    BY <2>1, <2>4 DEF LinkUpTable, Fresh, Once, Is
  <2> QED BY <1>5, <2>3, <2>5 DEF Fits
<1>6. ASSUME NEW r, c = "link", Rest(s, LinkDown, 14, r)
      PROVE  Goal
  <2>1. LinkDownTable(s, r)
    BY <1>6, LinkDownFacts
  <2>2. r >= 7 /\ 7 \in Nat
    BY <2>1 DEF LinkDownTable
  <2>3. Rest(u, LinkDown, 14, r - 7)
    BY <1>0, <1>6, <2>2, RestSkip
  <2>4. LinkDownTable(u, r - 7)
    BY <2>3, LinkDownFacts
  <2> HIDE DEF u
  <2>5. Fresh(u) /\ \A y \in Once : Ahead(u, y) <=> Ahead(s, y) /\ y # "clearMic"
    BY <2>1, <2>4 DEF LinkDownTable, Fresh, Once, Is
  <2> QED BY <1>6, <2>3, <2>5 DEF Fits
<1>7. ASSUME NEW r, c = "reload", Rest(s, OnCursorLoadFinish, 2, r)
      PROVE  FALSE
  BY <1>7, ReloadFacts DEF ReloadTable, Is
<1> HIDE DEF Goal
<1>8. Goal
  BY <1>1, <1>2, <1>3, <1>4, <1>5, <1>6, <1>7 DEF Fits, Is
<1> QED BY <1>8 DEF Goal

LEMMA FitsMethods ==
  /\ Fits("start", BeginRtpReceiver) /\ Fresh(BeginRtpReceiver)
  /\ Ahead(BeginRtpReceiver, "clearSpk") /\ BeginRtpReceiver # <<>>
  /\ Fits("stop", EndRtpReceiverStop) /\ Fresh(EndRtpReceiverStop)
  /\ EndRtpReceiverStop # <<>>
  /\ Fits("press", BeginRtpSender) /\ Fresh(BeginRtpSender)
  /\ Ahead(BeginRtpSender, "clearSpk") /\ BeginRtpSender # <<>>
  /\ Fits("release", EndRtpSender) /\ Fresh(EndRtpSender)
  /\ EndRtpSender # <<>>
  /\ \A up \in BOOLEAN : /\ Fits("link", SetLocalIpAddress(up))
                         /\ Fresh(SetLocalIpAddress(up))
                         /\ Ahead(SetLocalIpAddress(up), "lock")
                         /\ SetLocalIpAddress(up) # <<>>
  /\ Fits("reload", OnCursorLoadFinish) /\ Fresh(OnCursorLoadFinish)
  /\ OnCursorLoadFinish # <<>>
<1>1. /\ Fits("start", BeginRtpReceiver) /\ Fresh(BeginRtpReceiver)
      /\ BeginRtpReceiver # <<>> /\ Ahead(BeginRtpReceiver, "clearSpk")
  <2>1. Rest(BeginRtpReceiver, BeginRtpReceiver, 20, 20)
    BY ListBeginRtpReceiver, RestWhole
  <2>2. StartTable(BeginRtpReceiver, 20)
    BY <2>1, StartFacts
  <2>3. Fits("start", BeginRtpReceiver)
    BY <2>1 DEF Fits
  <2> QED BY <2>2, <2>3 DEF StartTable, Fresh, Is
<1>2. /\ Fits("stop", EndRtpReceiverStop) /\ Fresh(EndRtpReceiverStop)
      /\ EndRtpReceiverStop # <<>>
  <2>1. Rest(EndRtpReceiverStop, EndRtpReceiverStop, 7, 7)
    BY ListEndRtpReceiverStop, RestWhole
  <2>2. StopTable(EndRtpReceiverStop, 7)
    BY <2>1, StopFacts
  <2>3. Fits("stop", EndRtpReceiverStop)
    BY <2>1 DEF Fits
  <2> QED BY <2>2, <2>3 DEF StopTable, Fresh, Is
<1>3. /\ Fits("press", BeginRtpSender) /\ Fresh(BeginRtpSender)
      /\ BeginRtpSender # <<>> /\ Ahead(BeginRtpSender, "clearSpk")
  <2>1. Rest(BeginRtpSender, BeginRtpSender, 19, 19)
    BY ListBeginRtpSender, RestWhole
  <2>2. PressTable(BeginRtpSender, 19)
    BY <2>1, PressFacts
  <2>3. Fits("press", BeginRtpSender)
    BY <2>1 DEF Fits
  <2> QED BY <2>2, <2>3 DEF PressTable, Fresh, Is
<1>4. Fits("release", EndRtpSender) /\ Fresh(EndRtpSender) /\ EndRtpSender # <<>>
  <2>1. Rest(EndRtpSender, EndRtpSender, 7, 7)
    BY ListEndRtpSender, RestWhole
  <2>2. ReleaseTable(EndRtpSender, 7)
    BY <2>1, ReleaseFacts
  <2>3. Fits("release", EndRtpSender)
    BY <2>1 DEF Fits
  <2> QED BY <2>2, <2>3 DEF ReleaseTable, Fresh, Is
<1>5. Fits("link", LinkUp) /\ Fresh(LinkUp) /\ LinkUp # <<>> /\ Ahead(LinkUp, "lock")
  <2>1. Rest(LinkUp, LinkUp, 15, 15)
    BY ListLinkUp, RestWhole
  <2>2. LinkUpTable(LinkUp, 15)
    BY <2>1, LinkUpFacts
  <2>3. Fits("link", LinkUp)
    BY <2>1 DEF Fits
  <2> QED BY <2>2, <2>3 DEF LinkUpTable, Fresh, Is
<1>6. /\ Fits("link", LinkDown) /\ Fresh(LinkDown) /\ LinkDown # <<>>
      /\ Ahead(LinkDown, "lock")
  <2>1. Rest(LinkDown, LinkDown, 14, 14)
    BY ListLinkDown, RestWhole
  <2>2. LinkDownTable(LinkDown, 14)
    BY <2>1, LinkDownFacts
  <2>3. Fits("link", LinkDown)
    BY <2>1 DEF Fits
  <2> QED BY <2>2, <2>3 DEF LinkDownTable, Fresh, Is
<1>7. /\ Fits("reload", OnCursorLoadFinish) /\ Fresh(OnCursorLoadFinish)
      /\ OnCursorLoadFinish # <<>>
  <2>1. Rest(OnCursorLoadFinish, OnCursorLoadFinish, 2, 2)
    BY ListOnCursorLoadFinish, RestWhole
  <2>2. ReloadTable(OnCursorLoadFinish, 2)
    BY <2>1, ReloadFacts
  <2>3. Fits("reload", OnCursorLoadFinish)
    BY <2>1 DEF Fits
  <2> QED BY <2>2, <2>3 DEF ReloadTable, Fresh, Is
<1>8. \A up \in BOOLEAN : SetLocalIpAddress(up) \in {LinkUp, LinkDown}
  BY Zenon DEF LinkUp, LinkDown
<1> QED
  BY <1>1, <1>2, <1>3, <1>4, <1>5, <1>6, <1>7, <1>8

-----------------------------------------------------------------------------
(* The types of the variables, and what every step may change. *)
AnyPacket ==
  [type : {"none", "STOP"}, ssrc : Call \cup {NoCall}]
    \cup [type : {"START"}, ssrc : Call \cup {NoCall}, level : Int,
          key : Call \cup {NoCall}]

RelayerType ==
  [kind : {"none", "mic", "spk"}, call : Call \cup {NoCall},
   key : Call \cup {NoCall}, open : BOOLEAN, started : BOOLEAN,
   working : BOOLEAN, gaveUp : BOOLEAN]

BinderType ==
  [session : Session, mic : Relayer \cup {None}, spk : Relayer \cup {None},
   relayer : [Relayer -> RelayerType], monitor : (Thread \cup {None}) \X Nat,
   modCount : Nat, ctrl : Receiver \cup {None}, begun : SUBSET OwnCall]

ThreadType ==
  [call : {"none", "start", "stop", "press", "release", "link", "reload"},
   todo : Seq(Statement), packet : AnyPacket, made : AnyPacket,
   relayer : Relayer \cup {None}, seen : Nat, alive : BOOLEAN]

Types ==
  /\ binder \in BinderType
  /\ thread \in [Thread -> ThreadType]
  /\ calls \in Nat /\ calls <= MaxCalls

(* What a thread has been called for and has left, and its packets. *)
Same(u) ==
  /\ thread'[u].call = thread[u].call
  /\ thread'[u].todo = thread[u].todo
  /\ thread'[u].made = thread[u].made
  /\ thread[u].todo # <<>> => /\ thread'[u].packet = thread[u].packet
                              /\ thread'[u].relayer = thread[u].relayer

Now(t, x) == Is(thread[t].todo, x)
Later(t, x) == Ahead(thread[t].todo, x)

LEMMA AtIsNow ==
  ASSUME NEW t, NEW x
  PROVE  At(t, x) <=> Running /\ Now(t, x)
BY DEF At, Busy, Now, Is

LEMMA IdleType == Idle \in ThreadType /\ Dead \in ThreadType
<1>1. NoPacket \in AnyPacket
  BY DEF NoPacket, AnyPacket
<1>2. <<>> \in Seq(Statement)
  OBVIOUS
<1>3. Idle \in ThreadType
  BY <1>1, <1>2 DEF Idle, ThreadType
<1>4. ASSUME NEW w \in ThreadType
      PROVE  [w EXCEPT !.alive = FALSE] \in ThreadType
  BY DEF ThreadType
<1> QED BY <1>3, <1>4 DEF Dead

LEMMA DoesEffect ==
  ASSUME NEW t \in Thread, NEW x, NEW b, NEW w \in ThreadType, Types,
         Does(t, x, b, w)
  PROVE  /\ Running /\ Now(t, x) /\ binder' = b
         /\ overlapped' = overlapped /\ calls' = calls
         /\ thread' \in [Thread -> ThreadType]
         /\ \A u \in Thread \ {t} : thread'[u] = thread[u]
         /\ w.todo = <<>> => /\ thread'[t].call = "none"
                             /\ thread'[t].made = NoPacket
         /\ w.todo # <<>> => thread'[t] = w
         /\ thread'[t].todo = w.todo /\ thread'[t].alive = w.alive
<1>1. [Idle EXCEPT !.alive = w.alive] \in ThreadType
  BY IdleType DEF ThreadType
<1>2. Rests(w) \in ThreadType
  BY <1>1 DEF Rests
<1>3. /\ thread'[t] = Rests(w)
      /\ \A u \in Thread \ {t} : thread'[u] = thread[u]
      /\ thread' \in [Thread -> ThreadType]
  BY <1>2 DEF Does, Types
<1>4. /\ Rests(w).todo = w.todo /\ Rests(w).alive = w.alive
      /\ w.todo = <<>> => Rests(w).call = "none" /\ Rests(w).made = NoPacket
      /\ w.todo # <<>> => Rests(w) = w
  BY DEF Rests, Idle, ThreadType
<1> QED
  BY <1>3, <1>4, AtIsNow DEF Does

(* What holds in every state, whatever overlaps.  A thread has been called *)
(* for what its list is a rest of, and it has the relayer that it made.    *)
Used(r) == binder.relayer[r].kind # "none"

ThreadKept(t) ==
  LET w == thread[t]
  IN  /\ Fits(w.call, w.todo)
      /\ t = Main => w.call \in {"none", "press", "release", "link", "reload"}
      /\ t # Main => w.call \in {"none", "start", "stop"}
      /\ w.todo = <<>> => w.call = "none" /\ w.made = NoPacket
      /\ w.call = "start" => w.packet \in StartPacket
      /\ w.call = "stop" => w.packet \in StopPacket
      /\ w.call = "press" /\ ~Later(t, "newCall") => w.packet.ssrc \in Call
      /\ \/ w.call = "start" /\ ~Later(t, "bind")
         \/ w.call = "press" /\ ~Later(t, "setMic")
         => w.relayer \in Relayer /\ Used(w.relayer)

RelayersKept ==
  /\ \A r \in Relayer : Used(r) \/ binder.relayer[r] = NoRelayer
  /\ binder.mic # None => Used(binder.mic)
  /\ binder.spk # None => Used(binder.spk)

(* The threads that have still to make a relayer.  A call makes one at     *)
(* most, so there is always a name for it.                                 *)
Making == {t \in Thread : Later(t, "bind") \/ Later(t, "setMic")}

Named(k) ==
  /\ k \in Nat
  /\ \A r \in Relayer : Used(r) <=> r <= k
  /\ IsFiniteSet(Making)
  /\ k + Cardinality(Making) <= calls

(* How often thread t has the lock of the binder. *)
Depth(t) ==
  (IF Later(t, "unlock") /\ ~Later(t, "lock") THEN 1 ELSE 0)
    + (IF Now(t, "queue") THEN 1 ELSE 0)

LockKept ==
  /\ \A t \in Thread :
       Depth(t) = IF binder.monitor[1] = t THEN binder.monitor[2] ELSE 0
  /\ binder.monitor[1] = None <=> binder.monitor[2] = 0

Kept ==
  /\ Types
  /\ \A t \in Thread : ThreadKept(t)
  /\ RelayersKept
  /\ \E k : Named(k)
  /\ LockKept

LEMMA BusyFacts ==
  ASSUME NEW t \in Thread, Types, ThreadKept(t)
  PROVE  /\ Ordered(thread[t].call, thread[t].todo)
         /\ Busy(t) <=> thread[t].call # "none"
         /\ \A x : Now(t, x) => Busy(t)
BY FitsOrdered DEF ThreadKept, Ordered, Busy, Now, Is

LEMMA NewFacts ==
  ASSUME Kept, NEW t \in Making
  PROVE  /\ New \in Relayer /\ binder.relayer[New] = NoRelayer
         /\ \A r \in Relayer : Used(r) <=> r <= New - 1
         /\ \A k : Named(k) => k = New - 1
<1>1. PICK k : Named(k)
  BY DEF Kept
<1>2. Cardinality(Making) \in Nat /\ Cardinality(Making) # 0
  BY <1>1, FS_CardinalityType, FS_EmptySet DEF Named
<1>3. calls \in Nat /\ calls <= MaxCalls /\ MaxCalls \in Nat
  BY MaxCallsAssumption DEF Kept, Types
<1>4. \A j : Named(j) => j \in Nat /\ j + 1 \in Relayer
  BY <1>2, <1>3 DEF Named, Relayer
<1> DEFINE P(r) == /\ binder.relayer[r] = NoRelayer
                   /\ \A q \in 1 .. r - 1 : binder.relayer[q] # NoRelayer
<1>5. NoRelayer.kind = "none"
  BY DEF NoRelayer
<1>6. ASSUME NEW j, Named(j)
      PROVE  /\ P(j + 1)
             /\ \A r \in Relayer : P(r) => r = j + 1
  <2>1. j \in Nat /\ j + 1 \in Relayer /\ (\A r \in Relayer : Used(r) <=> r <= j)
    BY <1>4, <1>6 DEF Named
  <2>2. \A r \in Relayer : binder.relayer[r] = NoRelayer <=> r > j
    BY <2>1, <1>5 DEF Kept, RelayersKept, Used, Relayer
  <2>3. \A q \in 1 .. j : q \in Relayer
    BY <2>1, <1>3 DEF Relayer
  <2> QED BY <2>1, <2>2, <2>3 DEF Relayer
<1>7. New \in Relayer /\ P(New)
  <2>1. \E r \in Relayer : P(r)
    BY <1>1, <1>4, <1>6
  <2>2. New = CHOOSE r \in Relayer : P(r)
    BY DEF New
  <2> HIDE DEF P
  <2> QED BY <2>1, <2>2, Zenon
<1>8. \A j : Named(j) => New = j + 1
  BY <1>6, <1>7
<1>9. New = k + 1 /\ k \in Nat
  BY <1>1, <1>8, <1>4
<1>10. \A r \in Relayer : Used(r) <=> r <= New - 1
  BY <1>1, <1>9 DEF Named
<1>11. \A j : Named(j) => j = New - 1
  BY <1>8, <1>4
<1> QED BY <1>7, <1>10, <1>11

-----------------------------------------------------------------------------
(* What a statement x of thread t does, unless it throws: to the list of   *)
(* the thread, ...                                                         *)
TodoEffect(t, x) ==
  LET s == thread[t].todo
      u == thread'[t].todo
  IN  \/ u = <<>> /\ x \in {"mayBegin", "isOfCall", "bind"}
      \/ /\ u = Tail(s)
         /\ x = "hasSpk" \/ x = "haltSpk" => binder.spk # None
         /\ x = "hasMic" \/ x = "haltMic" => binder.mic # None
      \/ /\ x = "hasSpk" /\ binder.spk = None
         /\ u = SubSeq(s, Len(EndRtpReceiver) + 1, Len(s))
      \/ /\ x = "hasMic" /\ binder.mic = None
         /\ u = SubSeq(s, Len(EndRtpSender) + 1, Len(s))

(* ... to what it knows, as long as it has not returned, ... *)
ThreadEffect(t, x) ==
  LET w == thread[t]
      v == thread'[t]
  IN  v.todo # <<>> =>
        /\ v.call = w.call
        /\ x = "newCall" \/ v.packet = w.packet
        /\ v.made = IF x = "stop" THEN CtrlPacketStop(binder.session)
                    ELSE IF x = "start" THEN CtrlPacketStart(binder.session)
                    ELSE IF x = "queue" THEN NoPacket ELSE w.made
        /\ v.relayer = IF x = "haltSpk" THEN binder.spk
                       ELSE IF x = "haltMic" THEN binder.mic
                       ELSE IF x = "bind" \/ x = "setMic" THEN New
                       ELSE w.relayer

(* ... to the session and the two fields, ... *)
FieldEffect(t, x) ==
  /\ binder'.spk = IF x = "clearSpk" THEN None
                   ELSE IF x = "setSpk" THEN thread[t].relayer
                   ELSE binder.spk
  /\ binder'.mic = IF x = "clearMic" THEN None
                   ELSE IF x = "setMic" THEN New
                   ELSE binder.mic

SessionEffect(t, x) ==
  LET old == binder.session
      new == binder'.session
      p   == thread[t].packet
  IN  IF x = "endSession" THEN new = EndSession(old)
      ELSE IF x = "takeOver" THEN new = SetSessionParamStart(old, p)
      ELSE IF x = "newCall"
      THEN \E c \in OwnCall :
             /\ new = SetSessionParamCodec(old, AccountLevel, c)
             /\ thread'[t].todo # <<>> => thread'[t].packet.ssrc = c
      ELSE IF x = "key" THEN new = SetKey(old, p.ssrc)
      ELSE new = old

(* ... to the relayers, ... *)
RelayerEffect(t, x) ==
  LET old == binder.relayer
      new == binder'.relayer
      c   == thread[t].packet.ssrc
      Halted(r) == [old[r] EXCEPT !.working = FALSE, !.open = FALSE]
  IN  \/ /\ x \in {"haltSpk", "haltMic"}
         /\ new = [old EXCEPT
                     ![IF x = "haltSpk" THEN binder.spk ELSE binder.mic] =
                     [@ EXCEPT !.working = FALSE, !.open = FALSE]]
      \/ /\ x = "run" /\ ToRun(t) # None
         /\ new = [old EXCEPT ![ToRun(t)] = [@ EXCEPT !.started = TRUE]]
      \/ /\ x = "decipher"
         /\ new = [old EXCEPT ![thread[t].relayer] =
                     [@ EXCEPT !.key = binder.session.key]]
      \/ /\ x = "bind" /\ thread'[t].todo = Tail(thread[t].todo)
         /\ new = [old EXCEPT ![New] =
                     [NoRelayer EXCEPT !.kind = "spk", !.call = c,
                                       !.open = TRUE, !.working = TRUE]]
      \/ /\ x = "setMic"
         /\ new = [old EXCEPT ![New] =
                     [NoRelayer EXCEPT !.kind = "mic", !.call = c, !.key = c,
                                       !.working = TRUE]]
      \/ /\ x \notin {"haltSpk", "haltMic", "run", "decipher", "setMic"}
         /\ x = "bind" => thread'[t].todo = <<>>
         /\ new = old

(* ... to the lock ... *)
LockEffect(t, x) ==
  LET old == binder.monitor
      new == binder'.monitor
  IN  IF x = "lock" \/ x = "sockets"
      THEN old[1] \in {None, t} /\ new = <<t, old[2] + 1>>
      ELSE IF x = "unlock" \/ x = "queue"
      THEN new = IF old[2] = 1 THEN <<None, 0>> ELSE <<old[1], old[2] - 1>>
      ELSE new = old

(* ... and to the control receivers. *)
AliveEffect(t, x) ==
  /\ thread'[t].alive = thread[t].alive
  /\ \/ /\ x = "endCtrl" /\ binder'.ctrl = None
        /\ \A u \in Thread \ {t} : ~thread'[u].alive
     \/ /\ x = "beginCtrl"
        /\ \E r \in Receiver :
             /\ ~Busy(r) /\ r # t /\ binder'.ctrl = r
             /\ \A u \in Thread \ {t, r} : thread'[u].alive = thread[u].alive
     \/ /\ x # "endCtrl" /\ binder'.ctrl = binder.ctrl
        /\ \A u \in Thread \ {t} : thread'[u].alive = thread[u].alive

Works(t, x) ==
  /\ TodoEffect(t, x) /\ ThreadEffect(t, x) /\ FieldEffect(t, x)
  /\ SessionEffect(t, x) /\ RelayerEffect(t, x) /\ LockEffect(t, x)
  /\ AliveEffect(t, x)

(* A statement that throws: a field is null, or a list has changed. *)
Fails(t, x) ==
  LET old == binder.monitor
      new == binder'.monitor
  IN  /\ \/ x = "haltSpk" /\ binder.spk = None
         \/ x = "haltMic" /\ binder.mic = None
         \/ x = "run" /\ ToRun(t) = None
         \/ x \in {"queue", "run"} /\ thread[t].call \in {"start", "stop"}
      /\ thread'[t].todo = <<>> /\ ~thread'[t].alive
      /\ binder'.session = binder.session /\ binder'.relayer = binder.relayer
      /\ binder'.mic = binder.mic /\ binder'.spk = binder.spk
      /\ binder'.ctrl = binder.ctrl
      /\ new = IF old[1] = t THEN <<None, 0>> ELSE old
      /\ \A u \in Thread \ {t} : thread'[u].alive = thread[u].alive

Effect(t, x) ==
  /\ Running /\ Busy(t) /\ Now(t, x)
  /\ overlapped' = overlapped /\ calls' = calls
  /\ binder' \in BinderType /\ thread' \in [Thread -> ThreadType]
  /\ \A u \in Thread \ {t} : Same(u)
  /\ thread'[t].todo = <<>> =>
       thread'[t].call = "none" /\ thread'[t].made = NoPacket
  /\ Works(t, x) \/ Fails(t, x)

(* The effect of every kind of statement, one lemma for each action. *)
LEMMA GoesType ==
  ASSUME NEW t \in Thread, Types, Busy(t)
  PROVE  /\ Goes(t) \in ThreadType
         /\ Goes(t).todo = Tail(thread[t].todo)
         /\ Goes(t).call = thread[t].call /\ Goes(t).packet = thread[t].packet
         /\ Goes(t).made = thread[t].made
         /\ Goes(t).relayer = thread[t].relayer
         /\ Goes(t).alive = thread[t].alive
         /\ Returns(t) \in ThreadType
         /\ Returns(t).todo = <<>> /\ Returns(t).alive = thread[t].alive
         /\ thread[t].todo \in Seq(Statement)
         /\ thread[t] \in ThreadType
<1>1. /\ thread[t] \in ThreadType /\ thread[t].todo \in Seq(Statement)
      /\ thread[t].todo # <<>>
  BY DEF Types, ThreadType, Busy
<1>2. Tail(thread[t].todo) \in Seq(Statement) /\ <<>> \in Seq(Statement)
  BY <1>1
<1> QED BY <1>1, <1>2 DEF Goes, Returns, ThreadType

(* The statement leaves b and w, and the other threads alone. *)
Done(t, x, b, w) ==
  /\ Running /\ Busy(t) /\ Now(t, x) /\ binder' = b
  /\ overlapped' = overlapped /\ calls' = calls
  /\ b \in BinderType /\ thread' \in [Thread -> ThreadType]
  /\ \A u \in Thread \ {t} : Same(u) /\ thread'[u].alive = thread[u].alive
  /\ thread'[t].todo = w.todo /\ thread'[t].alive = w.alive
  /\ w.todo = <<>> => thread'[t].call = "none" /\ thread'[t].made = NoPacket
  /\ w.todo # <<>> => thread'[t] = w

LEMMA StatementDone ==
  ASSUME Kept, NEW t \in Thread, NEW x, NEW b, NEW w,
         Does(t, x, b, w), b \in BinderType, w \in ThreadType
  PROVE  Done(t, x, b, w)
<1>1. Types
  BY DEF Kept
<1>2. Busy(t)
  BY DEF Does, At
<1> QED BY <1>1, <1>2, DoesEffect DEF Same, Done

(* What b and w leave as it is. *)
KeepsSession(b) == b.session = binder.session
KeepsFields(b) == b.mic = binder.mic /\ b.spk = binder.spk
KeepsRelayers(b) == b.relayer = binder.relayer
KeepsLock(b) == b.monitor = binder.monitor
KeepsCtrl(b) == b.ctrl = binder.ctrl
GoesOn(t, w) ==
  /\ w.call = thread[t].call /\ w.alive = thread[t].alive
KeepsPacket(t, w) == w.packet = thread[t].packet
KeepsMade(t, w) == w.made = thread[t].made
KeepsRelayer(t, w) == w.relayer = thread[t].relayer

LEMMA WorksEffect ==
  ASSUME NEW t \in Thread, NEW x, NEW b, NEW w, Done(t, x, b, w),
         KeepsCtrl(b), w.alive = thread[t].alive, x # "endCtrl",
         TodoEffect(t, x), ThreadEffect(t, x), FieldEffect(t, x),
         SessionEffect(t, x), RelayerEffect(t, x), LockEffect(t, x)
  PROVE  Effect(t, x)
<1>1. AliveEffect(t, x)
  BY DEF Done, AliveEffect, KeepsCtrl
<1> QED BY <1>1 DEF Effect, Works, Done

LEMMA RestsEffect ==
  ASSUME NEW w \in ThreadType
  PROVE  /\ Rests(w) \in ThreadType
         /\ Rests(w).todo = w.todo /\ Rests(w).alive = w.alive
         /\ w.todo = <<>> => Rests(w).call = "none" /\ Rests(w).made = NoPacket
         /\ w.todo # <<>> => Rests(w) = w
<1>1. [Idle EXCEPT !.alive = w.alive] \in ThreadType
  BY IdleType DEF ThreadType
<1> QED BY <1>1 DEF Rests, Idle, ThreadType

LEMMA SessionEdited ==
  ASSUME NEW s \in Session
  PROVE  /\ EndSession(s) \in Session
         /\ \A p \in StartPacket : SetSessionParamStart(s, p) \in Session
         /\ \A c \in Call : /\ SetSessionParamCodec(s, AccountLevel, c) \in Session
                            /\ SetKey(s, c) \in Session
<1>1. INVALID_SESSION_LEVEL \in Int /\ AccountLevel \in Int
  BY LevelsAssumption DEF INVALID_SESSION_LEVEL
<1>2. EndSession(s) \in Session
  BY <1>1 DEF EndSession, Session
<1>3. \A p \in StartPacket : SetSessionParamStart(s, p) \in Session
  BY DEF StartPacket, SetSessionParamStart, Session
<1>4. ASSUME NEW c \in Call
      PROVE  SetSessionParamCodec(s, AccountLevel, c) \in Session
  BY <1>1 DEF SetSessionParamCodec, Session
<1>5. \A c \in Call : SetKey(s, c) \in Session
  BY DEF SetKey, Session
<1> QED BY <1>2, <1>3, <1>4, <1>5

LEMMA RelayerEdited ==
  ASSUME NEW f \in [Relayer -> RelayerType]
  PROVE  /\ NoRelayer \in RelayerType
         /\ \A r \in Relayer, v \in RelayerType :
              [f EXCEPT ![r] = v] \in [Relayer -> RelayerType]
         /\ \A r \in Relayer :
              /\ [f EXCEPT ![r] = [@ EXCEPT !.working = FALSE, !.open = FALSE]]
                   \in [Relayer -> RelayerType]
              /\ [f EXCEPT ![r] = [@ EXCEPT !.started = TRUE]]
                   \in [Relayer -> RelayerType]
              /\ \A k \in Call \cup {NoCall} :
                   [f EXCEPT ![r] = [@ EXCEPT !.key = k]]
                      \in [Relayer -> RelayerType]
<1>1. NoRelayer \in RelayerType
  BY DEF NoRelayer, RelayerType
<1>2. \A r \in Relayer, v \in RelayerType :
        [f EXCEPT ![r] = v] \in [Relayer -> RelayerType]
  OBVIOUS
<1>3. ASSUME NEW v \in RelayerType
      PROVE  /\ [v EXCEPT !.working = FALSE, !.open = FALSE] \in RelayerType
             /\ [v EXCEPT !.started = TRUE] \in RelayerType
             /\ \A k \in Call \cup {NoCall} : [v EXCEPT !.key = k] \in RelayerType
  BY DEF RelayerType
<1> QED BY <1>1, <1>2, <1>3

LEMMA NewTypes ==
  ASSUME NEW c \in Call
  PROVE  /\ [NoRelayer EXCEPT !.kind = "spk", !.call = c, !.open = TRUE,
                               !.working = TRUE] \in RelayerType
         /\ [NoRelayer EXCEPT !.kind = "mic", !.call = c, !.key = c,
                               !.working = TRUE] \in RelayerType
         /\ [NoPacket EXCEPT !.ssrc = c] \in AnyPacket
         /\ [NoPacket EXCEPT !.ssrc = c].ssrc = c
BY DEF NoRelayer, RelayerType, NoPacket, AnyPacket

LEMMA ClearsEffect ==
  ASSUME Kept, NEW t \in Thread, Clears(t)
  PROVE  \E x : Effect(t, x)
<1>1. Types /\ Busy(t)
  BY DEF Kept, Clears, Does, At
<1>2. /\ Goes(t) \in ThreadType /\ Goes(t).todo = Tail(thread[t].todo)
      /\ Goes(t).call = thread[t].call /\ Goes(t).packet = thread[t].packet
      /\ Goes(t).made = thread[t].made
      /\ Goes(t).relayer = thread[t].relayer
      /\ Goes(t).alive = thread[t].alive
  BY <1>1, GoesType
<1>3. CASE Does(t, "clearSpk", [binder EXCEPT !.spk = None], Goes(t))
  <2> DEFINE b == [binder EXCEPT !.spk = None]
             w == Goes(t)
             x == "clearSpk"
  <2>1. /\ b \in BinderType /\ b.spk = None /\ b.mic = binder.mic
        /\ KeepsSession(b) /\ KeepsRelayers(b) /\ KeepsLock(b) /\ KeepsCtrl(b)
    BY <1>1
    DEF Types, BinderType, KeepsSession, KeepsRelayers, KeepsLock, KeepsCtrl
  <2>2. /\ w \in ThreadType /\ w.todo = Tail(thread[t].todo)
        /\ w.call = thread[t].call /\ w.alive = thread[t].alive
        /\ KeepsPacket(t, w) /\ KeepsMade(t, w) /\ KeepsRelayer(t, w)
    BY <1>1, <1>2 DEF KeepsPacket, KeepsMade, KeepsRelayer
  <2>3. Does(t, x, b, w)
    BY <1>3
  <2> HIDE DEF b, w
  <2>4. Done(t, x, b, w)
    BY <2>1, <2>2, <2>3, StatementDone
  <2>5. /\ TodoEffect(t, x) /\ ThreadEffect(t, x) /\ FieldEffect(t, x)
        /\ SessionEffect(t, x) /\ RelayerEffect(t, x) /\ LockEffect(t, x)
    BY <1>1, <1>2, <2>1, <2>2, <2>4
    DEF Done, TodoEffect, ThreadEffect, FieldEffect, SessionEffect,
        RelayerEffect, LockEffect, KeepsSession, KeepsRelayers, KeepsLock,
        KeepsPacket, KeepsMade, KeepsRelayer
  <2>6. Effect(t, x)
    BY <2>1, <2>2, <2>4, <2>5, WorksEffect
  <2> QED BY <2>6
<1>4. CASE Does(t, "clearMic", [binder EXCEPT !.mic = None], Goes(t))
  <2> DEFINE b == [binder EXCEPT !.mic = None]
             w == Goes(t)
             x == "clearMic"
  <2>1. /\ b \in BinderType /\ b.mic = None /\ b.spk = binder.spk
        /\ KeepsSession(b) /\ KeepsRelayers(b) /\ KeepsLock(b) /\ KeepsCtrl(b)
    BY <1>1
    DEF Types, BinderType, KeepsSession, KeepsRelayers, KeepsLock, KeepsCtrl
  <2>2. /\ w \in ThreadType /\ w.todo = Tail(thread[t].todo)
        /\ w.call = thread[t].call /\ w.alive = thread[t].alive
        /\ KeepsPacket(t, w) /\ KeepsMade(t, w) /\ KeepsRelayer(t, w)
    BY <1>1, <1>2 DEF KeepsPacket, KeepsMade, KeepsRelayer
  <2>3. Does(t, x, b, w)
    BY <1>4
  <2> HIDE DEF b, w
  <2>4. Done(t, x, b, w)
    BY <2>1, <2>2, <2>3, StatementDone
  <2>5. /\ TodoEffect(t, x) /\ ThreadEffect(t, x) /\ FieldEffect(t, x)
        /\ SessionEffect(t, x) /\ RelayerEffect(t, x) /\ LockEffect(t, x)
    BY <1>1, <1>2, <2>1, <2>2, <2>4
    DEF Done, TodoEffect, ThreadEffect, FieldEffect, SessionEffect,
        RelayerEffect, LockEffect, KeepsSession, KeepsRelayers, KeepsLock,
        KeepsPacket, KeepsMade, KeepsRelayer
  <2>6. Effect(t, x)
    BY <2>1, <2>2, <2>4, <2>5, WorksEffect
  <2> QED BY <2>6
<1> QED BY <1>3, <1>4 DEF Clears

LEMMA EndsSessionEffect ==
  ASSUME Kept, NEW t \in Thread, EndsSession(t)
  PROVE  \E x : Effect(t, x)
<1>1. Types /\ Busy(t)
  BY DEF Kept, EndsSession, Does, At
<1>2. /\ Goes(t) \in ThreadType /\ Goes(t).todo = Tail(thread[t].todo)
      /\ Goes(t).call = thread[t].call /\ Goes(t).packet = thread[t].packet
      /\ Goes(t).made = thread[t].made
      /\ Goes(t).relayer = thread[t].relayer
      /\ Goes(t).alive = thread[t].alive
  BY <1>1, GoesType
<1>3. EndSession(binder.session) \in Session
  BY <1>1, SessionEdited DEF Types, BinderType
<1>4. CASE Does(t, "endSession",
               [binder EXCEPT !.session = EndSession(@)],
               Goes(t))
  <2> DEFINE b == [binder EXCEPT !.session = EndSession(@)]
             w == Goes(t)
             x == "endSession"
  <2>1. /\ b \in BinderType /\ b.session = EndSession(binder.session)
        /\ KeepsFields(b) /\ KeepsRelayers(b) /\ KeepsLock(b) /\ KeepsCtrl(b)
    BY <1>1, <1>3
    DEF Types, BinderType, KeepsFields, KeepsRelayers, KeepsLock, KeepsCtrl
  <2>2. /\ w \in ThreadType /\ w.todo = Tail(thread[t].todo)
        /\ w.call = thread[t].call /\ w.alive = thread[t].alive
        /\ KeepsPacket(t, w) /\ KeepsMade(t, w) /\ KeepsRelayer(t, w)
    BY <1>1, <1>2 DEF KeepsPacket, KeepsMade, KeepsRelayer
  <2>3. Does(t, x, b, w)
    BY <1>4
  <2> HIDE DEF b, w
  <2>4. Done(t, x, b, w)
    BY <2>1, <2>2, <2>3, StatementDone
  <2>5. /\ TodoEffect(t, x) /\ ThreadEffect(t, x) /\ FieldEffect(t, x)
        /\ SessionEffect(t, x) /\ RelayerEffect(t, x) /\ LockEffect(t, x)
    BY <1>1, <1>2, <2>1, <2>2, <2>4
    DEF Done, TodoEffect, ThreadEffect, FieldEffect, SessionEffect,
        RelayerEffect, LockEffect, KeepsFields, KeepsRelayers, KeepsLock,
        KeepsPacket, KeepsMade, KeepsRelayer
  <2>6. Effect(t, x)
    BY <2>1, <2>2, <2>4, <2>5, WorksEffect
  <2> QED BY <2>6
<1> QED BY <1>4 DEF EndsSession

LEMMA MakesEffect ==
  ASSUME Kept, NEW t \in Thread, Makes(t)
  PROVE  \E x : Effect(t, x)
<1>1. Types /\ Busy(t)
  BY DEF Kept, Makes, Does, At
<1>2. /\ Goes(t) \in ThreadType /\ Goes(t).todo = Tail(thread[t].todo)
      /\ Goes(t).call = thread[t].call /\ Goes(t).packet = thread[t].packet
      /\ Goes(t).made = thread[t].made
      /\ Goes(t).relayer = thread[t].relayer
      /\ Goes(t).alive = thread[t].alive
  BY <1>1, GoesType
<1>3. /\ CtrlPacketStop(binder.session) \in AnyPacket
      /\ CtrlPacketStart(binder.session) \in AnyPacket
  BY <1>1, LevelModAssumption
  DEF Types, BinderType, Session, AnyPacket, CtrlPacketStop, CtrlPacketStart
<1>4. CASE Does(t, "stop",
               binder,
               [Goes(t) EXCEPT !.made = CtrlPacketStop(binder.session)])
  <2> DEFINE b == binder
             w == [Goes(t) EXCEPT !.made = CtrlPacketStop(binder.session)]
             x == "stop"
  <2>1. /\ b \in BinderType /\ KeepsSession(b) /\ KeepsFields(b)
        /\ KeepsRelayers(b) /\ KeepsLock(b) /\ KeepsCtrl(b)
    BY <1>1
    DEF Types, BinderType, KeepsSession, KeepsFields, KeepsRelayers, KeepsLock,
        KeepsCtrl
  <2>2. /\ w \in ThreadType /\ w.todo = Tail(thread[t].todo)
        /\ w.call = thread[t].call /\ w.alive = thread[t].alive
        /\ w.made = CtrlPacketStop(binder.session) /\ KeepsPacket(t, w)
        /\ KeepsRelayer(t, w)
    BY <1>1, <1>2, <1>3 DEF ThreadType, KeepsPacket, KeepsRelayer
  <2>3. Does(t, x, b, w)
    BY <1>4
  <2> HIDE DEF b, w
  <2>4. Done(t, x, b, w)
    BY <2>1, <2>2, <2>3, StatementDone
  <2>5. /\ TodoEffect(t, x) /\ ThreadEffect(t, x) /\ FieldEffect(t, x)
        /\ SessionEffect(t, x) /\ RelayerEffect(t, x) /\ LockEffect(t, x)
    BY <1>1, <1>2, <2>1, <2>2, <2>4
    DEF Done, TodoEffect, ThreadEffect, FieldEffect, SessionEffect,
        RelayerEffect, LockEffect, KeepsSession, KeepsFields, KeepsRelayers,
        KeepsLock, KeepsPacket, KeepsRelayer
  <2>6. Effect(t, x)
    BY <2>1, <2>2, <2>4, <2>5, WorksEffect
  <2> QED BY <2>6
<1>5. CASE Does(t, "start",
               binder,
               [Goes(t) EXCEPT !.made = CtrlPacketStart(binder.session)])
  <2> DEFINE b == binder
             w == [Goes(t) EXCEPT !.made = CtrlPacketStart(binder.session)]
             x == "start"
  <2>1. /\ b \in BinderType /\ KeepsSession(b) /\ KeepsFields(b)
        /\ KeepsRelayers(b) /\ KeepsLock(b) /\ KeepsCtrl(b)
    BY <1>1
    DEF Types, BinderType, KeepsSession, KeepsFields, KeepsRelayers, KeepsLock,
        KeepsCtrl
  <2>2. /\ w \in ThreadType /\ w.todo = Tail(thread[t].todo)
        /\ w.call = thread[t].call /\ w.alive = thread[t].alive
        /\ w.made = CtrlPacketStart(binder.session) /\ KeepsPacket(t, w)
        /\ KeepsRelayer(t, w)
    BY <1>1, <1>2, <1>3 DEF ThreadType, KeepsPacket, KeepsRelayer
  <2>3. Does(t, x, b, w)
    BY <1>5
  <2> HIDE DEF b, w
  <2>4. Done(t, x, b, w)
    BY <2>1, <2>2, <2>3, StatementDone
  <2>5. /\ TodoEffect(t, x) /\ ThreadEffect(t, x) /\ FieldEffect(t, x)
        /\ SessionEffect(t, x) /\ RelayerEffect(t, x) /\ LockEffect(t, x)
    BY <1>1, <1>2, <2>1, <2>2, <2>4
    DEF Done, TodoEffect, ThreadEffect, FieldEffect, SessionEffect,
        RelayerEffect, LockEffect, KeepsSession, KeepsFields, KeepsRelayers,
        KeepsLock, KeepsPacket, KeepsRelayer
  <2>6. Effect(t, x)
    BY <2>1, <2>2, <2>4, <2>5, WorksEffect
  <2> QED BY <2>6
<1> QED BY <1>4, <1>5 DEF Makes

LEMMA HasEffect ==
  ASSUME Kept, NEW t \in Thread, Has(t)
  PROVE  \E x : Effect(t, x)
<1>1. Types /\ Busy(t)
  BY DEF Kept, Has, Does, At
<1>2. /\ Goes(t) \in ThreadType /\ Goes(t).todo = Tail(thread[t].todo)
      /\ Goes(t).call = thread[t].call /\ Goes(t).packet = thread[t].packet
      /\ Goes(t).made = thread[t].made
      /\ Goes(t).relayer = thread[t].relayer
      /\ Goes(t).alive = thread[t].alive
  BY <1>1, GoesType
<1>3. thread[t] \in ThreadType /\ thread[t].todo \in Seq(Statement)
  BY <1>1, GoesType
<1>4. \A n \in Nat :
        SubSeq(thread[t].todo, n + 1, Len(thread[t].todo)) \in Seq(Statement)
  BY <1>3
<1>5. /\ Len(EndRtpReceiver) \in Nat /\ Len(EndRtpSender) \in Nat
      /\ thread[t] \in ThreadType
  BY <1>3, ListEndRtpReceiver, ListEndRtpSender DEF List
<1>6. CASE /\ binder.spk # None
           /\ Does(t, "hasSpk", binder, Goes(t))
  <2> DEFINE b == binder
             w == Goes(t)
             x == "hasSpk"
  <2>1. /\ b \in BinderType /\ KeepsSession(b) /\ KeepsFields(b)
        /\ KeepsRelayers(b) /\ KeepsLock(b) /\ KeepsCtrl(b)
    BY <1>1
    DEF Types, BinderType, KeepsSession, KeepsFields, KeepsRelayers, KeepsLock,
        KeepsCtrl
  <2>2. /\ w \in ThreadType /\ w.todo = Tail(thread[t].todo)
        /\ w.call = thread[t].call /\ w.alive = thread[t].alive
        /\ KeepsPacket(t, w) /\ KeepsMade(t, w) /\ KeepsRelayer(t, w)
    BY <1>1, <1>2 DEF KeepsPacket, KeepsMade, KeepsRelayer
  <2>3. Does(t, x, b, w)
    BY <1>6
  <2> HIDE DEF b, w
  <2>4. Done(t, x, b, w)
    BY <2>1, <2>2, <2>3, StatementDone
  <2>5. /\ TodoEffect(t, x) /\ ThreadEffect(t, x) /\ FieldEffect(t, x)
        /\ SessionEffect(t, x) /\ RelayerEffect(t, x) /\ LockEffect(t, x)
    BY <1>1, <1>2, <1>6, <2>1, <2>2, <2>4
    DEF Done, TodoEffect, ThreadEffect, FieldEffect, SessionEffect,
        RelayerEffect, LockEffect, KeepsSession, KeepsFields, KeepsRelayers,
        KeepsLock, KeepsPacket, KeepsMade, KeepsRelayer
  <2>6. Effect(t, x)
    BY <2>1, <2>2, <2>4, <2>5, WorksEffect
  <2> QED BY <2>6
<1>7. CASE /\ binder.spk = None
           /\ Does(t, "hasSpk", binder, Skips(t, EndRtpReceiver))
  <2> DEFINE b == binder
             w == Skips(t, EndRtpReceiver)
             x == "hasSpk"
  <2>1. /\ b \in BinderType /\ KeepsSession(b) /\ KeepsFields(b)
        /\ KeepsRelayers(b) /\ KeepsLock(b) /\ KeepsCtrl(b)
    BY <1>1
    DEF Types, BinderType, KeepsSession, KeepsFields, KeepsRelayers, KeepsLock,
        KeepsCtrl
  <2>2. /\ w \in ThreadType
        /\ w.todo = SubSeq(thread[t].todo, Len(EndRtpReceiver) + 1,
                           Len(thread[t].todo))
        /\ w.call = thread[t].call /\ w.alive = thread[t].alive
        /\ KeepsPacket(t, w) /\ KeepsMade(t, w) /\ KeepsRelayer(t, w)
    BY <1>1, <1>2, <1>4, <1>5
    DEF ThreadType, Skips, KeepsPacket, KeepsMade, KeepsRelayer
  <2>3. Does(t, x, b, w)
    BY <1>7
  <2> HIDE DEF b, w
  <2>4. Done(t, x, b, w)
    BY <2>1, <2>2, <2>3, StatementDone
  <2>5. /\ TodoEffect(t, x) /\ ThreadEffect(t, x) /\ FieldEffect(t, x)
        /\ SessionEffect(t, x) /\ RelayerEffect(t, x) /\ LockEffect(t, x)
    BY <1>1, <1>2, <1>7, <2>1, <2>2, <2>4
    DEF Done, TodoEffect, ThreadEffect, FieldEffect, SessionEffect,
        RelayerEffect, LockEffect, KeepsSession, KeepsFields, KeepsRelayers,
        KeepsLock, KeepsPacket, KeepsMade, KeepsRelayer
  <2>6. Effect(t, x)
    BY <2>1, <2>2, <2>4, <2>5, WorksEffect
  <2> QED BY <2>6
<1>8. CASE /\ binder.mic # None
           /\ Does(t, "hasMic", binder, Goes(t))
  <2> DEFINE b == binder
             w == Goes(t)
             x == "hasMic"
  <2>1. /\ b \in BinderType /\ KeepsSession(b) /\ KeepsFields(b)
        /\ KeepsRelayers(b) /\ KeepsLock(b) /\ KeepsCtrl(b)
    BY <1>1
    DEF Types, BinderType, KeepsSession, KeepsFields, KeepsRelayers, KeepsLock,
        KeepsCtrl
  <2>2. /\ w \in ThreadType /\ w.todo = Tail(thread[t].todo)
        /\ w.call = thread[t].call /\ w.alive = thread[t].alive
        /\ KeepsPacket(t, w) /\ KeepsMade(t, w) /\ KeepsRelayer(t, w)
    BY <1>1, <1>2 DEF KeepsPacket, KeepsMade, KeepsRelayer
  <2>3. Does(t, x, b, w)
    BY <1>8
  <2> HIDE DEF b, w
  <2>4. Done(t, x, b, w)
    BY <2>1, <2>2, <2>3, StatementDone
  <2>5. /\ TodoEffect(t, x) /\ ThreadEffect(t, x) /\ FieldEffect(t, x)
        /\ SessionEffect(t, x) /\ RelayerEffect(t, x) /\ LockEffect(t, x)
    BY <1>1, <1>2, <1>8, <2>1, <2>2, <2>4
    DEF Done, TodoEffect, ThreadEffect, FieldEffect, SessionEffect,
        RelayerEffect, LockEffect, KeepsSession, KeepsFields, KeepsRelayers,
        KeepsLock, KeepsPacket, KeepsMade, KeepsRelayer
  <2>6. Effect(t, x)
    BY <2>1, <2>2, <2>4, <2>5, WorksEffect
  <2> QED BY <2>6
<1>9. CASE /\ binder.mic = None
           /\ Does(t, "hasMic", binder, Skips(t, EndRtpSender))
  <2> DEFINE b == binder
             w == Skips(t, EndRtpSender)
             x == "hasMic"
  <2>1. /\ b \in BinderType /\ KeepsSession(b) /\ KeepsFields(b)
        /\ KeepsRelayers(b) /\ KeepsLock(b) /\ KeepsCtrl(b)
    BY <1>1
    DEF Types, BinderType, KeepsSession, KeepsFields, KeepsRelayers, KeepsLock,
        KeepsCtrl
  <2>2. /\ w \in ThreadType
        /\ w.todo = SubSeq(thread[t].todo, Len(EndRtpSender) + 1,
                           Len(thread[t].todo))
        /\ w.call = thread[t].call /\ w.alive = thread[t].alive
        /\ KeepsPacket(t, w) /\ KeepsMade(t, w) /\ KeepsRelayer(t, w)
    BY <1>1, <1>2, <1>4, <1>5
    DEF ThreadType, Skips, KeepsPacket, KeepsMade, KeepsRelayer
  <2>3. Does(t, x, b, w)
    BY <1>9
  <2> HIDE DEF b, w
  <2>4. Done(t, x, b, w)
    BY <2>1, <2>2, <2>3, StatementDone
  <2>5. /\ TodoEffect(t, x) /\ ThreadEffect(t, x) /\ FieldEffect(t, x)
        /\ SessionEffect(t, x) /\ RelayerEffect(t, x) /\ LockEffect(t, x)
    BY <1>1, <1>2, <1>9, <2>1, <2>2, <2>4
    DEF Done, TodoEffect, ThreadEffect, FieldEffect, SessionEffect,
        RelayerEffect, LockEffect, KeepsSession, KeepsFields, KeepsRelayers,
        KeepsLock, KeepsPacket, KeepsMade, KeepsRelayer
  <2>6. Effect(t, x)
    BY <2>1, <2>2, <2>4, <2>5, WorksEffect
  <2> QED BY <2>6
<1> QED BY <1>6, <1>7, <1>8, <1>9 DEF Has

LEMMA ThrowsEffect ==
  ASSUME Kept, NEW t \in Thread, NEW x, Throws(t, x),
         \/ x = "haltSpk" /\ binder.spk = None
         \/ x = "haltMic" /\ binder.mic = None
         \/ x = "run" /\ ToRun(t) = None
         \/ x \in {"queue", "run"} /\ thread[t].call \in {"start", "stop"}
  PROVE  Effect(t, x)
<1> DEFINE b == IF binder.monitor[1] = t THEN [binder EXCEPT !.monitor = <<None, 0>>]
                ELSE binder
           l == IF binder.monitor[1] = t THEN <<None, 0>> ELSE binder.monitor
<1>1. Types
  BY DEF Kept
<1>2. Does(t, x, b, Dead)
  BY DEF Throws
<1>3. /\ b \in BinderType /\ b.monitor = l
      /\ KeepsSession(b) /\ KeepsFields(b) /\ KeepsRelayers(b) /\ KeepsCtrl(b)
  BY <1>1
  DEF Types, BinderType, KeepsSession, KeepsFields, KeepsRelayers, KeepsCtrl
<1>4. Dead \in ThreadType /\ Dead.todo = <<>> /\ Dead.alive = FALSE
  BY IdleType DEF Dead, Idle
<1> HIDE DEF b
<1>5. Done(t, x, b, Dead)
  BY <1>2, <1>3, <1>4, StatementDone
<1>6. Fails(t, x)
  BY <1>3, <1>4, <1>5
  DEF Done, Fails, KeepsSession, KeepsFields, KeepsRelayers, KeepsCtrl
<1> QED BY <1>4, <1>5, <1>6 DEF Done, Effect

LEMMA HaltEffect ==
  ASSUME Kept, NEW t \in Thread, Halt(t)
  PROVE  \E x : Effect(t, x)
<1>1. Types /\ Busy(t)
  BY DEF Kept, Halt, Does, At, Halts, Throws
<1>2. /\ Goes(t) \in ThreadType /\ Goes(t).todo = Tail(thread[t].todo)
      /\ Goes(t).call = thread[t].call /\ Goes(t).packet = thread[t].packet
      /\ Goes(t).made = thread[t].made
      /\ Goes(t).relayer = thread[t].relayer
      /\ Goes(t).alive = thread[t].alive
  BY <1>1, GoesType
<1>3. CASE /\ binder.spk # None
           /\ Does(t, "haltSpk",
                  [binder EXCEPT !.relayer[binder.spk].working = FALSE,
                                 !.relayer[binder.spk].open = FALSE],
                  [Goes(t) EXCEPT !.relayer = binder.spk])
  <2> DEFINE b == [binder EXCEPT !.relayer[binder.spk].working = FALSE,
                              !.relayer[binder.spk].open = FALSE]
             w == [Goes(t) EXCEPT !.relayer = binder.spk]
             x == "haltSpk"
             f == [binder.relayer EXCEPT ![binder.spk] =
                     [@ EXCEPT !.working = FALSE, !.open = FALSE]]
  <2>1. f \in [Relayer -> RelayerType]
    BY <1>1, <1>3, RelayerEdited DEF Types, BinderType
  <2>2. b = [binder EXCEPT !.relayer = f]
    BY <1>1, <1>3 DEF Types, BinderType, RelayerType
  <2> HIDE DEF f
  <2>3. /\ b \in BinderType /\ b.relayer = f /\ KeepsSession(b)
        /\ KeepsFields(b) /\ KeepsLock(b) /\ KeepsCtrl(b)
    BY <1>1, <2>1, <2>2
    DEF Types, BinderType, KeepsSession, KeepsFields, KeepsLock, KeepsCtrl
  <2>4. /\ w \in ThreadType /\ w.todo = Tail(thread[t].todo)
        /\ w.call = thread[t].call /\ w.alive = thread[t].alive
        /\ w.relayer = binder.spk /\ KeepsPacket(t, w) /\ KeepsMade(t, w)
    BY <1>1, <1>2 DEF ThreadType, Types, BinderType, KeepsPacket, KeepsMade
  <2>5. Does(t, x, b, w)
    BY <1>3
  <2> HIDE DEF b, w
  <2>6. Done(t, x, b, w)
    BY <2>3, <2>4, <2>5, StatementDone
  <2>7. /\ TodoEffect(t, x) /\ ThreadEffect(t, x) /\ FieldEffect(t, x)
        /\ SessionEffect(t, x) /\ RelayerEffect(t, x) /\ LockEffect(t, x)
    BY <1>1, <1>2, <1>3, <2>3, <2>4, <2>6
    DEF Done, TodoEffect, ThreadEffect, FieldEffect, SessionEffect,
        RelayerEffect, LockEffect, KeepsSession, KeepsFields, KeepsLock,
        KeepsPacket, KeepsMade, f
  <2>8. Effect(t, x)
    BY <2>3, <2>4, <2>6, <2>7, WorksEffect
  <2> QED BY <2>8
<1>4. CASE /\ binder.mic # None
           /\ Does(t, "haltMic",
                  [binder EXCEPT !.relayer[binder.mic].working = FALSE,
                                 !.relayer[binder.mic].open = FALSE],
                  [Goes(t) EXCEPT !.relayer = binder.mic])
  <2> DEFINE b == [binder EXCEPT !.relayer[binder.mic].working = FALSE,
                              !.relayer[binder.mic].open = FALSE]
             w == [Goes(t) EXCEPT !.relayer = binder.mic]
             x == "haltMic"
             f == [binder.relayer EXCEPT ![binder.mic] =
                     [@ EXCEPT !.working = FALSE, !.open = FALSE]]
  <2>1. f \in [Relayer -> RelayerType]
    BY <1>1, <1>4, RelayerEdited DEF Types, BinderType
  <2>2. b = [binder EXCEPT !.relayer = f]
    BY <1>1, <1>4 DEF Types, BinderType, RelayerType
  <2> HIDE DEF f
  <2>3. /\ b \in BinderType /\ b.relayer = f /\ KeepsSession(b)
        /\ KeepsFields(b) /\ KeepsLock(b) /\ KeepsCtrl(b)
    BY <1>1, <2>1, <2>2
    DEF Types, BinderType, KeepsSession, KeepsFields, KeepsLock, KeepsCtrl
  <2>4. /\ w \in ThreadType /\ w.todo = Tail(thread[t].todo)
        /\ w.call = thread[t].call /\ w.alive = thread[t].alive
        /\ w.relayer = binder.mic /\ KeepsPacket(t, w) /\ KeepsMade(t, w)
    BY <1>1, <1>2 DEF ThreadType, Types, BinderType, KeepsPacket, KeepsMade
  <2>5. Does(t, x, b, w)
    BY <1>4
  <2> HIDE DEF b, w
  <2>6. Done(t, x, b, w)
    BY <2>3, <2>4, <2>5, StatementDone
  <2>7. /\ TodoEffect(t, x) /\ ThreadEffect(t, x) /\ FieldEffect(t, x)
        /\ SessionEffect(t, x) /\ RelayerEffect(t, x) /\ LockEffect(t, x)
    BY <1>1, <1>2, <1>4, <2>3, <2>4, <2>6
    DEF Done, TodoEffect, ThreadEffect, FieldEffect, SessionEffect,
        RelayerEffect, LockEffect, KeepsSession, KeepsFields, KeepsLock,
        KeepsPacket, KeepsMade, f
  <2>8. Effect(t, x)
    BY <2>3, <2>4, <2>6, <2>7, WorksEffect
  <2> QED BY <2>8
<1>5. CASE binder.spk = None /\ Throws(t, "haltSpk")
  BY <1>5, ThrowsEffect
<1>6. CASE binder.mic = None /\ Throws(t, "haltMic")
  BY <1>6, ThrowsEffect
<1> QED BY <1>3, <1>4, <1>5, <1>6 DEF Halt, Halts

LEMMA IteratesEffect ==
  ASSUME Kept, NEW t \in Thread, Iterates(t)
  PROVE  \E x : Effect(t, x)
<1>1. Types /\ Busy(t)
  BY DEF Kept, Iterates, Does, At
<1>2. /\ Goes(t) \in ThreadType /\ Goes(t).todo = Tail(thread[t].todo)
      /\ Goes(t).call = thread[t].call /\ Goes(t).packet = thread[t].packet
      /\ Goes(t).made = thread[t].made
      /\ Goes(t).relayer = thread[t].relayer
      /\ Goes(t).alive = thread[t].alive
  BY <1>1, GoesType
<1>3. binder.monitor \in (Thread \cup {None}) \X Nat
  BY <1>1 DEF Types, BinderType
<1>5. CASE /\ MayEnter(t)
           /\ Does(t, "sockets",
                  Enter(t),
                  [Goes(t) EXCEPT !.seen = binder.modCount])
  <2> DEFINE b == Enter(t)
             w == [Goes(t) EXCEPT !.seen = binder.modCount]
             x == "sockets"
  <2>1. /\ b \in BinderType /\ b.monitor = <<t, binder.monitor[2] + 1>>
        /\ KeepsSession(b) /\ KeepsFields(b) /\ KeepsRelayers(b) /\ KeepsCtrl(b)
    BY <1>1, <1>3
    DEF Types, BinderType, Enter, KeepsSession, KeepsFields, KeepsRelayers,
        KeepsCtrl
  <2>2. /\ w \in ThreadType /\ w.todo = Tail(thread[t].todo)
        /\ w.call = thread[t].call /\ w.alive = thread[t].alive
        /\ KeepsPacket(t, w) /\ KeepsMade(t, w) /\ KeepsRelayer(t, w)
    BY <1>1, <1>2
    DEF ThreadType, Types, BinderType, KeepsPacket, KeepsMade, KeepsRelayer
  <2>3. Does(t, x, b, w)
    BY <1>5
  <2> HIDE DEF b, w
  <2>4. Done(t, x, b, w)
    BY <2>1, <2>2, <2>3, StatementDone
  <2>5. /\ TodoEffect(t, x) /\ ThreadEffect(t, x) /\ FieldEffect(t, x)
        /\ SessionEffect(t, x) /\ RelayerEffect(t, x) /\ LockEffect(t, x)
    BY <1>1, <1>2, <1>5, <2>1, <2>2, <2>4
    DEF Done, TodoEffect, ThreadEffect, FieldEffect, SessionEffect,
        RelayerEffect, LockEffect, KeepsSession, KeepsFields, KeepsRelayers,
        KeepsPacket, KeepsMade, KeepsRelayer, MayEnter
  <2>6. Effect(t, x)
    BY <2>1, <2>2, <2>4, <2>5, WorksEffect
  <2> QED BY <2>6
<1>6. CASE Does(t, "outputters",
               binder,
               [Goes(t) EXCEPT !.seen = binder.modCount])
  <2> DEFINE b == binder
             w == [Goes(t) EXCEPT !.seen = binder.modCount]
             x == "outputters"
  <2>1. /\ b \in BinderType /\ KeepsSession(b) /\ KeepsFields(b)
        /\ KeepsRelayers(b) /\ KeepsLock(b) /\ KeepsCtrl(b)
    BY <1>1
    DEF Types, BinderType, KeepsSession, KeepsFields, KeepsRelayers, KeepsLock,
        KeepsCtrl
  <2>2. /\ w \in ThreadType /\ w.todo = Tail(thread[t].todo)
        /\ w.call = thread[t].call /\ w.alive = thread[t].alive
        /\ KeepsPacket(t, w) /\ KeepsMade(t, w) /\ KeepsRelayer(t, w)
    BY <1>1, <1>2
    DEF ThreadType, Types, BinderType, KeepsPacket, KeepsMade, KeepsRelayer
  <2>3. Does(t, x, b, w)
    BY <1>6
  <2> HIDE DEF b, w
  <2>4. Done(t, x, b, w)
    BY <2>1, <2>2, <2>3, StatementDone
  <2>5. /\ TodoEffect(t, x) /\ ThreadEffect(t, x) /\ FieldEffect(t, x)
        /\ SessionEffect(t, x) /\ RelayerEffect(t, x) /\ LockEffect(t, x)
    BY <1>1, <1>2, <2>1, <2>2, <2>4
    DEF Done, TodoEffect, ThreadEffect, FieldEffect, SessionEffect,
        RelayerEffect, LockEffect, KeepsSession, KeepsFields, KeepsRelayers,
        KeepsLock, KeepsPacket, KeepsMade, KeepsRelayer
  <2>6. Effect(t, x)
    BY <2>1, <2>2, <2>4, <2>5, WorksEffect
  <2> QED BY <2>6
<1> QED BY <1>5, <1>6 DEF Iterates

LEMMA QueuesEffect ==
  ASSUME Kept, NEW t \in Thread, Queues(t)
  PROVE  \E x : Effect(t, x)
<1>1. Types /\ Busy(t)
  BY DEF Kept, Queues, Does, At
<1>2. /\ Goes(t) \in ThreadType /\ Goes(t).todo = Tail(thread[t].todo)
      /\ Goes(t).call = thread[t].call /\ Goes(t).packet = thread[t].packet
      /\ Goes(t).made = thread[t].made
      /\ Goes(t).relayer = thread[t].relayer
      /\ Goes(t).alive = thread[t].alive
  BY <1>1, GoesType
<1>3. binder.monitor \in (Thread \cup {None}) \X Nat
  BY <1>1 DEF Types, BinderType
<1>4. Now(t, "queue") \/ Now(t, "unlock") =>
        binder.monitor[1] = t /\ binder.monitor[2] \in Nat \ {0}
  <2>1. ThreadKept(t) /\ t # None
    BY NamesAssumption DEF Kept
  <2>2. Now(t, "unlock") => Later(t, "unlock") /\ ~Later(t, "lock")
    BY <1>1, <2>1, BusyFacts DEF Ordered, Once, Now, Later
  <2>3. Depth(t) = IF binder.monitor[1] = t THEN binder.monitor[2] ELSE 0
    BY DEF Kept, LockKept
  <2> QED BY <1>3, <2>2, <2>3 DEF Depth
<1>5. CASE Does(t, "queue", Leave, [Goes(t) EXCEPT !.made = NoPacket])
  <2> DEFINE b == Leave
             w == [Goes(t) EXCEPT !.made = NoPacket]
             x == "queue"
  <2>1. /\ b \in BinderType
        /\ b.monitor = IF binder.monitor[2] = 1 THEN <<None, 0>>
                         ELSE <<binder.monitor[1], binder.monitor[2] - 1>>
        /\ KeepsSession(b) /\ KeepsFields(b) /\ KeepsRelayers(b) /\ KeepsCtrl(b)
    BY <1>1, <1>3, <1>4, <1>5, AtIsNow
    DEF Types, BinderType, Leave, Does, KeepsSession, KeepsFields,
        KeepsRelayers, KeepsCtrl
  <2>2. /\ w \in ThreadType /\ w.todo = Tail(thread[t].todo)
        /\ w.call = thread[t].call /\ w.alive = thread[t].alive
        /\ w.made = NoPacket /\ KeepsPacket(t, w) /\ KeepsRelayer(t, w)
    BY <1>1, <1>2 DEF ThreadType, AnyPacket, NoPacket, KeepsPacket, KeepsRelayer
  <2>3. Does(t, x, b, w)
    BY <1>5
  <2> HIDE DEF b, w
  <2>4. Done(t, x, b, w)
    BY <2>1, <2>2, <2>3, StatementDone
  <2>5. /\ TodoEffect(t, x) /\ ThreadEffect(t, x) /\ FieldEffect(t, x)
        /\ SessionEffect(t, x) /\ RelayerEffect(t, x) /\ LockEffect(t, x)
    BY <1>1, <1>2, <2>1, <2>2, <2>4
    DEF Done, TodoEffect, ThreadEffect, FieldEffect, SessionEffect,
        RelayerEffect, LockEffect, KeepsSession, KeepsFields, KeepsRelayers,
        KeepsPacket, KeepsRelayer
  <2>6. Effect(t, x)
    BY <2>1, <2>2, <2>4, <2>5, WorksEffect
  <2> QED BY <2>6
<1> QED BY <1>5 DEF Queues

LEMMA LocksEffect ==
  ASSUME Kept, NEW t \in Thread, Locks(t)
  PROVE  \E x : Effect(t, x)
<1>1. Types /\ Busy(t)
  BY DEF Kept, Locks, Does, At
<1>2. /\ Goes(t) \in ThreadType /\ Goes(t).todo = Tail(thread[t].todo)
      /\ Goes(t).call = thread[t].call /\ Goes(t).packet = thread[t].packet
      /\ Goes(t).made = thread[t].made
      /\ Goes(t).relayer = thread[t].relayer
      /\ Goes(t).alive = thread[t].alive
  BY <1>1, GoesType
<1>3. binder.monitor \in (Thread \cup {None}) \X Nat
  BY <1>1 DEF Types, BinderType
<1>4. Now(t, "queue") \/ Now(t, "unlock") =>
        binder.monitor[1] = t /\ binder.monitor[2] \in Nat \ {0}
  <2>1. ThreadKept(t) /\ t # None
    BY NamesAssumption DEF Kept
  <2>2. Now(t, "unlock") => Later(t, "unlock") /\ ~Later(t, "lock")
    BY <1>1, <2>1, BusyFacts DEF Ordered, Once, Now, Later
  <2>3. Depth(t) = IF binder.monitor[1] = t THEN binder.monitor[2] ELSE 0
    BY DEF Kept, LockKept
  <2> QED BY <1>3, <2>2, <2>3 DEF Depth
<1>5. CASE /\ MayEnter(t)
           /\ Does(t, "lock", Enter(t), Goes(t))
  <2> DEFINE b == Enter(t)
             w == Goes(t)
             x == "lock"
  <2>1. /\ b \in BinderType /\ b.monitor = <<t, binder.monitor[2] + 1>>
        /\ KeepsSession(b) /\ KeepsFields(b) /\ KeepsRelayers(b) /\ KeepsCtrl(b)
    BY <1>1, <1>3
    DEF Types, BinderType, Enter, KeepsSession, KeepsFields, KeepsRelayers,
        KeepsCtrl
  <2>2. /\ w \in ThreadType /\ w.todo = Tail(thread[t].todo)
        /\ w.call = thread[t].call /\ w.alive = thread[t].alive
        /\ KeepsPacket(t, w) /\ KeepsMade(t, w) /\ KeepsRelayer(t, w)
    BY <1>1, <1>2 DEF KeepsPacket, KeepsMade, KeepsRelayer
  <2>3. Does(t, x, b, w)
    BY <1>5
  <2> HIDE DEF b, w
  <2>4. Done(t, x, b, w)
    BY <2>1, <2>2, <2>3, StatementDone
  <2>5. /\ TodoEffect(t, x) /\ ThreadEffect(t, x) /\ FieldEffect(t, x)
        /\ SessionEffect(t, x) /\ RelayerEffect(t, x) /\ LockEffect(t, x)
    BY <1>1, <1>2, <1>5, <2>1, <2>2, <2>4
    DEF Done, TodoEffect, ThreadEffect, FieldEffect, SessionEffect,
        RelayerEffect, LockEffect, KeepsSession, KeepsFields, KeepsRelayers,
        KeepsPacket, KeepsMade, KeepsRelayer, MayEnter
  <2>6. Effect(t, x)
    BY <2>1, <2>2, <2>4, <2>5, WorksEffect
  <2> QED BY <2>6
<1>6. CASE Does(t, "unlock", Leave, Goes(t))
  <2> DEFINE b == Leave
             w == Goes(t)
             x == "unlock"
  <2>1. /\ b \in BinderType
        /\ b.monitor = IF binder.monitor[2] = 1 THEN <<None, 0>>
                         ELSE <<binder.monitor[1], binder.monitor[2] - 1>>
        /\ KeepsSession(b) /\ KeepsFields(b) /\ KeepsRelayers(b) /\ KeepsCtrl(b)
    BY <1>1, <1>3, <1>4, <1>6, AtIsNow
    DEF Types, BinderType, Leave, Does, KeepsSession, KeepsFields,
        KeepsRelayers, KeepsCtrl
  <2>2. /\ w \in ThreadType /\ w.todo = Tail(thread[t].todo)
        /\ w.call = thread[t].call /\ w.alive = thread[t].alive
        /\ KeepsPacket(t, w) /\ KeepsMade(t, w) /\ KeepsRelayer(t, w)
    BY <1>1, <1>2 DEF KeepsPacket, KeepsMade, KeepsRelayer
  <2>3. Does(t, x, b, w)
    BY <1>6
  <2> HIDE DEF b, w
  <2>4. Done(t, x, b, w)
    BY <2>1, <2>2, <2>3, StatementDone
  <2>5. /\ TodoEffect(t, x) /\ ThreadEffect(t, x) /\ FieldEffect(t, x)
        /\ SessionEffect(t, x) /\ RelayerEffect(t, x) /\ LockEffect(t, x)
    BY <1>1, <1>2, <2>1, <2>2, <2>4
    DEF Done, TodoEffect, ThreadEffect, FieldEffect, SessionEffect,
        RelayerEffect, LockEffect, KeepsSession, KeepsFields, KeepsRelayers,
        KeepsPacket, KeepsMade, KeepsRelayer
  <2>6. Effect(t, x)
    BY <2>1, <2>2, <2>4, <2>5, WorksEffect
  <2> QED BY <2>6
<1> QED BY <1>5, <1>6 DEF Locks

LEMMA RunsEffect ==
  ASSUME Kept, NEW t \in Thread, Runs(t)
  PROVE  \E x : Effect(t, x)
<1>1. Types /\ Busy(t)
  BY DEF Kept, Runs, Does, At, Throws
<1>2. /\ Goes(t) \in ThreadType /\ Goes(t).todo = Tail(thread[t].todo)
      /\ Goes(t).call = thread[t].call /\ Goes(t).packet = thread[t].packet
      /\ Goes(t).made = thread[t].made
      /\ Goes(t).relayer = thread[t].relayer
      /\ Goes(t).alive = thread[t].alive
  BY <1>1, GoesType
<1>3. ToRun(t) \in Relayer \cup {None}
  BY <1>1 DEF ToRun, Types, BinderType
<1>5. CASE /\ ToRun(t) # None
           /\ Does(t, "run",
                   [binder EXCEPT !.relayer[ToRun(t)].started = TRUE], Goes(t))
  <2> DEFINE b == [binder EXCEPT !.relayer[ToRun(t)].started = TRUE]
             w == Goes(t)
             x == "run"
             f == [binder.relayer EXCEPT ![ToRun(t)] =
                     [@ EXCEPT !.started = TRUE]]
  <2>1. f \in [Relayer -> RelayerType]
    BY <1>1, <1>3, <1>5, RelayerEdited DEF Types, BinderType
  <2>2. b = [binder EXCEPT !.relayer = f]
    BY <1>1, <1>3, <1>5 DEF Types, BinderType, RelayerType
  <2> HIDE DEF f
  <2>3. /\ b \in BinderType /\ b.relayer = f /\ KeepsSession(b)
        /\ KeepsFields(b) /\ KeepsLock(b) /\ KeepsCtrl(b)
    BY <1>1, <2>1, <2>2
    DEF Types, BinderType, KeepsSession, KeepsFields, KeepsLock, KeepsCtrl
  <2>4. /\ w \in ThreadType /\ w.todo = Tail(thread[t].todo)
        /\ w.call = thread[t].call /\ w.alive = thread[t].alive
        /\ KeepsPacket(t, w) /\ KeepsMade(t, w) /\ KeepsRelayer(t, w)
    BY <1>1, <1>2 DEF KeepsPacket, KeepsMade, KeepsRelayer
  <2>5. Does(t, x, b, w)
    BY <1>5
  <2> HIDE DEF b, w
  <2>6. Done(t, x, b, w)
    BY <2>3, <2>4, <2>5, StatementDone
  <2>7. /\ TodoEffect(t, x) /\ ThreadEffect(t, x) /\ FieldEffect(t, x)
        /\ SessionEffect(t, x) /\ RelayerEffect(t, x) /\ LockEffect(t, x)
    BY <1>1, <1>2, <1>5, <2>3, <2>4, <2>6
    DEF Done, TodoEffect, ThreadEffect, FieldEffect, SessionEffect,
        RelayerEffect, LockEffect, KeepsSession, KeepsFields, KeepsLock,
        KeepsPacket, KeepsMade, KeepsRelayer, f
  <2>8. Effect(t, x)
    BY <2>3, <2>4, <2>6, <2>7, WorksEffect
  <2> QED BY <2>8
<1>6. CASE ToRun(t) = None /\ Throws(t, "run")
  BY <1>6, ThrowsEffect
<1> QED BY <1>5, <1>6 DEF Runs

LEMMA DeciphersEffect ==
  ASSUME Kept, NEW t \in Thread, Deciphers(t)
  PROVE  \E x : Effect(t, x)
<1>1. Types /\ Busy(t)
  BY DEF Kept, Deciphers, Does, At
<1>2. /\ Goes(t) \in ThreadType /\ Goes(t).todo = Tail(thread[t].todo)
      /\ Goes(t).call = thread[t].call /\ Goes(t).packet = thread[t].packet
      /\ Goes(t).made = thread[t].made
      /\ Goes(t).relayer = thread[t].relayer
      /\ Goes(t).alive = thread[t].alive
  BY <1>1, GoesType
<1>3. ThreadKept(t) /\ Ordered(thread[t].call, thread[t].todo)
  BY <1>1, BusyFacts DEF Kept
<1>4. thread[t].relayer \in Relayer
  <2>1. Now(t, "decipher")
    BY AtIsNow DEF Deciphers, Does
  <2> QED BY <1>3, <2>1 DEF ThreadKept, Ordered, Once, Now, Later
<1>5. CASE Does(t, "decipher",
               [binder EXCEPT !.relayer[thread[t].relayer].key = binder.session.key],
               Goes(t))
  <2> DEFINE b == [binder EXCEPT
                     !.relayer[thread[t].relayer].key = binder.session.key]
             w == Goes(t)
             x == "decipher"
             f == [binder.relayer EXCEPT ![thread[t].relayer] =
                     [@ EXCEPT !.key = binder.session.key]]
  <2>1. f \in [Relayer -> RelayerType]
    BY <1>1, <1>4, RelayerEdited DEF Types, BinderType, Session
  <2>2. b = [binder EXCEPT !.relayer = f]
    BY <1>1, <1>4 DEF Types, BinderType, RelayerType
  <2> HIDE DEF f
  <2>3. /\ b \in BinderType /\ b.relayer = f /\ KeepsSession(b)
        /\ KeepsFields(b) /\ KeepsLock(b) /\ KeepsCtrl(b)
    BY <1>1, <2>1, <2>2
    DEF Types, BinderType, KeepsSession, KeepsFields, KeepsLock, KeepsCtrl
  <2>4. /\ w \in ThreadType /\ w.todo = Tail(thread[t].todo)
        /\ w.call = thread[t].call /\ w.alive = thread[t].alive
        /\ KeepsPacket(t, w) /\ KeepsMade(t, w) /\ KeepsRelayer(t, w)
    BY <1>1, <1>2 DEF KeepsPacket, KeepsMade, KeepsRelayer
  <2>5. Does(t, x, b, w)
    BY <1>5
  <2> HIDE DEF b, w
  <2>6. Done(t, x, b, w)
    BY <2>3, <2>4, <2>5, StatementDone
  <2>7. /\ TodoEffect(t, x) /\ ThreadEffect(t, x) /\ FieldEffect(t, x)
        /\ SessionEffect(t, x) /\ RelayerEffect(t, x) /\ LockEffect(t, x)
    BY <1>1, <1>2, <2>3, <2>4, <2>6
    DEF Done, TodoEffect, ThreadEffect, FieldEffect, SessionEffect,
        RelayerEffect, LockEffect, KeepsSession, KeepsFields, KeepsLock,
        KeepsPacket, KeepsMade, KeepsRelayer, f
  <2>8. Effect(t, x)
    BY <2>3, <2>4, <2>6, <2>7, WorksEffect
  <2> QED BY <2>8
<1> QED BY <1>5 DEF Deciphers

LEMMA SetsSpeakerEffect ==
  ASSUME Kept, NEW t \in Thread, SetsSpeaker(t)
  PROVE  \E x : Effect(t, x)
<1>1. Types /\ Busy(t)
  BY DEF Kept, SetsSpeaker, Does, At
<1>2. /\ Goes(t) \in ThreadType /\ Goes(t).todo = Tail(thread[t].todo)
      /\ Goes(t).call = thread[t].call /\ Goes(t).packet = thread[t].packet
      /\ Goes(t).made = thread[t].made
      /\ Goes(t).relayer = thread[t].relayer
      /\ Goes(t).alive = thread[t].alive
  BY <1>1, GoesType
<1>3. ThreadKept(t) /\ Ordered(thread[t].call, thread[t].todo)
  BY <1>1, BusyFacts DEF Kept
<1>4. thread[t].relayer \in Relayer
  <2>1. Now(t, "setSpk")
    BY AtIsNow DEF SetsSpeaker, Does
  <2> QED BY <1>3, <2>1 DEF ThreadKept, Ordered, Once, Now, Later
<1>5. CASE Does(t, "setSpk",
               [binder EXCEPT !.spk = thread[t].relayer],
               Goes(t))
  <2> DEFINE b == [binder EXCEPT !.spk = thread[t].relayer]
             w == Goes(t)
             x == "setSpk"
  <2>1. /\ b \in BinderType /\ b.spk = thread[t].relayer /\ b.mic = binder.mic
        /\ KeepsSession(b) /\ KeepsRelayers(b) /\ KeepsLock(b) /\ KeepsCtrl(b)
    BY <1>1, <1>4
    DEF Types, BinderType, KeepsSession, KeepsRelayers, KeepsLock, KeepsCtrl
  <2>2. /\ w \in ThreadType /\ w.todo = Tail(thread[t].todo)
        /\ w.call = thread[t].call /\ w.alive = thread[t].alive
        /\ KeepsPacket(t, w) /\ KeepsMade(t, w) /\ KeepsRelayer(t, w)
    BY <1>1, <1>2 DEF KeepsPacket, KeepsMade, KeepsRelayer
  <2>3. Does(t, x, b, w)
    BY <1>5
  <2> HIDE DEF b, w
  <2>4. Done(t, x, b, w)
    BY <2>1, <2>2, <2>3, StatementDone
  <2>5. /\ TodoEffect(t, x) /\ ThreadEffect(t, x) /\ FieldEffect(t, x)
        /\ SessionEffect(t, x) /\ RelayerEffect(t, x) /\ LockEffect(t, x)
    BY <1>1, <1>2, <2>1, <2>2, <2>4
    DEF Done, TodoEffect, ThreadEffect, FieldEffect, SessionEffect,
        RelayerEffect, LockEffect, KeepsSession, KeepsRelayers, KeepsLock,
        KeepsPacket, KeepsMade, KeepsRelayer
  <2>6. Effect(t, x)
    BY <2>1, <2>2, <2>4, <2>5, WorksEffect
  <2> QED BY <2>6
<1> QED BY <1>5 DEF SetsSpeaker

LEMMA ListChangedEffect ==
  ASSUME Kept, NEW t \in Thread, ListChanged(t)
  PROVE  \E x : Effect(t, x)
BY ThrowsEffect DEF ListChanged

LEMMA DecidesEffect ==
  ASSUME Kept, NEW t \in Thread, Decides(t)
  PROVE  \E x : Effect(t, x)
<1>1. Types /\ Busy(t)
  BY DEF Kept, Decides, Does, At
<1>2. /\ Goes(t) \in ThreadType /\ Goes(t).todo = Tail(thread[t].todo)
      /\ Goes(t).call = thread[t].call /\ Goes(t).packet = thread[t].packet
      /\ Goes(t).made = thread[t].made
      /\ Goes(t).relayer = thread[t].relayer
      /\ Goes(t).alive = thread[t].alive
  BY <1>1, GoesType
<1>3. CASE Does(t, "mayBegin", binder, Goes(t))
  <2> DEFINE b == binder
             w == Goes(t)
             x == "mayBegin"
  <2>1. /\ b \in BinderType /\ KeepsSession(b) /\ KeepsFields(b)
        /\ KeepsRelayers(b) /\ KeepsLock(b) /\ KeepsCtrl(b)
    BY <1>1
    DEF Types, BinderType, KeepsSession, KeepsFields, KeepsRelayers, KeepsLock,
        KeepsCtrl
  <2>2. /\ w \in ThreadType /\ w.todo = Tail(thread[t].todo)
        /\ w.call = thread[t].call /\ w.alive = thread[t].alive
        /\ KeepsPacket(t, w) /\ KeepsMade(t, w) /\ KeepsRelayer(t, w)
    BY <1>1, <1>2 DEF KeepsPacket, KeepsMade, KeepsRelayer
  <2>3. Does(t, x, b, w)
    BY <1>3
  <2> HIDE DEF b, w
  <2>4. Done(t, x, b, w)
    BY <2>1, <2>2, <2>3, StatementDone
  <2>5. /\ TodoEffect(t, x) /\ ThreadEffect(t, x) /\ FieldEffect(t, x)
        /\ SessionEffect(t, x) /\ RelayerEffect(t, x) /\ LockEffect(t, x)
    BY <1>1, <1>2, <2>1, <2>2, <2>4
    DEF Done, TodoEffect, ThreadEffect, FieldEffect, SessionEffect,
        RelayerEffect, LockEffect, KeepsSession, KeepsFields, KeepsRelayers,
        KeepsLock, KeepsPacket, KeepsMade, KeepsRelayer
  <2>6. Effect(t, x)
    BY <2>1, <2>2, <2>4, <2>5, WorksEffect
  <2> QED BY <2>6
<1>4. CASE Does(t, "mayBegin", binder, Returns(t))
  <2> DEFINE b == binder
             w == Returns(t)
             x == "mayBegin"
  <2>1. /\ b \in BinderType /\ KeepsSession(b) /\ KeepsFields(b)
        /\ KeepsRelayers(b) /\ KeepsLock(b) /\ KeepsCtrl(b)
    BY <1>1
    DEF Types, BinderType, KeepsSession, KeepsFields, KeepsRelayers, KeepsLock,
        KeepsCtrl
  <2>2. /\ w \in ThreadType /\ w.todo = <<>> /\ w.alive = thread[t].alive
    BY <1>1, <1>2, GoesType
  <2>3. Does(t, x, b, w)
    BY <1>4
  <2> HIDE DEF b, w
  <2>4. Done(t, x, b, w)
    BY <2>1, <2>2, <2>3, StatementDone
  <2>5. /\ TodoEffect(t, x) /\ ThreadEffect(t, x) /\ FieldEffect(t, x)
        /\ SessionEffect(t, x) /\ RelayerEffect(t, x) /\ LockEffect(t, x)
    BY <1>1, <1>2, <2>1, <2>2, <2>4
    DEF Done, TodoEffect, ThreadEffect, FieldEffect, SessionEffect,
        RelayerEffect, LockEffect, KeepsSession, KeepsFields, KeepsRelayers,
        KeepsLock
  <2>6. Effect(t, x)
    BY <2>1, <2>2, <2>4, <2>5, WorksEffect
  <2> QED BY <2>6
<1>5. CASE Does(t, "isOfCall", binder, Goes(t))
  <2> DEFINE b == binder
             w == Goes(t)
             x == "isOfCall"
  <2>1. /\ b \in BinderType /\ KeepsSession(b) /\ KeepsFields(b)
        /\ KeepsRelayers(b) /\ KeepsLock(b) /\ KeepsCtrl(b)
    BY <1>1
    DEF Types, BinderType, KeepsSession, KeepsFields, KeepsRelayers, KeepsLock,
        KeepsCtrl
  <2>2. /\ w \in ThreadType /\ w.todo = Tail(thread[t].todo)
        /\ w.call = thread[t].call /\ w.alive = thread[t].alive
        /\ KeepsPacket(t, w) /\ KeepsMade(t, w) /\ KeepsRelayer(t, w)
    BY <1>1, <1>2 DEF KeepsPacket, KeepsMade, KeepsRelayer
  <2>3. Does(t, x, b, w)
    BY <1>5
  <2> HIDE DEF b, w
  <2>4. Done(t, x, b, w)
    BY <2>1, <2>2, <2>3, StatementDone
  <2>5. /\ TodoEffect(t, x) /\ ThreadEffect(t, x) /\ FieldEffect(t, x)
        /\ SessionEffect(t, x) /\ RelayerEffect(t, x) /\ LockEffect(t, x)
    BY <1>1, <1>2, <2>1, <2>2, <2>4
    DEF Done, TodoEffect, ThreadEffect, FieldEffect, SessionEffect,
        RelayerEffect, LockEffect, KeepsSession, KeepsFields, KeepsRelayers,
        KeepsLock, KeepsPacket, KeepsMade, KeepsRelayer
  <2>6. Effect(t, x)
    BY <2>1, <2>2, <2>4, <2>5, WorksEffect
  <2> QED BY <2>6
<1>6. CASE Does(t, "isOfCall", binder, Returns(t))
  <2> DEFINE b == binder
             w == Returns(t)
             x == "isOfCall"
  <2>1. /\ b \in BinderType /\ KeepsSession(b) /\ KeepsFields(b)
        /\ KeepsRelayers(b) /\ KeepsLock(b) /\ KeepsCtrl(b)
    BY <1>1
    DEF Types, BinderType, KeepsSession, KeepsFields, KeepsRelayers, KeepsLock,
        KeepsCtrl
  <2>2. /\ w \in ThreadType /\ w.todo = <<>> /\ w.alive = thread[t].alive
    BY <1>1, <1>2, GoesType
  <2>3. Does(t, x, b, w)
    BY <1>6
  <2> HIDE DEF b, w
  <2>4. Done(t, x, b, w)
    BY <2>1, <2>2, <2>3, StatementDone
  <2>5. /\ TodoEffect(t, x) /\ ThreadEffect(t, x) /\ FieldEffect(t, x)
        /\ SessionEffect(t, x) /\ RelayerEffect(t, x) /\ LockEffect(t, x)
    BY <1>1, <1>2, <2>1, <2>2, <2>4
    DEF Done, TodoEffect, ThreadEffect, FieldEffect, SessionEffect,
        RelayerEffect, LockEffect, KeepsSession, KeepsFields, KeepsRelayers,
        KeepsLock
  <2>6. Effect(t, x)
    BY <2>1, <2>2, <2>4, <2>5, WorksEffect
  <2> QED BY <2>6
<1> QED BY <1>3, <1>4, <1>5, <1>6 DEF Decides

LEMMA TakesOverEffect ==
  ASSUME Kept, NEW t \in Thread, TakesOver(t)
  PROVE  \E x : Effect(t, x)
<1>1. Types /\ Busy(t)
  BY DEF Kept, TakesOver, Does, At
<1>2. /\ Goes(t) \in ThreadType /\ Goes(t).todo = Tail(thread[t].todo)
      /\ Goes(t).call = thread[t].call /\ Goes(t).packet = thread[t].packet
      /\ Goes(t).made = thread[t].made
      /\ Goes(t).relayer = thread[t].relayer
      /\ Goes(t).alive = thread[t].alive
  BY <1>1, GoesType
<1>3. ThreadKept(t) /\ Ordered(thread[t].call, thread[t].todo)
  BY <1>1, BusyFacts DEF Kept
<1>4. thread[t].packet \in StartPacket
  <2>1. Now(t, "takeOver")
    BY AtIsNow DEF TakesOver, Does
  <2> QED BY <1>3, <2>1 DEF ThreadKept, Ordered, Once, Now, Later, StartPacket
<1>5. CASE Does(t, "takeOver",
               [binder EXCEPT !.session = SetSessionParamStart(@, thread[t].packet)],
               Goes(t))
  <2> DEFINE b == [binder EXCEPT
                     !.session = SetSessionParamStart(@, thread[t].packet)]
             w == Goes(t)
             x == "takeOver"
  <2>1. /\ b \in BinderType
        /\ b.session = SetSessionParamStart(binder.session, thread[t].packet)
        /\ KeepsFields(b) /\ KeepsRelayers(b) /\ KeepsLock(b) /\ KeepsCtrl(b)
    BY <1>1, <1>4, SessionEdited
    DEF Types, BinderType, KeepsFields, KeepsRelayers, KeepsLock, KeepsCtrl
  <2>2. /\ w \in ThreadType /\ w.todo = Tail(thread[t].todo)
        /\ w.call = thread[t].call /\ w.alive = thread[t].alive
        /\ KeepsPacket(t, w) /\ KeepsMade(t, w) /\ KeepsRelayer(t, w)
    BY <1>1, <1>2 DEF KeepsPacket, KeepsMade, KeepsRelayer
  <2>3. Does(t, x, b, w)
    BY <1>5
  <2> HIDE DEF b, w
  <2>4. Done(t, x, b, w)
    BY <2>1, <2>2, <2>3, StatementDone
  <2>5. /\ TodoEffect(t, x) /\ ThreadEffect(t, x) /\ FieldEffect(t, x)
        /\ SessionEffect(t, x) /\ RelayerEffect(t, x) /\ LockEffect(t, x)
    BY <1>1, <1>2, <2>1, <2>2, <2>4
    DEF Done, TodoEffect, ThreadEffect, FieldEffect, SessionEffect,
        RelayerEffect, LockEffect, KeepsFields, KeepsRelayers, KeepsLock,
        KeepsPacket, KeepsMade, KeepsRelayer
  <2>6. Effect(t, x)
    BY <2>1, <2>2, <2>4, <2>5, WorksEffect
  <2> QED BY <2>6
<1> QED BY <1>5 DEF TakesOver

LEMMA MakesKeyEffect ==
  ASSUME Kept, NEW t \in Thread, MakesKey(t)
  PROVE  \E x : Effect(t, x)
<1>1. Types /\ Busy(t)
  BY DEF Kept, MakesKey, Does, At
<1>2. /\ Goes(t) \in ThreadType /\ Goes(t).todo = Tail(thread[t].todo)
      /\ Goes(t).call = thread[t].call /\ Goes(t).packet = thread[t].packet
      /\ Goes(t).made = thread[t].made
      /\ Goes(t).relayer = thread[t].relayer
      /\ Goes(t).alive = thread[t].alive
  BY <1>1, GoesType
<1>3. ThreadKept(t) /\ Ordered(thread[t].call, thread[t].todo)
  BY <1>1, BusyFacts DEF Kept
<1>4. thread[t].packet.ssrc \in Call
  <2>1. Now(t, "key")
    BY AtIsNow DEF MakesKey, Does
  <2> QED BY <1>3, <2>1 DEF ThreadKept, Ordered, Once, Now, Later, StartPacket
<1>5. CASE Does(t, "key",
               [binder EXCEPT !.session = SetKey(@, thread[t].packet.ssrc)],
               Goes(t))
  <2> DEFINE b == [binder EXCEPT !.session = SetKey(@, thread[t].packet.ssrc)]
             w == Goes(t)
             x == "key"
  <2>1. /\ b \in BinderType
        /\ b.session = SetKey(binder.session, thread[t].packet.ssrc)
        /\ KeepsFields(b) /\ KeepsRelayers(b) /\ KeepsLock(b) /\ KeepsCtrl(b)
    BY <1>1, <1>4, SessionEdited
    DEF Types, BinderType, KeepsFields, KeepsRelayers, KeepsLock, KeepsCtrl
  <2>2. /\ w \in ThreadType /\ w.todo = Tail(thread[t].todo)
        /\ w.call = thread[t].call /\ w.alive = thread[t].alive
        /\ KeepsPacket(t, w) /\ KeepsMade(t, w) /\ KeepsRelayer(t, w)
    BY <1>1, <1>2 DEF KeepsPacket, KeepsMade, KeepsRelayer
  <2>3. Does(t, x, b, w)
    BY <1>5
  <2> HIDE DEF b, w
  <2>4. Done(t, x, b, w)
    BY <2>1, <2>2, <2>3, StatementDone
  <2>5. /\ TodoEffect(t, x) /\ ThreadEffect(t, x) /\ FieldEffect(t, x)
        /\ SessionEffect(t, x) /\ RelayerEffect(t, x) /\ LockEffect(t, x)
    BY <1>1, <1>2, <2>1, <2>2, <2>4
    DEF Done, TodoEffect, ThreadEffect, FieldEffect, SessionEffect,
        RelayerEffect, LockEffect, KeepsFields, KeepsRelayers, KeepsLock,
        KeepsPacket, KeepsMade, KeepsRelayer
  <2>6. Effect(t, x)
    BY <2>1, <2>2, <2>4, <2>5, WorksEffect
  <2> QED BY <2>6
<1> QED BY <1>5 DEF MakesKey

LEMMA BindsEffect ==
  ASSUME Kept, NEW t \in Thread, Binds(t)
  PROVE  \E x : Effect(t, x)
<1>1. Types /\ Busy(t)
  BY DEF Kept, Binds, Does, At
<1>2. /\ Goes(t) \in ThreadType /\ Goes(t).todo = Tail(thread[t].todo)
      /\ Goes(t).call = thread[t].call /\ Goes(t).packet = thread[t].packet
      /\ Goes(t).made = thread[t].made
      /\ Goes(t).relayer = thread[t].relayer
      /\ Goes(t).alive = thread[t].alive
  BY <1>1, GoesType
<1>3. ThreadKept(t) /\ Ordered(thread[t].call, thread[t].todo)
  BY <1>1, BusyFacts DEF Kept
<1>4. thread[t].packet.ssrc \in Call /\ New \in Relayer
  <2>1. Now(t, "bind")
    BY AtIsNow DEF Binds, Does
  <2> QED
    BY <1>1, <1>3, <2>1, NewFacts
    DEF Making, ThreadKept, Ordered, Once, Now, Later, StartPacket
<1>5. CASE Does(t, "bind",
               [binder EXCEPT !.relayer[New] =
               [NoRelayer EXCEPT !.kind = "spk", !.call = thread[t].packet.ssrc,
                                 !.open = TRUE, !.working = TRUE]],
               [Goes(t) EXCEPT !.relayer = New])
  <2> DEFINE b == [binder EXCEPT !.relayer[New] =
               [NoRelayer EXCEPT !.kind = "spk", !.call = thread[t].packet.ssrc,
                                 !.open = TRUE, !.working = TRUE]]
             w == [Goes(t) EXCEPT !.relayer = New]
             x == "bind"
             f == [binder.relayer EXCEPT ![New] =
               [NoRelayer EXCEPT !.kind = "spk", !.call = thread[t].packet.ssrc,
                                 !.open = TRUE, !.working = TRUE]]
  <2>1. f \in [Relayer -> RelayerType]
    BY <1>1, <1>4, NewTypes, RelayerEdited DEF Types, BinderType
  <2>2. b = [binder EXCEPT !.relayer = f]
    BY <1>1, <1>4, NewTypes DEF Types, BinderType, RelayerType
  <2> HIDE DEF f
  <2>3. /\ b \in BinderType /\ b.relayer = f /\ KeepsSession(b)
        /\ KeepsFields(b) /\ KeepsLock(b) /\ KeepsCtrl(b)
    BY <1>1, <2>1, <2>2
    DEF Types, BinderType, KeepsSession, KeepsFields, KeepsLock, KeepsCtrl
  <2>4. /\ w \in ThreadType /\ w.todo = Tail(thread[t].todo)
        /\ w.call = thread[t].call /\ w.alive = thread[t].alive
        /\ w.relayer = New /\ KeepsPacket(t, w) /\ KeepsMade(t, w)
    BY <1>1, <1>2, <1>4 DEF ThreadType, KeepsPacket, KeepsMade
  <2>5. Does(t, x, b, w)
    BY <1>5
  <2> HIDE DEF b, w
  <2>6. Done(t, x, b, w)
    BY <2>3, <2>4, <2>5, StatementDone
  <2>7. /\ TodoEffect(t, x) /\ ThreadEffect(t, x) /\ FieldEffect(t, x)
        /\ SessionEffect(t, x) /\ RelayerEffect(t, x) /\ LockEffect(t, x)
    BY <1>1, <1>2, <2>3, <2>4, <2>6
    DEF Done, TodoEffect, ThreadEffect, FieldEffect, SessionEffect,
        RelayerEffect, LockEffect, KeepsSession, KeepsFields, KeepsLock,
        KeepsPacket, KeepsMade, f
  <2>8. Effect(t, x)
    BY <2>3, <2>4, <2>6, <2>7, WorksEffect
  <2> QED BY <2>8
<1>6. CASE Does(t, "bind", binder, Returns(t))
  <2> DEFINE b == binder
             w == Returns(t)
             x == "bind"
  <2>1. /\ b \in BinderType /\ KeepsSession(b) /\ KeepsFields(b)
        /\ KeepsRelayers(b) /\ KeepsLock(b) /\ KeepsCtrl(b)
    BY <1>1
    DEF Types, BinderType, KeepsSession, KeepsFields, KeepsRelayers, KeepsLock,
        KeepsCtrl
  <2>2. /\ w \in ThreadType /\ w.todo = <<>> /\ w.alive = thread[t].alive
    BY <1>1, <1>2, GoesType
  <2>3. Does(t, x, b, w)
    BY <1>6
  <2> HIDE DEF b, w
  <2>4. Done(t, x, b, w)
    BY <2>1, <2>2, <2>3, StatementDone
  <2>5. /\ TodoEffect(t, x) /\ ThreadEffect(t, x) /\ FieldEffect(t, x)
        /\ SessionEffect(t, x) /\ RelayerEffect(t, x) /\ LockEffect(t, x)
    BY <1>1, <1>2, <2>1, <2>2, <2>4
    DEF Done, TodoEffect, ThreadEffect, FieldEffect, SessionEffect,
        RelayerEffect, LockEffect, KeepsSession, KeepsFields, KeepsRelayers,
        KeepsLock
  <2>6. Effect(t, x)
    BY <2>1, <2>2, <2>4, <2>5, WorksEffect
  <2> QED BY <2>6
<1> QED BY <1>5, <1>6 DEF Binds

LEMMA SetsMicEffect ==
  ASSUME Kept, NEW t \in Thread, SetsMic(t)
  PROVE  \E x : Effect(t, x)
<1>1. Types /\ Busy(t)
  BY DEF Kept, SetsMic, Does, At
<1>2. /\ Goes(t) \in ThreadType /\ Goes(t).todo = Tail(thread[t].todo)
      /\ Goes(t).call = thread[t].call /\ Goes(t).packet = thread[t].packet
      /\ Goes(t).made = thread[t].made
      /\ Goes(t).relayer = thread[t].relayer
      /\ Goes(t).alive = thread[t].alive
  BY <1>1, GoesType
<1>3. ThreadKept(t) /\ Ordered(thread[t].call, thread[t].todo)
  BY <1>1, BusyFacts DEF Kept
<1>4. thread[t].packet.ssrc \in Call /\ New \in Relayer
  <2>1. Now(t, "setMic")
    BY AtIsNow DEF SetsMic, Does
  <2> QED
    BY <1>1, <1>3, <2>1, NewFacts
    DEF Making, ThreadKept, Ordered, Once, Now, Later, StartPacket
<1>5. CASE Does(t, "setMic",
               [binder EXCEPT !.mic = New, !.relayer[New] =
               [NoRelayer EXCEPT !.kind = "mic", !.call = thread[t].packet.ssrc,
                                 !.key = thread[t].packet.ssrc, !.working = TRUE]],
               [Goes(t) EXCEPT !.relayer = New])
  <2> DEFINE b == [binder EXCEPT !.mic = New, !.relayer[New] =
               [NoRelayer EXCEPT !.kind = "mic", !.call = thread[t].packet.ssrc,
                                 !.key = thread[t].packet.ssrc, !.working = TRUE]]
             w == [Goes(t) EXCEPT !.relayer = New]
             x == "setMic"
             f == [binder.relayer EXCEPT ![New] =
               [NoRelayer EXCEPT !.kind = "mic", !.call = thread[t].packet.ssrc,
                                 !.key = thread[t].packet.ssrc, !.working = TRUE]]
  <2>1. f \in [Relayer -> RelayerType]
    BY <1>1, <1>4, NewTypes, RelayerEdited DEF Types, BinderType
  <2>2. b = [binder EXCEPT !.mic = New, !.relayer = f]
    BY <1>1, <1>4, NewTypes DEF Types, BinderType, RelayerType
  <2> HIDE DEF f
  <2>3. /\ b \in BinderType /\ b.relayer = f /\ b.mic = New
        /\ b.spk = binder.spk /\ KeepsSession(b) /\ KeepsLock(b) /\ KeepsCtrl(b)
    BY <1>1, <1>4, <2>1, <2>2
    DEF Types, BinderType, KeepsSession, KeepsLock, KeepsCtrl
  <2>4. /\ w \in ThreadType /\ w.todo = Tail(thread[t].todo)
        /\ w.call = thread[t].call /\ w.alive = thread[t].alive
        /\ w.relayer = New /\ KeepsPacket(t, w) /\ KeepsMade(t, w)
    BY <1>1, <1>2, <1>4 DEF ThreadType, KeepsPacket, KeepsMade
  <2>5. Does(t, x, b, w)
    BY <1>5
  <2> HIDE DEF b, w
  <2>6. Done(t, x, b, w)
    BY <2>3, <2>4, <2>5, StatementDone
  <2>7. /\ TodoEffect(t, x) /\ ThreadEffect(t, x) /\ FieldEffect(t, x)
        /\ SessionEffect(t, x) /\ RelayerEffect(t, x) /\ LockEffect(t, x)
    BY <1>1, <1>2, <2>3, <2>4, <2>6
    DEF Done, TodoEffect, ThreadEffect, FieldEffect, SessionEffect,
        RelayerEffect, LockEffect, KeepsSession, KeepsLock, KeepsPacket,
        KeepsMade, f
  <2>8. Effect(t, x)
    BY <2>3, <2>4, <2>6, <2>7, WorksEffect
  <2> QED BY <2>8
<1> QED BY <1>5 DEF SetsMic

LEMMA BindsNoCtrlEffect ==
  ASSUME Kept, NEW t \in Thread, BindsNoCtrl(t)
  PROVE  \E x : Effect(t, x)
<1>1. Types /\ Busy(t)
  BY DEF Kept, BindsNoCtrl, Does, At
<1>2. /\ Goes(t) \in ThreadType /\ Goes(t).todo = Tail(thread[t].todo)
      /\ Goes(t).call = thread[t].call /\ Goes(t).packet = thread[t].packet
      /\ Goes(t).made = thread[t].made
      /\ Goes(t).relayer = thread[t].relayer
      /\ Goes(t).alive = thread[t].alive
  BY <1>1, GoesType
<1>3. CASE Does(t, "beginCtrl", binder, Goes(t))
  <2> DEFINE b == binder
             w == Goes(t)
             x == "beginCtrl"
  <2>1. /\ b \in BinderType /\ KeepsSession(b) /\ KeepsFields(b)
        /\ KeepsRelayers(b) /\ KeepsLock(b) /\ KeepsCtrl(b)
    BY <1>1
    DEF Types, BinderType, KeepsSession, KeepsFields, KeepsRelayers, KeepsLock,
        KeepsCtrl
  <2>2. /\ w \in ThreadType /\ w.todo = Tail(thread[t].todo)
        /\ w.call = thread[t].call /\ w.alive = thread[t].alive
        /\ KeepsPacket(t, w) /\ KeepsMade(t, w) /\ KeepsRelayer(t, w)
    BY <1>1, <1>2 DEF KeepsPacket, KeepsMade, KeepsRelayer
  <2>3. Does(t, x, b, w)
    BY <1>3
  <2> HIDE DEF b, w
  <2>4. Done(t, x, b, w)
    BY <2>1, <2>2, <2>3, StatementDone
  <2>5. /\ TodoEffect(t, x) /\ ThreadEffect(t, x) /\ FieldEffect(t, x)
        /\ SessionEffect(t, x) /\ RelayerEffect(t, x) /\ LockEffect(t, x)
    BY <1>1, <1>2, <2>1, <2>2, <2>4
    DEF Done, TodoEffect, ThreadEffect, FieldEffect, SessionEffect,
        RelayerEffect, LockEffect, KeepsSession, KeepsFields, KeepsRelayers,
        KeepsLock, KeepsPacket, KeepsMade, KeepsRelayer
  <2>6. Effect(t, x)
    BY <2>1, <2>2, <2>4, <2>5, WorksEffect
  <2> QED BY <2>6
<1> QED BY <1>3 DEF BindsNoCtrl

LEMMA ReloadsEffect ==
  ASSUME Kept, NEW t \in Thread, Reloads(t)
  PROVE  \E x : Effect(t, x)
<1>1. Types /\ Busy(t)
  BY DEF Kept, Reloads, Does, At
<1>2. /\ Goes(t) \in ThreadType /\ Goes(t).todo = Tail(thread[t].todo)
      /\ Goes(t).call = thread[t].call /\ Goes(t).packet = thread[t].packet
      /\ Goes(t).made = thread[t].made
      /\ Goes(t).relayer = thread[t].relayer
      /\ Goes(t).alive = thread[t].alive
  BY <1>1, GoesType
<1>3. CASE Does(t, "clearTargets",
               [binder EXCEPT !.modCount = @ + 1],
               Goes(t))
  <2> DEFINE b == [binder EXCEPT !.modCount = @ + 1]
             w == Goes(t)
             x == "clearTargets"
  <2>1. /\ b \in BinderType /\ KeepsSession(b) /\ KeepsFields(b)
        /\ KeepsRelayers(b) /\ KeepsLock(b) /\ KeepsCtrl(b)
    BY <1>1
    DEF Types, BinderType, KeepsSession, KeepsFields, KeepsRelayers, KeepsLock,
        KeepsCtrl
  <2>2. /\ w \in ThreadType /\ w.todo = Tail(thread[t].todo)
        /\ w.call = thread[t].call /\ w.alive = thread[t].alive
        /\ KeepsPacket(t, w) /\ KeepsMade(t, w) /\ KeepsRelayer(t, w)
    BY <1>1, <1>2 DEF KeepsPacket, KeepsMade, KeepsRelayer
  <2>3. Does(t, x, b, w)
    BY <1>3
  <2> HIDE DEF b, w
  <2>4. Done(t, x, b, w)
    BY <2>1, <2>2, <2>3, StatementDone
  <2>5. /\ TodoEffect(t, x) /\ ThreadEffect(t, x) /\ FieldEffect(t, x)
        /\ SessionEffect(t, x) /\ RelayerEffect(t, x) /\ LockEffect(t, x)
    BY <1>1, <1>2, <2>1, <2>2, <2>4
    DEF Done, TodoEffect, ThreadEffect, FieldEffect, SessionEffect,
        RelayerEffect, LockEffect, KeepsSession, KeepsFields, KeepsRelayers,
        KeepsLock, KeepsPacket, KeepsMade, KeepsRelayer
  <2>6. Effect(t, x)
    BY <2>1, <2>2, <2>4, <2>5, WorksEffect
  <2> QED BY <2>6
<1>4. CASE Does(t, "fillTargets",
               [binder EXCEPT !.modCount = @ + 1],
               Goes(t))
  <2> DEFINE b == [binder EXCEPT !.modCount = @ + 1]
             w == Goes(t)
             x == "fillTargets"
  <2>1. /\ b \in BinderType /\ KeepsSession(b) /\ KeepsFields(b)
        /\ KeepsRelayers(b) /\ KeepsLock(b) /\ KeepsCtrl(b)
    BY <1>1
    DEF Types, BinderType, KeepsSession, KeepsFields, KeepsRelayers, KeepsLock,
        KeepsCtrl
  <2>2. /\ w \in ThreadType /\ w.todo = Tail(thread[t].todo)
        /\ w.call = thread[t].call /\ w.alive = thread[t].alive
        /\ KeepsPacket(t, w) /\ KeepsMade(t, w) /\ KeepsRelayer(t, w)
    BY <1>1, <1>2 DEF KeepsPacket, KeepsMade, KeepsRelayer
  <2>3. Does(t, x, b, w)
    BY <1>4
  <2> HIDE DEF b, w
  <2>4. Done(t, x, b, w)
    BY <2>1, <2>2, <2>3, StatementDone
  <2>5. /\ TodoEffect(t, x) /\ ThreadEffect(t, x) /\ FieldEffect(t, x)
        /\ SessionEffect(t, x) /\ RelayerEffect(t, x) /\ LockEffect(t, x)
    BY <1>1, <1>2, <2>1, <2>2, <2>4
    DEF Done, TodoEffect, ThreadEffect, FieldEffect, SessionEffect,
        RelayerEffect, LockEffect, KeepsSession, KeepsFields, KeepsRelayers,
        KeepsLock, KeepsPacket, KeepsMade, KeepsRelayer
  <2>6. Effect(t, x)
    BY <2>1, <2>2, <2>4, <2>5, WorksEffect
  <2> QED BY <2>6
<1> QED BY <1>3, <1>4 DEF Reloads

LEMMA NewCallEffect ==
  ASSUME Kept, NEW t \in Thread, NewCall(t)
  PROVE  \E x : Effect(t, x)
<1>1. Types /\ Busy(t)
  BY DEF Kept, NewCall, Does, At
<1>2. /\ Goes(t) \in ThreadType /\ Goes(t).todo = Tail(thread[t].todo)
      /\ Goes(t).call = thread[t].call /\ Goes(t).packet = thread[t].packet
      /\ Goes(t).made = thread[t].made
      /\ Goes(t).relayer = thread[t].relayer
      /\ Goes(t).alive = thread[t].alive
  BY <1>1, GoesType
<1>3. PICK c \in OwnCall \ binder.begun :
        Does(t, "newCall",
             [binder EXCEPT !.begun = @ \cup {c},
                !.session = SetSessionParamCodec(@, AccountLevel, c)],
             [Goes(t) EXCEPT !.packet = [NoPacket EXCEPT !.ssrc = c]])
  BY DEF NewCall
<1>4. c \in Call /\ c \in OwnCall
  BY OwnCallAssumption
<1>5. CASE Does(t, "newCall",
               [binder EXCEPT !.begun = @ \cup {c},
              !.session = SetSessionParamCodec(@, AccountLevel, c)],
               [Goes(t) EXCEPT !.packet = [NoPacket EXCEPT !.ssrc = c]])
  <2> DEFINE b == [binder EXCEPT !.begun = @ \cup {c},
              !.session = SetSessionParamCodec(@, AccountLevel, c)]
             w == [Goes(t) EXCEPT !.packet = [NoPacket EXCEPT !.ssrc = c]]
             x == "newCall"
  <2>1. /\ b \in BinderType
        /\ b.session = SetSessionParamCodec(binder.session, AccountLevel, c)
        /\ KeepsFields(b) /\ KeepsRelayers(b) /\ KeepsLock(b) /\ KeepsCtrl(b)
    BY <1>1, <1>4, SessionEdited
    DEF Types, BinderType, KeepsFields, KeepsRelayers, KeepsLock, KeepsCtrl
  <2>2. /\ w \in ThreadType /\ w.todo = Tail(thread[t].todo)
        /\ w.call = thread[t].call /\ w.alive = thread[t].alive
        /\ w.packet.ssrc = c /\ KeepsMade(t, w) /\ KeepsRelayer(t, w)
    BY <1>1, <1>2, <1>4, NewTypes DEF ThreadType, KeepsMade, KeepsRelayer
  <2>3. Does(t, x, b, w)
    BY <1>5
  <2> HIDE DEF b, w
  <2>4. Done(t, x, b, w)
    BY <2>1, <2>2, <2>3, StatementDone
  <2>5. /\ TodoEffect(t, x) /\ ThreadEffect(t, x) /\ FieldEffect(t, x)
        /\ SessionEffect(t, x) /\ RelayerEffect(t, x) /\ LockEffect(t, x)
    BY <1>1, <1>2, <2>1, <2>2, <2>4, <1>4
    DEF Done, TodoEffect, ThreadEffect, FieldEffect, SessionEffect,
        RelayerEffect, LockEffect, KeepsFields, KeepsRelayers, KeepsLock,
        KeepsMade, KeepsRelayer
  <2>6. Effect(t, x)
    BY <2>1, <2>2, <2>4, <2>5, WorksEffect
  <2> QED BY <2>6
<1> QED BY <1>3, <1>5

LEMMA EndsCtrlEffect ==
  ASSUME Kept, NEW t \in Thread, EndsCtrl(t)
  PROVE  Effect(t, "endCtrl")
<1> DEFINE x == "endCtrl"
           w == Rests(Goes(t))
<1>1. Types /\ Busy(t)
  BY DEF Kept, EndsCtrl, At
<1>2. /\ Goes(t) \in ThreadType /\ Goes(t).todo = Tail(thread[t].todo)
      /\ Goes(t).call = thread[t].call /\ Goes(t).packet = thread[t].packet
      /\ Goes(t).made = thread[t].made /\ Goes(t).relayer = thread[t].relayer
      /\ Goes(t).alive = thread[t].alive
  BY <1>1, GoesType
<1>3. /\ w \in ThreadType /\ w.todo = Tail(thread[t].todo)
      /\ w.alive = thread[t].alive
      /\ w.todo = <<>> => w.call = "none" /\ w.made = NoPacket
      /\ w.todo # <<>> => w = Goes(t)
  BY <1>2, RestsEffect
<1>4. \A u \in Thread \ {t} : /\ thread'[u] = [thread[u] EXCEPT !.alive = FALSE]
                              /\ thread'[u] \in ThreadType
                              /\ thread[u] \in ThreadType
  <2>1. ASSUME NEW v \in ThreadType
        PROVE  [v EXCEPT !.alive = FALSE] \in ThreadType
    BY DEF ThreadType
  <2> QED BY <1>1, <2>1 DEF EndsCtrl, Types
<1>5. thread' = [u \in Thread |-> IF u = t THEN w
                                ELSE [thread[u] EXCEPT !.alive = FALSE]]
  BY DEF EndsCtrl
<1> HIDE DEF w
<1>6. thread' \in [Thread -> ThreadType] /\ thread'[t] = w
  BY <1>3, <1>4, <1>5
<1>7. \A u \in Thread \ {t} : Same(u) /\ ~thread'[u].alive
  BY <1>4 DEF Same, ThreadType
<1>8. /\ binder' \in BinderType /\ binder'.ctrl = None
      /\ binder'.session = binder.session /\ binder'.relayer = binder.relayer
      /\ binder'.mic = binder.mic /\ binder'.spk = binder.spk
      /\ binder'.monitor = binder.monitor
  BY <1>1 DEF EndsCtrl, Types, BinderType
<1>9. Running /\ Now(t, x) /\ overlapped' = overlapped /\ calls' = calls
  BY AtIsNow DEF EndsCtrl
<1>10. /\ TodoEffect(t, x) /\ ThreadEffect(t, x) /\ FieldEffect(t, x)
       /\ SessionEffect(t, x) /\ RelayerEffect(t, x) /\ LockEffect(t, x)
       /\ AliveEffect(t, x)
  BY <1>2, <1>3, <1>6, <1>7, <1>8
  DEF TodoEffect, ThreadEffect, FieldEffect, SessionEffect, RelayerEffect,
      LockEffect, AliveEffect
<1> QED
  BY <1>1, <1>3, <1>6, <1>7, <1>8, <1>9, <1>10 DEF Effect, Works

LEMMA BeginsCtrlEffect ==
  ASSUME Kept, NEW t \in Thread, BeginsCtrl(t)
  PROVE  Effect(t, "beginCtrl")
<1> DEFINE x == "beginCtrl"
           w == Rests(Goes(t))
<1>1. Types /\ Busy(t)
  BY DEF Kept, BeginsCtrl, At
<1>2. /\ Goes(t) \in ThreadType /\ Goes(t).todo = Tail(thread[t].todo)
      /\ Goes(t).call = thread[t].call /\ Goes(t).packet = thread[t].packet
      /\ Goes(t).made = thread[t].made /\ Goes(t).relayer = thread[t].relayer
      /\ Goes(t).alive = thread[t].alive
  BY <1>1, GoesType
<1>3. /\ w \in ThreadType /\ w.todo = Tail(thread[t].todo)
      /\ w.alive = thread[t].alive
      /\ w.todo = <<>> => w.call = "none" /\ w.made = NoPacket
      /\ w.todo # <<>> => w = Goes(t)
  BY <1>2, RestsEffect
<1>4. PICK r \in Receiver :
        /\ ~Busy(r)
        /\ binder' = [binder EXCEPT !.ctrl = r]
        /\ thread' = [thread EXCEPT ![t] = w, ![r] = Idle]
  BY DEF BeginsCtrl
<1>5. r # t /\ r \in Thread
  BY <1>1, <1>4 DEF Thread
<1> HIDE DEF w
<1>6. /\ thread'[t] = w /\ thread'[r] = Idle
      /\ \A u \in Thread \ {t, r} : thread'[u] = thread[u]
      /\ thread' \in [Thread -> ThreadType]
  BY <1>1, <1>3, <1>4, <1>5, IdleType DEF Types
<1>7. Same(r)
  <2>1. ThreadKept(r) /\ thread[r].todo = <<>>
    BY <1>4, <1>5 DEF Kept, Busy
  <2> QED BY <1>6, <2>1 DEF Same, ThreadKept, Idle
<1>8. \A u \in Thread \ {t} : Same(u)
  BY <1>6, <1>7 DEF Same
<1>9. /\ binder' \in BinderType /\ binder'.ctrl = r
      /\ binder'.session = binder.session /\ binder'.relayer = binder.relayer
      /\ binder'.mic = binder.mic /\ binder'.spk = binder.spk
      /\ binder'.monitor = binder.monitor
  BY <1>1, <1>4 DEF Types, BinderType
<1>10. Running /\ Now(t, x) /\ overlapped' = overlapped /\ calls' = calls
  BY AtIsNow DEF BeginsCtrl
<1>11. /\ TodoEffect(t, x) /\ ThreadEffect(t, x) /\ FieldEffect(t, x)
       /\ SessionEffect(t, x) /\ RelayerEffect(t, x) /\ LockEffect(t, x)
  BY <1>2, <1>3, <1>6, <1>9
  DEF TodoEffect, ThreadEffect, FieldEffect, SessionEffect, RelayerEffect,
      LockEffect
<1>12. AliveEffect(t, x)
  BY <1>3, <1>4, <1>5, <1>6, <1>9 DEF AliveEffect
<1> QED
  BY <1>1, <1>3, <1>6, <1>8, <1>9, <1>10, <1>11, <1>12 DEF Effect, Works

(* Whatever step a thread makes, its effect is that of one statement. *)
(* Every statement has an effect, and none has any other. *)
LEMMA StepEffect ==
  ASSUME Kept, NEW t \in Thread, Step(t)
  PROVE  \E x : Effect(t, x)
BY HasEffect, HaltEffect, ClearsEffect, EndsSessionEffect, MakesEffect,
   IteratesEffect, QueuesEffect, RunsEffect, ListChangedEffect, DecidesEffect,
   TakesOverEffect, BindsEffect, DeciphersEffect, SetsSpeakerEffect,
   NewCallEffect, MakesKeyEffect, SetsMicEffect, LocksEffect, EndsCtrlEffect,
   BeginsCtrlEffect, BindsNoCtrlEffect, ReloadsEffect DEF Step

-----------------------------------------------------------------------------
(* The list of a thread after its statement x. *)
Onward(t, x) ==
  /\ Fits(thread'[t].call, thread'[t].todo)
  /\ thread'[t].todo = <<>> =>
       /\ \A y : ~Later(t, y)' /\ ~Now(t, y)'
       /\ ~Ending(thread'[t].todo)
  /\ thread'[t].todo # <<>> =>
       /\ Works(t, x) /\ thread'[t].call = thread[t].call
       /\ \A y \in Once :
            Later(t, y)' <=> /\ Later(t, y) /\ y # x
                             /\ ~(/\ x = "hasSpk" /\ y = "clearSpk"
                                  /\ binder.spk = None)
                             /\ ~(/\ x = "hasMic" /\ y = "clearMic"
                                  /\ binder.mic = None)
       /\ Now(t, "haltSpk")' => x = "hasSpk" /\ binder.spk # None
       /\ Now(t, "clearSpk")' => x = "haltSpk" /\ binder.spk # None
       /\ Now(t, "haltMic")' => x = "hasMic" /\ binder.mic # None
       /\ Now(t, "clearMic")' => x = "haltMic" /\ binder.mic # None
       /\ Now(t, "stop")' => x = "clearMic"
       /\ Now(t, "queue")' <=> x = "sockets"
       /\ x \in {"stop", "start"} => Now(t, "sockets")'
       /\ Ending(thread'[t].todo) =>
            \/ x \in {"clearSpk", "clearMic"}
            \/ Ending(thread[t].todo) /\ x # "endSession"

LEMMA OnwardFacts ==
  ASSUME Kept, NEW t \in Thread, NEW x, Effect(t, x)
  PROVE  Onward(t, x)
<1> DEFINE s == thread[t].todo
           u == thread'[t].todo
           c == thread[t].call
<1>1. /\ Types /\ ThreadKept(t) /\ Fits(c, s) /\ s # <<>> /\ Is(s, x)
      /\ \A y : Is(s, y) <=> y = x
  BY DEF Kept, ThreadKept, Effect, Busy, Now, Is
<1> DEFINE L(y) == Later(t, y)'   N(y) == Now(t, y)'
<1>4. \A y : /\ L(y) <=> Ahead(u, y)
             /\ N(y) <=> Is(u, y)
             /\ Later(t, y) <=> Ahead(s, y)
  BY DEF Later, Now
<1>2. CASE u = <<>>
  <2>1. Fits(thread'[t].call, u)
    BY <1>2 DEF Effect, Fits
  <2>2. ~Ending(u) /\ \A y : ~Ahead(u, y) /\ ~Is(u, y)
    BY <1>2 DEF Ending, Ahead, Is
  <2> QED BY <1>2, <2>1, <2>2 DEF Onward, Later, Now
<1>3. CASE u # <<>>
  <2>1. Works(t, x)
    BY <1>3 DEF Effect, Fails
  <2>2. thread'[t].call = c
    BY <1>3, <2>1 DEF Works, ThreadEffect
  <2>3. CASE /\ u = Tail(s)
             /\ x = "hasSpk" \/ x = "haltSpk" => binder.spk # None
             /\ x = "hasMic" \/ x = "haltMic" => binder.mic # None
    <3>1. Fits(c, u) /\ Followed(s, u)
      BY <1>1, <2>3, FitsTail
    <3> QED
      BY <1>1, <1>3, <2>1, <2>2, <2>3, <3>1, <1>4 DEF Onward, Followed
  <2>4. CASE /\ x = "hasSpk" /\ binder.spk = None
             /\ u = SubSeq(s, Len(EndRtpReceiver) + 1, Len(s))
    <3>1. /\ Fits(c, u) /\ Fresh(u)
          /\ \A y \in Once : Ahead(u, y) <=> Ahead(s, y) /\ y # "clearSpk"
      BY <1>1, <2>4, FitsWithoutReceiver
    <3> QED
      BY <1>1, <1>3, <2>1, <2>2, <2>4, <3>1, <1>4 DEF Onward, Fresh, Once
  <2>5. CASE /\ x = "hasMic" /\ binder.mic = None
             /\ u = SubSeq(s, Len(EndRtpSender) + 1, Len(s))
    <3>1. /\ Fits(c, u) /\ Fresh(u)
          /\ \A y \in Once : Ahead(u, y) <=> Ahead(s, y) /\ y # "clearMic"
      BY <1>1, <2>5, FitsWithoutSender
    <3> QED
      BY <1>1, <1>3, <2>1, <2>2, <2>5, <3>1, <1>4 DEF Onward, Fresh, Once
  <2> QED BY <1>3, <2>1, <2>3, <2>4, <2>5 DEF Works, TodoEffect
<1> QED BY <1>2, <1>3

(* The relayers stay in use, and at most one is made. *)
LEMMA RelayerFacts ==
  ASSUME Kept, NEW t \in Thread, NEW x, Effect(t, x)
  PROVE  /\ \A r \in Relayer : Used(r) => Used(r)'
         /\ \A r \in Relayer : Used(r)' \/ binder'.relayer[r] = NoRelayer
         /\ \/ \A r \in Relayer : Used(r)' <=> Used(r)
            \/ /\ x \in {"bind", "setMic"} /\ New \in Relayer
               /\ binder'.relayer[New].kind # "none"
               /\ \A r \in Relayer \ {New} : Used(r)' <=> Used(r)
         /\ x \in {"bind", "setMic"} /\ thread'[t].todo # <<>> =>
              New \in Relayer /\ binder'.relayer[New].kind # "none"
<1> DEFINE old == binder.relayer
           new == binder'.relayer
<1>1. /\ old \in [Relayer -> RelayerType]
      /\ binder.mic \in Relayer \cup {None} /\ binder.spk \in Relayer \cup {None}
      /\ binder.mic # None => Used(binder.mic)
      /\ binder.spk # None => Used(binder.spk)
      /\ \A r \in Relayer : Used(r) \/ old[r] = NoRelayer
  BY DEF Kept, Types, BinderType, RelayersKept
<1>2. ThreadKept(t) /\ Ordered(thread[t].call, thread[t].todo) /\ Now(t, x)
  BY BusyFacts DEF Kept, Effect
<1>3. \A r : /\ Used(r)' <=> new[r].kind # "none"
             /\ Used(r) <=> old[r].kind # "none"
  BY DEF Used
<1>4. CASE /\ new = old
           /\ x \in {"bind", "setMic"} => thread'[t].todo = <<>>
  BY <1>1, <1>3, <1>4
<1>5. CASE /\ x \in {"haltSpk", "haltMic"}
           /\ \E r \in Relayer :
                /\ Used(r)
                /\ new = [old EXCEPT ![r] =
                            [@ EXCEPT !.working = FALSE, !.open = FALSE]]
  <2>1. PICK r \in Relayer : /\ Used(r)
                             /\ new = [old EXCEPT ![r] =
                                  [@ EXCEPT !.working = FALSE, !.open = FALSE]]
    BY <1>5
  <2>2. new[r].kind = old[r].kind /\ \A q \in Relayer \ {r} : new[q] = old[q]
    BY <1>1, <2>1 DEF RelayerType
  <2> QED BY <1>1, <1>3, <1>5, <2>1, <2>2
<1>6. CASE /\ x = "run" /\ ToRun(t) # None
           /\ new = [old EXCEPT ![ToRun(t)] = [@ EXCEPT !.started = TRUE]]
  <2>1. ToRun(t) \in Relayer /\ Used(ToRun(t))
    BY <1>1, <1>6 DEF ToRun
  <2>2. /\ new[ToRun(t)].kind = old[ToRun(t)].kind
        /\ \A q \in Relayer \ {ToRun(t)} : new[q] = old[q]
    BY <1>1, <1>6, <2>1 DEF RelayerType
  <2> QED BY <1>1, <1>3, <1>6, <2>1, <2>2
<1>7. CASE /\ x = "decipher"
           /\ new = [old EXCEPT ![thread[t].relayer] =
                       [@ EXCEPT !.key = binder.session.key]]
  <2>1. thread[t].relayer \in Relayer /\ Used(thread[t].relayer)
    BY <1>2, <1>7 DEF ThreadKept, Ordered, Once, Now, Later
  <2>2. /\ new[thread[t].relayer].kind = old[thread[t].relayer].kind
        /\ \A q \in Relayer \ {thread[t].relayer} : new[q] = old[q]
    BY <1>1, <1>7, <2>1 DEF RelayerType
  <2> QED BY <1>1, <1>3, <1>7, <2>1, <2>2
<1>8. ASSUME NEW v, v.kind # "none", x \in {"bind", "setMic"},
             new = [old EXCEPT ![New] = v]
      PROVE  /\ New \in Relayer /\ old[New] = NoRelayer
             /\ binder'.relayer[New].kind # "none"
             /\ \A q \in Relayer \ {New} : new[q] = old[q]
  <2>1. t \in Making
    BY <1>2, <1>8 DEF Making, Ordered, Once, Now, Later
  <2>2. New \in Relayer /\ old[New] = NoRelayer
    BY <2>1, NewFacts
  <2>3. new[New] = v
    BY <1>1, <1>8, <2>2
  <2> QED BY <1>1, <1>3, <1>8, <2>2, <2>3
<1>9. CASE \E v : /\ v.kind # "none" /\ x \in {"bind", "setMic"}
                  /\ new = [old EXCEPT ![New] = v]
  <2>1. /\ New \in Relayer /\ old[New] = NoRelayer
        /\ binder'.relayer[New].kind # "none"
        /\ \A q \in Relayer \ {New} : new[q] = old[q]
    BY <1>8, <1>9
  <2>2. \A q \in Relayer \ {New} : Used(q)' <=> Used(q)
    BY <1>3, <2>1
  <2>3. NoRelayer.kind = "none"
    BY DEF NoRelayer
  <2>4. Used(New) <=> FALSE
    BY <2>1, <2>3 DEF Used
  <2>5. \A r \in Relayer : Used(r) => Used(r)'
    BY <2>2, <2>4
  <2>6. \A r \in Relayer : Used(r)' \/ new[r] = NoRelayer
    BY <1>1, <1>3, <2>1
  <2> QED BY <1>9, <2>1, <2>2, <2>5, <2>6
<1>10. CASE Fails(t, x)
  BY <1>4, <1>10 DEF Fails
<1>11. CASE Works(t, x)
  <2>1. RelayerEffect(t, x) /\ TodoEffect(t, x)
    BY <1>11 DEF Works
  <2>2. CASE x \in {"haltSpk", "haltMic"}
    <3>1. \/ x = "haltSpk" /\ binder.spk # None
          \/ x = "haltMic" /\ binder.mic # None
      BY <2>1, <2>2 DEF TodoEffect
    <3> QED BY <1>1, <1>5, <2>1, <2>2, <3>1 DEF RelayerEffect
  <2>3. CASE x = "run"
    BY <1>6, <2>1, <2>3 DEF RelayerEffect
  <2>4. CASE x = "decipher"
    BY <1>7, <2>1, <2>4 DEF RelayerEffect
  <2>5. CASE x = "bind"
    <3>1. /\ NoRelayer.kind = "none"
          /\ [NoRelayer EXCEPT !.kind = "spk", !.call = thread[t].packet.ssrc,
                               !.open = TRUE, !.working = TRUE].kind = "spk"
      BY DEF NoRelayer
    <3> QED BY <1>4, <1>9, <2>1, <2>5, <3>1 DEF RelayerEffect
  <2>6. CASE x = "setMic"
    <3>1. [NoRelayer EXCEPT !.kind = "mic", !.call = thread[t].packet.ssrc,
                            !.key = thread[t].packet.ssrc,
                            !.working = TRUE].kind = "mic"
      BY DEF NoRelayer
    <3> QED BY <1>9, <2>1, <2>6, <3>1 DEF RelayerEffect
  <2> QED BY <1>4, <2>1, <2>2, <2>3, <2>4, <2>5, <2>6 DEF RelayerEffect
<1> QED BY <1>10, <1>11 DEF Effect

LEMMA StepKeepsTypes ==
  ASSUME Kept, NEW t \in Thread, NEW x, Effect(t, x)
  PROVE  Types'
BY DEF Kept, Types, Effect

(* What a step of thread t leaves of what another thread u knows. *)
LEMMA OtherKept ==
  ASSUME Kept, NEW t \in Thread, NEW x, Effect(t, x), NEW u \in Thread \ {t}
  PROVE  /\ ThreadKept(u)'
         /\ \A y : (Later(u, y)' <=> Later(u, y)) /\ (Now(u, y)' <=> Now(u, y))
<1>1. Same(u) /\ ThreadKept(u)
  BY DEF Effect, Kept
<1>2. \A r \in Relayer : Used(r) => Used(r)'
  BY RelayerFacts
<1>3. \A y : (Later(u, y)' <=> Later(u, y)) /\ (Now(u, y)' <=> Now(u, y))
  BY <1>1 DEF Same, Later, Now
<1>4. CASE thread[u].todo = <<>>
  <2>1. /\ thread'[u].todo = <<>> /\ thread'[u].call = "none"
        /\ thread'[u].made = NoPacket /\ Fits(thread'[u].call, thread'[u].todo)
    BY <1>1, <1>4 DEF Same, ThreadKept
  <2> QED BY <1>1, <1>3, <2>1 DEF ThreadKept, Same
<1>5. CASE thread[u].todo # <<>>
  <2>1. /\ thread'[u].todo = thread[u].todo /\ thread'[u].call = thread[u].call
        /\ thread'[u].packet = thread[u].packet
        /\ thread'[u].relayer = thread[u].relayer
        /\ thread'[u].made = thread[u].made
    BY <1>1, <1>5 DEF Same
  <2> QED BY <1>1, <1>2, <1>3, <2>1 DEF ThreadKept
<1> QED BY <1>3, <1>4, <1>5

LEMMA OwnKept ==
  ASSUME Kept, NEW t \in Thread, NEW x, Effect(t, x)
  PROVE  ThreadKept(t)'
<1> DEFINE w == thread[t]
           v == thread'[t]
<1>1. /\ Onward(t, x) /\ ThreadKept(t) /\ Ordered(w.call, w.todo) /\ Now(t, x)
  BY OnwardFacts, BusyFacts DEF Kept, Effect
<1>2. CASE v.todo = <<>>
  <2>1. v.call = "none" /\ v.made = NoPacket
    BY <1>2 DEF Effect
  <2> QED BY <1>1, <1>2, <2>1 DEF ThreadKept, Onward
<1>3. CASE v.todo # <<>>
  <2>1. /\ ThreadEffect(t, x) /\ SessionEffect(t, x) /\ v.call = w.call
        /\ Fits(v.call, v.todo)
    BY <1>1, <1>3 DEF Onward, Works
  <2>2. v.call = "start" => v.packet \in StartPacket
    BY <1>1, <1>3, <2>1 DEF ThreadEffect, ThreadKept, Ordered, Once, Now
  <2>3. v.call = "stop" => v.packet \in StopPacket
    BY <1>1, <1>3, <2>1 DEF ThreadEffect, ThreadKept, Ordered, Once, Now
  <2>4. v.call = "press" /\ ~Later(t, "newCall")' => v.packet.ssrc \in Call
    BY <1>1, <1>3, <2>1, OwnCallAssumption
    DEF ThreadEffect, SessionEffect, ThreadKept, Onward, Once
  <2>5. ASSUME \/ v.call = "start" /\ ~Later(t, "bind")'
               \/ v.call = "press" /\ ~Later(t, "setMic")'
        PROVE  v.relayer \in Relayer /\ binder'.relayer[v.relayer].kind # "none"
    <3>1. CASE x \in {"bind", "setMic"}
      BY <1>3, <2>1, <3>1, RelayerFacts DEF ThreadEffect
    <3>2. CASE x \notin {"bind", "setMic"}
      <4>1. \/ w.call = "start" /\ ~Later(t, "bind")
            \/ w.call = "press" /\ ~Later(t, "setMic")
        BY <1>1, <1>3, <2>1, <2>5, <3>2 DEF Onward, Once
      <4>2. w.relayer \in Relayer /\ Used(w.relayer)
        BY <1>1, <4>1 DEF ThreadKept
      <4>3. x \notin {"haltSpk", "haltMic"}
        BY <1>1, <4>1 DEF Ordered, Now, Later
      <4> QED
        BY <1>3, <2>1, <3>2, <4>2, <4>3, RelayerFacts DEF ThreadEffect, Used
    <3> QED BY <3>1, <3>2
  <2> QED
    BY <1>1, <1>3, <2>1, <2>2, <2>3, <2>4, <2>5 DEF ThreadKept, Used
<1> QED BY <1>2, <1>3

LEMMA StepKeepsRelayers ==
  ASSUME Kept, NEW t \in Thread, NEW x, Effect(t, x)
  PROVE  RelayersKept'
<1>1. /\ \A r \in Relayer : Used(r) => Used(r)'
      /\ \A r \in Relayer : Used(r)' \/ binder'.relayer[r] = NoRelayer
      /\ x \in {"bind", "setMic"} /\ thread'[t].todo # <<>> =>
           New \in Relayer /\ binder'.relayer[New].kind # "none"
  BY RelayerFacts
<1>2. /\ binder.mic # None => binder.mic \in Relayer /\ Used(binder.mic)
      /\ binder.spk # None => binder.spk \in Relayer /\ Used(binder.spk)
  BY DEF Kept, Types, BinderType, RelayersKept
<1>3. ThreadKept(t) /\ Ordered(thread[t].call, thread[t].todo) /\ Now(t, x)
  BY BusyFacts DEF Kept, Effect
<1>4. CASE Fails(t, x)
  <2>1. /\ binder'.mic # None => binder'.relayer[binder'.mic].kind # "none"
        /\ binder'.spk # None => binder'.relayer[binder'.spk].kind # "none"
    BY <1>2, <1>4 DEF Fails, Used
  <2> QED BY <1>1, <2>1 DEF RelayersKept, Used
<1>5. CASE Works(t, x)
  <2>0. FieldEffect(t, x)
    BY <1>5 DEF Works
  <2>1. \/ binder'.mic = binder.mic \/ binder'.mic = None
        \/ x = "setMic" /\ binder'.mic = New
    BY <2>0 DEF FieldEffect
  <2>2. \/ binder'.spk = binder.spk \/ binder'.spk = None
        \/ x = "setSpk" /\ binder'.spk = thread[t].relayer
    BY <2>0 DEF FieldEffect
  <2>3. x = "setSpk" => thread[t].relayer \in Relayer /\ Used(thread[t].relayer)
    BY <1>3 DEF ThreadKept, Ordered, Once, Now, Later
  <2>4. x = "setMic" => binder'.relayer[New].kind # "none"
    <3> SUFFICES ASSUME x = "setMic" PROVE binder'.relayer[New].kind # "none"
      OBVIOUS
    <3>1. New \in Relayer
      BY <1>3, NewFacts DEF Making, Ordered, Once, Now, Later
    <3>2. binder.relayer \in [Relayer -> RelayerType]
      BY DEF Kept, Types, BinderType
    <3>3. [NoRelayer EXCEPT !.kind = "mic", !.call = thread[t].packet.ssrc,
                            !.key = thread[t].packet.ssrc,
                            !.working = TRUE].kind = "mic"
      BY DEF NoRelayer
    <3> QED BY <1>5, <3>1, <3>2, <3>3 DEF Works, RelayerEffect
  <2>5. binder'.mic # None => binder'.relayer[binder'.mic].kind # "none"
    BY <1>1, <1>2, <2>1, <2>4 DEF Used
  <2>6. binder'.spk # None => binder'.relayer[binder'.spk].kind # "none"
    BY <1>1, <1>2, <2>2, <2>3 DEF Used
  <2> QED BY <1>1, <2>5, <2>6 DEF RelayersKept, Used
<1> QED BY <1>4, <1>5 DEF Effect

(* A name for the next relayer: of a step and of a call. *)
LEMMA StepKeepsNames ==
  ASSUME Kept, NEW t \in Thread, NEW x, Effect(t, x)
  PROVE  \E k : Named(k)'
<1>1. PICK k : Named(k)
  BY DEF Kept
<1>2. /\ Onward(t, x) /\ ThreadKept(t) /\ Ordered(thread[t].call, thread[t].todo)
      /\ Now(t, x) /\ calls' = calls /\ calls \in Nat
  BY OnwardFacts, BusyFacts DEF Kept, Effect, Types
<1>3. /\ k \in Nat /\ IsFiniteSet(Making) /\ Cardinality(Making) \in Nat
      /\ k + Cardinality(Making) <= calls
      /\ \A r \in Relayer : Used(r) <=> r <= k
  BY <1>1, FS_CardinalityType DEF Named
<1>4. \A y \in {"bind", "setMic"} : Later(t, y)' => Later(t, y) /\ y # x
  BY <1>2 DEF Onward, Once
<1>5. \A u \in Thread \ {t} : u \in Making' <=> u \in Making
  BY OtherKept DEF Making
<1>6. Making' \subseteq Making
  BY <1>4, <1>5 DEF Making
<1>7. /\ IsFiniteSet(Making') /\ Cardinality(Making') \in Nat
      /\ Cardinality(Making') <= Cardinality(Making)
  BY <1>3, <1>6, FS_Subset, FS_CardinalityType
<1>8. CASE \A r \in Relayer : Used(r)' <=> Used(r)
  <2>1. Named(k)'
    BY <1>2, <1>3, <1>7, <1>8 DEF Named
  <2> QED BY <2>1
<1>9. CASE /\ x \in {"bind", "setMic"} /\ New \in Relayer
           /\ binder'.relayer[New].kind # "none"
           /\ \A r \in Relayer \ {New} : Used(r)' <=> Used(r)
  <2>1. t \in Making
    BY <1>2, <1>9 DEF Making, Ordered, Once, Now, Later
  <2>2. t \notin Making'
    BY <1>2, <1>4, <1>9 DEF Making, Ordered, Once, Now, Later
  <2>3. Making' \subseteq Making \ {t}
    BY <1>6, <2>2
  <2>4. /\ IsFiniteSet(Making \ {t})
        /\ Cardinality(Making \ {t}) = Cardinality(Making) - 1
    BY <1>3, <2>1, FS_RemoveElement
  <2>5. Cardinality(Making') <= Cardinality(Making) - 1
    BY <2>3, <2>4, FS_Subset
  <2>6. New = k + 1 /\ k + 1 \in Nat
    <3>1. New \in Relayer /\ k = New - 1
      BY <1>1, <2>1, NewFacts
    <3> QED BY <1>3, <3>1, MaxCallsAssumption DEF Relayer
  <2>7. \A r \in Relayer : Used(r)' <=> r <= k + 1
    BY <1>3, <1>9, <2>6 DEF Used, Relayer
  <2>8. Named(k + 1)'
    BY <1>2, <1>3, <1>7, <2>5, <2>6, <2>7 DEF Named
  <2> QED BY <2>8
<1> QED BY <1>8, <1>9, RelayerFacts

(* What has the lock goes on until it has given it back. *)
LEMMA NotLast ==
  ASSUME Kept, NEW t \in Thread, NEW x, Effect(t, x), Works(t, x),
         \/ thread[t].call = "link" /\ x # "unlock"
         \/ x = "sockets"
  PROVE  thread'[t].todo # <<>>
<1> DEFINE s == thread[t].todo
           u == thread'[t].todo
           c == thread[t].call
<1>1. /\ Fits(c, s) /\ s # <<>> /\ Is(s, x) /\ Ordered(c, s)
      /\ \A y : Is(s, y) => y = x
  BY BusyFacts DEF Kept, ThreadKept, Effect, Busy, Now, Is
<1>2. \A y : Is(u, y) \/ Ahead(u, y) => u # <<>>
  BY DEF Is, Ahead
<1>3. c = "link" => Ahead(s, "unlock")
  BY <1>1 DEF Ordered
<1>4. TodoEffect(t, x)
  BY DEF Works
<1>5. CASE u = <<>> /\ x \in {"mayBegin", "isOfCall", "bind"}
  BY <1>1, <1>5 DEF Ordered, Once
<1>6. CASE u = Tail(s)
  <2>1. Followed(s, u)
    BY <1>1, <1>6, FitsTail
  <2>2. Is(u, "queue") \/ Ahead(u, "unlock")
    BY <1>1, <1>3, <2>1 DEF Followed, Once
  <2> QED BY <1>2, <2>2
<1>7. CASE x = "hasSpk" /\ u = SubSeq(s, Len(EndRtpReceiver) + 1, Len(s))
  <2>1. /\ Fits(c, u) /\ Fresh(u)
        /\ \A y \in Once : Ahead(u, y) <=> Ahead(s, y) /\ y # "clearSpk"
    BY <1>1, <1>7, FitsWithoutReceiver
  <2>2. Ahead(u, "unlock")
    BY <1>1, <1>3, <1>7, <2>1 DEF Ordered, Once
  <2> QED BY <1>2, <2>2
<1>8. CASE x = "hasMic" /\ u = SubSeq(s, Len(EndRtpSender) + 1, Len(s))
  <2>1. /\ Fits(c, u) /\ Fresh(u)
        /\ \A y \in Once : Ahead(u, y) <=> Ahead(s, y) /\ y # "clearMic"
    BY <1>1, <1>8, FitsWithoutSender
  <2>2. Ahead(u, "unlock")
    BY <1>1, <1>3, <1>8, <2>1 DEF Ordered, Once
  <2> QED BY <1>2, <2>2
<1> QED BY <1>4, <1>5, <1>6, <1>7, <1>8 DEF TodoEffect

LEMMA StepKeepsLock ==
  ASSUME Kept, NEW t \in Thread, NEW x, Effect(t, x)
  PROVE  LockKept'
<1> DEFINE old == binder.monitor
           new == binder'.monitor
<1>1. /\ Onward(t, x) /\ ThreadKept(t) /\ Ordered(thread[t].call, thread[t].todo)
      /\ Now(t, x) /\ \A y : Now(t, y) => y = x
  BY OnwardFacts, BusyFacts DEF Kept, Effect, Now, Is
<1>2. /\ \A u \in Thread : Depth(u) = IF old[1] = u THEN old[2] ELSE 0
      /\ old[1] = None <=> old[2] = 0
      /\ old \in (Thread \cup {None}) \X Nat /\ None \notin Thread
  BY NamesAssumption DEF Kept, LockKept, Types, BinderType
<1>3. \A u \in Thread \ {t} : Depth(u)' = Depth(u)
  BY OtherKept DEF Depth
<1>4. /\ Depth(t) \in {0, 1, 2}
      /\ Now(t, "queue") <=> x = "queue"
      /\ Later(t, "unlock") <=> thread[t].call = "link"
      /\ x = "lock" => Later(t, "lock") /\ Later(t, "unlock")
      /\ x \in {"unlock", "queue"} => ~Later(t, "lock")
  <2>1. Depth(t) \in {0, 1, 2}
    BY DEF Depth
  <2> QED BY <1>1, <2>1 DEF Ordered, Once, Now, Later, Is
<1>5. CASE Fails(t, x)
  <2>1. Depth(t)' = 0
    BY <1>1, <1>5 DEF Onward, Depth, Fails
  <2> QED BY <1>2, <1>3, <1>5, <2>1 DEF Fails, LockKept
<1>6. CASE Works(t, x)
  <2>1. LockEffect(t, x)
    BY <1>6 DEF Works
  <2>2. CASE x = "lock" \/ x = "sockets"
    <3>1. thread'[t].todo # <<>>
      BY <1>1, <1>6, <2>2, NotLast DEF Ordered, Once, Now
    <3>2. Depth(t)' = Depth(t) + 1
      BY <1>1, <1>4, <2>2, <3>1 DEF Onward, Depth, Once
    <3> QED BY <1>2, <1>3, <2>1, <2>2, <3>2 DEF LockEffect, LockKept
  <2>3. CASE x = "unlock" \/ x = "queue"
    <3>1. x = "queue" => thread'[t].todo # <<>> \/ ~Later(t, "unlock")
      BY <1>1, <1>6, NotLast DEF Ordered, Later
    <3>2. CASE x = "unlock"
      <4>1. Depth(t) = 1
        BY <1>1, <1>4, <3>2 DEF Depth, Ordered, Once, Now
      <4>2. Depth(t)' = 0
        BY <1>1, <1>4, <3>2 DEF Depth, Onward, Once
      <4> QED BY <1>2, <1>3, <2>1, <3>2, <4>1, <4>2 DEF LockEffect, LockKept
    <3>3. CASE x = "queue"
      <4>1. Depth(t)' \in {0, 1} /\ Depth(t) = Depth(t)' + 1
        BY <1>1, <1>4, <3>1, <3>3 DEF Depth, Onward, Once
      <4> QED BY <1>2, <1>3, <2>1, <3>3, <4>1 DEF LockEffect, LockKept
    <3> QED BY <2>3, <3>2, <3>3
  <2>4. CASE x \notin {"lock", "sockets", "unlock", "queue"}
    <3>1. thread'[t].todo # <<>> \/ ~Later(t, "unlock")
      BY <1>1, <1>6, <2>4, NotLast DEF Ordered, Later
    <3>2. Depth(t)' = Depth(t)
      BY <1>1, <1>4, <2>4, <3>1 DEF Onward, Depth, Once
    <3> QED BY <1>2, <1>3, <2>1, <2>4, <3>2 DEF LockEffect, LockKept
  <2> QED BY <2>2, <2>3, <2>4
<1> QED BY <1>5, <1>6 DEF Effect

LEMMA StepKept ==
  ASSUME Kept, NEW t \in Thread, NEW x, Effect(t, x)
  PROVE  Kept'
<1>1. \A u \in Thread : ThreadKept(u)'
  BY OtherKept, OwnKept
<1> QED
  BY <1>1, StepKeepsTypes, StepKeepsRelayers, StepKeepsNames, StepKeepsLock
  DEF Kept

-----------------------------------------------------------------------------
(* What a call does: t has the whole of a method ahead. *)
Called(t, call) ==
  LET v == thread'[t]
  IN  /\ Running /\ thread[t].alive /\ ~Busy(t)
      /\ calls < MaxCalls /\ calls' = calls + 1 /\ binder' = binder
      /\ thread' \in [Thread -> ThreadType]
      /\ \A u \in Thread \ {t} : thread'[u] = thread[u]
      /\ overlapped' = overlapped
           \cup {{call, thread[u].call} : u \in {q \in Thread : Busy(q)}}
           \cup {{call, "giveUp"} : r \in GivingUp}
      /\ v.call = call /\ v.made = NoPacket /\ v.alive
      /\ v.todo # <<>> /\ Fits(call, v.todo) /\ Fresh(v.todo)
      /\ IF t = Main THEN call \in {"press", "release", "link", "reload"}
         ELSE call \in {"start", "stop"}
      /\ call = "start" => v.packet \in StartPacket /\ Later(t, "clearSpk")'
      /\ call = "stop" => v.packet \in StopPacket
      /\ call = "press" => Later(t, "clearSpk")'
      /\ call = "link" => Later(t, "lock")'

LEMMA FitsType ==
  ASSUME NEW c, NEW s, Fits(c, s)
  PROVE  s \in Seq(Statement)
<1>1. \A m, n, r : Rest(s, m, n, r) => s \in Seq(Statement)
  BY DEF Rest, List
<1>2. <<>> \in Seq(Statement)
  OBVIOUS
<1> QED BY <1>1, <1>2 DEF Fits

LEMMA CallsCalled ==
  ASSUME Types, NEW t \in Thread, NEW call, NEW packet \in AnyPacket, NEW todo,
         Calls(t, call, packet, todo), Fits(call, todo), Fresh(todo), todo # <<>>,
         IF t = Main THEN call \in {"press", "release", "link", "reload"}
         ELSE call \in {"start", "stop"},
         call = "start" => packet \in StartPacket /\ Ahead(todo, "clearSpk"),
         call = "stop" => packet \in StopPacket,
         call = "press" => Ahead(todo, "clearSpk"),
         call = "link" => Ahead(todo, "lock")
  PROVE  Called(t, call)
<1> DEFINE v == [Idle EXCEPT !.call = call, !.packet = packet, !.todo = todo]
<1>1. todo \in Seq(Statement)
  BY FitsType
<1>2. call \in {"start", "stop", "press", "release", "link", "reload"}
  OBVIOUS
<1>3. /\ v \in ThreadType /\ v.call = call /\ v.packet = packet /\ v.todo = todo
      /\ v.made = NoPacket /\ v.alive = TRUE
  BY <1>1, <1>2, IdleType DEF ThreadType, Idle
<1> HIDE DEF v
<1>4. thread' = [thread EXCEPT ![t] = v]
  BY DEF Calls, v
<1>5. /\ thread' \in [Thread -> ThreadType] /\ thread'[t] = v
      /\ \A u \in Thread \ {t} : thread'[u] = thread[u]
  BY <1>3, <1>4 DEF Types
<1>6. Later(t, "clearSpk")' <=> Ahead(todo, "clearSpk")
  BY <1>3, <1>5 DEF Later
<1>7. Later(t, "lock")' <=> Ahead(todo, "lock")
  BY <1>3, <1>5 DEF Later
<1> QED BY <1>3, <1>5, <1>6, <1>7 DEF Called, Calls

LEMMA NextCalled ==
  ASSUME Types,
         MainCall \/ \E t \in Receiver : ReceiveStart(t) \/ ReceiveStop(t)
  PROVE  \E t \in Thread : \E call : Called(t, call)
<1>0. NoPacket \in AnyPacket /\ Main \in Thread /\ Receiver \subseteq Thread
  BY DEF NoPacket, AnyPacket, Thread
<1>1. ASSUME MainCall
      PROVE  \E call : Called(Main, call)
  <2>1. PICK call \in MainCalls, up \in BOOLEAN :
          Calls(Main, call, NoPacket,
                CASE call = "press" -> BeginRtpSender
                  [] call = "release" -> EndRtpSender
                  [] call = "link" -> SetLocalIpAddress(up)
                  [] call = "reload" -> OnCursorLoadFinish)
    BY <1>1 DEF MainCall
  <2>2. call \in {"press", "release", "link", "reload"}
    BY MainCallsAssumption
  <2>3. CASE call = "press"
    <3>1. Calls(Main, "press", NoPacket, BeginRtpSender)
      BY <2>1, <2>3
    <3> QED BY <1>0, <3>1, FitsMethods, CallsCalled
  <2>4. CASE call = "release"
    <3>1. Calls(Main, "release", NoPacket, EndRtpSender)
      BY <2>1, <2>4
    <3> QED BY <1>0, <3>1, FitsMethods, CallsCalled
  <2>5. CASE call = "link"
    <3>1. Calls(Main, "link", NoPacket, SetLocalIpAddress(up))
      BY <2>1, <2>5
    <3> QED BY <1>0, <3>1, FitsMethods, CallsCalled
  <2>6. CASE call = "reload"
    <3>1. Calls(Main, "reload", NoPacket, OnCursorLoadFinish)
      BY <2>1, <2>6
    <3> QED BY <1>0, <3>1, FitsMethods, CallsCalled
  <2> QED BY <2>2, <2>3, <2>4, <2>5, <2>6
<1>2. ASSUME NEW t \in Receiver, ReceiveStart(t)
      PROVE  \E call : Called(t, call)
  <2>1. PICK c \in Call \ OwnCall, level \in Levels :
          Calls(t, "start",
                [type |-> "START", ssrc |-> c, level |-> level, key |-> c],
                BeginRtpReceiver)
    BY <1>2 DEF ReceiveStart
  <2> DEFINE p == [type |-> "START", ssrc |-> c, level |-> level, key |-> c]
  <2>2. p \in StartPacket /\ p \in AnyPacket
    BY LevelsAssumption DEF StartPacket, AnyPacket
  <2>3. t # Main
    BY NamesAssumption
  <2> HIDE DEF p
  <2>4. Calls(t, "start", p, BeginRtpReceiver)
    BY <2>1 DEF p
  <2> QED BY <1>0, <2>2, <2>3, <2>4, FitsMethods, CallsCalled
<1>3. ASSUME NEW t \in Receiver, ReceiveStop(t)
      PROVE  \E call : Called(t, call)
  <2>1. PICK c \in Call :
          Calls(t, "stop", [type |-> "STOP", ssrc |-> c], EndRtpReceiverStop)
    BY <1>3 DEF ReceiveStop
  <2> DEFINE p == [type |-> "STOP", ssrc |-> c]
  <2>2. p \in StopPacket /\ p \in AnyPacket
    BY DEF StopPacket, AnyPacket
  <2>3. t # Main
    BY NamesAssumption
  <2> HIDE DEF p
  <2>4. Calls(t, "stop", p, EndRtpReceiverStop)
    BY <2>1 DEF p
  <2> QED BY <1>0, <2>2, <2>3, <2>4, FitsMethods, CallsCalled
<1> QED BY <1>0, <1>1, <1>2, <1>3

LEMMA CalledKept ==
  ASSUME Kept, NEW t \in Thread, NEW call, Called(t, call)
  PROVE  Kept'
<1>1. \A u \in Thread \ {t} :
        \A y : (Later(u, y)' <=> Later(u, y)) /\ (Now(u, y)' <=> Now(u, y))
  BY DEF Called, Later, Now
<1>2. Types'
  BY MaxCallsAssumption DEF Kept, Types, Called
<1>3. \A u \in Thread \ {t} : ThreadKept(u)'
  BY <1>1 DEF Kept, Called, ThreadKept, Used
<1>4. ThreadKept(t)'
  <2>1. Ordered(call, thread'[t].todo)
    BY FitsOrdered DEF Called
  <2>2. /\ call = "start" => Later(t, "bind")'
        /\ call = "press" => Later(t, "newCall")' /\ Later(t, "setMic")'
    BY <2>1 DEF Called, Ordered, Later
  <2> QED BY <2>2 DEF Called, ThreadKept
<1>5. RelayersKept'
  BY DEF Kept, Called, RelayersKept, Used
<1>6. \E k : Named(k)'
  <2>1. PICK k : Named(k)
    BY DEF Kept
  <2>2. Making' \subseteq Making \cup {t}
    BY <1>1 DEF Making
  <2>3. /\ IsFiniteSet(Making \cup {t})
        /\ Cardinality(Making \cup {t}) <= Cardinality(Making) + 1
        /\ Cardinality(Making) \in Nat /\ Cardinality(Making \cup {t}) \in Nat
    BY <2>1, FS_AddElement, FS_CardinalityType DEF Named
  <2>4. /\ IsFiniteSet(Making') /\ Cardinality(Making') \in Nat
        /\ Cardinality(Making') <= Cardinality(Making) + 1
    BY <2>2, <2>3, FS_Subset, FS_CardinalityType
  <2>5. \A r \in Relayer : Used(r)' <=> Used(r)
    BY DEF Called, Used
  <2>6. calls \in Nat /\ calls' = calls + 1
    BY DEF Kept, Types, Called
  <2>7. Named(k)'
    BY <2>1, <2>3, <2>4, <2>5, <2>6 DEF Named
  <2> QED BY <2>7
<1>7. LockKept'
  <2>1. \A u \in Thread \ {t} : Depth(u)' = Depth(u)
    BY <1>1 DEF Depth
  <2>2. Depth(t) = 0
    BY DEF Depth, Later, Now, Ahead, Is, Called, Busy
  <2>3. Depth(t)' = 0
    <3>1. Ordered(call, thread'[t].todo) /\ Fresh(thread'[t].todo)
      BY FitsOrdered DEF Called
    <3>2. ~Now(t, "queue")' /\ (Later(t, "unlock")' => Later(t, "lock")')
      BY <3>1 DEF Called, Ordered, Fresh, Now, Later
    <3> QED BY <3>2 DEF Depth
  <2> QED BY <2>1, <2>2, <2>3 DEF Kept, LockKept, Called
<1> QED BY <1>2, <1>3, <1>4, <1>5, <1>6, <1>7 DEF Kept

(* What a relayer does by itself. *)
GivenUp(r) ==
  LET old == binder.relayer
      new == binder'.relayer
  IN  /\ Running /\ old[r].open /\ old[r].started
      /\ new = [old EXCEPT ![r] =
                  [@ EXCEPT !.open = FALSE, !.working = FALSE,
                            !.gaveUp = IsSession(binder.session)]]
      /\ binder'.session = binder.session
      /\ overlapped' = overlapped
           \cup {{"giveUp", thread[u].call} : u \in {q \in Thread : Busy(q)}}

StoppedReceiving(r) ==
  LET old == binder.relayer
      new == binder'.relayer
  IN  /\ Running /\ old[r].gaveUp
      /\ new = [old EXCEPT ![r] = [@ EXCEPT !.gaveUp = FALSE]]
      /\ binder'.session = EndSession(binder.session)
      /\ overlapped' = overlapped

Relayed(r) ==
  /\ GivenUp(r) \/ StoppedReceiving(r)
  /\ binder' \in BinderType
  /\ \A q \in Relayer : /\ binder'.relayer[q].kind = binder.relayer[q].kind
                        /\ binder'.relayer[q].call = binder.relayer[q].call
                        /\ binder'.relayer[q].key = binder.relayer[q].key
                        /\ binder'.relayer[q].started = binder.relayer[q].started
  /\ \A q \in Relayer \ {r} : binder'.relayer[q] = binder.relayer[q]
  /\ Used(r)
  /\ binder'.mic = binder.mic /\ binder'.spk = binder.spk
  /\ binder'.monitor = binder.monitor /\ binder'.ctrl = binder.ctrl
  /\ thread' = thread /\ calls' = calls

LEMMA NextRelayed ==
  ASSUME Kept, NEW r \in Relayer, GivesUp(r) \/ StopsReceiving(r)
  PROVE  Relayed(r)
<1>1. /\ binder \in BinderType /\ binder.relayer \in [Relayer -> RelayerType]
      /\ binder.session \in Session /\ binder.relayer[r] \in RelayerType
  BY DEF Kept, Types, BinderType
<1>2. Used(r)
  <2>1. NoRelayer.open = FALSE /\ NoRelayer.gaveUp = FALSE
    BY DEF NoRelayer
  <2>2. binder.relayer[r].open = TRUE \/ binder.relayer[r].gaveUp = TRUE
    BY <1>1 DEF GivesUp, StopsReceiving, RelayerType
  <2> QED BY <2>1, <2>2 DEF Kept, RelayersKept
<1>3. CASE GivesUp(r)
  <2> DEFINE s == IsSession(binder.session)
             v == [binder.relayer[r] EXCEPT !.open = FALSE, !.working = FALSE,
                                            !.gaveUp = s]
             f == [binder.relayer EXCEPT ![r] = v]
  <2>1. s \in BOOLEAN
    BY DEF IsSession
  <2>2. binder' = [binder EXCEPT !.relayer = f]
    BY <1>1, <1>3 DEF GivesUp, BinderType, RelayerType
  <2> HIDE DEF s
  <2>3. /\ v \in RelayerType /\ v.kind = binder.relayer[r].kind
        /\ v.call = binder.relayer[r].call /\ v.key = binder.relayer[r].key
        /\ v.started = binder.relayer[r].started
    BY <1>1, <2>1 DEF RelayerType
  <2>4. f = [binder.relayer EXCEPT ![r] =
               [@ EXCEPT !.open = FALSE, !.working = FALSE, !.gaveUp = s]]
    OBVIOUS
  <2> HIDE DEF v
  <2>5. f \in [Relayer -> RelayerType] /\ f[r] = v
        /\ \A q \in Relayer \ {r} : f[q] = binder.relayer[q]
    BY <1>1, <2>3
  <2> HIDE DEF f
  <2>6. /\ binder' \in BinderType /\ binder'.relayer = f
        /\ binder'.session = binder.session
        /\ binder'.mic = binder.mic /\ binder'.spk = binder.spk
        /\ binder'.monitor = binder.monitor /\ binder'.ctrl = binder.ctrl
    BY <1>1, <2>2, <2>5 DEF BinderType
  <2>7. GivenUp(r)
    BY <1>3, <2>4, <2>6 DEF GivesUp, GivenUp, s
  <2> QED
    BY <1>2, <1>3, <2>3, <2>5, <2>6, <2>7 DEF GivesUp, Relayed
<1>4. CASE StopsReceiving(r)
  <2> DEFINE v == [binder.relayer[r] EXCEPT !.gaveUp = FALSE]
             f == [binder.relayer EXCEPT ![r] = v]
             e == EndSession(binder.session)
  <2>1. e \in Session
    BY <1>1, SessionEdited
  <2>2. binder' = [binder EXCEPT !.relayer = f, !.session = e]
    BY <1>1, <1>4 DEF StopsReceiving, BinderType, RelayerType
  <2> HIDE DEF e
  <2>3. /\ v \in RelayerType /\ v.kind = binder.relayer[r].kind
        /\ v.call = binder.relayer[r].call /\ v.key = binder.relayer[r].key
        /\ v.started = binder.relayer[r].started
    BY <1>1 DEF RelayerType
  <2>4. f = [binder.relayer EXCEPT ![r] = [@ EXCEPT !.gaveUp = FALSE]]
    OBVIOUS
  <2> HIDE DEF v
  <2>5. f \in [Relayer -> RelayerType] /\ f[r] = v
        /\ \A q \in Relayer \ {r} : f[q] = binder.relayer[q]
    BY <1>1, <2>3
  <2> HIDE DEF f
  <2>6. /\ binder' \in BinderType /\ binder'.relayer = f /\ binder'.session = e
        /\ binder'.mic = binder.mic /\ binder'.spk = binder.spk
        /\ binder'.monitor = binder.monitor /\ binder'.ctrl = binder.ctrl
    BY <1>1, <2>1, <2>2, <2>5 DEF BinderType
  <2>7. StoppedReceiving(r)
    BY <1>4, <2>4, <2>6 DEF StopsReceiving, StoppedReceiving, e
  <2> QED
    BY <1>2, <1>4, <2>3, <2>5, <2>6, <2>7 DEF StopsReceiving, Relayed
<1> QED BY <1>3, <1>4

LEMMA RelayedKept ==
  ASSUME Kept, NEW r \in Relayer, Relayed(r)
  PROVE  Kept'
<1>1. \A q \in Relayer : Used(q)' <=> Used(q)
  BY DEF Relayed, Used
<1>2. Types'
  BY DEF Kept, Types, Relayed
<1>3. \A u \in Thread :
        /\ \A y : (Later(u, y)' <=> Later(u, y)) /\ (Now(u, y)' <=> Now(u, y))
        /\ thread'[u] = thread[u]
  BY DEF Relayed, Later, Now
<1>4. \A u \in Thread : ThreadKept(u)'
  BY <1>1, <1>3 DEF Kept, ThreadKept
<1>5. RelayersKept'
  <2>1. \A q \in Relayer : Used(q)' \/ binder'.relayer[q] = NoRelayer
    BY <1>1 DEF Kept, RelayersKept, Relayed
  <2>2. /\ binder'.mic # None => binder'.relayer[binder'.mic].kind # "none"
        /\ binder'.spk # None => binder'.relayer[binder'.spk].kind # "none"
    BY DEF Kept, Types, BinderType, RelayersKept, Relayed, Used
  <2> QED BY <2>1, <2>2 DEF RelayersKept, Used
<1>6. \E k : Named(k)'
  <2>1. PICK k : Named(k)
    BY DEF Kept
  <2>2. Making' = Making
    BY <1>3 DEF Making
  <2>3. Named(k)'
    BY <1>1, <2>1, <2>2 DEF Named, Relayed
  <2> QED BY <2>3
<1>7. LockKept'
  <2>1. \A u \in Thread : Depth(u)' = Depth(u)
    BY <1>3 DEF Depth
  <2> QED BY <2>1 DEF Kept, LockKept, Relayed
<1> QED BY <1>2, <1>4, <1>5, <1>6, <1>7 DEF Kept

LEMMA InitKept ==
  ASSUME Init
  PROVE  Kept
<1>1. PICK first \in Receiver :
        /\ binder = [session |-> NoSession, mic |-> None, spk |-> None,
                     relayer |-> [r \in Relayer |-> NoRelayer],
                     monitor |-> <<None, 0>>, modCount |-> 0,
                     ctrl |-> first, begun |-> {}]
        /\ thread = [t \in Thread |-> IF t \in {Main, first} THEN Idle ELSE Dead]
        /\ overlapped = {} /\ calls = 0
  BY DEF Init
<1>2. NoRelayer \in RelayerType /\ NoSession \in Session
  BY DEF NoRelayer, RelayerType, NoSession, Session, INVALID_SESSION_LEVEL
<1>3. [r \in Relayer |-> NoRelayer] \in [Relayer -> RelayerType]
  BY <1>2
<1>4. Types
  BY <1>1, <1>2, <1>3, IdleType, MaxCallsAssumption DEF Types, BinderType
<1>5. \A t \in Thread : /\ thread[t].call = "none" /\ thread[t].todo = <<>>
                        /\ thread[t].made = NoPacket
  BY <1>1 DEF Idle, Dead
<1>6. \A t \in Thread : \A y : ~Later(t, y) /\ ~Now(t, y)
  BY <1>5 DEF Later, Now, Ahead, Is
<1>7. \A t \in Thread : ThreadKept(t)
  BY <1>5, <1>6 DEF ThreadKept, Fits
<1>8. binder.mic = None /\ binder.spk = None /\ binder.monitor = <<None, 0>>
  BY <1>1
<1>9. \A r \in Relayer : binder.relayer[r] = NoRelayer /\ ~Used(r)
  BY <1>1 DEF Used, NoRelayer
<1>10. RelayersKept
  BY <1>8, <1>9 DEF RelayersKept
<1>11. Named(0)
  <2>1. Making = {}
    BY <1>6 DEF Making
  <2> QED BY <1>1, <1>9, <2>1, FS_EmptySet DEF Named, Relayer
<1>12. LockKept
  <2>1. \A t \in Thread : Depth(t) = 0
    BY <1>6 DEF Depth
  <2> QED BY <1>8, <2>1, NamesAssumption DEF LockKept
<1> QED BY <1>4, <1>7, <1>10, <1>11, <1>12 DEF Kept

(* Every step is a statement, a call or what a relayer does by itself. *)
LEMMA NextFacts ==
  ASSUME Kept, Next
  PROVE  \/ \E t \in Thread : \E x : Effect(t, x)
         \/ \E t \in Thread : \E call : Called(t, call)
         \/ \E r \in Relayer : Relayed(r)
<1>1. Types
  BY DEF Kept
<1> QED BY <1>1, StepEffect, NextCalled, NextRelayed DEF Next

(* So much holds without any condition on the calls that overlap. *)
LEMMA KeptInvariant == Spec => []Kept
<1>1. Kept /\ [Next]_vars => Kept'
  <2> SUFFICES ASSUME Kept, [Next]_vars
               PROVE  Kept'
    OBVIOUS
  <2>1. CASE Next
    BY <2>1, NextFacts, StepKept, CalledKept, RelayedKept
  <2>2. CASE UNCHANGED vars
    <3>1. \A t \in Thread : ThreadKept(t)'
      BY <2>2 DEF Kept, vars, ThreadKept, Later, Used
    <3>2. RelayersKept' /\ LockKept' /\ Types'
      BY <2>2
      DEF Kept, vars, RelayersKept, Used, LockKept, Depth, Later, Now, Types
    <3>3. \E k : Named(k)'
      BY <2>2 DEF Kept, vars, Named, Used, Making, Later
    <3> QED BY <3>1, <3>2, <3>3 DEF Kept
  <2> QED BY <2>1, <2>2
<1> QED BY <1>1, InitKept, PTL DEF Spec

(* The variables of the binder and its threads keep their types, whatever  *)
(* overlaps, and the lock of the binder, which setLocalIpAddress takes and *)
(* sendCtrlPacket within it takes again, is held exactly as often as the   *)
(* threads are inside.                                                     *)
THEOREM TypeOKHolds == Spec => []TypeOK
<1>1. Kept => TypeOK
  <2> SUFFICES ASSUME Kept
               PROVE  TypeOK
    OBVIOUS
  <2>1. Types /\ LockKept
    BY DEF Kept
  <2>2. \A t \in Thread : Depth(t) \in 0 .. 2
    BY DEF Depth
  <2>3. binder.monitor[2] \in 0 .. 2
    BY <2>1, <2>2 DEF Types, BinderType, LockKept
  <2>4. calls \in 0 .. MaxCalls
    BY <2>1, MaxCallsAssumption DEF Types
  <2> QED BY <2>1, <2>3, <2>4 DEF TypeOK, Types, BinderType, RelayerType, LockKept
<1> QED BY <1>1, KeptInvariant, PTL

-----------------------------------------------------------------------------
(* What a statement does to relayer r. *)
Changed(t, x, r) ==
  LET o   == binder.relayer[r]
      n   == binder'.relayer[r]
      own == r = thread[t].relayer /\ Works(t, x)
  IN  \/ /\ Used(r) /\ n.kind = o.kind /\ n.call = o.call
         /\ n.gaveUp <=> o.gaveUp
         /\ n.key = IF x = "decipher" /\ own THEN binder.session.key ELSE o.key
         /\ n.started <=>
              o.started \/ (x = "run" /\ r = ToRun(t) /\ Works(t, x))
         /\ \/ (n.working <=> o.working) /\ (n.open <=> o.open)
            \/ ~n.working /\ ~n.open
         /\ Works(t, x) /\ x = "haltSpk" /\ r = binder.spk => ~n.working
         /\ Works(t, x) /\ x = "haltMic" /\ r = binder.mic => ~n.working
      \/ ~Used(r) /\ o = NoRelayer /\ n = NoRelayer
      \/ /\ ~Used(r) /\ o = NoRelayer /\ r = New /\ Works(t, x)
         /\ x \in {"bind", "setMic"}
         /\ n.kind = (IF x = "bind" THEN "spk" ELSE "mic")
         /\ n.call = thread[t].packet.ssrc
         /\ x = "setMic" => n.key = thread[t].packet.ssrc
         /\ ~n.started /\ n.working /\ ~n.gaveUp
         /\ n.open <=> x = "bind"

LEMMA RelayerChanges ==
  ASSUME Kept, NEW t \in Thread, NEW x, Effect(t, x), NEW r \in Relayer
  PROVE  Changed(t, x, r)
<1> DEFINE old == binder.relayer
           new == binder'.relayer
           s == thread[t].relayer
           c == thread[t].packet.ssrc
<1>1. /\ old \in [Relayer -> RelayerType] /\ old[r] \in RelayerType
      /\ binder.mic \in Relayer \cup {None} /\ binder.spk \in Relayer \cup {None}
      /\ binder.mic # None => Used(binder.mic)
      /\ binder.spk # None => Used(binder.spk)
      /\ Used(r) \/ old[r] = NoRelayer
  BY DEF Kept, Types, BinderType, RelayersKept
<1>2. ThreadKept(t) /\ Ordered(thread[t].call, thread[t].todo) /\ Now(t, x)
  BY BusyFacts DEF Kept, Effect
<1>4. CASE new[r] = old[r] /\ ~Works(t, x)
  BY <1>1, <1>4 DEF Changed
<1>5. CASE /\ new[r] = old[r] /\ Works(t, x)
           /\ ~(x = "haltSpk" /\ r = binder.spk)
           /\ ~(x = "haltMic" /\ r = binder.mic)
           /\ ~(x = "run" /\ r = ToRun(t))
           /\ ~(x = "decipher" /\ r = s)
  BY <1>1, <1>5 DEF Changed
<1>6. CASE Works(t, x)
  <2>1. RelayerEffect(t, x) /\ TodoEffect(t, x)
    BY <1>6 DEF Works
  <2>2. CASE x = "haltSpk"
    <3>1. binder.spk # None
      BY <2>1, <2>2 DEF TodoEffect
    <3>2. new = [old EXCEPT ![binder.spk] =
                   [@ EXCEPT !.working = FALSE, !.open = FALSE]]
      BY <2>1, <2>2 DEF RelayerEffect
    <3>3. CASE r = binder.spk
      <4>1. /\ new[r].kind = old[r].kind /\ new[r].call = old[r].call
            /\ new[r].gaveUp = old[r].gaveUp /\ new[r].key = old[r].key
            /\ new[r].started = old[r].started
            /\ new[r].working = FALSE /\ new[r].open = FALSE
        BY <1>1, <3>2, <3>3 DEF RelayerType
      <4> QED BY <1>1, <2>2, <3>1, <3>3, <4>1 DEF Changed
    <3>4. CASE r # binder.spk
      <4>1. new[r] = old[r]
        BY <1>1, <3>2, <3>4
      <4> QED BY <1>5, <1>6, <2>2, <3>4, <4>1
    <3> QED BY <3>3, <3>4
  <2>3. CASE x = "haltMic"
    <3>1. binder.mic # None
      BY <2>1, <2>3 DEF TodoEffect
    <3>2. new = [old EXCEPT ![binder.mic] =
                   [@ EXCEPT !.working = FALSE, !.open = FALSE]]
      BY <2>1, <2>3 DEF RelayerEffect
    <3>3. CASE r = binder.mic
      <4>1. /\ new[r].kind = old[r].kind /\ new[r].call = old[r].call
            /\ new[r].gaveUp = old[r].gaveUp /\ new[r].key = old[r].key
            /\ new[r].started = old[r].started
            /\ new[r].working = FALSE /\ new[r].open = FALSE
        BY <1>1, <3>2, <3>3 DEF RelayerType
      <4> QED BY <1>1, <2>3, <3>1, <3>3, <4>1 DEF Changed
    <3>4. CASE r # binder.mic
      <4>1. new[r] = old[r]
        BY <1>1, <3>2, <3>4
      <4> QED BY <1>5, <1>6, <2>3, <3>4, <4>1
    <3> QED BY <3>3, <3>4
  <2>4. CASE x = "run"
    <3>1. ToRun(t) \in Relayer /\ Used(ToRun(t))
      BY <1>1, <2>1, <2>4 DEF RelayerEffect, ToRun
    <3>2. new = [old EXCEPT ![ToRun(t)] = [@ EXCEPT !.started = TRUE]]
      BY <2>1, <2>4 DEF RelayerEffect
    <3>3. CASE r = ToRun(t)
      <4>1. /\ new[r].kind = old[r].kind /\ new[r].call = old[r].call
            /\ new[r].gaveUp = old[r].gaveUp /\ new[r].key = old[r].key
            /\ new[r].started = TRUE
            /\ new[r].working = old[r].working /\ new[r].open = old[r].open
        BY <1>1, <3>2, <3>3 DEF RelayerType
      <4> QED BY <1>1, <1>6, <2>4, <3>1, <3>3, <4>1 DEF Changed
    <3>4. CASE r # ToRun(t)
      <4>1. new[r] = old[r]
        BY <1>1, <3>2, <3>4
      <4> QED BY <1>5, <1>6, <2>4, <3>4, <4>1
    <3> QED BY <3>3, <3>4
  <2>5. CASE x = "decipher"
    <3>1. s \in Relayer /\ Used(s)
      BY <1>2, <2>5 DEF ThreadKept, Ordered, Once, Now, Later
    <3>2. new = [old EXCEPT ![s] = [@ EXCEPT !.key = binder.session.key]]
      BY <2>1, <2>5 DEF RelayerEffect
    <3>3. CASE r = s
      <4>1. /\ new[r].kind = old[r].kind /\ new[r].call = old[r].call
            /\ new[r].gaveUp = old[r].gaveUp
            /\ new[r].key = binder.session.key
            /\ new[r].started = old[r].started
            /\ new[r].working = old[r].working /\ new[r].open = old[r].open
        BY <1>1, <3>2, <3>3 DEF RelayerType
      <4> QED BY <1>1, <1>6, <2>5, <3>1, <3>3, <4>1 DEF Changed
    <3>4. CASE r # s
      <4>1. new[r] = old[r]
        BY <1>1, <3>2, <3>4
      <4> QED BY <1>5, <1>6, <2>5, <3>4, <4>1
    <3> QED BY <3>3, <3>4
  <2>6. CASE x \in {"bind", "setMic"} /\ new # old
    <3>1. t \in Making
      BY <1>2, <2>6 DEF Making, Ordered, Once, Now, Later
    <3>2. New \in Relayer /\ old[New] = NoRelayer /\ NoRelayer.kind = "none"
      BY <3>1, NewFacts DEF NoRelayer
    <3> DEFINE spk == [NoRelayer EXCEPT !.kind = "spk", !.call = c, !.open = TRUE,
                                        !.working = TRUE]
               mic == [NoRelayer EXCEPT !.kind = "mic", !.call = c, !.key = c,
                                        !.working = TRUE]
    <3>3. \/ x = "bind" /\ new = [old EXCEPT ![New] = spk]
          \/ x = "setMic" /\ new = [old EXCEPT ![New] = mic]
      BY <2>1, <2>6 DEF RelayerEffect
    <3>4. /\ spk.kind = "spk" /\ spk.call = c /\ ~spk.started /\ spk.working
          /\ ~spk.gaveUp /\ spk.open
          /\ mic.kind = "mic" /\ mic.call = c /\ mic.key = c /\ ~mic.started
          /\ mic.working /\ ~mic.gaveUp /\ ~mic.open
      BY DEF NoRelayer
    <3> HIDE DEF spk, mic
    <3>5. CASE r = New
      <4>1. \/ x = "bind" /\ new[r] = spk
            \/ x = "setMic" /\ new[r] = mic
        BY <1>1, <3>2, <3>3, <3>5
      <4>2. ~Used(r) /\ old[r] = NoRelayer
        BY <3>2, <3>5 DEF Used
      <4> QED BY <1>6, <3>4, <3>5, <4>1, <4>2 DEF Changed
    <3>6. CASE r # New
      <4>1. new[r] = old[r]
        BY <1>1, <3>3, <3>6
      <4> QED BY <1>5, <1>6, <2>6, <4>1
    <3> QED BY <3>5, <3>6
  <2>7. CASE x \notin {"haltSpk", "haltMic", "run", "decipher"} /\ new = old
    BY <1>5, <1>6, <2>7
  <2> QED
    BY <2>1, <2>2, <2>3, <2>4, <2>5, <2>6, <2>7 DEF RelayerEffect
<1>7. CASE ~Works(t, x)
  BY <1>4, <1>7 DEF Effect, Fails
<1> QED BY <1>6, <1>7

-----------------------------------------------------------------------------
(* The history names every two calls that are under way at once. *)
Overlaps ==
  /\ \A t, u \in Thread :
       t # u /\ Busy(t) /\ Busy(u) =>
         {thread[t].call, thread[u].call} \in overlapped
  /\ \A r \in GivingUp, t \in Thread :
       Busy(t) => {thread[t].call, "giveUp"} \in overlapped

LEMMA OverlappedGrows ==
  ASSUME Kept, [Next]_vars
  PROVE  overlapped \subseteq overlapped'
<1>1. CASE Next
  BY <1>1, NextFacts
  DEF Effect, Called, Relayed, GivenUp, StoppedReceiving
<1>2. CASE UNCHANGED vars
  BY <1>2 DEF vars
<1> QED BY <1>1, <1>2

LEMMA StepOverlaps ==
  ASSUME Kept, Overlaps, NEW t \in Thread, NEW x, Effect(t, x)
  PROVE  Overlaps'
<1>1. \A u \in Thread : Busy(u)' => Busy(u) /\ thread'[u].call = thread[u].call
  <2>1. Busy(t)' => thread'[t].call = thread[t].call
    BY OnwardFacts DEF Onward, Busy
  <2> QED BY <2>1 DEF Effect, Same, Busy
<1>2. \A r \in Relayer : binder'.relayer[r].gaveUp => binder.relayer[r].gaveUp
  <2>1. ~NoRelayer.gaveUp
    BY DEF NoRelayer
  <2> QED BY <2>1, RelayerChanges DEF Changed
<1>3. GivingUp' \subseteq GivingUp
  BY <1>2 DEF GivingUp
<1> QED BY <1>1, <1>3 DEF Overlaps, Effect

LEMMA CalledOverlaps ==
  ASSUME Kept, Overlaps, NEW t \in Thread, NEW call, Called(t, call)
  PROVE  Overlaps'
<1>1. GivingUp' = GivingUp
  BY DEF GivingUp, Called
<1>2. \A u \in Thread \ {t} :
        (Busy(u)' <=> Busy(u)) /\ thread'[u].call = thread[u].call
  BY DEF Called, Busy
<1>3. thread'[t].call = call /\ ~Busy(t) /\ overlapped \subseteq overlapped'
  BY DEF Called
<1>4. \A u \in Thread \ {t} : Busy(u) => {call, thread[u].call} \in overlapped'
  BY DEF Called
<1>5. \A r \in GivingUp : {call, "giveUp"} \in overlapped'
  BY DEF Called
<1>6. \A a, b : {a, b} = {b, a}
  OBVIOUS
<1>7. ASSUME NEW a \in Thread, NEW b \in Thread, a # b, Busy(a)', Busy(b)'
      PROVE  {thread'[a].call, thread'[b].call} \in overlapped'
  <2>1. CASE a # t /\ b # t
    BY <1>2, <1>3, <1>7, <2>1 DEF Overlaps
  <2>2. CASE a = t
    BY <1>2, <1>3, <1>4, <1>7, <2>2
  <2>3. CASE b = t
    BY <1>2, <1>3, <1>4, <1>6, <1>7, <2>3
  <2> QED BY <2>1, <2>2, <2>3
<1>8. ASSUME NEW r \in GivingUp, NEW a \in Thread, Busy(a)'
      PROVE  {thread'[a].call, "giveUp"} \in overlapped'
  BY <1>2, <1>3, <1>5, <1>8 DEF Overlaps
<1> QED BY <1>1, <1>7, <1>8 DEF Overlaps

LEMMA RelayedOverlaps ==
  ASSUME Kept, Overlaps, NEW r \in Relayer, Relayed(r)
  PROVE  Overlaps'
<1>1. \A u \in Thread : (Busy(u)' <=> Busy(u)) /\ thread'[u].call = thread[u].call
  BY DEF Relayed, Busy
<1>2. overlapped \subseteq overlapped'
  BY DEF Relayed, GivenUp, StoppedReceiving
<1>3. GivingUp' \subseteq GivingUp \cup {r}
  BY DEF Relayed, GivingUp
<1>4. CASE GivenUp(r)
  <2>1. \A u \in Thread : Busy(u) => {"giveUp", thread[u].call} \in overlapped'
    BY <1>4 DEF GivenUp
  <2>2. \A a, b : {a, b} = {b, a}
    OBVIOUS
  <2> QED BY <1>1, <1>2, <1>3, <2>1, <2>2 DEF Overlaps
<1>5. CASE StoppedReceiving(r)
  <2>1. r \in GivingUp
    BY <1>5 DEF StoppedReceiving, GivingUp
  <2> QED BY <1>1, <1>2, <1>3, <2>1 DEF Overlaps
<1> QED BY <1>4, <1>5 DEF Relayed

LEMMA OverlapsInvariant == Spec => []Overlaps
<1>1. Init => Overlaps
  BY DEF Init, Overlaps, Busy, Idle, Dead, GivingUp, NoRelayer
<1>2. Kept /\ Overlaps /\ [Next]_vars => Overlaps'
  <2> SUFFICES ASSUME Kept, Overlaps, [Next]_vars
               PROVE  Overlaps'
    OBVIOUS
  <2>1. CASE Next
    BY <2>1, NextFacts, StepOverlaps, CalledOverlaps, RelayedOverlaps
  <2>2. CASE UNCHANGED vars
    BY <2>2 DEF vars, Overlaps, Busy, GivingUp
  <2> QED BY <2>1, <2>2
<1> QED BY <1>1, <1>2, KeptInvariant, PTL DEF Spec

-----------------------------------------------------------------------------
(* What thread u is about does not change. *)
Steady(u) ==
  /\ Busy(u)' <=> Busy(u)
  /\ thread'[u].call = thread[u].call
  /\ thread'[u].made = thread[u].made
  /\ \A y : (Later(u, y)' <=> Later(u, y)) /\ (Now(u, y)' <=> Now(u, y))
  /\ Ending(thread'[u].todo) <=> Ending(thread[u].todo)
  /\ Busy(u) => /\ thread'[u].packet = thread[u].packet
                /\ thread'[u].relayer = thread[u].relayer

LEMMA OthersSteady ==
  ASSUME NEW t \in Thread, NEW x, Effect(t, x)
  PROVE  \A u \in Thread \ {t} : Steady(u)
BY DEF Effect, Same, Steady, Busy, Later, Now

LEMMA CalledSteady ==
  ASSUME NEW t \in Thread, NEW call, Called(t, call)
  PROVE  \A u \in Thread \ {t} : Steady(u)
BY DEF Called, Steady, Busy, Later, Now

LEMMA RelayedSteady ==
  ASSUME NEW r, Relayed(r)
  PROVE  \A u \in Thread : Steady(u)
BY DEF Relayed, Steady, Busy, Later, Now

(* What is known of the thread of a statement. *)
LEMMA OwnFacts ==
  ASSUME Kept, NEW t \in Thread, NEW x, Effect(t, x)
  PROVE  /\ Onward(t, x) /\ ThreadKept(t)
         /\ Ordered(thread[t].call, thread[t].todo)
         /\ Now(t, x) /\ Busy(t) /\ \A y : Now(t, y) => y = x
         /\ Busy(t)' <=> thread'[t].todo # <<>>
BY OnwardFacts, BusyFacts DEF Kept, Effect, Now, Is, Busy

(* Which calls have which statements ahead. *)
LEMMA CallOf ==
  ASSUME Kept, NEW t \in Thread
  PROVE  /\ Ordered(thread[t].call, thread[t].todo)
         /\ t = Main => thread[t].call \notin {"start", "stop"}
         /\ t # Main => thread[t].call \in {"none", "start", "stop"}
         /\ \A y : Later(t, y) \/ Now(t, y) => Busy(t)
         /\ Busy(t) <=> thread[t].call # "none"
BY BusyFacts DEF Kept, ThreadKept, Later, Ahead, Now, Is, Busy

(* What a statement does to the two fields. *)
LEMMA FieldFacts ==
  ASSUME Kept, NEW t \in Thread, NEW x, Effect(t, x)
  PROVE  /\ \/ binder'.spk = binder.spk
            \/ x = "clearSpk" /\ binder'.spk = None
            \/ x = "setSpk" /\ binder'.spk = thread[t].relayer
         /\ \/ binder'.mic = binder.mic
            \/ x = "clearMic" /\ binder'.mic = None
            \/ x = "setMic" /\ binder'.mic = New
         /\ Works(t, x) => FieldEffect(t, x)
BY DEF Effect, Works, Fails, FieldEffect

(* A phone has one of the two relayers at most, and what is about to make  *)
(* one has ended the other.                                                *)
Single ==
  /\ binder.mic = None \/ binder.spk = None
  /\ \A t \in Thread :
       /\ Later(t, "setMic") /\ ~Later(t, "clearSpk") => binder.spk = None
       /\ Later(t, "setSpk") /\ ~Later(t, "clearMic") => binder.mic = None

PressStart == {{"press", "start"}}

LEMMA StepSingle ==
  ASSUME Kept, Overlaps, Safe(PressStart), Single,
         NEW t \in Thread, NEW x, Effect(t, x)
  PROVE  Single'
<1>1. /\ Onward(t, x) /\ Ordered(thread[t].call, thread[t].todo)
      /\ Now(t, x) /\ Busy(t)
  BY OwnFacts
<1>2. \A u \in Thread \ {t} : Steady(u)
  BY OthersSteady
<1>3. \A u, v \in Thread : Later(u, "setMic") => ~Later(v, "setSpk")
  <2> SUFFICES ASSUME NEW u \in Thread, NEW v \in Thread,
                      Later(u, "setMic"), Later(v, "setSpk")
               PROVE  FALSE
    OBVIOUS
  <2>1. thread[u].call = "press" /\ thread[v].call = "start"
    BY CallOf DEF Ordered, Later
  <2>2. Busy(u) /\ Busy(v) /\ u # v
    BY <2>1, CallOf
  <2>3. {"press", "start"} \in overlapped
    BY <2>1, <2>2 DEF Overlaps
  <2> QED BY <2>3 DEF Safe, PressStart
<1>4. /\ x = "setMic" => Later(t, "setMic") /\ ~Later(t, "clearSpk")
      /\ x = "setSpk" => Later(t, "setSpk") /\ ~Later(t, "clearMic")
  BY <1>1 DEF Ordered, Once, Now, Later
<1>5. binder'.mic = None \/ binder'.spk = None
  BY <1>4, FieldFacts DEF Single
<1>6. ASSUME NEW u \in Thread \ {t}
      PROVE  /\ Later(u, "setMic")' /\ ~Later(u, "clearSpk")' => binder'.spk = None
             /\ Later(u, "setSpk")' /\ ~Later(u, "clearMic")' => binder'.mic = None
  <2>1. Steady(u)
    BY <1>2
  <2> QED BY <1>3, <1>4, <2>1, FieldFacts DEF Single, Steady
<1>7. /\ Later(t, "setMic")' /\ ~Later(t, "clearSpk")' => binder'.spk = None
      /\ Later(t, "setSpk")' /\ ~Later(t, "clearMic")' => binder'.mic = None
  <2> SUFFICES ASSUME thread'[t].todo # <<>>
               PROVE  <1>7!1 /\ <1>7!2
    BY <1>1 DEF Onward
  <2>1. /\ FieldEffect(t, x)
        /\ \A y \in Once :
             Later(t, y)' <=> /\ Later(t, y) /\ y # x
                              /\ ~(/\ x = "hasSpk" /\ y = "clearSpk"
                                   /\ binder.spk = None)
                              /\ ~(/\ x = "hasMic" /\ y = "clearMic"
                                   /\ binder.mic = None)
    BY <1>1 DEF Onward, Works
  <2>2. /\ ~(Later(t, "setMic") /\ x = "setSpk")
        /\ ~(Later(t, "setSpk") /\ x = "setMic")
    BY <1>3, <1>4
  <2> QED BY <2>1, <2>2 DEF Single, Once, FieldEffect
<1> QED BY <1>5, <1>6, <1>7 DEF Single

LEMMA CalledSingle ==
  ASSUME Kept, Single, NEW t \in Thread, NEW call, Called(t, call)
  PROVE  Single'
<1>1. \A u \in Thread \ {t} : Steady(u)
  BY CalledSteady
<1>2. Ordered(call, thread'[t].todo) /\ binder' = binder
  BY FitsOrdered DEF Called
<1>3. /\ Later(t, "setMic")' => Later(t, "clearSpk")'
      /\ Later(t, "setSpk")' => Later(t, "clearMic")'
  BY <1>2 DEF Called, Ordered, Later
<1> QED BY <1>1, <1>2, <1>3 DEF Single, Steady

LEMMA RelayedSingle ==
  ASSUME Single, NEW r \in Relayer, Relayed(r)
  PROVE  Single'
BY RelayedSteady DEF Single, Steady, Relayed

LEMMA SingleInvariant == Spec => [](Safe(PressStart) => Single)
<1>1. Init => Single
  BY DEF Init, Single
<1>2. /\ Kept /\ Overlaps /\ (Safe(PressStart) => Single) /\ [Next]_vars
      => (Safe(PressStart) => Single)'
  <2> SUFFICES ASSUME Kept, Overlaps, Safe(PressStart) => Single, [Next]_vars,
                      Safe(PressStart)'
               PROVE  Single'
    OBVIOUS
  <2>1. Safe(PressStart) /\ Single
    BY OverlappedGrows DEF Safe
  <2>2. CASE Next
    BY <2>1, <2>2, NextFacts, StepSingle, CalledSingle, RelayedSingle
  <2>3. CASE UNCHANGED vars
    BY <2>1, <2>3 DEF vars, Single, Later
  <2> QED BY <2>2, <2>3
<1> QED BY <1>1, <1>2, KeptInvariant, OverlapsInvariant, PTL DEF Spec

(* A phone at rest talks or listens, but never both, whatever has been     *)
(* called at the same time, except a press and a START.                    *)
THEOREM OneDirectionHolds == Spec => []OneDirectionUnlessCrossed
<1>1. (Safe(PressStart) => Single) => OneDirectionUnlessCrossed
  BY DEF OneDirectionUnlessCrossed, OneDirection, Single, PressStart
<1> QED BY <1>1, SingleInvariant, PTL

-----------------------------------------------------------------------------
(* One control receiver is alive at a time, and setLocalIpAddress makes    *)
(* the new one when the old one has been ended.                            *)
OneReceiver ==
  /\ \A t \in Receiver : thread[t].alive => t = binder.ctrl
  /\ \A t \in Thread :
       Later(t, "beginCtrl") /\ ~Later(t, "endCtrl") =>
         \A u \in Receiver : ~thread[u].alive

LEMMA StepOneReceiver ==
  ASSUME Kept, OneReceiver, NEW t \in Thread, NEW x, Effect(t, x)
  PROVE  OneReceiver'
<1>1. /\ Onward(t, x) /\ Ordered(thread[t].call, thread[t].todo)
      /\ Now(t, x) /\ Busy(t)
  BY OwnFacts
<1>2. \A u \in Thread \ {t} : Steady(u)
  BY OthersSteady
<1>3. \A u \in Thread : Later(u, "beginCtrl") => u = Main
  BY CallOf DEF Ordered, Later
<1>4. /\ x \in {"endCtrl", "beginCtrl"} => t = Main
      /\ x = "beginCtrl" => Later(t, "beginCtrl") /\ ~Later(t, "endCtrl")
  BY <1>1, CallOf DEF Ordered, Once, Now, Later
<1>5. Receiver \subseteq Thread /\ Main \notin Receiver
  BY NamesAssumption DEF Thread
<1>6. /\ Later(t, "beginCtrl")' => Later(t, "beginCtrl") /\ x # "beginCtrl"
      /\ Later(t, "beginCtrl")' /\ ~Later(t, "endCtrl")' =>
           ~Later(t, "endCtrl") \/ x = "endCtrl"
      /\ Later(t, "beginCtrl")' => Works(t, x)
  BY <1>1 DEF Onward, Once
<1>7. CASE Fails(t, x)
  <2>1. \A u \in Receiver : thread'[u].alive => thread[u].alive
    BY <1>5, <1>7 DEF Fails
  <2>2. ~Later(t, "beginCtrl")'
    BY <1>1, <1>7 DEF Onward, Fails
  <2> QED BY <1>2, <1>5, <1>7, <2>1, <2>2 DEF OneReceiver, Fails, Steady
<1>8. CASE Works(t, x)
  <2>1. AliveEffect(t, x)
    BY <1>8 DEF Works
  <2>2. CASE x = "endCtrl"
    <3>1. \A u \in Receiver : ~thread'[u].alive
      BY <1>4, <1>5, <2>1, <2>2 DEF AliveEffect
    <3> QED BY <3>1 DEF OneReceiver
  <2>3. CASE x = "beginCtrl" /\ binder'.ctrl # binder.ctrl
    BY <1>2, <1>3, <1>4, <1>5, <1>6, <2>1, <2>3
    DEF OneReceiver, AliveEffect, Steady
  <2>4. CASE /\ x # "endCtrl" /\ binder'.ctrl = binder.ctrl
             /\ \A u \in Thread \ {t} : thread'[u].alive = thread[u].alive
    <3>1. \A u \in Thread : thread'[u].alive = thread[u].alive
      BY <2>1, <2>4 DEF AliveEffect
    <3> QED
      BY <1>2, <1>3, <1>5, <1>6, <2>4, <3>1 DEF OneReceiver, Steady
  <2>5. CASE x = "beginCtrl"
    BY <1>2, <1>3, <1>4, <1>5, <1>6, <2>1, <2>5
    DEF OneReceiver, AliveEffect, Steady
  <2> QED BY <2>1, <2>2, <2>3, <2>4, <2>5 DEF AliveEffect
<1> QED BY <1>7, <1>8 DEF Effect

LEMMA CalledOneReceiver ==
  ASSUME Kept, OneReceiver, NEW t \in Thread, NEW call, Called(t, call)
  PROVE  OneReceiver'
<1>1. \A u \in Thread \ {t} : Steady(u)
  BY CalledSteady
<1>2. Ordered(call, thread'[t].todo) /\ binder' = binder
  BY FitsOrdered DEF Called
<1>3. Later(t, "beginCtrl")' => Later(t, "endCtrl")'
  BY <1>2 DEF Called, Ordered, Later
<1>4. \A u \in Thread : thread'[u].alive = thread[u].alive
  BY DEF Called, Kept, Types, ThreadType
<1>5. Receiver \subseteq Thread
  BY DEF Thread
<1> QED BY <1>1, <1>2, <1>3, <1>4, <1>5 DEF OneReceiver, Steady

(* A relayer with an open socket works and is that of a listener; the      *)
(* microphone is that of a talker.                                         *)
KindsFit ==
  /\ \A r \in Relayer : binder.relayer[r].open =>
       binder.relayer[r].working /\ binder.relayer[r].kind = "spk"
  /\ binder.mic # None => binder.relayer[binder.mic].kind = "mic"

LEMMA StepKindsFit ==
  ASSUME Kept, KindsFit, NEW t \in Thread, NEW x, Effect(t, x)
  PROVE  KindsFit'
<1>1. /\ Ordered(thread[t].call, thread[t].todo) /\ Now(t, x)
      /\ binder.mic \in Relayer \cup {None}
      /\ binder.mic # None => Used(binder.mic)
  BY OwnFacts DEF Kept, Types, BinderType, RelayersKept
<1>2. \A r \in Relayer : Changed(t, x, r)
  BY RelayerChanges
<1>3. /\ NoRelayer.open = FALSE /\ NoRelayer.kind = "none"
  BY DEF NoRelayer
<1>4. \A r \in Relayer : binder'.relayer[r].open =>
        binder'.relayer[r].working /\ binder'.relayer[r].kind = "spk"
  BY <1>2, <1>3 DEF Changed, KindsFit
<1>5. CASE binder'.mic = binder.mic
  BY <1>1, <1>2, <1>4, <1>5 DEF Changed, KindsFit, Used
<1>6. CASE binder'.mic = None
  BY <1>4, <1>6 DEF KindsFit
<1>7. CASE x = "setMic" /\ binder'.mic = New
  <2>1. t \in Making
    BY <1>1, <1>7 DEF Making, Ordered, Once, Now, Later
  <2>2. New \in Relayer /\ ~Used(New)
    BY <2>1, <1>3, NewFacts DEF Used
  <2>3. Works(t, x)
    BY <1>7 DEF Effect, Fails
  <2>4. binder'.relayer[New].kind = "mic"
    <3>1. binder.relayer \in [Relayer -> RelayerType]
      BY DEF Kept, Types, BinderType
    <3>2. [NoRelayer EXCEPT !.kind = "mic", !.call = thread[t].packet.ssrc,
                            !.key = thread[t].packet.ssrc,
                            !.working = TRUE].kind = "mic"
      BY DEF NoRelayer
    <3> QED BY <1>7, <2>2, <2>3, <3>1, <3>2 DEF Works, RelayerEffect
  <2>5. binder'.mic # None => binder'.relayer[binder'.mic].kind = "mic"
    BY <1>7, <2>4
  <2> QED BY <1>4, <2>5 DEF KindsFit
<1> QED BY <1>5, <1>6, <1>7, FieldFacts

LEMMA RelayedKindsFit ==
  ASSUME Kept, KindsFit, NEW r \in Relayer, Relayed(r)
  PROVE  KindsFit'
<1>1. /\ binder.relayer \in [Relayer -> RelayerType]
      /\ binder.mic \in Relayer \cup {None}
  BY DEF Kept, Types, BinderType
<1>2. binder'.relayer[r].open =>
        binder'.relayer[r].working /\ binder.relayer[r].open
  <2>1. CASE GivenUp(r)
    <3>1. binder'.relayer[r].open = FALSE
      BY <1>1, <2>1 DEF GivenUp, RelayerType
    <3> QED BY <3>1
  <2>2. CASE StoppedReceiving(r)
    <3>1. /\ binder'.relayer[r].open = binder.relayer[r].open
          /\ binder'.relayer[r].working = binder.relayer[r].working
      BY <1>1, <2>2 DEF StoppedReceiving, RelayerType
    <3> QED BY <3>1 DEF KindsFit
  <2> QED BY <2>1, <2>2 DEF Relayed
<1> QED BY <1>1, <1>2 DEF Relayed, KindsFit

LEMMA StructureInvariant == Spec => [](OneReceiver /\ KindsFit)
<1>1. Init => OneReceiver /\ KindsFit
  <2> SUFFICES ASSUME Init
               PROVE  OneReceiver /\ KindsFit
    OBVIOUS
  <2>1. Receiver \subseteq Thread /\ Main \notin Receiver
    BY NamesAssumption DEF Thread
  <2>2. OneReceiver
    BY <2>1 DEF Init, OneReceiver, Idle, Dead, Later, Ahead
  <2>3. KindsFit
    BY DEF Init, KindsFit, NoRelayer
  <2> QED BY <2>2, <2>3
<1>2. Kept /\ OneReceiver /\ KindsFit /\ [Next]_vars
      => (OneReceiver /\ KindsFit)'
  <2> SUFFICES ASSUME Kept, OneReceiver, KindsFit, [Next]_vars
               PROVE  OneReceiver' /\ KindsFit'
    OBVIOUS
  <2>1. ASSUME NEW t \in Thread, NEW call, Called(t, call)
        PROVE  KindsFit'
    BY <2>1 DEF Called, KindsFit
  <2>2. ASSUME NEW r \in Relayer, Relayed(r)
        PROVE  OneReceiver'
    BY <2>2, RelayedSteady DEF OneReceiver, Relayed, Steady
  <2>3. CASE Next
    BY <2>1, <2>2, <2>3, NextFacts, StepOneReceiver, CalledOneReceiver,
       StepKindsFit, RelayedKindsFit
  <2>4. CASE UNCHANGED vars
    BY <2>4 DEF vars, OneReceiver, KindsFit, Later
  <2> QED BY <2>3, <2>4
<1> QED BY <1>1, <1>2, KeptInvariant, PTL DEF Spec

-----------------------------------------------------------------------------
(* Without EndRace: what is true of a thread that ends or makes a relayer. *)
EndsSafely(t) ==
  LET w == thread[t]
  IN  /\ Busy(t) /\ t # Main => w.alive
      /\ Now(t, "haltSpk") => binder.spk # None
      /\ Now(t, "haltMic") => binder.mic # None
      /\ Now(t, "clearSpk") =>
           binder.spk # None /\ ~binder.relayer[binder.spk].working
      /\ Now(t, "clearMic") =>
           binder.mic # None /\ ~binder.relayer[binder.mic].working
      /\ Later(t, "setSpk") /\ ~Later(t, "clearSpk") => binder.spk = None
      /\ Later(t, "setMic") /\ ~Later(t, "clearMic") => binder.mic = None
      /\ Busy(t) /\ w.call = "press" /\ ~Later(t, "setMic") =>
           binder.mic = w.relayer
      /\ Busy(t) /\ w.call = "start" /\ ~Later(t, "setSpk") =>
           binder.spk = w.relayer

NoOrphan == Working \subseteq {binder.mic, binder.spk}

EndKept ==
  /\ Running
  /\ \A t \in Thread : EndsSafely(t)
  /\ NoOrphan

(* Two threads are under way at once only when the one reloads the list of *)
(* targets, or a release meets a STOP.                                     *)
LEMMA Apart ==
  ASSUME Kept, Overlaps, OneReceiver, Safe(EndRace), EndKept,
         NEW t \in Thread, NEW u \in Thread, t # u, Busy(t), Busy(u)
  PROVE  \/ thread[t].call = "reload" \/ thread[u].call = "reload"
         \/ thread[t].call = "release" /\ thread[u].call = "stop"
         \/ thread[t].call = "stop" /\ thread[u].call = "release"
<1>1. t = Main \/ u = Main
  <2> SUFFICES ASSUME t # Main, u # Main
               PROVE  FALSE
    OBVIOUS
  <2>1. t \in Receiver /\ u \in Receiver
    BY DEF Thread
  <2>2. thread[t].alive /\ thread[u].alive
    BY DEF EndKept, EndsSafely
  <2> QED BY <2>1, <2>2 DEF OneReceiver
<1>2. \A a \in Thread :
        /\ a = Main /\ Busy(a) =>
             thread[a].call \in {"press", "release", "link", "reload"}
        /\ a # Main /\ Busy(a) => thread[a].call \in {"start", "stop"}
  BY BusyFacts DEF Kept, ThreadKept
<1>3. /\ {thread[t].call, thread[u].call} \in overlapped
      /\ {thread[u].call, thread[t].call} \in overlapped
  BY DEF Overlaps
<1>4. \A a, b : {a, b} \in overlapped =>
        /\ ~(a \in {"press", "release", "link"} /\ b = "start")
        /\ ~(a \in {"press", "link"} /\ b = "stop")
  BY DEF Safe, EndRace
<1> QED BY <1>1, <1>2, <1>3, <1>4

LEMMA StepRuns ==
  ASSUME Kept, OneReceiver, EndKept, NEW t \in Thread, NEW x, Effect(t, x)
  PROVE  Running'
<1>1. /\ Ordered(thread[t].call, thread[t].todo) /\ Now(t, x)
      /\ EndsSafely(t) /\ thread[Main].alive
      /\ t = Main => thread[t].call \notin {"start", "stop"}
  BY OwnFacts, CallOf DEF EndKept, Running
<1>2. Main \in Thread /\ Main \notin Receiver
  BY NamesAssumption DEF Thread
<1>3. CASE Fails(t, x)
  <2>1. CASE x = "run" /\ t = Main
    <3>1. thread[t].call = "press"
      BY <1>1, <2>1 DEF Ordered, Now
    <3>2. binder.mic = thread[t].relayer /\ thread[t].relayer \in Relayer
      BY <1>1, <2>1, <3>1, OwnFacts
      DEF Ordered, Now, Later, EndsSafely, ThreadKept
    <3>3. ToRun(t) # None
      BY <3>1, <3>2, NamesAssumption DEF ToRun
    <3> QED BY <1>1, <1>3, <2>1, <3>1, <3>3 DEF Fails
  <2>2. CASE ~(x = "run" /\ t = Main)
    <3>1. t # Main
      BY <1>1, <1>3, <2>2 DEF Fails, EndsSafely
    <3> QED BY <1>1, <1>2, <1>3, <3>1 DEF Fails, Running
  <2> QED BY <2>1, <2>2
<1>4. CASE Works(t, x)
  <2>1. AliveEffect(t, x)
    BY <1>4 DEF Works
  <2>2. x = "endCtrl" => t = Main
    BY <1>1, CallOf DEF Ordered, Once, Now, Later
  <2> QED BY <1>1, <1>2, <2>1, <2>2 DEF AliveEffect, Running
<1> QED BY <1>3, <1>4 DEF Effect

LEMMA StepNoOrphan ==
  ASSUME Kept, EndKept, NEW t \in Thread, NEW x, Effect(t, x)
  PROVE  NoOrphan'
<1>1. /\ Ordered(thread[t].call, thread[t].todo) /\ Now(t, x) /\ Busy(t)
      /\ EndsSafely(t)
  BY OwnFacts DEF EndKept
<1> SUFFICES ASSUME NEW r \in Working'
             PROVE  r \in {binder'.mic, binder'.spk}
  BY DEF NoOrphan
<1>2. /\ r \in Relayer /\ binder'.relayer[r].started
      /\ binder'.relayer[r].working
  BY DEF Working
<1>3. /\ binder.relayer[r].working
      /\ binder.relayer[r].started \/ (x = "run" /\ r = ToRun(t))
  <2>1. NoRelayer.started = FALSE
    BY DEF NoRelayer
  <2> QED BY <1>2, <2>1, RelayerChanges DEF Changed
<1>4. CASE x = "run" /\ r = ToRun(t)
  <2>1. binder.mic = r \/ binder.spk = r
    BY <1>4 DEF ToRun
  <2> QED BY <1>4, <2>1, FieldFacts
<1>5. CASE binder.relayer[r].started
  <2>1. r \in {binder.mic, binder.spk}
    BY <1>2, <1>3, <1>5 DEF EndKept, NoOrphan, Working
  <2>2. r # None
    BY <1>2, NamesAssumption
  <2>3. /\ x = "clearSpk" \/ x = "setSpk" => binder.spk # r
        /\ x = "clearMic" \/ x = "setMic" => binder.mic # r
    BY <1>1, <1>3, <2>2 DEF Ordered, Once, Now, Later, EndsSafely
  <2> QED BY <2>1, <2>3, FieldFacts
<1> QED BY <1>3, <1>4, <1>5

LEMMA StepOtherEnds ==
  ASSUME Kept, Overlaps, OneReceiver, Safe(EndRace), EndKept,
         NEW t \in Thread, NEW x, Effect(t, x), NEW u \in Thread \ {t}
  PROVE  EndsSafely(u)'
<1>1. /\ Ordered(thread[t].call, thread[t].todo) /\ Now(t, x) /\ Busy(t)
      /\ Ordered(thread[u].call, thread[u].todo) /\ EndsSafely(u) /\ Steady(u)
      /\ \A y : Later(u, y) \/ Now(u, y) => Busy(u)
  BY OwnFacts, CallOf, OthersSteady DEF EndKept
<1>2. Busy(u) => \/ thread[t].call = "reload" \/ thread[u].call = "reload"
                 \/ thread[t].call = "release" /\ thread[u].call = "stop"
                 \/ thread[t].call = "stop" /\ thread[u].call = "release"
  BY <1>1, Apart
<1>3. Busy(u)' /\ u # Main => thread'[u].alive
  <2> SUFFICES ASSUME Busy(u), u # Main
               PROVE  thread'[u].alive
    BY <1>1 DEF Steady
  <2>1. thread[u].alive
    BY <1>1 DEF EndsSafely
  <2>2. x # "endCtrl"
    <3> SUFFICES ASSUME x = "endCtrl"
                 PROVE  FALSE
      OBVIOUS
    <3>1. thread[t].call = "link"
      BY <1>1 DEF Ordered, Once, Now
    <3>2. thread[u].call \in {"start", "stop"}
      BY CallOf
    <3> QED BY <1>2, <3>1, <3>2
  <2> QED BY <2>1, <2>2 DEF Effect, Works, Fails, AliveEffect
<1>4. \A r \in Relayer :
        Used(r) /\ binder'.relayer[r].working => binder.relayer[r].working
  BY RelayerChanges DEF Changed
<1>5. /\ binder.mic \in Relayer \cup {None} /\ binder.spk \in Relayer \cup {None}
      /\ binder.mic # None => Used(binder.mic)
      /\ binder.spk # None => Used(binder.spk)
  BY DEF Kept, Types, BinderType, RelayersKept
<1>6. /\ x \in {"clearSpk", "setSpk"} =>
           thread[t].call \in {"start", "stop", "press", "link"}
      /\ x \in {"clearMic", "setMic"} =>
           thread[t].call \in {"start", "press", "release", "link"}
      /\ x = "setSpk" => thread[t].call = "start"
      /\ x = "setMic" => thread[t].call = "press"
  BY <1>1 DEF Ordered, Once, Now
<1>7. /\ Now(u, "haltSpk") \/ Now(u, "clearSpk") =>
           Busy(u) /\ thread[u].call \in {"start", "stop", "press", "link"}
      /\ Now(u, "haltMic") \/ Now(u, "clearMic") =>
           Busy(u) /\ thread[u].call \in {"start", "press", "release", "link"}
      /\ Later(u, "setSpk") => Busy(u) /\ thread[u].call = "start"
      /\ Later(u, "setMic") => Busy(u) /\ thread[u].call = "press"
  BY <1>1 DEF Ordered, Now, Later
<1>8. \/ binder'.spk = binder.spk
      \/ ~Now(u, "haltSpk") /\ ~Now(u, "clearSpk") /\ ~Later(u, "setSpk")
         /\ ~(Busy(u) /\ thread[u].call = "start")
  BY <1>2, <1>6, <1>7, FieldFacts
<1>9. \/ binder'.mic = binder.mic
      \/ ~Now(u, "haltMic") /\ ~Now(u, "clearMic") /\ ~Later(u, "setMic")
         /\ ~(Busy(u) /\ thread[u].call = "press")
  BY <1>2, <1>6, <1>7, FieldFacts
<1> DEFINE o == binder.relayer
           n == binder'.relayer
<1>10. /\ Now(u, "clearSpk") => binder'.spk # None /\ ~n[binder'.spk].working
       /\ Now(u, "haltSpk") => binder'.spk # None
       /\ Later(u, "setSpk") /\ ~Later(u, "clearSpk") => binder'.spk = None
       /\ Busy(u) /\ thread[u].call = "start" /\ ~Later(u, "setSpk") =>
            binder'.spk = thread[u].relayer
  BY <1>1, <1>4, <1>5, <1>8 DEF EndsSafely
<1>11. /\ Now(u, "clearMic") => binder'.mic # None /\ ~n[binder'.mic].working
       /\ Now(u, "haltMic") => binder'.mic # None
       /\ Later(u, "setMic") /\ ~Later(u, "clearMic") => binder'.mic = None
       /\ Busy(u) /\ thread[u].call = "press" /\ ~Later(u, "setMic") =>
            binder'.mic = thread[u].relayer
  BY <1>1, <1>4, <1>5, <1>9 DEF EndsSafely
<1> QED BY <1>1, <1>3, <1>10, <1>11 DEF EndsSafely, Steady

LEMMA StepOwnEnds ==
  ASSUME Kept, EndKept, NEW t \in Thread, NEW x, Effect(t, x)
  PROVE  EndsSafely(t)'
<1>1. /\ Onward(t, x) /\ Ordered(thread[t].call, thread[t].todo)
      /\ Now(t, x) /\ Busy(t) /\ EndsSafely(t)
      /\ Busy(t)' <=> thread'[t].todo # <<>>
  BY OwnFacts DEF EndKept
<1>2. CASE thread'[t].todo = <<>>
  BY <1>1, <1>2 DEF EndsSafely, Onward
<1>3. CASE thread'[t].todo # <<>>
  <2> DEFINE w == thread[t]
             v == thread'[t]
  <2>1. /\ Works(t, x) /\ v.call = w.call /\ v.alive = w.alive
        /\ FieldEffect(t, x) /\ ThreadEffect(t, x)
    BY <1>1, <1>3 DEF Onward, Works, AliveEffect
  <2>2. \A y \in Once :
          Later(t, y)' <=> /\ Later(t, y) /\ y # x
                           /\ ~(/\ x = "hasSpk" /\ y = "clearSpk"
                                /\ binder.spk = None)
                           /\ ~(/\ x = "hasMic" /\ y = "clearMic"
                                /\ binder.mic = None)
    BY <1>1, <1>3 DEF Onward
  <2>3. /\ Now(t, "haltSpk")' => binder'.spk # None
        /\ Now(t, "haltMic")' => binder'.mic # None
    BY <1>1, <1>3, <2>1 DEF Onward, FieldEffect
  <2>4. /\ Now(t, "clearSpk")' =>
             binder'.spk # None /\ ~binder'.relayer[binder'.spk].working
        /\ Now(t, "clearMic")' =>
             binder'.mic # None /\ ~binder'.relayer[binder'.mic].working
    <3>1. /\ binder.mic # None => binder.mic \in Relayer /\ Used(binder.mic)
          /\ binder.spk # None => binder.spk \in Relayer /\ Used(binder.spk)
      BY DEF Kept, Types, BinderType, RelayersKept
    <3>2. x = "haltSpk" /\ binder.spk # None =>
            ~binder'.relayer[binder.spk].working
      BY <2>1, <3>1, RelayerChanges DEF Changed
    <3>3. x = "haltMic" /\ binder.mic # None =>
            ~binder'.relayer[binder.mic].working
      BY <2>1, <3>1, RelayerChanges DEF Changed
    <3> QED BY <1>1, <1>3, <2>1, <3>2, <3>3 DEF Onward, FieldEffect
  <2>5. Later(t, "setSpk")' /\ ~Later(t, "clearSpk")' => binder'.spk = None
    BY <1>1, <2>1, <2>2 DEF EndsSafely, Once, FieldEffect
  <2>6. Later(t, "setMic")' /\ ~Later(t, "clearMic")' => binder'.mic = None
    BY <1>1, <2>1, <2>2 DEF EndsSafely, Once, FieldEffect
  <2>7. v.call = "press" /\ ~Later(t, "setMic")' => binder'.mic = v.relayer
    <3>1. CASE x = "setMic"
      BY <1>3, <2>1, <3>1 DEF FieldEffect, ThreadEffect
    <3>2. CASE x # "setMic"
      <4> SUFFICES ASSUME w.call = "press", ~Later(t, "setMic")
                   PROVE  binder'.mic = v.relayer
        BY <2>1, <2>2, <3>2 DEF Once
      <4>1. x \notin {"clearMic", "haltMic", "haltSpk", "bind"}
        BY <1>1 DEF Ordered, Once, Now, Later
      <4> QED
        BY <1>1, <1>3, <2>1, <3>2, <4>1 DEF EndsSafely, FieldEffect, ThreadEffect
    <3> QED BY <3>1, <3>2
  <2>8. v.call = "start" /\ ~Later(t, "setSpk")' => binder'.spk = v.relayer
    <3>1. CASE x = "setSpk"
      BY <1>3, <2>1, <3>1 DEF FieldEffect, ThreadEffect
    <3>2. CASE x # "setSpk"
      <4> SUFFICES ASSUME w.call = "start", ~Later(t, "setSpk")
                   PROVE  binder'.spk = v.relayer
        BY <2>1, <2>2, <3>2 DEF Once
      <4>1. x \notin {"clearSpk", "haltMic", "haltSpk", "bind", "setMic"}
        BY <1>1 DEF Ordered, Once, Now, Later
      <4> QED
        BY <1>1, <1>3, <2>1, <3>2, <4>1 DEF EndsSafely, FieldEffect, ThreadEffect
    <3> QED BY <3>1, <3>2
  <2> QED
    BY <1>1, <2>1, <2>3, <2>4, <2>5, <2>6, <2>7, <2>8 DEF EndsSafely
<1> QED BY <1>2, <1>3

LEMMA CalledEndKept ==
  ASSUME Kept, EndKept, NEW t \in Thread, NEW call, Called(t, call)
  PROVE  EndKept'
<1>1. \A u \in Thread \ {t} : Steady(u) /\ EndsSafely(u)
  BY CalledSteady DEF EndKept
<1>2. /\ Ordered(call, thread'[t].todo) /\ Fresh(thread'[t].todo)
      /\ binder' = binder /\ thread'[t].call = call
  BY FitsOrdered DEF Called
<1>3. \A u \in Thread \ {t} : EndsSafely(u)'
  BY <1>1, <1>2 DEF EndsSafely, Steady, Called
<1>4. EndsSafely(t)'
  <2>1. /\ ~Now(t, "haltSpk")' /\ ~Now(t, "clearSpk")'
        /\ ~Now(t, "haltMic")' /\ ~Now(t, "clearMic")'
    BY <1>2 DEF Fresh, Now
  <2>2. /\ call = "start" => Later(t, "clearSpk")' /\ Later(t, "setSpk")'
        /\ call = "press" => Later(t, "clearMic")' /\ Later(t, "setMic")'
        /\ Later(t, "setSpk")' => call = "start"
        /\ Later(t, "setMic")' => call = "press"
    BY <1>2 DEF Called, Ordered, Later
  <2> QED BY <1>2, <2>1, <2>2 DEF EndsSafely, Called
<1>5. Running' /\ NoOrphan'
  <2>1. thread'[Main].alive
    BY DEF Called, Running, Thread
  <2>2. NoOrphan'
    BY <1>2 DEF EndKept, NoOrphan, Working
  <2> QED BY <2>1, <2>2 DEF Running
<1> QED BY <1>3, <1>4, <1>5 DEF EndKept

LEMMA RelayedEndKept ==
  ASSUME Kept, EndKept, NEW r \in Relayer, Relayed(r)
  PROVE  EndKept'
<1>1. \A u \in Thread : Steady(u) /\ EndsSafely(u)
  BY RelayedSteady DEF EndKept
<1>2. \A q \in Relayer : /\ binder'.relayer[q].working => binder.relayer[q].working
                         /\ binder'.relayer[q].started = binder.relayer[q].started
  <2>1. binder.relayer \in [Relayer -> RelayerType]
    BY DEF Kept, Types, BinderType
  <2>2. binder'.relayer[r].working => binder.relayer[r].working
    <3>1. CASE GivenUp(r)
      <4>1. binder'.relayer[r].working = FALSE
        BY <2>1, <3>1 DEF GivenUp, RelayerType
      <4> QED BY <4>1
    <3>2. CASE StoppedReceiving(r)
      BY <2>1, <3>2 DEF StoppedReceiving, RelayerType
    <3> QED BY <3>1, <3>2 DEF Relayed
  <2> QED BY <2>2 DEF Relayed
<1>3. /\ binder.mic \in Relayer \cup {None} /\ binder.spk \in Relayer \cup {None}
      /\ binder'.mic = binder.mic /\ binder'.spk = binder.spk /\ thread' = thread
  BY DEF Kept, Types, BinderType, Relayed
<1>4. \A u \in Thread : EndsSafely(u)'
  BY <1>1, <1>2, <1>3 DEF EndsSafely, Steady
<1>5. Running' /\ NoOrphan'
  BY <1>2, <1>3 DEF EndKept, NoOrphan, Working, Running
<1> QED BY <1>4, <1>5 DEF EndKept

LEMMA EndInvariant == Spec => [](Safe(EndRace) => EndKept)
<1>1. Init => EndKept
  <2> SUFFICES ASSUME Init
               PROVE  EndKept
    OBVIOUS
  <2>1. \A t \in Thread : thread[t].todo = <<>>
    BY DEF Init, Idle, Dead
  <2>2. thread[Main].alive
    BY DEF Init, Thread, Idle
  <2>3. Working = {}
    BY DEF Init, Working, NoRelayer
  <2> QED
    BY <2>1, <2>2, <2>3
    DEF EndKept, Running, EndsSafely, NoOrphan, Busy, Now, Later, Is, Ahead
<1>2. /\ Kept /\ Overlaps /\ OneReceiver /\ (Safe(EndRace) => EndKept) /\ [Next]_vars
      => (Safe(EndRace) => EndKept)'
  <2> SUFFICES ASSUME Kept, Overlaps, OneReceiver, Safe(EndRace) => EndKept,
                      [Next]_vars, Safe(EndRace)'
               PROVE  EndKept'
    OBVIOUS
  <2>1. Safe(EndRace) /\ EndKept
    BY OverlappedGrows DEF Safe, EndRace
  <2>2. ASSUME NEW t \in Thread, NEW x, Effect(t, x)
        PROVE  EndKept'
    <3>1. \A u \in Thread : EndsSafely(u)'
      BY <2>1, <2>2, StepOtherEnds, StepOwnEnds
    <3> QED BY <2>1, <2>2, <3>1, StepRuns, StepNoOrphan DEF EndKept
  <2>3. CASE Next
    BY <2>1, <2>2, <2>3, NextFacts, CalledEndKept, RelayedEndKept
  <2>4. CASE UNCHANGED vars
    BY <2>1, <2>4
    DEF vars, EndKept, Running, EndsSafely, NoOrphan, Working, Busy, Now, Later
  <2> QED BY <2>3, <2>4
<1> QED
  BY <1>1, <1>2, KeptInvariant, OverlapsInvariant, StructureInvariant, PTL
  DEF Spec

(* The process is not ended by a field that another thread has set to null *)
(* in the middle of endRtpReceiver or endRtpSender, except in EndRace.     *)
THEOREM SurvivesHolds == Spec => []SurvivesUnlessCrossed
<1>1. (Safe(EndRace) => EndKept) => SurvivesUnlessCrossed
  BY DEF SurvivesUnlessCrossed, EndKept
<1> QED BY <1>1, EndInvariant, PTL

(* A relayer that works is one that the binder can halt, except in EndRace. *)
THEOREM NoOrphanHolds == Spec => []NoOrphanUnlessCrossed
<1>1. (Safe(EndRace) => EndKept) => NoOrphanUnlessCrossed
  BY DEF NoOrphanUnlessCrossed, EndKept, NoOrphan
<1> QED BY <1>1, EndInvariant, PTL

-----------------------------------------------------------------------------
(* Without SessionRace: what is true of the session and of the packets.    *)
SessionFits(t) ==
  LET w == thread[t]
      s == binder.session
      Own(r) == binder.relayer[r]
  IN  /\ Ending(w.todo) => binder.mic = None /\ binder.spk = None
      /\ Busy(t) /\ w.call = "press" =>
           /\ ~Later(t, "newCall") => s.ssrc = w.packet.ssrc
           /\ ~Later(t, "key") => s.key = w.packet.ssrc
      /\ Busy(t) /\ w.call = "start" =>
           /\ ~Later(t, "takeOver") => s.ssrc = w.packet.ssrc
           /\ ~Later(t, "bind") => Own(w.relayer).call = w.packet.ssrc
           /\ ~Later(t, "decipher") => Own(w.relayer).key = s.key
      /\ Now(t, "clearMic") => w.relayer = binder.mic
      /\ Now(t, "stop") =>
           /\ w.relayer \in Relayer /\ Used(w.relayer)
           /\ s.ssrc = Own(w.relayer).call
      /\ w.made # NoPacket =>
           /\ Now(t, "sockets") \/ Now(t, "queue")
           /\ w.relayer \in Relayer /\ Used(w.relayer)
           /\ w.made.ssrc = Own(w.relayer).call

OwnSession(r) == /\ binder.relayer[r].call = binder.session.ssrc
                 /\ binder.relayer[r].key = binder.session.key

SessionKept ==
  /\ \A r \in Relayer : r \in Working \/ r = binder.mic => OwnSession(r)
  /\ \A t \in Thread : SessionFits(t)
  /\ \A t, u \in Thread :
       Ending(thread[t].todo) /\ Ending(thread[u].todo) => t = u
  /\ GivingUp # {} => /\ binder.mic = None /\ Working = {}
                      /\ \A t \in Thread : ~Now(t, "stop")

(* Everything that the invariants say when no race has been. *)
Calm ==
  /\ Kept /\ Overlaps /\ OneReceiver /\ KindsFit
  /\ Safe(SessionRace) /\ Safe(EndRace) /\ Single /\ EndKept /\ SessionKept

(* The session changes only when there is no relayer that could differ.    *)
Alone(t) ==
  /\ binder.mic = None /\ binder.spk = None /\ Working = {}
  /\ binder'.mic = None /\ binder'.spk = None /\ Working' = {}
  /\ \A u \in Thread \ {t} :
       Busy(u) => thread[u].call \notin {"press", "start"} /\ ~Now(u, "stop")

LEMMA EndingCall ==
  ASSUME Kept, NEW t \in Thread
  PROVE  /\ Ending(thread[t].todo) => Busy(t) /\ thread[t].call # "reload"
         /\ Now(t, "stop") \/ Now(t, "endSession") => Ending(thread[t].todo)
<1>1. /\ Ordered(thread[t].call, thread[t].todo)
      /\ thread[t].todo \in Seq(Statement)
  BY CallOf DEF Kept, Types, ThreadType
<1>2. thread[t].todo # <<>> => Head(thread[t].todo) = thread[t].todo[1]
  BY <1>1
<1> QED BY <1>1, <1>2 DEF Ordered, Ending, Busy, Now, Is

LEMMA SessionChanges ==
  ASSUME Calm, NEW t \in Thread, NEW x, Effect(t, x)
  PROVE  \/ binder'.session = binder.session
         \/ x \in {"endSession", "takeOver", "newCall", "key"} /\ Alone(t)
<1>1. /\ Ordered(thread[t].call, thread[t].todo) /\ Now(t, x) /\ Busy(t)
      /\ EndsSafely(t) /\ SessionFits(t)
  BY OwnFacts DEF Calm, EndKept, SessionKept
<1>2. \/ binder'.session = binder.session
      \/ x \in {"endSession", "takeOver", "newCall", "key"}
  BY DEF Effect, Fails, Works, SessionEffect
<1>3. ASSUME x \in {"endSession", "takeOver", "newCall", "key"}
      PROVE  Alone(t)
  <2>1. /\ thread[t].call # "reload"
        /\ x = "endSession" => Ending(thread[t].todo)
        /\ x = "takeOver" => thread[t].call = "start"
        /\ x \in {"newCall", "key"} => thread[t].call = "press"
    BY <1>1, <1>3, EndingCall DEF Calm, Ordered, Once, Now
  <2>2. x = "takeOver" => binder.mic = None /\ binder.spk = None
    <3>1. x = "takeOver" => /\ Later(t, "setSpk")
                            /\ ~Later(t, "clearMic") /\ ~Later(t, "clearSpk")
      BY <1>1, <2>1 DEF Ordered, Once, Now, Later
    <3> QED BY <1>1, <3>1 DEF Calm, Single, EndsSafely
  <2>3. x \in {"newCall", "key"} => binder.mic = None /\ binder.spk = None
    <3>1. x \in {"newCall", "key"} =>
            /\ Later(t, "setMic")
            /\ ~Later(t, "clearMic") /\ ~Later(t, "clearSpk")
      BY <1>1, <2>1 DEF Ordered, Once, Now, Later
    <3> QED BY <1>1, <3>1 DEF Calm, Single, EndsSafely
  <2>4. binder.mic = None /\ binder.spk = None
    BY <1>1, <1>3, <2>1, <2>2, <2>3 DEF SessionFits
  <2>5. binder'.mic = None /\ binder'.spk = None
    BY <1>3, <2>4, FieldFacts DEF Calm
  <2>6. Working = {} /\ Working' = {}
    <3>1. NoOrphan /\ NoOrphan'
      BY StepNoOrphan DEF Calm, EndKept
    <3> QED BY <2>4, <2>5, <3>1, NamesAssumption DEF NoOrphan, Working
  <2>7. ASSUME NEW u \in Thread \ {t}, Busy(u)
        PROVE  thread[u].call \notin {"press", "start"} /\ ~Now(u, "stop")
    <3>1. \/ thread[u].call = "reload"
          \/ thread[t].call = "release" /\ thread[u].call = "stop"
          \/ thread[t].call = "stop" /\ thread[u].call = "release"
      BY <1>1, <2>1, <2>7, Apart DEF Calm
    <3>2. Now(u, "stop") => Ending(thread[u].todo) /\ thread[u].call # "reload"
      BY EndingCall DEF Calm
    <3>3. x = "endSession" => ~Ending(thread[u].todo)
      BY <2>1 DEF Calm, SessionKept
    <3> QED BY <1>3, <2>1, <3>1, <3>2, <3>3
  <2> QED BY <2>4, <2>5, <2>6, <2>7 DEF Alone
<1> QED BY <1>2, <1>3

LEMMA StepOwnSession ==
  ASSUME Calm, NEW t \in Thread, NEW x, Effect(t, x), NEW r \in Relayer,
         r \in Working' \/ r = binder'.mic
  PROVE  OwnSession(r)'
<1>1. /\ Ordered(thread[t].call, thread[t].todo) /\ Now(t, x) /\ Busy(t)
      /\ EndsSafely(t) /\ SessionFits(t)
  BY OwnFacts DEF Calm, EndKept, SessionKept
<1>2. binder'.session = binder.session
  BY SessionChanges, NamesAssumption DEF Alone
<1>3. Changed(t, x, r)
  BY RelayerChanges DEF Calm
<1>4. r = binder'.mic => binder'.relayer[r].kind = "mic"
  BY StepKindsFit, NamesAssumption DEF Calm, KindsFit
<1>5. r \in Working' =>
        binder'.relayer[r].started /\ binder'.relayer[r].working
  BY DEF Working
<1>6. ~NoRelayer.started /\ NoRelayer.kind = "none"
  BY DEF NoRelayer
<1>7. binder.mic # None => binder.mic \in Relayer /\ Used(binder.mic)
  BY DEF Calm, Kept, Types, BinderType, RelayersKept
<1>8. CASE Used(r)
  <2>1. /\ binder'.relayer[r].call = binder.relayer[r].call
        /\ \/ binder'.relayer[r].key = binder.relayer[r].key
           \/ binder'.relayer[r].key = binder.session.key
    BY <1>3, <1>8 DEF Changed
  <2>2. \/ r \in Working \/ r = binder.mic
        \/ x = "run" /\ r = ToRun(t)
    <3>1. CASE r \in Working'
      BY <1>3, <1>5, <1>8, <3>1 DEF Changed, Working
    <3>2. CASE r = binder'.mic
      <4>1. ~(x = "setMic" /\ r = New)
        <5> SUFFICES ASSUME x = "setMic", r = New
                     PROVE  FALSE
          OBVIOUS
        <5>1. t \in Making
          BY <1>1 DEF Making, Ordered, Once, Now, Later
        <5>2. binder.relayer[New] = NoRelayer
          BY <5>1, NewFacts DEF Calm
        <5> QED BY <1>6, <1>8, <5>2 DEF Used
      <4> QED BY <3>2, <4>1, FieldFacts, NamesAssumption DEF Calm
    <3> QED BY <3>1, <3>2
  <2>3. CASE r \in Working \/ r = binder.mic
    BY <1>2, <2>1, <2>3 DEF Calm, SessionKept, OwnSession
  <2>4. CASE x = "run" /\ r = ToRun(t)
    <3>1. CASE thread[t].call = "press"
      BY <2>3, <2>4, <3>1 DEF ToRun
    <3>2. CASE thread[t].call = "start"
      <4>1. /\ ~Later(t, "takeOver") /\ ~Later(t, "bind")
            /\ ~Later(t, "decipher") /\ ~Later(t, "setSpk")
        BY <1>1, <2>4, <3>2 DEF Ordered, Now, Later
      <4>2. r = thread[t].relayer
        BY <1>1, <2>4, <3>2, <4>1 DEF EndsSafely, ToRun
      <4>3. OwnSession(r)
        BY <1>1, <2>4, <3>2, <4>1, <4>2 DEF SessionFits, OwnSession
      <4> QED BY <1>2, <2>1, <4>3 DEF OwnSession
    <3> QED BY <1>1, <2>4, <3>1, <3>2 DEF Ordered, Now
  <2> QED BY <2>2, <2>3, <2>4
<1>9. CASE ~Used(r)
  <2>1. ~(r \in Working') /\ r = binder'.mic
    BY <1>3, <1>5, <1>6, <1>9 DEF Changed
  <2>2. x = "setMic" /\ r = New
    BY <1>7, <1>9, <2>1, FieldFacts, NamesAssumption DEF Calm
  <2>3. /\ binder'.relayer[r].call = thread[t].packet.ssrc
        /\ binder'.relayer[r].key = thread[t].packet.ssrc
    BY <1>3, <1>4, <1>6, <1>9, <2>1, <2>2 DEF Changed
  <2>4. thread[t].call = "press" /\ ~Later(t, "newCall") /\ ~Later(t, "key")
    BY <1>1, <2>2 DEF Ordered, Once, Now, Later
  <2> QED BY <1>1, <1>2, <2>3, <2>4 DEF SessionFits, OwnSession
<1> QED BY <1>8, <1>9

(* A relayer in use keeps its call, and its key unless it is deciphered.   *)
LEMMA UsedKeeps ==
  ASSUME Kept, NEW t \in Thread, NEW x, Effect(t, x), NEW r \in Relayer, Used(r)
  PROVE  /\ Used(r)'
         /\ binder'.relayer[r].call = binder.relayer[r].call
         /\ x # "decipher" => binder'.relayer[r].key = binder.relayer[r].key
BY RelayerChanges DEF Changed, Used

LEMMA StepOtherFits ==
  ASSUME Calm, NEW t \in Thread, NEW x, Effect(t, x), NEW u \in Thread \ {t}
  PROVE  SessionFits(u)'
<1>1. /\ Ordered(thread[t].call, thread[t].todo) /\ Now(t, x) /\ Busy(t)
      /\ Ordered(thread[u].call, thread[u].todo) /\ SessionFits(u) /\ Steady(u)
      /\ ThreadKept(u) /\ EndsSafely(u)
      /\ \A y : Later(u, y) \/ Now(u, y) => Busy(u)
  BY OwnFacts, CallOf, OthersSteady DEF Calm, SessionKept, Kept, EndKept
<1>2. Busy(u) => \/ thread[t].call = "reload" \/ thread[u].call = "reload"
                 \/ thread[t].call = "release" /\ thread[u].call = "stop"
                 \/ thread[t].call = "stop" /\ thread[u].call = "release"
  BY <1>1, Apart DEF Calm
<1>3. /\ x = "decipher" \/ x = "setSpk" => thread[t].call = "start"
      /\ x = "setMic" => thread[t].call = "press"
      /\ x = "clearMic" =>
           thread[t].call \in {"start", "press", "release", "link"}
  BY <1>1 DEF Ordered, Once, Now
<1>4. Ending(thread[u].todo)' => binder'.mic = None /\ binder'.spk = None
  <2> SUFFICES ASSUME Ending(thread[u].todo)
               PROVE  binder'.mic = None /\ binder'.spk = None
    BY <1>1 DEF Steady
  <2>1. Busy(u) /\ thread[u].call # "reload"
    BY EndingCall DEF Calm
  <2>2. x \notin {"setSpk", "setMic"}
    BY <1>2, <1>3, <2>1
  <2> QED BY <1>1, <2>2, FieldFacts DEF SessionFits, Calm
<1>5. Busy(u) /\ thread[u].call \in {"press", "start"} =>
        binder'.session = binder.session /\ x # "decipher"
  BY <1>2, <1>3, SessionChanges DEF Alone
<1>6. Busy(u) /\ thread[u].call = "start" /\ ~Later(u, "bind") =>
        thread[u].relayer \in Relayer /\ Used(thread[u].relayer)
  BY <1>1 DEF ThreadKept
<1>7. Busy(u) /\ thread[u].call = "press" =>
        /\ ~Later(u, "newCall") =>
             binder'.session.ssrc = thread[u].packet.ssrc
        /\ ~Later(u, "key") => binder'.session.key = thread[u].packet.ssrc
  BY <1>1, <1>5 DEF SessionFits
<1>8. Busy(u) /\ thread[u].call = "start" =>
        /\ ~Later(u, "takeOver") =>
             binder'.session.ssrc = thread[u].packet.ssrc
        /\ ~Later(u, "bind") =>
             binder'.relayer[thread[u].relayer].call = thread[u].packet.ssrc
        /\ ~Later(u, "decipher") =>
             binder'.relayer[thread[u].relayer].key = binder'.session.key
  <2> SUFFICES ASSUME Busy(u), thread[u].call = "start"
               PROVE  <1>8!2
    OBVIOUS
  <2>1. binder'.session = binder.session /\ x # "decipher"
    BY <1>5
  <2>2. ~Later(u, "decipher") => ~Later(u, "bind")
    BY <1>1 DEF Ordered, Later
  <2>3. ~Later(u, "bind") =>
          LET r == thread[u].relayer
          IN  /\ binder'.relayer[r].call = binder.relayer[r].call
              /\ binder'.relayer[r].key = binder.relayer[r].key
    BY <1>6, <2>1, UsedKeeps DEF Calm
  <2> QED BY <1>1, <2>1, <2>2, <2>3 DEF SessionFits
<1>9. Now(u, "clearMic") => thread[u].relayer = binder'.mic
  <2> SUFFICES ASSUME Now(u, "clearMic")
               PROVE  thread[u].relayer = binder'.mic
    OBVIOUS
  <2>1. Busy(u) /\ thread[u].call \in {"start", "press", "release", "link"}
    BY <1>1 DEF Ordered, Now
  <2>2. x \notin {"clearMic", "setMic"}
    BY <1>2, <1>3, <2>1
  <2> QED BY <1>1, <2>2, FieldFacts DEF SessionFits, Calm
<1>10. Now(u, "stop") =>
         /\ thread[u].relayer \in Relayer
         /\ binder'.relayer[thread[u].relayer].kind # "none"
         /\ binder'.session.ssrc = binder'.relayer[thread[u].relayer].call
  <2> SUFFICES ASSUME Now(u, "stop")
               PROVE  <1>10!2
    OBVIOUS
  <2>1. /\ thread[u].relayer \in Relayer /\ Used(thread[u].relayer)
        /\ binder.session.ssrc = binder.relayer[thread[u].relayer].call
    BY <1>1 DEF SessionFits
  <2>2. binder'.session = binder.session
    BY <1>1, SessionChanges DEF Alone
  <2> QED BY <2>1, <2>2, UsedKeeps DEF Calm, Used
<1> QED
  <2>1. Busy(u) => /\ thread'[u].packet = thread[u].packet
                   /\ thread'[u].relayer = thread[u].relayer
    BY <1>1 DEF Steady
  <2>2. /\ thread'[u].call = thread[u].call /\ thread'[u].made = thread[u].made
        /\ Busy(u)' <=> Busy(u)
        /\ \A y : (Later(u, y)' <=> Later(u, y)) /\ (Now(u, y)' <=> Now(u, y))
    BY <1>1 DEF Steady
  <2>3. thread'[u].made # NoPacket =>
          /\ Now(u, "sockets")' \/ Now(u, "queue")'
          /\ thread'[u].relayer \in Relayer
          /\ binder'.relayer[thread'[u].relayer].kind # "none"
          /\ thread'[u].made.ssrc = binder'.relayer[thread'[u].relayer].call
    <3> SUFFICES ASSUME thread[u].made # NoPacket
                 PROVE  <2>3!2
      BY <2>2
    <3>1. /\ Now(u, "sockets") \/ Now(u, "queue")
          /\ thread[u].relayer \in Relayer /\ Used(thread[u].relayer)
          /\ thread[u].made.ssrc = binder.relayer[thread[u].relayer].call
      BY <1>1 DEF SessionFits
    <3>2. thread'[u].relayer = thread[u].relayer
      BY <1>1, <2>1, <3>1
    <3> QED BY <2>2, <3>1, <3>2, UsedKeeps DEF Calm, Used
  <2>4. Now(u, "clearMic")' => thread'[u].relayer = binder'.mic
    BY <1>1, <1>9, <2>1, <2>2
  <2>5. Now(u, "stop")' =>
          /\ thread'[u].relayer \in Relayer
          /\ binder'.relayer[thread'[u].relayer].kind # "none"
          /\ binder'.session.ssrc = binder'.relayer[thread'[u].relayer].call
    BY <1>1, <1>10, <2>1, <2>2 DEF Used
  <2> QED
    BY <1>4, <1>7, <1>8, <2>1, <2>2, <2>3, <2>4, <2>5 DEF SessionFits, Used

LEMMA StepOwnFits ==
  ASSUME Calm, NEW t \in Thread, NEW x, Effect(t, x)
  PROVE  SessionFits(t)'
<1>1. /\ Onward(t, x) /\ ThreadKept(t)
      /\ Ordered(thread[t].call, thread[t].todo)
      /\ Now(t, x) /\ Busy(t) /\ EndsSafely(t) /\ SessionFits(t)
      /\ \A y : Now(t, y) => y = x
      /\ Busy(t)' <=> thread'[t].todo # <<>>
  BY OwnFacts DEF Calm, EndKept, SessionKept
<1>2. CASE thread'[t].todo = <<>>
  <2>1. thread'[t].made = NoPacket
    BY <1>2 DEF Effect
  <2> QED BY <1>1, <1>2, <2>1 DEF SessionFits, Onward
<1>3. CASE thread'[t].todo # <<>>
  <2> DEFINE w == thread[t]
             v == thread'[t]
  <2>1. /\ Works(t, x) /\ v.call = w.call
        /\ FieldEffect(t, x) /\ ThreadEffect(t, x) /\ SessionEffect(t, x)
        /\ RelayerEffect(t, x)
    BY <1>1, <1>3 DEF Onward, Works
  <2>2. \A y \in {"newCall", "key", "takeOver", "bind", "decipher"} :
          Later(t, y)' <=> Later(t, y) /\ y # x
    BY <1>1, <1>3 DEF Onward, Once
  <2>3. /\ binder.mic \in Relayer \cup {None}
        /\ binder.mic # None => Used(binder.mic)
        /\ binder.spk \in Relayer \cup {None}
        /\ binder.session \in Session /\ None \notin Relayer
    BY NamesAssumption DEF Calm, Kept, Types, BinderType, RelayersKept
  <2>4. Ending(v.todo) => binder'.mic = None /\ binder'.spk = None
    <3> SUFFICES ASSUME Ending(v.todo)
                 PROVE  binder'.mic = None /\ binder'.spk = None
      OBVIOUS
    <3>1. CASE x = "clearSpk"
      <4>1. binder.spk # None
        BY <1>1, <3>1 DEF EndsSafely
      <4> QED BY <2>1, <3>1, <4>1 DEF FieldEffect, Calm, Single
    <3>2. CASE x = "clearMic"
      <4>1. binder.mic # None
        BY <1>1, <3>2 DEF EndsSafely
      <4> QED BY <2>1, <3>2, <4>1 DEF FieldEffect, Calm, Single
    <3>3. CASE Ending(w.todo) /\ x # "endSession"
      <4>1. x \notin {"setSpk", "setMic"}
        BY <1>1, <3>3 DEF Ordered, Once, Now, Later
      <4> QED BY <1>1, <2>1, <3>3, <4>1 DEF FieldEffect, SessionFits
    <3> QED BY <1>1, <1>3, <3>1, <3>2, <3>3 DEF Onward
  <2>5. v.call = "press" =>
          /\ ~Later(t, "newCall")' => binder'.session.ssrc = v.packet.ssrc
          /\ ~Later(t, "key")' => binder'.session.key = v.packet.ssrc
    <3> SUFFICES ASSUME w.call = "press"
                 PROVE  <2>5!2
      BY <2>1
    <3>1. CASE x = "newCall"
      <4>1. PICK c \in OwnCall :
              /\ binder'.session =
                   SetSessionParamCodec(binder.session, AccountLevel, c)
              /\ v.packet.ssrc = c
        BY <1>3, <2>1, <3>1 DEF SessionEffect
      <4>2. SetSessionParamCodec(binder.session, AccountLevel, c).ssrc = c
        BY <2>3 DEF SetSessionParamCodec, Session
      <4>3. Later(t, "key")
        BY <1>1, <3>1 DEF Ordered, Once, Now, Later
      <4> QED BY <2>2, <3>1, <4>1, <4>2, <4>3
    <3>2. CASE x = "key"
      <4>1. binder'.session = SetKey(binder.session, w.packet.ssrc)
        BY <2>1, <3>2 DEF SessionEffect
      <4>2. /\ SetKey(binder.session, w.packet.ssrc).key = w.packet.ssrc
            /\ SetKey(binder.session, w.packet.ssrc).ssrc = binder.session.ssrc
        BY <2>3 DEF SetKey, Session
      <4>3. ~Later(t, "newCall") /\ v.packet = w.packet
        BY <1>1, <1>3, <2>1, <3>2 DEF Ordered, Now, Later, ThreadEffect
      <4> QED BY <1>1, <4>1, <4>2, <4>3 DEF SessionFits
    <3>3. CASE x = "endSession"
      <4>1. Later(t, "newCall") /\ Later(t, "key")
        BY <1>1, <3>3, EndingCall DEF Calm, Ordered, Later
      <4> QED BY <2>2, <3>3, <4>1
    <3>4. CASE x \notin {"newCall", "key", "endSession"}
      <4>1. x # "takeOver"
        BY <1>1 DEF Ordered, Once, Now
      <4>2. binder'.session = binder.session /\ v.packet = w.packet
        BY <1>3, <2>1, <3>4, <4>1 DEF SessionEffect, ThreadEffect
      <4> QED BY <1>1, <2>2, <3>4, <4>2 DEF SessionFits
    <3> QED BY <3>1, <3>2, <3>3, <3>4
  <2>6. v.call = "start" =>
          /\ ~Later(t, "takeOver")' => binder'.session.ssrc = v.packet.ssrc
          /\ ~Later(t, "bind")' =>
               binder'.relayer[v.relayer].call = v.packet.ssrc
          /\ ~Later(t, "decipher")' =>
               binder'.relayer[v.relayer].key = binder'.session.key
    <3> SUFFICES ASSUME w.call = "start"
                 PROVE  <2>6!2
      BY <2>1
    <3>0. /\ x \notin {"newCall", "key", "setMic"}
          /\ v.packet = w.packet
          /\ Later(t, "takeOver") => Later(t, "bind")
          /\ Later(t, "bind") => Later(t, "decipher")
      BY <1>1, <1>3, <2>1 DEF Ordered, Once, Now, Later, ThreadEffect
    <3>1. CASE x = "takeOver"
      <4>1. binder'.session = SetSessionParamStart(binder.session, w.packet)
        BY <2>1, <3>1 DEF SessionEffect
      <4>2. SetSessionParamStart(binder.session, w.packet).ssrc = w.packet.ssrc
        BY DEF SetSessionParamStart
      <4>3. Later(t, "bind") /\ Later(t, "decipher")
        BY <1>1, <3>0, <3>1 DEF Ordered, Once, Now, Later
      <4> QED BY <2>2, <3>0, <3>1, <4>1, <4>2, <4>3
    <3>2. CASE x = "endSession"
      <4>1. Later(t, "takeOver")
        BY <1>1, <3>2, EndingCall DEF Calm, Ordered, Later
      <4> QED BY <2>2, <3>0, <3>2, <4>1
    <3>3. CASE x \notin {"takeOver", "endSession"}
      <4>1. binder'.session = binder.session
        BY <2>1, <3>0, <3>3 DEF SessionEffect
      <4>2. CASE x = "bind"
        <5>1. v.relayer = New
          BY <1>3, <2>1, <4>2 DEF ThreadEffect
        <5>2. t \in Making
          BY <1>1, <4>2 DEF Making, Ordered, Once, Now, Later
        <5>3. New \in Relayer /\ ~Used(New)
          BY <5>2, NewFacts DEF Calm, Used, NoRelayer
        <5>4. binder'.relayer[New].kind # "none"
          BY <1>3, <4>2, RelayerFacts DEF Calm
        <5>5. binder'.relayer[New].call = w.packet.ssrc
          BY <5>3, <5>4, RelayerChanges DEF Changed, NoRelayer, Calm
        <5>6. Later(t, "decipher") /\ ~Later(t, "takeOver")
          BY <1>1, <4>2 DEF Ordered, Once, Now, Later
        <5> QED
          BY <1>1, <2>2, <3>0, <4>1, <4>2, <5>1, <5>5, <5>6 DEF SessionFits
      <4>3. CASE x # "bind"
        <5>1. ~Later(t, "bind") =>
                /\ w.relayer \in Relayer /\ Used(w.relayer)
                /\ v.relayer = w.relayer
          <6>1. ~Later(t, "bind") => x \notin {"haltSpk", "haltMic"}
            BY <1>1 DEF Ordered, Now, Later
          <6> QED
            BY <1>1, <1>3, <2>1, <3>0, <4>3, <6>1 DEF ThreadKept, ThreadEffect
        <5>2. ~Later(t, "bind") =>
                binder'.relayer[w.relayer].call = binder.relayer[w.relayer].call
          BY <5>1, UsedKeeps DEF Calm
        <5>3. CASE x = "decipher"
          <6>1. ~Later(t, "bind") /\ ~Later(t, "takeOver")
            BY <1>1, <5>3 DEF Ordered, Now, Later
          <6>2. binder'.relayer[w.relayer].key = binder.session.key
            BY <2>1, <5>1, <5>3, <6>1, RelayerChanges DEF Changed, Calm
          <6> QED
            BY <1>1, <2>2, <3>0, <4>1, <5>1, <5>2, <6>1, <6>2 DEF SessionFits
        <5>4. CASE x # "decipher"
          <6>1. ~Later(t, "bind") =>
                  binder'.relayer[w.relayer].key = binder.relayer[w.relayer].key
            BY <5>1, <5>4, UsedKeeps DEF Calm
          <6> QED
            BY <1>1, <2>2, <3>0, <3>3, <4>1, <4>3, <5>1, <5>2, <5>4, <6>1
            DEF SessionFits
        <5> QED BY <5>3, <5>4
      <4> QED BY <4>2, <4>3
    <3> QED BY <3>1, <3>2, <3>3
  <2>7. Now(t, "clearMic")' => v.relayer = binder'.mic
    BY <1>1, <1>3, <2>1 DEF Onward, ThreadEffect, FieldEffect
  <2>8. Now(t, "stop")' =>
          /\ v.relayer \in Relayer /\ binder'.relayer[v.relayer].kind # "none"
          /\ binder'.session.ssrc = binder'.relayer[v.relayer].call
    <3> SUFFICES ASSUME Now(t, "stop")'
                 PROVE  <2>8!2
      OBVIOUS
    <3>1. x = "clearMic"
      BY <1>1, <1>3 DEF Onward
    <3>2. /\ w.relayer = binder.mic /\ binder.mic # None
          /\ v.relayer = w.relayer /\ binder'.session = binder.session
      BY <1>1, <1>3, <2>1, <3>1
      DEF SessionFits, EndsSafely, ThreadEffect, SessionEffect
    <3>3. /\ binder.mic \in Relayer /\ Used(binder.mic)
          /\ binder.relayer[binder.mic].call = binder.session.ssrc
      BY <2>3, <3>2 DEF Calm, SessionKept, OwnSession
    <3> QED BY <3>2, <3>3, UsedKeeps DEF Calm, Used
  <2>9. v.made # NoPacket =>
          /\ Now(t, "sockets")' \/ Now(t, "queue")'
          /\ v.relayer \in Relayer /\ binder'.relayer[v.relayer].kind # "none"
          /\ v.made.ssrc = binder'.relayer[v.relayer].call
    <3> SUFFICES ASSUME v.made # NoPacket
                 PROVE  <2>9!2
      OBVIOUS
    <3>1. \/ x = "stop" /\ v.made = CtrlPacketStop(binder.session)
          \/ x = "start" /\ v.made = CtrlPacketStart(binder.session)
          \/ v.made = w.made /\ w.made # NoPacket /\ x # "queue"
      BY <1>3, <2>1 DEF ThreadEffect
    <3>2. /\ CtrlPacketStop(binder.session).ssrc = binder.session.ssrc
          /\ CtrlPacketStart(binder.session).ssrc = binder.session.ssrc
      BY DEF CtrlPacketStop, CtrlPacketStart
    <3>3. /\ w.relayer \in Relayer /\ Used(w.relayer)
          /\ v.made.ssrc = binder.relayer[w.relayer].call
          /\ x \in {"stop", "start", "sockets"}
      <4>1. CASE x = "start" /\ v.made = CtrlPacketStart(binder.session)
        <5>1. w.call = "press" /\ ~Later(t, "setMic")
          BY <1>1, <4>1 DEF Ordered, Now, Later
        <5>2. /\ binder.mic = w.relayer /\ w.relayer \in Relayer
              /\ Used(w.relayer)
          BY <1>1, <5>1 DEF EndsSafely, ThreadKept
        <5>3. binder.relayer[w.relayer].call = binder.session.ssrc
          BY <5>2 DEF Calm, SessionKept, OwnSession
        <5> QED BY <3>2, <4>1, <5>2, <5>3
      <4>2. CASE x = "stop" /\ v.made = CtrlPacketStop(binder.session)
        BY <1>1, <3>2, <4>2 DEF SessionFits
      <4>3. CASE v.made = w.made /\ w.made # NoPacket /\ x # "queue"
        BY <1>1, <4>3 DEF SessionFits
      <4> QED BY <3>1, <4>1, <4>2, <4>3
    <3>4. v.relayer = w.relayer
      BY <1>3, <2>1, <3>3 DEF ThreadEffect
    <3>5. Now(t, "sockets")' \/ Now(t, "queue")'
      BY <1>1, <1>3, <3>3 DEF Onward
    <3> QED BY <3>3, <3>4, <3>5, UsedKeeps DEF Calm, Used
  <2> QED
    BY <2>1, <2>4, <2>5, <2>6, <2>7, <2>8, <2>9 DEF SessionFits, Used
<1> QED BY <1>2, <1>3

(* At most one thread is between clearing a field and ending the session. *)
LEMMA StepOneEnding ==
  ASSUME Calm, NEW t \in Thread, NEW x, Effect(t, x),
         NEW a \in Thread, NEW b \in Thread,
         Ending(thread'[a].todo), Ending(thread'[b].todo)
  PROVE  a = b
<1>1. /\ Onward(t, x) /\ Now(t, x) /\ EndsSafely(t)
      /\ Ending(thread'[t].todo) =>
           x \in {"clearSpk", "clearMic"} \/ Ending(thread[t].todo)
  BY OwnFacts DEF Calm, EndKept, Onward
<1>2. ASSUME NEW u \in Thread \ {t}, Ending(thread[u].todo)
      PROVE  x \notin {"clearSpk", "clearMic"}
  BY <1>1, <1>2 DEF Calm, SessionKept, SessionFits, EndsSafely
<1>3. \A u \in Thread \ {t} :
        Ending(thread'[u].todo) <=> Ending(thread[u].todo)
  BY OthersSteady DEF Steady
<1> QED BY <1>1, <1>2, <1>3 DEF Calm, SessionKept

(* While a relayer is about to end the session there is no other, and no   *)
(* STOP is about to be made of that session.                               *)
NoneBesides ==
  GivingUp # {} => /\ binder.mic = None /\ Working = {}
                   /\ \A t \in Thread : ~Now(t, "stop")

LEMMA StepNoneBesides ==
  ASSUME Calm, NEW t \in Thread, NEW x, Effect(t, x)
  PROVE  NoneBesides'
<1>1. /\ Onward(t, x) /\ Ordered(thread[t].call, thread[t].todo)
      /\ Now(t, x) /\ Busy(t) /\ EndsSafely(t)
  BY OwnFacts DEF Calm, EndKept
<1>2. GivingUp' \subseteq GivingUp
  <2>1. ~NoRelayer.gaveUp
    BY DEF NoRelayer
  <2>2. \A r \in Relayer :
          binder'.relayer[r].gaveUp => binder.relayer[r].gaveUp
    BY <2>1, RelayerChanges DEF Changed, Calm
  <2> QED BY <2>2 DEF GivingUp
<1> SUFFICES ASSUME GivingUp # {}
             PROVE  /\ binder'.mic = None /\ Working' = {}
                    /\ \A u \in Thread : ~Now(u, "stop")'
  BY <1>2 DEF NoneBesides
<1>3. /\ binder.mic = None /\ Working = {}
      /\ \A u \in Thread : ~Now(u, "stop")
  BY DEF Calm, SessionKept
<1>4. thread[t].call \notin {"press", "start"}
  <2>1. {thread[t].call, "giveUp"} \in overlapped
    BY <1>1 DEF Calm, Overlaps
  <2> QED BY <2>1 DEF Calm, Safe, SessionRace
<1>5. x \notin {"setMic", "run", "clearMic"}
  BY <1>1, <1>3, <1>4 DEF Ordered, Once, Now, EndsSafely
<1>6. binder'.mic = None
  BY <1>3, <1>5, FieldFacts DEF Calm
<1>7. Working' = {}
  <2> SUFFICES ASSUME NEW r \in Relayer, binder'.relayer[r].started,
                      binder'.relayer[r].working
               PROVE  FALSE
    BY DEF Working
  <2>1. ~NoRelayer.started
    BY DEF NoRelayer
  <2>2. binder.relayer[r].started /\ binder.relayer[r].working
    BY <1>5, <2>1, RelayerChanges DEF Changed, Calm
  <2> QED BY <1>3, <2>2 DEF Working
<1>8. \A u \in Thread : ~Now(u, "stop")'
  <2>1. ~Now(t, "stop")'
    BY <1>1, <1>5 DEF Onward
  <2> QED BY <1>3, <2>1, OthersSteady DEF Steady
<1> QED BY <1>6, <1>7, <1>8

LEMMA StepSession ==
  ASSUME Calm, NEW t \in Thread, NEW x, Effect(t, x)
  PROVE  SessionKept'
<1>1. \A u \in Thread : SessionFits(u)'
  BY StepOtherFits, StepOwnFits
<1>2. \A r \in Relayer : r \in Working' \/ r = binder'.mic => OwnSession(r)'
  BY StepOwnSession
<1>3. NoneBesides'
  BY StepNoneBesides
<1>4. \A a, b \in Thread :
        Ending(thread'[a].todo) /\ Ending(thread'[b].todo) => a = b
  BY StepOneEnding
<1> QED BY <1>1, <1>2, <1>3, <1>4 DEF SessionKept, NoneBesides

LEMMA CalledSession ==
  ASSUME Calm, NEW t \in Thread, NEW call, Called(t, call)
  PROVE  SessionKept'
<1>1. \A u \in Thread \ {t} : Steady(u) /\ SessionFits(u)
  BY CalledSteady DEF Calm, SessionKept
<1>2. /\ Ordered(call, thread'[t].todo) /\ Fresh(thread'[t].todo)
      /\ binder' = binder /\ thread'[t].call = call
      /\ thread'[t].made = NoPacket
  BY FitsOrdered DEF Called
<1>3. \A u \in Thread \ {t} : SessionFits(u)'
  <2> SUFFICES ASSUME NEW u \in Thread \ {t}
               PROVE  SessionFits(u)'
    OBVIOUS
  <2>1. thread'[u] = thread[u]
    BY DEF Called
  <2> QED BY <1>1, <1>2, <2>1 DEF SessionFits, Steady, Used
<1>4. SessionFits(t)'
  <2>1. /\ ~Ending(thread'[t].todo)
        /\ ~Now(t, "clearMic")' /\ ~Now(t, "stop")'
    BY <1>2 DEF Fresh, Now
  <2>2. /\ call = "start" => /\ Later(t, "takeOver")' /\ Later(t, "bind")'
                             /\ Later(t, "decipher")'
        /\ call = "press" => Later(t, "newCall")' /\ Later(t, "key")'
    BY <1>2 DEF Called, Ordered, Later
  <2> QED BY <1>2, <2>1, <2>2 DEF SessionFits
<1>5. \A a \in Thread :
        Ending(thread'[a].todo) => a # t /\ Ending(thread[a].todo)
  BY <1>1, <1>2 DEF Fresh, Steady
<1>6. \A a \in Thread : Now(a, "stop")' => Now(a, "stop")
  BY <1>1, <1>2 DEF Fresh, Now, Steady
<1>7. /\ Working' = Working /\ GivingUp' = GivingUp
      /\ \A r \in Relayer : OwnSession(r)' <=> OwnSession(r)
  BY <1>2 DEF Working, GivingUp, OwnSession
<1> QED
  BY <1>2, <1>3, <1>4, <1>5, <1>6, <1>7 DEF Calm, SessionKept

LEMMA RelayedSession ==
  ASSUME Calm, NEW r \in Relayer, Relayed(r)
  PROVE  SessionKept'
<1>1. \A u \in Thread : Steady(u) /\ SessionFits(u) /\ thread'[u] = thread[u]
  BY RelayedSteady DEF Calm, SessionKept, Relayed
<1>2. /\ binder.relayer \in [Relayer -> RelayerType]
      /\ binder.mic \in Relayer \cup {None} /\ None \notin Relayer
      /\ binder'.mic = binder.mic /\ binder'.spk = binder.spk
      /\ thread' = thread
      /\ \A q \in Relayer :
           /\ binder'.relayer[q].kind = binder.relayer[q].kind
           /\ binder'.relayer[q].call = binder.relayer[q].call
           /\ binder'.relayer[q].key = binder.relayer[q].key
           /\ binder'.relayer[q].started = binder.relayer[q].started
      /\ \A q \in Relayer \ {r} : binder'.relayer[q] = binder.relayer[q]
  BY NamesAssumption DEF Calm, Kept, Types, BinderType, Relayed
<1>3. CASE GivenUp(r)
  <2>1. /\ binder.relayer[r].open /\ binder.relayer[r].started
        /\ binder'.relayer[r].working = FALSE
        /\ binder'.session = binder.session
    BY <1>2, <1>3 DEF GivenUp, RelayerType
  <2>2. r \in Working /\ binder.relayer[r].kind = "spk"
    BY <2>1 DEF Calm, KindsFit, Working
  <2>3. binder.spk = r /\ binder.mic = None
    BY <1>2, <2>2 DEF Calm, EndKept, NoOrphan, KindsFit, Single
  <2>4. Working' = {}
    <3>1. Working \subseteq {r}
      BY <1>2, <2>3 DEF Calm, EndKept, NoOrphan, Working
    <3>2. Working' \subseteq Working /\ r \notin Working'
      BY <1>2, <2>1 DEF Working
    <3> QED BY <3>1, <3>2
  <2>5. \A u \in Thread : ~Now(u, "stop")
    BY <1>1, <1>2, <2>3, EndingCall DEF Calm, SessionFits
  <2>6. \A u \in Thread : SessionFits(u)'
    <3> SUFFICES ASSUME NEW u \in Thread
                 PROVE  SessionFits(u)'
      OBVIOUS
    <3>1. Busy(u) /\ thread[u].call = "start" /\ ~Later(u, "bind") =>
            thread[u].relayer \in Relayer
      BY DEF Calm, Kept, ThreadKept
    <3>2. /\ Ordered(thread[u].call, thread[u].todo)
          /\ thread[u].call = "start" /\ ~Later(u, "decipher") =>
               ~Later(u, "bind")
      BY CallOf DEF Calm, Ordered, Later
    <3>3. SessionFits(u) /\ Steady(u) /\ thread'[u] = thread[u]
      BY <1>1
    <3> QED BY <1>2, <2>1, <3>1, <3>2, <3>3 DEF SessionFits, Used, Steady
  <2> QED
    BY <1>1, <1>2, <2>3, <2>4, <2>5, <2>6
    DEF Calm, SessionKept, Steady
<1>4. CASE StoppedReceiving(r)
  <2>1. r \in GivingUp
    BY <1>4 DEF StoppedReceiving, GivingUp
  <2>2. /\ binder.mic = None /\ Working = {}
        /\ \A u \in Thread : ~Now(u, "stop")
    BY <2>1 DEF Calm, SessionKept
  <2>3. Working' = {}
    <3>1. binder'.relayer[r].working = binder.relayer[r].working
      BY <1>2, <1>4 DEF StoppedReceiving, RelayerType
    <3> QED BY <1>2, <2>2, <3>1 DEF Working
  <2>4. \A u \in Thread : Busy(u) => thread[u].call \notin {"press", "start"}
    <3> SUFFICES ASSUME NEW u \in Thread, Busy(u)
                 PROVE  thread[u].call \notin {"press", "start"}
      OBVIOUS
    <3>1. {thread[u].call, "giveUp"} \in overlapped
      BY <2>1 DEF Calm, Overlaps
    <3> QED BY <3>1 DEF Calm, Safe, SessionRace
  <2>5. \A u \in Thread : SessionFits(u)'
    <3> SUFFICES ASSUME NEW u \in Thread
                 PROVE  SessionFits(u)'
      OBVIOUS
    <3>1. SessionFits(u) /\ Steady(u) /\ thread'[u] = thread[u]
      BY <1>1
    <3> QED BY <1>2, <2>2, <2>4, <3>1 DEF SessionFits, Used, Steady
  <2> QED
    BY <1>1, <1>2, <2>2, <2>3, <2>5 DEF Calm, SessionKept, Steady
<1> QED BY <1>3, <1>4 DEF Relayed

LEMMA SessionInvariant == Spec => [](Safe(SessionRace) => SessionKept)
<1>1. Init => SessionKept
  <2> SUFFICES ASSUME Init
               PROVE  SessionKept
    OBVIOUS
  <2>1. \A t \in Thread : thread[t].todo = <<>> /\ thread[t].made = NoPacket
    BY DEF Init, Idle, Dead
  <2>2. Working = {} /\ GivingUp = {} /\ binder.mic = None
    BY DEF Init, Working, GivingUp, NoRelayer
  <2>3. \A t \in Thread : /\ ~Busy(t) /\ ~Ending(thread[t].todo)
                          /\ \A y : ~Now(t, y)
    BY <2>1 DEF Busy, Ending, Now, Is
  <2> QED
    BY <2>1, <2>2, <2>3, NamesAssumption DEF SessionKept, SessionFits
<1>2. /\ Kept /\ Overlaps /\ OneReceiver /\ KindsFit
      /\ (Safe(PressStart) => Single) /\ (Safe(EndRace) => EndKept)
      /\ (Safe(SessionRace) => SessionKept) /\ [Next]_vars
      => (Safe(SessionRace) => SessionKept)'
  <2> SUFFICES ASSUME Kept, Overlaps, OneReceiver, KindsFit,
                      Safe(PressStart) => Single, Safe(EndRace) => EndKept,
                      Safe(SessionRace) => SessionKept,
                      [Next]_vars, Safe(SessionRace)'
               PROVE  SessionKept'
    OBVIOUS
  <2>1. Safe(SessionRace)
    <3>1. overlapped \subseteq overlapped'
      BY OverlappedGrows
    <3> QED BY <3>1 DEF Safe, SessionRace, EndRace
  <2>2. Safe(EndRace) /\ Safe(PressStart)
    BY <2>1 DEF Safe, SessionRace, EndRace, PressStart
  <2>3. Calm
    BY <2>1, <2>2 DEF Calm
  <2>4. CASE Next
    BY <2>3, <2>4, NextFacts, StepSession, CalledSession, RelayedSession
    DEF Calm
  <2>5. CASE UNCHANGED vars
    BY <2>3, <2>5
    DEF vars, Calm, SessionKept, SessionFits, OwnSession, Working, GivingUp,
        Busy, Now, Later, Used
  <2> QED BY <2>4, <2>5
<1> QED
  BY <1>1, <1>2, KeptInvariant, OverlapsInvariant, StructureInvariant,
     SingleInvariant, EndInvariant, PTL DEF Spec

(* A relayer that works has the call and the key of the session, unless a  *)
(* press or a START meets what ends a relayer or a relayer that gives up.  *)
THEOREM OwnSessionHolds == Spec => []OwnSessionUnlessCrossed
<1>1. (Safe(SessionRace) => SessionKept) => OwnSessionUnlessCrossed
  BY DEF OwnSessionUnlessCrossed, SessionKept, OwnSession, Working
<1> QED BY <1>1, SessionInvariant, PTL

(* The START and the STOP of this phone's own name the call whose          *)
(* microphone has just been started or halted, except in SessionRace.      *)
THEOREM OwnPacketHolds == Spec => []OwnPacketUnlessCrossed
<1>1. (Safe(SessionRace) => SessionKept) => OwnPacketUnlessCrossed
  BY DEF OwnPacketUnlessCrossed, SessionKept, SessionFits
<1> QED BY <1>1, SessionInvariant, PTL
=============================================================================
