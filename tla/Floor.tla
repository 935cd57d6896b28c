------------------------------- MODULE Floor -------------------------------
(***************************************************************************)
(* What the push-to-talk protocol promises, without packets, relayers or   *)
(* threads: phones are in at most one call each, a call is begun by one    *)
(* phone, which alone talks in it, and nothing takes a phone into a call   *)
(* but a level above that of the call it is in.                            *)
(***************************************************************************)
EXTENDS Integers

CONSTANTS
  Node,      \* the phones
  NoNode,
  Call,
  NoCall,
  AccountLevels, \* the levels each phone may begin a call at
  LevelMod       \* listeners know a level modulo LevelMod

VARIABLES
  begun,     \* who began each call, and at which level
  member,    \* the call each phone is in
  level,     \* the level it is in that call at
  talkers    \* the phones that talk

floorVars == <<begun, member, level, talkers>>

Free == -1

Init ==
  /\ begun = [c \in Call |-> [talker |-> NoNode, level |-> Free]]
  /\ member = [n \in Node |-> NoCall]
  /\ level = [n \in Node |-> Free]
  /\ talkers = {}

(* A phone takes the floor in a new call. *)
Begin(n, c, l) ==
  /\ begun[c].talker = NoNode
  /\ level[n] < l
  /\ begun' = [begun EXCEPT ![c] = [talker |-> n, level |-> l]]
  /\ member' = [member EXCEPT ![n] = c]
  /\ level' = [level EXCEPT ![n] = l]
  /\ talkers' = talkers \cup {n}

(* A phone is taken into a call that was begun, to listen. *)
Join(n, c) ==
  /\ begun[c].talker # NoNode
  /\ level[n] < begun[c].level % LevelMod
  /\ member' = [member EXCEPT ![n] = c]
  /\ level' = [level EXCEPT ![n] = begun[c].level % LevelMod]
  /\ talkers' = talkers \ {n}
  /\ UNCHANGED begun

(* A phone leaves its call, and is in none. *)
Leave(n) ==
  /\ member[n] # NoCall
  /\ member' = [member EXCEPT ![n] = NoCall]
  /\ level' = [level EXCEPT ![n] = Free]
  /\ talkers' = talkers \ {n}
  /\ UNCHANGED begun

Next ==
  \E n \in Node :
    \/ \E c \in Call, l \in AccountLevels[n] : Begin(n, c, l)
    \/ \E c \in Call : Join(n, c)
    \/ Leave(n)

Spec == Init /\ [][Next]_floorVars
=============================================================================
