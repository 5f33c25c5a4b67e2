---------------------------- MODULE UdpLinkProofs ----------------------------
(***************************************************************************)
(* The safety of the link for any number of payloads and restarts.         *)
(***************************************************************************)
EXTENDS UdpLink, TLAPS

(***************************************************************************)
(* Why the sender may trust a token: every message that a thread could     *)
(* still send is at most the current one, every token under way is for a   *)
(* message that was accepted, so a token that is not old is for the        *)
(* current message, which is then the last one to be accepted.             *)
(***************************************************************************)
Bounded ==
  /\ counter + queued <= MaxPayloads
  /\ pc # "start" => lastSent \in 0..counter
  /\ watched \subseteq 0..counter
  /\ expired \subseteq 0..counter
  /\ data \subseteq 0..counter

Accepted ==
  /\ got \subseteq 0..counter
  /\ tokens \subseteq got
  /\ last \in {-1} \union got
  /\ pc = "next" => counter \in got
  /\ AcceptedBeforeNext

Inv == TypeOK /\ Bounded /\ Accepted

LEMMA InitInv == Init => Inv
BY BoundsAssumption
   DEF Init, Inv, TypeOK, Bounded, Accepted, AcceptedBeforeNext, Counter

(* 1 % Cap is 1. *)
LEMMA Remainder == 1 % Cap = 1
BY CapAssumption

LEMMA NextInv ==
  ASSUME Inv, [Next]_vars
  PROVE  Inv'
<1> USE BoundsAssumption DEF Inv, TypeOK, Bounded, Accepted,
      AcceptedBeforeNext, Counter, sender, receiver
<1>1. CASE Enqueue
  BY <1>1 DEF Enqueue
<1>2. CASE Start
  BY <1>2 DEF Start, Transmit
<1>3. CASE SendNext
  <2>1. counter' = counter + 1 /\ queued' = queued - 1 /\ counter' \in Counter
    BY <1>3, Remainder DEF SendNext
  <2>2. /\ data' = data \union {counter'} /\ watched' = watched \union {counter'}
        /\ lastSent' = counter' /\ pc' = "recv" /\ counter \in got
        /\ UNCHANGED <<lastRecv, expired, tokens, receiver>>
    BY <1>3 DEF SendNext, Transmit
  <2>3. TypeOK' /\ Bounded'
    <3>1. 0..counter \subseteq 0..counter' /\ counter' \in 0..counter'
      BY <2>1
    <3>2. /\ watched' \subseteq 0..counter' /\ expired' \subseteq 0..counter'
          /\ data' \subseteq 0..counter' /\ lastSent' \in 0..counter'
      BY <2>2, <3>1
    <3>3. counter' + queued' <= MaxPayloads /\ queued' \in Counter
      BY <1>3, <2>1 DEF SendNext
    <3>4. 0..counter' \subseteq Counter
      BY <2>1
    <3>5. TypeOK'
      BY <2>1, <2>2, <3>2, <3>3, <3>4
    <3> QED
      BY <3>2, <3>3, <3>5
  <2>4. got \subseteq 0..counter'
    BY <2>1
  <2>5. \A c \in Counter : c < counter' => c \in got
    BY <2>1, <2>2
  <2> QED
    BY <2>2, <2>3, <2>4, <2>5
<1>4. CASE RestartReceiver
  BY <1>4 DEF RestartReceiver
<1>5. ASSUME NEW c \in Counter, RecvToken(c)
      PROVE  Inv'
  <2>1. /\ c \in got /\ c <= counter /\ pc = "recv"
        /\ tokens' \subseteq tokens /\ lastRecv' = c
    BY <1>5 DEF RecvToken, Take
  <2>2. CASE c >= counter
    <3>1. c = counter
      BY <2>1, <2>2
    <3>2. pc' = "next" /\ UNCHANGED <<lastSent, watched, data, queued, counter,
                                     expired, receiver>>
      BY <1>5, <2>2 DEF RecvToken
    <3> QED
      BY <2>1, <3>1, <3>2
  <2>3. CASE ~ (c >= counter)
    <3>1. lastSent \in 0..counter
      BY <1>5 DEF RecvToken
    <3>2. Transmit(lastSent) /\ UNCHANGED <<pc, queued, counter, expired, receiver>>
      BY <1>5, <2>3 DEF RecvToken
    <3> QED
      BY <2>1, <3>1, <3>2 DEF Transmit
  <2> QED
    BY <2>2, <2>3
<1>6. ASSUME NEW c \in Counter, RecvData(c)
      PROVE  Inv'
  <2>1. c \in 0..counter /\ data' \subseteq data
    BY <1>6 DEF RecvData, Take
  <2>2. got' = got \union {c}
    BY <1>6 DEF RecvData
  <2>3. tokens' = tokens \union {c} /\ last' = c /\ UNCHANGED <<sender, restarts>>
    BY <1>6 DEF RecvData
  <2> QED
    BY <2>1, <2>2, <2>3
<1>7. ASSUME NEW c \in Counter,
             \/ LoseData(c) \/ LoseToken(c) \/ TimerReturns(c)
             \/ TimerExpires(c)
      PROVE  Inv'
  BY <1>7 DEF LoseData, LoseToken, TimerReturns, TimerExpires
<1>8. ASSUME NEW c \in Counter, TimerResends(c)
      PROVE  Inv'
  BY <1>8 DEF TimerResends, Transmit
<1>9. CASE UNCHANGED vars
  BY <1>9 DEF vars
<1> QED
  BY <1>1, <1>2, <1>3, <1>4, <1>5, <1>6, <1>7, <1>8, <1>9 DEF Next

(* The counters of sender, receiver and datagrams stay in their range.     *)
THEOREM LinkTypes == Spec => []TypeOK
<1>1. Inv => TypeOK
  BY DEF Inv
<1> QED
  BY <1>1, InitInv, NextInv, PTL DEF Spec

(***************************************************************************)
(* For every number of payloads, losses, duplicates and restarts of the    *)
(* receiver: the sender moves on only when everything before was accepted. *)
(***************************************************************************)
THEOREM LinkAccepts == Spec => []AcceptedBeforeNext
<1>1. Inv => AcceptedBeforeNext
  BY DEF Inv, Accepted
<1> QED
  BY <1>1, InitInv, NextInv, PTL DEF Spec

(* Payloads are accepted for the first time in the order of the queue.     *)
THEOREM LinkInOrder == Spec => []FirstInOrder
<1>1. Inv => FirstInOrder
  BY BoundsAssumption DEF Inv, TypeOK, Accepted, AcceptedBeforeNext,
     FirstInOrder, Counter
<1> QED
  BY <1>1, InitInv, NextInv, PTL DEF Spec
=============================================================================
