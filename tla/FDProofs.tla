------------------------------ MODULE FDProofs ------------------------------
(***************************************************************************)
(* The safety of the failure detectors for any number of processors, any   *)
(* threshold and any number of crashes, restarts and repeated tokens.      *)
(***************************************************************************)
EXTENDS FD, TLAPS

LEMMA CapAtType == \A n, cap \in Nat : CapAt(n, cap) \in 0..cap
BY DEF CapAt

(* One token more or less on one link. *)
LEMMA TokensUpdate ==
  ASSUME TypeOK, NEW i \in Node, NEW j \in Node, NEW n \in Nat
  PROVE  [tokens EXCEPT ![i] = [tokens[i] EXCEPT ![j] = n]]
           \in [Node -> [Node -> Nat]]
BY DEF TypeOK

(* upon_token_from_pj keeps the types. *)
LEMMA UponTokenType ==
  ASSUME TypeOK, NEW i \in Node, NEW j \in Node, UponToken(i, j)
  PROVE  /\ beat' \in [Node -> [Node -> Nat]]
         /\ monitor' \in [Node -> [Node -> 0..3]]
         /\ trusted' \in [Node -> SUBSET Node]
<1> DEFINE late == Node \ {i, j}
           m == CapAt(monitor[i][j] + 1, 3)
           b == [k \in Node |-> IF k \in late
                                THEN CapAt(beat[i][k] + 1, BeatThreshold) ELSE 0]
<1>1. b \in [Node -> Nat]
  <2>1. \A k \in Node : CapAt(beat[i][k] + 1, BeatThreshold) \in Nat
    <3>1. \A k \in Node : beat[i][k] + 1 \in Nat
      BY ThresholdAssumption DEF TypeOK
    <3> QED
      BY <3>1, CapAtType, ThresholdAssumption
  <2> QED
    BY <2>1, ThresholdAssumption
<1>2. m \in 0..3
  <2>1. monitor[i][j] \in 0..3
    BY DEF TypeOK
  <2>2. monitor[i][j] + 1 \in Nat /\ 3 \in Nat
    BY <2>1
  <2> QED
    BY <2>2, CapAtType
<1>3. CapAt(m + 1, 3) \in 0..3
  <2>1. m + 1 \in Nat /\ 3 \in Nat
    BY <1>2
  <2> QED
    BY <2>1, CapAtType
<1> HIDE DEF m
<1>4. [monitor[i] EXCEPT ![j] = m, ![i] = CapAt(m + 1, 3)] \in [Node -> 0..3]
  BY <1>2, <1>3 DEF TypeOK
<1>5. monitor' = [monitor EXCEPT ![i] =
                    [monitor[i] EXCEPT ![j] = m, ![i] = CapAt(m + 1, 3)]]
  BY DEF UponToken, m
<1>6. beat' = [beat EXCEPT ![i] = b]
  BY DEF UponToken
<1>7. trusted' = [trusted EXCEPT ![i] =
           {i, j} \union {k \in late : beat[i][k] + 1 < BeatThreshold}]
  BY DEF UponToken
<1> QED
  BY <1>1, <1>4, <1>5, <1>6, <1>7 DEF TypeOK

(* Every step keeps the types. *)
LEMMA NextType ==
  ASSUME TypeOK, [Next]_vars
  PROVE  TypeOK'
<1> USE BoundsAssumption DEF TypeOK
<1>1. ASSUME NEW i \in Node, Begin(i)
      PROVE  TypeOK'
  BY <1>1 DEF Begin, boot, detector, zeromq
<1>2. ASSUME NEW i \in Node, Application(i)
      PROVE  TypeOK'
  <2>1. MaxWaiting \in Nat /\ \A j \in Node : queue[i][j] + 1 \in Nat
    OBVIOUS
  <2>2. \A n \in Nat : CapAt(n, MaxWaiting) \in Nat
    BY <2>1 DEF CapAt
  <2>3. \A j \in Node : CapAt(queue[i][j] + 1, MaxWaiting) \in Nat
    BY <2>1, <2>2
  <2> QED
    BY <1>2, <2>3 DEF Application, boot, detector
<1>3. ASSUME NEW i \in Node, Crash(i)
      PROVE  TypeOK'
  <2>1. Zeros \in [Node -> Nat] /\ Zeros \in [Node -> 0..3]
    BY DEF Zeros
  <2>2. NoRequest \in [Node -> Request]
    BY DEF NoRequest, Request
  <2>3. /\ status' \in [Node -> Status] /\ polled' \in [Node -> 0..N]
        /\ setup' \subseteq Node /\ deaf' \subseteq Node
    BY <1>3, NAssumption DEF Crash, Status
  <2> QED
    BY <1>3, <2>1, <2>2, <2>3 DEF Crash
<1>4. ASSUME NEW i \in Node, Restart(i)
      PROVE  TypeOK'
  BY <1>4 DEF Restart, Event, boot, detector, zeromq
<1>5. ASSUME NEW i \in Node, NEW j \in Node, Handle(i, j)
      PROVE  TypeOK'
  <2>1. /\ i \in Node /\ j \in Node /\ tokens[j][i] - 1 \in Nat
        /\ tokens[i][j] + 1 \in Nat
    BY <1>5 DEF Handle
  <2>2. /\ [tokens[j] EXCEPT ![i] = tokens[j][i] - 1] \in [Node -> Nat]
        /\ [tokens[i] EXCEPT ![j] = tokens[i][j] + 1] \in [Node -> Nat]
    BY <2>1
  <2>3. tokens' \in [Node -> [Node -> Nat]]
    BY <1>5, <2>2 DEF Handle
  <2> QED
    BY <1>5, <2>3, UponTokenType DEF Handle, boot, zeromq
<1>6. ASSUME NEW i \in Node, NEW j \in Node, ResetMonitor(i, j)
      PROVE  TypeOK'
  BY <1>6 DEF ResetMonitor, Event, boot, zeromq
<1>7. ASSUME NEW i \in Node, NEW j \in Node, Repeat(i, j)
      PROVE  TypeOK'
  BY <1>7, TokensUpdate DEF Repeat, Event, boot, detector, zeromq
<1>8. ASSUME NEW i \in Node, NEW j \in Node, SendRequest(i, j)
      PROVE  TypeOK'
  <2>1. "sent" \in Request
    BY DEF Request
  <2>2. request' \in [Node -> [Node -> Request]]
    BY <1>8, <2>1 DEF SendRequest
  <2> QED
    BY <1>8, <2>2 DEF SendRequest, boot, detector
<1>9. ASSUME NEW i \in Node, NEW j \in Node, LoseToken(i, j)
      PROVE  TypeOK'
  <2>1. tokens[i][j] - 1 \in Nat
    BY <1>9 DEF LoseToken
  <2> QED
    BY <1>9, <2>1, TokensUpdate DEF LoseToken, boot, detector, zeromq
<1>10. CASE UNCHANGED vars
  BY <1>10 DEF vars, boot, detector, zeromq
<1>11. ASSUME NEW i \in Node, CommReady(i)
       PROVE  TypeOK'
  BY <1>11 DEF CommReady, Status, detector, zeromq
<1>12. ASSUME NEW i \in Node, Poll(i)
       PROVE  TypeOK'
  <2>1. polled' \in [Node -> 0..N]
    BY <1>12, NAssumption DEF Poll
  <2>2. status' \in [Node -> Status]
    BY <1>12 DEF Poll, Status
  <2> QED
    BY <1>12, <2>1, <2>2 DEF Poll, detector, zeromq
<1>13. ASSUME NEW i \in Node, NEW j \in Node,
              Acknowledge(i, j) \/ LoseRequest(i, j)
       PROVE  TypeOK'
  <2>1. \E r \in Request :
           request' = [request EXCEPT ![i] = [request[i] EXCEPT ![j] = r]]
    BY <1>13 DEF Acknowledge, LoseRequest, Request
  <2>2. request' \in [Node -> [Node -> Request]]
    BY <2>1
  <2> QED
    BY <1>13, <2>2 DEF Acknowledge, LoseRequest, boot, detector
<1>14. ASSUME NEW j \in Node, ReceiverEnds(j)
       PROVE  TypeOK'
  BY <1>14 DEF ReceiverEnds, Event, boot, detector
<1> QED
  BY <1>1, <1>2, <1>3, <1>4, <1>5, <1>6, <1>7, <1>8, <1>9, <1>10,
     <1>11, <1>12, <1>13, <1>14 DEF Next

LEMMA InitType == Init => TypeOK
BY NAssumption, BoundsAssumption, ThresholdAssumption
   DEF Init, TypeOK, Zeros, NoRequest, Status, Request

(* A monitor counts to 3 and no further, in whatever order tokens and      *)
(* resets come, and who has begun runs; the other types hold for as many   *)
(* tokens, messages, kills and restarts as there may be.                   *)
THEOREM DetectorTypes == Spec => []TypeOK
<1> QED
  BY InitType, NextType, PTL DEF Spec
-----------------------------------------------------------------------------
(* A token that is handled is sent back, and tokens are lost only where a  *)
(* process is dead, which has not begun.                                   *)
LEMMA NextTokens ==
  ASSUME TypeOK, TokensCirculate, [Next]_vars
  PROVE  TokensCirculate'
<1> USE DEF TypeOK, TokensCirculate
<1>1. ASSUME NEW i \in Node, Begin(i)
      PROVE  TokensCirculate'
  <2>1. \A j, k \in Node : tokens'[j][k] = IF j = i /\ k # i
                                           THEN tokens[j][k] + 1 ELSE tokens[j][k]
    BY <1>1 DEF Begin
  <2> QED
    BY <1>1, <2>1 DEF Begin
<1>2. ASSUME NEW i \in Node, NEW j \in Node, Handle(i, j)
      PROVE  TokensCirculate'
  <2>1. \A k, l \in Node :
           tokens'[k][l] = IF k = j /\ l = i THEN tokens[k][l] - 1
                           ELSE IF k = i /\ l = j THEN tokens[k][l] + 1
                           ELSE tokens[k][l]
    BY <1>2 DEF Handle
  <2>2. begun' = begun /\ i # j
    BY <1>2 DEF Handle
  <2>3. ASSUME NEW k \in begun, NEW l \in begun, k # l
        PROVE  tokens'[k][l] + tokens'[l][k] > 0
    <3>1. /\ k \in Node /\ l \in Node
          /\ tokens[k][l] \in Nat /\ tokens[l][k] \in Nat
          /\ tokens[k][l] + tokens[l][k] > 0
      BY <2>3
    <3>2. CASE k = j /\ l = i
      <4>1. /\ tokens'[j][i] = tokens[j][i] - 1
            /\ tokens'[i][j] = tokens[i][j] + 1
        BY <2>1, <2>2
      <4> QED
        BY <3>1, <3>2, <4>1
    <3>3. CASE k = i /\ l = j
      <4>1. /\ tokens'[j][i] = tokens[j][i] - 1
            /\ tokens'[i][j] = tokens[i][j] + 1
        BY <2>1, <2>2
      <4> QED
        BY <3>1, <3>3, <4>1
    <3>4. CASE ~ (k = j /\ l = i) /\ ~ (k = i /\ l = j)
      <4>1. tokens'[k][l] = tokens[k][l] /\ tokens'[l][k] = tokens[l][k]
        BY <2>1, <3>1, <3>4
      <4> QED
        BY <3>1, <4>1
    <3> QED
      BY <3>2, <3>3, <3>4
  <2> QED
    BY <2>2, <2>3
<1>3. ASSUME NEW i \in Node, NEW j \in Node, Repeat(i, j)
      PROVE  TokensCirculate'
  <2>1. \A k, l \in Node : tokens'[k][l] >= tokens[k][l] /\ begun' = begun
    BY <1>3 DEF Repeat
  <2>2. tokens' \in [Node -> [Node -> Nat]]
    BY <1>3, TokensUpdate DEF Repeat
  <2> QED
    BY <2>1, <2>2
<1>4. ASSUME NEW i \in Node, NEW j \in Node, LoseToken(i, j)
      PROVE  TokensCirculate'
  <2>1. ~ ({i, j} \subseteq begun) /\ begun' = begun
    BY <1>4 DEF LoseToken
  <2>2. \A k, l \in Node : ~ (k = i /\ l = j) => tokens'[k][l] = tokens[k][l]
    BY <1>4 DEF LoseToken
  <2>3. ASSUME NEW k \in begun, NEW l \in begun, k # l
        PROVE  tokens'[k][l] + tokens'[l][k] > 0
    <3>1. k \in Node /\ l \in Node /\ ~ (k = i /\ l = j) /\ ~ (l = i /\ k = j)
      BY <2>1
    <3>2. tokens'[k][l] = tokens[k][l] /\ tokens'[l][k] = tokens[l][k]
      BY <2>2, <3>1
    <3> QED
      BY <2>3, <3>2
  <2> QED
    BY <2>1, <2>3
<1>5. ASSUME NEW i \in Node, Crash(i)
      PROVE  TokensCirculate'
  BY <1>5 DEF Crash
<1>6. CASE begun' = begun /\ tokens' = tokens
  BY <1>6
<1>7. ASSUME NEW i \in Node,
             \/ CommReady(i) \/ Poll(i) \/ Application(i) \/ Restart(i)
             \/ ReceiverEnds(i)
      PROVE  begun' = begun /\ tokens' = tokens
  BY <1>7 DEF CommReady, Poll, Application, Restart, ReceiverEnds
<1>8. ASSUME NEW i \in Node, NEW j \in Node,
             \/ ResetMonitor(i, j) \/ SendRequest(i, j) \/ Acknowledge(i, j)
             \/ LoseRequest(i, j)
      PROVE  begun' = begun /\ tokens' = tokens
  BY <1>8 DEF ResetMonitor, SendRequest, Acknowledge, LoseRequest
<1> QED
  BY <1>1, <1>2, <1>3, <1>4, <1>5, <1>6, <1>7, <1>8 DEF Next, vars

(* The exchange between two detectors never dies out: for any number of    *)
(* processors, crashes, restarts and repeated or lost tokens.              *)
THEOREM ExchangeGoesOn == Spec => []TokensCirculate
<1>1. Init => TokensCirculate
  BY DEF Init, TokensCirculate
<1>2. TypeOK /\ TokensCirculate /\ [Next]_vars => TypeOK' /\ TokensCirculate'
  BY NextType, NextTokens
<1> QED
  BY <1>1, <1>2, InitType, PTL DEF Spec
-----------------------------------------------------------------------------
(***************************************************************************)
(* What a detector remembers: before its first token all beats are 0, and  *)
(* afterwards a processor that is not trusted has reached the threshold.   *)
(***************************************************************************)
Remembers ==
  \A i \in Node :
    IF trusted[i] = {}
    THEN \A k \in Node : beat[i][k] = 0
    ELSE \A k \in Node \ trusted[i] : beat[i][k] = BeatThreshold

(* The steps that leave beats and trust alone. *)
QuietStep(i, j) ==
  \/ CommReady(i) \/ Poll(i) \/ Begin(i) \/ Application(i) \/ Restart(i)
  \/ ResetMonitor(i, j) \/ Repeat(i, j) \/ LoseToken(i, j)
  \/ SendRequest(i, j) \/ Acknowledge(i, j) \/ LoseRequest(i, j)
  \/ ReceiverEnds(i)

(* The effect of a token, processor by processor. *)
LEMMA UponTokenEffect ==
  ASSUME TypeOK, NEW i \in Node, NEW j \in Node, UponToken(i, j)
  PROVE  /\ \A k \in Node \ {i} : beat'[k] = beat[k] /\ trusted'[k] = trusted[k]
         /\ \A k \in Node \ {i, j} :
              /\ beat'[i][k] = CapAt(beat[i][k] + 1, BeatThreshold)
              /\ k \in trusted'[i] <=> beat[i][k] + 1 < BeatThreshold
         /\ {i, j} \subseteq trusted'[i] /\ trusted'[i] \subseteq Node
BY DEF UponToken, TypeOK

LEMMA NextRemembers ==
  ASSUME TypeOK, Remembers, [Next]_vars
  PROVE  Remembers'
<1>1. ASSUME NEW i \in Node, NEW j \in Node, Handle(i, j)
      PROVE  Remembers'
  <2>1. UponToken(i, j)
    BY <1>1 DEF Handle
  <2>2. ASSUME NEW k \in Node \ trusted'[i]
        PROVE  beat'[i][k] = BeatThreshold
    <3>1. k \in Node \ {i, j}
      BY <2>1, UponTokenEffect
    <3>2. beat'[i][k] = CapAt(beat[i][k] + 1, BeatThreshold)
          /\ ~ (beat[i][k] + 1 < BeatThreshold)
      BY <2>1, <3>1, UponTokenEffect
    <3> QED
      BY <3>2 DEF CapAt
  <2>3. trusted'[i] # {}
    BY <2>1, UponTokenEffect
  <2> QED
    BY <2>1, <2>2, <2>3, UponTokenEffect DEF Remembers
<1>2. ASSUME NEW i \in Node, Crash(i)
      PROVE  Remembers'
  BY <1>2 DEF Crash, Remembers, TypeOK, Zeros
<1>3. CASE UNCHANGED <<beat, trusted>>
  BY <1>3 DEF Remembers
<1>4. ASSUME NEW i \in Node, NEW j \in Node,
             QuietStep(i, j)
      PROVE  UNCHANGED <<beat, trusted>>
  BY <1>4 DEF QuietStep, CommReady, Poll, Begin, Application, Restart,
              ResetMonitor, Repeat, SendRequest, Acknowledge, LoseRequest,
              ReceiverEnds, LoseToken, detector
<1> QED
  BY <1>1, <1>2, <1>3, <1>4 DEF Next, vars, detector, QuietStep

(* Who becomes trusted in one step. *)
TrustStep ==
  \A i, k \in Node : k \in trusted[i]' \ trusted[i] =>
     \/ trusted[i] = {} /\ trusted[i]' = Node
     \/ k = i
     \/ tokens[k][i]' < tokens[k][i]

LEMMA NextTrustStep ==
  ASSUME TypeOK, Remembers, [Next]_vars
  PROVE  TrustStep
<1>1. ASSUME NEW i \in Node, NEW j \in Node, Handle(i, j)
      PROVE  TrustStep
  <2>1. UponToken(i, j)
    BY <1>1 DEF Handle
  <2>2. tokens'[j][i] < tokens[j][i]
    BY <1>1 DEF Handle, TypeOK
  <2>3. ASSUME trusted[i] = {}
        PROVE  trusted'[i] = Node
    <3>1. \A k \in Node : beat[i][k] + 1 < BeatThreshold
      BY <2>3, ThresholdAssumption DEF Remembers
    <3> QED
      BY <2>1, <3>1, UponTokenEffect
  <2>4. ASSUME trusted[i] # {}, NEW k \in trusted'[i] \ trusted[i]
        PROVE  k \in {i, j}
    <3>1. SUFFICES ASSUME k \in Node \ {i, j} PROVE FALSE
      BY <2>1, <2>4, UponTokenEffect
    <3>2. beat[i][k] = BeatThreshold /\ beat[i][k] + 1 < BeatThreshold
      BY <2>1, <2>4, <3>1, UponTokenEffect DEF Remembers
    <3> QED
      BY <3>2, ThresholdAssumption
  <2>5. \A l \in Node \ {i} : trusted'[l] = trusted[l]
    BY <2>1, UponTokenEffect
  <2> QED
    BY <2>2, <2>3, <2>4, <2>5 DEF TrustStep
<1>2. ASSUME NEW i \in Node, Crash(i)
      PROVE  TrustStep
  BY <1>2 DEF Crash, TrustStep, TypeOK
<1>3. CASE UNCHANGED trusted
  BY <1>3 DEF TrustStep
<1>4. ASSUME NEW i \in Node, NEW j \in Node,
             QuietStep(i, j)
      PROVE  UNCHANGED trusted
  BY <1>4 DEF QuietStep, CommReady, Poll, Begin, Application, Restart,
              ResetMonitor, Repeat, SendRequest, Acknowledge, LoseRequest,
              ReceiverEnds, LoseToken, detector
<1> QED
  BY <1>1, <1>2, <1>3, <1>4 DEF Next, vars, detector, QuietStep

(***************************************************************************)
(* What RecSA.tla assumes of the failure detector in its action FDToken    *)
(* holds of the detector's code, for any number of processors and any      *)
(* threshold above 1.                                                      *)
(***************************************************************************)
THEOREM TrustNeedsToken == Spec => TrustByOwnToken
<1>1. Init => Remembers
  BY DEF Init, Remembers, Zeros
<1>2. TypeOK /\ Remembers /\ [Next]_vars => TypeOK' /\ Remembers'
  BY NextType, NextRemembers
<1>3. TypeOK /\ Remembers /\ [Next]_vars => TrustStep
  BY NextTrustStep
<1>4. TrustStep => [\A i, k \in Node : k \in trusted[i]' \ trusted[i] =>
                       \/ trusted[i] = {} /\ trusted[i]' = Node
                       \/ k = i
                       \/ tokens[k][i]' < tokens[k][i]]_vars
  BY DEF TrustStep
<1> QED
  BY <1>1, <1>2, <1>3, <1>4, InitType, PTL DEF Spec, TrustByOwnToken
-----------------------------------------------------------------------------
(***************************************************************************)
(* What the barrier has established: a round that is past a processor      *)
(* found it ready, and a process that is ready stays so until it is        *)
(* killed.  The two threads meet in the processor's own entry.             *)
(***************************************************************************)
BarrierInv ==
  /\ \A i \in Node : /\ status[i] = "BOOTING" <=> i \in setup
                     /\ status[i] = "RUNNING" <=> polled[i] = N
                     /\ polled[i] > i => i \notin setup
  /\ \A i \in Node : \A j \in Node \ Mortal :
       polled[i] > j => status[j] # "BOOTING"

LEMMA NextBarrier ==
  ASSUME TypeOK, BarrierInv, [Next]_vars
  PROVE  BarrierInv'
<1>t. /\ setup \subseteq Node /\ polled \in [Node -> 0..N]
      /\ status \in [Node -> {"BOOTING", "READY", "RUNNING"}]
      /\ N \in Nat /\ Node = 0 .. N-1
  BY NAssumption DEF TypeOK, Status, Node
<1>1. ASSUME NEW i \in Node, CommReady(i)
      PROVE  BarrierInv'
  <2>1. /\ polled' = polled /\ setup' = setup \ {i}
        /\ status[i] = "BOOTING" /\ polled[i] # N
        /\ \A k \in Node : status'[k] = IF k = i THEN "READY" ELSE status[k]
    BY <1>t, <1>1 DEF CommReady, BarrierInv
  <2>2. ASSUME NEW k \in Node
        PROVE  /\ status'[k] = "BOOTING" <=> k \in setup'
               /\ status'[k] = "RUNNING" <=> polled'[k] = N
               /\ polled'[k] > k => k \notin setup'
               /\ \A j \in Node \ Mortal :
                    polled'[k] > j => status'[j] # "BOOTING"
    BY <1>t, <2>1 DEF BarrierInv
  <2> QED
    BY <2>2 DEF BarrierInv
<1>2. ASSUME NEW i \in Node, Poll(i)
      PROVE  BarrierInv'
  <2>1. /\ polled[i] \in 0 .. N-1 /\ setup' = setup
        /\ polled'[i] = IF IsReady(i, polled[i]) THEN polled[i] + 1 ELSE 0
        /\ status'[i] = IF polled'[i] = N THEN "RUNNING" ELSE status[i]
        /\ \A k \in Node \ {i} :
             status'[k] = status[k] /\ polled'[k] = polled[k]
    BY <1>t, <1>2 DEF Poll
  <2>2. CASE polled'[i] = 0
    <3>1. /\ \A k \in Node : status'[k] = status[k] /\ status[i] # "RUNNING"
          /\ N # 0
      BY <1>t, <2>1, <2>2 DEF BarrierInv
    <3>2. ASSUME NEW k \in Node
          PROVE  /\ status'[k] = "BOOTING" <=> k \in setup'
                 /\ status'[k] = "RUNNING" <=> polled'[k] = N
                 /\ polled'[k] > k => k \notin setup'
                 /\ \A j \in Node \ Mortal :
                      polled'[k] > j => status'[j] # "BOOTING"
      <4>1. CASE k = i
        BY <1>t, <2>1, <2>2, <3>1, <4>1 DEF BarrierInv
      <4>2. CASE k # i
        BY <1>t, <2>1, <3>1, <4>2 DEF BarrierInv
      <4> QED
        BY <4>1, <4>2
    <3> QED
      BY <3>2 DEF BarrierInv
  <2>3. CASE polled'[i] = polled[i] + 1 /\ status[polled[i]] # "BOOTING"
    <3>1. /\ \A k \in Node : status[k] # "BOOTING" => status'[k] # "BOOTING"
          /\ \A k \in Node : polled'[i] > k => polled[i] > k \/ k = polled[i]
      BY <1>t, <2>1, <2>3
    <3>2. polled'[i] > i => i \notin setup
      BY <1>t, <2>3, <3>1 DEF BarrierInv
    <3>3. ASSUME NEW k \in Node
          PROVE  /\ status'[k] = "BOOTING" <=> k \in setup'
                 /\ status'[k] = "RUNNING" <=> polled'[k] = N
                 /\ polled'[k] > k => k \notin setup'
      <4>1. CASE k = i
        BY <1>t, <2>1, <2>3, <3>2, <4>1 DEF BarrierInv
      <4>2. CASE k # i
        BY <1>t, <2>1, <4>2 DEF BarrierInv
      <4> QED
        BY <4>1, <4>2
    <3>4. ASSUME NEW k \in Node, NEW j \in Node \ Mortal, polled'[k] > j
          PROVE  status'[j] # "BOOTING"
      <4>1. CASE k = i
        BY <1>t, <2>3, <3>1, <3>4, <4>1 DEF BarrierInv
      <4>2. CASE k # i
        BY <1>t, <2>1, <3>1, <3>4, <4>2 DEF BarrierInv
      <4> QED
        BY <4>1, <4>2
    <3> QED
      BY <3>3, <3>4 DEF BarrierInv
  <2> QED
    BY <2>1, <2>2, <2>3 DEF IsReady
<1>3. ASSUME NEW i \in Node, Crash(i)
      PROVE  BarrierInv'
  <2>1. /\ i \in Mortal /\ setup' = setup \union {i}
        /\ status'[i] = "BOOTING" /\ polled'[i] = 0
        /\ \A k \in Node \ {i} :
             status'[k] = status[k] /\ polled'[k] = polled[k]
    BY <1>t, <1>3 DEF Crash
  <2>2. ASSUME NEW k \in Node
        PROVE  /\ status'[k] = "BOOTING" <=> k \in setup'
               /\ status'[k] = "RUNNING" <=> polled'[k] = N
               /\ polled'[k] > k => k \notin setup'
               /\ \A j \in Node \ Mortal :
                    polled'[k] > j => status'[j] # "BOOTING"
    <3>1. CASE k = i
      BY <1>t, <2>1, <3>1
    <3>2. CASE k # i
      BY <1>t, <2>1, <3>2 DEF BarrierInv
    <3> QED
      BY <3>1, <3>2
  <2> QED
    BY <2>2 DEF BarrierInv
<1>4. CASE UNCHANGED boot
  BY <1>4 DEF boot, BarrierInv
<1>5. ASSUME NEW i \in Node, NEW j \in Node,
             \/ Begin(i) \/ Application(i) \/ ReceiverEnds(i) \/ Restart(i)
             \/ Handle(i, j) \/ ResetMonitor(i, j) \/ Repeat(i, j)
      PROVE  UNCHANGED boot
  BY <1>5 DEF Begin, Application, ReceiverEnds, Restart, Handle, ResetMonitor,
              Repeat
<1>6. ASSUME NEW i \in Node, NEW j \in Node,
             \/ SendRequest(i, j) \/ Acknowledge(i, j)
             \/ LoseRequest(i, j) \/ LoseToken(i, j)
      PROVE  UNCHANGED boot
  BY <1>6 DEF SendRequest, Acknowledge, LoseRequest, LoseToken
<1> QED
  BY <1>1, <1>2, <1>3, <1>4, <1>5, <1>6 DEF Next, vars

LEMMA InitBarrier == Init => BarrierInv
BY NAssumption DEF Init, BarrierInv, Zeros, Node

(* For any number of processors nobody runs before everybody who was not   *)
(* killed is ready, although the statuses are asked for one after another. *)
THEOREM NobodyRunsEarly == Spec => []BarrierHolds
<1>1. TypeOK /\ BarrierInv => BarrierHolds
  BY DEF BarrierInv, BarrierHolds, TypeOK, Node
<1>2. TypeOK /\ BarrierInv /\ [Next]_vars => TypeOK' /\ BarrierInv'
  BY NextType, NextBarrier
<1> QED
  BY <1>1, <1>2, InitType, InitBarrier, PTL DEF Spec

(* The main thread never takes back what the thread of the barrier wrote.  *)
THEOREM StatusNeverGoesBack == Spec => StatusForward
<1> DEFINE Forward == \A i \in up \intersect up' :
       /\ status[i] = "RUNNING" => status[i]' = "RUNNING"
       /\ status[i] = "READY" => status[i]' # "BOOTING"
<1>1. ASSUME TypeOK, BarrierInv, [Next]_vars
      PROVE  Forward
  <2>t. up \subseteq Node /\ status \in [Node -> {"BOOTING", "READY", "RUNNING"}]
    BY <1>1 DEF TypeOK, Status
  <2>1. ASSUME NEW i \in Node, CommReady(i)
        PROVE  Forward
    <3>1. /\ status[i] = "BOOTING"
          /\ \A k \in Node \ {i} : status'[k] = status[k]
      BY <1>1, <2>t, <2>1 DEF CommReady, BarrierInv
    <3> QED
      BY <2>t, <3>1
  <2>2. ASSUME NEW i \in Node, Poll(i)
        PROVE  Forward
    <3>1. \A k \in Node : status'[k] = status[k] \/ status'[k] = "RUNNING"
      BY <2>t, <2>2 DEF Poll
    <3> QED
      BY <2>t, <3>1
  <2>3. ASSUME NEW i \in Node, Crash(i)
        PROVE  Forward
    BY <2>t, <2>3 DEF Crash
  <2>4. CASE status' = status
    BY <2>t, <2>4
  <2>5. ASSUME NEW i \in Node, NEW j \in Node,
               \/ Begin(i) \/ Application(i) \/ ReceiverEnds(i) \/ Restart(i)
               \/ Handle(i, j) \/ ResetMonitor(i, j) \/ Repeat(i, j)
        PROVE  status' = status
    BY <2>5 DEF Begin, Application, ReceiverEnds, Restart, Handle, ResetMonitor,
                Repeat, boot
  <2>6. ASSUME NEW i \in Node, NEW j \in Node,
               \/ SendRequest(i, j) \/ Acknowledge(i, j)
               \/ LoseRequest(i, j) \/ LoseToken(i, j)
        PROVE  status' = status
    BY <2>6 DEF SendRequest, Acknowledge, LoseRequest, LoseToken, boot
  <2> HIDE DEF Forward
  <2> QED
    BY <1>1, <2>1, <2>2, <2>3, <2>4, <2>5, <2>6
       DEF Next, vars, boot
<1>2. TypeOK /\ BarrierInv /\ [Next]_vars => TypeOK' /\ BarrierInv'
  BY NextType, NextBarrier
<1>3. TypeOK /\ BarrierInv /\ [Next]_vars =>
        [\A i \in up \intersect up' :
           /\ status[i] = "RUNNING" => status[i]' = "RUNNING"
           /\ status[i] = "READY" => status[i]' # "BOOTING"]_vars
  BY <1>1
<1> QED
  BY <1>2, <1>3, InitType, InitBarrier, PTL DEF Spec, StatusForward
=============================================================================
