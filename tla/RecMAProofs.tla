----------------------------- MODULE RecMAProofs -----------------------------
(***************************************************************************)
(* RecMA and RecSA together keep the types of their variables, for every   *)
(* number of processors, and RecMA leaves a healthy system alone.          *)
(***************************************************************************)
EXTENDS RecMA, RecSAProofs

(* Every configuration that RecMA reads is a set or one of the two strings. *)
LEMMA GetConfigType ==
  ASSUME NEW s \in LocalState
  PROVE  GetConfig(s) \in Config
<1>1. CASE AllowReco(s)
  <2>1. \A j \in FdPart(s) : s.config[j] \in SUBSET Node
    BY <1>1 DEF AllowReco, FdPart, LocalState, Config
  <2>2. UNION {s.config[j] : j \in FdPart(s)} \in SUBSET Node
    BY <2>1
  <2> QED
    BY <1>1, <2>2 DEF GetConfig, ChsConfig, Config
<1>2. CASE ~ AllowReco(s)
  BY <1>2 DEF GetConfig, LocalState
<1> QED
  BY <1>1, <1>2

(* A flush keeps the dictionary's keys. *)
LEMMA FlushedType ==
  ASSUME NEW s \in LocalState, NEW f \in [Node -> BOOLEAN]
  PROVE  Flushed(s, f) \in [Node -> BOOLEAN]
BY DEF Flushed

(* What is sent are two flags. *)
LEMMA SendFlagsType ==
  ASSUME ManagerTypeOK, NEW i \in Node, SendFlags(i),
         noMaj' \in [Node -> [Node -> BOOLEAN]],
         needReconf' \in [Node -> [Node -> BOOLEAN]]
  PROVE  mail' \in [Node -> [Node -> Seq(Flags)]]
<1> DEFINE m == [noMaj |-> noMaj'[i][i], needReconf |-> needReconf'[i][i]]
           row == [j \in Node |-> IF j \in (FdPart(st[i]) \ {i}) \intersect up
                                  THEN Append(mail[i][j], m) ELSE mail[i][j]]
<1>1. m \in Flags
  BY DEF Flags
<1>2. \A j \in Node : mail[i][j] \in Seq(Flags)
  BY DEF ManagerTypeOK
<1> HIDE DEF m
<1>3. \A j \in Node : Append(mail[i][j], m) \in Seq(Flags)
  BY <1>1, <1>2
<1>4. row \in [Node -> Seq(Flags)]
  BY <1>2, <1>3
<1>5. mail' = [mail EXCEPT ![i] = row]
  BY DEF SendFlags, m
<1> HIDE DEF row
<1> QED
  BY <1>4, <1>5 DEF ManagerTypeOK

(* The decision of a pass. *)
LEMMA EvaluateType ==
  ASSUME TypeOK, ManagerTypeOK, NEW i \in Node, Evaluate(i)
  PROVE  /\ st' \in [Node -> LocalState] /\ \A k \in Node : st'[k].id = k
         /\ prevConfig' \in [Node -> Config]
         /\ noMaj' \in [Node -> [Node -> BOOLEAN]]
         /\ needReconf' \in [Node -> [Node -> BOOLEAN]]
<1> DEFINE s == st[i]
           c == curConfig[i]
           lost == [noMaj[i] EXCEPT ![i] = NoMajority(s, c)]
           need == IF AsksForMajority(s, lost)
                   THEN needReconf[i]
                   ELSE [needReconf[i] EXCEPT ![i] = EvalConfig(s, c)]
           asks == AsksForMajority(s, lost) \/ AsksForQuality(s, c, need)
<1>1. s \in LocalState /\ s.id = i /\ c \in Config
  BY DEF TypeOK, ManagerTypeOK
<1>2. NoMajority(s, c) \in BOOLEAN /\ EvalConfig(s, c) \in BOOLEAN
  BY DEF NoMajority, EvalConfig
<1>3. lost \in [Node -> BOOLEAN] /\ need \in [Node -> BOOLEAN]
  BY <1>2 DEF ManagerTypeOK
<1>4. FdPart(s) \in SUBSET Node
  BY <1>1 DEF FdPart, LocalState
<1>5. Estab(s, FdPart(s)) \in LocalState /\ Estab(s, FdPart(s)).id = i
  BY <1>1, <1>4, EstabType
<1>6. /\ prevConfig' = [prevConfig EXCEPT ![i] = c]
      /\ noMaj' = [noMaj EXCEPT ![i] = IF asks THEN Flushed(s, lost) ELSE lost]
      /\ needReconf' = [needReconf EXCEPT
                          ![i] = IF asks THEN Flushed(s, need) ELSE need]
      /\ st' = [st EXCEPT ![i] = IF asks THEN Estab(s, FdPart(s)) ELSE s]
  BY DEF Evaluate
<1>7. Flushed(s, lost) \in [Node -> BOOLEAN] /\ Flushed(s, need) \in [Node -> BOOLEAN]
  BY <1>1, <1>3, FlushedType
<1> HIDE DEF asks, lost, need, s, c
<1>8. st' \in [Node -> LocalState] /\ \A k \in Node : st'[k].id = k
  BY <1>1, <1>5, <1>6, StUpdateType
<1> QED
  BY <1>1, <1>3, <1>6, <1>7, <1>8 DEF ManagerTypeOK

(* Every step of the composed system keeps the types. *)
LEMMA ManagerNextType ==
  ASSUME TypeOK, ManagerTypeOK, [ManagerNext]_mvars
  PROVE  TypeOK' /\ ManagerTypeOK'
<1>1. ASSUME NEW i \in Node, RecSAStep(i)
      PROVE  TypeOK' /\ ManagerTypeOK'
  <2>1. Next
    BY <1>1 DEF RecSAStep, Next
  <2>2. UNCHANGED manager
    BY <1>1 DEF RecSAStep
  <2> QED
    BY <2>1, <2>2, NextType DEF manager, flags, ManagerTypeOK
<1>2. ASSUME NEW i \in Node, Look(i)
      PROVE  TypeOK' /\ ManagerTypeOK'
  <2> DEFINE c == GetConfig(st[i])
             Reset(f) == IF prevConfig[i] \in {c, Bottom} THEN f
                                                         ELSE Flushed(st[i], f)
  <2>1. st[i] \in LocalState
    BY DEF TypeOK
  <2>2. c \in Config
    BY <2>1, GetConfigType
  <2>3. \A f \in [Node -> BOOLEAN] : Reset(f) \in [Node -> BOOLEAN]
    BY <2>1, FlushedType
  <2>4. /\ curConfig' = [curConfig EXCEPT ![i] = c]
        /\ needReconf' = [needReconf EXCEPT
                            ![i] = [Reset(@) EXCEPT ![i] = FALSE]]
        /\ noMaj' = [noMaj EXCEPT ![i] = [Reset(@) EXCEPT ![i] = FALSE]]
        /\ UNCHANGED <<vars, prevConfig, mail>>
    BY <1>2 DEF Look
  <2> HIDE DEF c, Reset
  <2>5. TypeOK'
    BY <2>4 DEF TypeOK, vars
  <2>6. /\ [Reset(noMaj[i]) EXCEPT ![i] = FALSE] \in [Node -> BOOLEAN]
        /\ [Reset(needReconf[i]) EXCEPT ![i] = FALSE] \in [Node -> BOOLEAN]
    BY <2>3 DEF ManagerTypeOK
  <2> QED
    BY <2>2, <2>4, <2>5, <2>6 DEF ManagerTypeOK
<1>3. ASSUME NEW i \in Node, Decide(i)
      PROVE  TypeOK' /\ ManagerTypeOK'
  <2>1. /\ st' \in [Node -> LocalState] /\ \A k \in Node : st'[k].id = k
        /\ prevConfig' \in [Node -> Config]
        /\ noMaj' \in [Node -> [Node -> BOOLEAN]]
        /\ needReconf' \in [Node -> [Node -> BOOLEAN]]
    <3>1. CASE AllowReco(st[i])
      BY <1>3, <3>1, EvaluateType DEF Decide
    <3>2. CASE ~ AllowReco(st[i])
      BY <1>3, <3>2 DEF Decide, flags, TypeOK, ManagerTypeOK
    <3> QED
      BY <3>1, <3>2
  <2>2. mail' \in [Node -> [Node -> Seq(Flags)]]
    BY <1>3, <2>1, SendFlagsType DEF Decide
  <2>3. /\ curConfig' = [curConfig EXCEPT ![i] = NotParticipant]
        /\ UNCHANGED <<up, loop, chan, estabs, suspects>>
    BY <1>3 DEF Decide
  <2>4. NotParticipant \in Config
    BY DEF Config
  <2>5. TypeOK'
    BY <2>1, <2>3 DEF TypeOK
  <2> QED
    BY <2>1, <2>2, <2>3, <2>4, <2>5 DEF ManagerTypeOK
<1>4. ASSUME NEW i \in Node, CrashAll(i)
      PROVE  TypeOK' /\ ManagerTypeOK'
  <2>1. Next
    BY <1>4 DEF CrashAll, Next
  <2>2. NoFlags \in [Node -> BOOLEAN] /\ {} \in Config /\ NotParticipant \in Config
    BY DEF NoFlags, Config
  <2>3. <<>> \in Seq(Flags)
    OBVIOUS
  <2>4. \A j \in Node : [mail[j] EXCEPT ![i] = <<>>] \in [Node -> Seq(Flags)]
    BY <2>3 DEF ManagerTypeOK
  <2> QED
    BY <1>4, <2>1, <2>2, <2>4, NextType DEF CrashAll, ManagerTypeOK
<1>5. ASSUME NEW i \in Node, NEW j \in Node, ReceiveFlags(i, j)
      PROVE  TypeOK' /\ ManagerTypeOK'
  <2>1. mail[j][i] \in Seq(Flags) /\ mail[j][i] # <<>>
    BY <1>5 DEF ReceiveFlags, ManagerTypeOK
  <2>2. Head(mail[j][i]) \in Flags /\ Tail(mail[j][i]) \in Seq(Flags)
    BY <2>1
  <2>3. /\ Head(mail[j][i]).noMaj \in BOOLEAN
        /\ Head(mail[j][i]).needReconf \in BOOLEAN
    BY <2>2 DEF Flags
  <2>4. TypeOK'
    BY <1>5 DEF ReceiveFlags, TypeOK, vars
  <2> QED
    BY <1>5, <2>2, <2>3, <2>4 DEF ReceiveFlags, ManagerTypeOK
<1>6. CASE UNCHANGED mvars
  BY <1>6 DEF mvars, manager, flags, vars, TypeOK, ManagerTypeOK
<1> QED
  BY <1>1, <1>2, <1>3, <1>4, <1>5, <1>6 DEF ManagerNext

(* The start is well-typed. *)
LEMMA ManagedInitType == ManagedInit => TypeOK /\ ManagerTypeOK
<1> SUFFICES ASSUME ManagedInit
             PROVE  TypeOK /\ ManagerTypeOK
  OBVIOUS
<1>1. PICK C \in {Node, Node \ {0}} : st = [i \in Node |-> Steady(i, Node, C)]
  BY DEF ManagedInit
<1>2. st \in [Node -> LocalState] /\ \A i \in Node : st[i].id = i
  BY <1>1, SteadyType
<1>3. TypeOK
  BY <1>2, BoundsAssumption DEF ManagedInit, AllRunning, TypeOK
<1>4. ManagerTypeOK
  BY DEF ManagedInit, ManagerInit, ManagerTypeOK, NoFlags, Config
<1> QED
  BY <1>3, <1>4

(***************************************************************************)
(* For every number of processors the flags stay Booleans for all of them  *)
(* - no flush drops a key that the loop looks up later - and whatever      *)
(* RecMA reads as configuration is a set or one of the two strings.        *)
(***************************************************************************)
THEOREM ManagerTypes == ManagedSpec => [](TypeOK /\ ManagerTypeOK)
<1>1. TypeOK /\ ManagerTypeOK /\ [ManagerNext]_mvars => TypeOK' /\ ManagerTypeOK'
  BY ManagerNextType
<1> QED
  BY <1>1, ManagedInitType, PTL DEF ManagedSpec
-----------------------------------------------------------------------------
(***************************************************************************)
(* A healthy system: everybody trusts everybody, has configuration C and   *)
(* no proposal, and so does whatever is under way; C holds a quorum of the *)
(* processors.                                                             *)
(***************************************************************************)
Calm(s, C) ==
  /\ s.trusted = Node
  /\ \A k \in Node : s.prp[k] = DfltNtf /\ s.config[k] = C

Quorums == {C \in SUBSET Node : N + 1 <= 2 * Cardinality(C)}

CalmWith(C) ==
  /\ \A i \in Node : Calm(st[i], C) /\ curConfig[i] \in {NotParticipant, C}
  /\ \A j, k \in Node : \A n \in 1..Len(chan[j][k]) :
       chan[j][k][n].prp = DfltNtf /\ chan[j][k][n].config = C

HealthyInv ==
  /\ TypeOK /\ ManagerTypeOK /\ suspects = MaxSuspect
  /\ up = Node => \E C \in Quorums : CalmWith(C)

(* Such a configuration has two members at least, ... *)
LEMMA QuorumSize ==
  ASSUME N >= 3, NEW C \in Quorums
  PROVE  /\ C \subseteq Node /\ C # {} /\ IsFiniteSet(C)
         /\ Cardinality(C) \in Nat /\ 2 <= Cardinality(C)
         /\ N + 1 <= 2 * Cardinality(C)
<1>1. IsFiniteSet(Node)
  BY NAssumption, FS_Interval DEF Node
<1>2. IsFiniteSet(C) /\ Cardinality(C) \in Nat
  BY <1>1, FS_Subset, FS_CardinalityType DEF Quorums
<1>3. C # {}
  BY FS_EmptySet, NAssumption DEF Quorums
<1> QED
  BY <1>2, <1>3, NAssumption DEF Quorums

(* ... and nothing is wrong with it. *)
LEMMA CalmVerdict ==
  ASSUME N >= 3, NEW C \in Quorums, NEW s, Calm(s, C)
  PROVE  ~ NoMajority(s, C) /\ ~ EvalConfig(s, C)
<1>1. C # Bottom /\ C \intersect s.trusted = C
  BY QuorumSize, SpecialAssumption DEF Calm
<1>2. Trusted(s, C) = C /\ Size(C) = Cardinality(C)
  BY <1>1 DEF Trusted, Size
<1> DEFINE n == Cardinality(C)
<1>3. n \in Nat /\ 2 <= n /\ N + 1 <= 2 * n
  BY QuorumSize
<1> HIDE DEF n
<1>4. ~ n < (n \div 2) + 1 /\ ~ 4 * n < 3 * n /\ ~ 2 * n < N + 1
  BY <1>3, NAssumption
<1> QED
  BY <1>2, <1>4 DEF n, NoMajority, EvalConfig

LEMMA CalmConfig ==
  ASSUME N >= 3, NEW C \in Quorums, NEW s \in LocalState, Calm(s, C)
  PROVE  FdPart(s) = Node /\ GetConfig(s) = C
<1>1. C # NotParticipant /\ C # {}
  BY QuorumSize, SpecialAssumption
<1>2. FdPart(s) = Node
  BY <1>1 DEF FdPart, Calm
<1>3. UNION {s.config[j] : j \in FdPart(s)} = C
  BY <1>1, <1>2 DEF Calm, LocalState
<1>4. s.id \in Node
  BY DEF LocalState
<1> QED
  BY <1>1, <1>2, <1>3, <1>4 DEF GetConfig, ChsConfig, Calm

(* A pass of RecSA, ... *)
LEMMA CalmPass ==
  ASSUME N >= 3, NEW C \in Quorums, NEW s \in LocalState, Calm(s, C),
         NEW t \in BeforeTests(s), NEW u \in AfterTests(t)
  PROVE  u \in LocalState /\ u.id = s.id /\ Calm(u, C)
<1>1. FdPart(s) = Node /\ Resting(s, C)
  BY CalmConfig DEF Calm, Resting
<1>2. PICK k \in C : k \in FdPart(s)
  BY <1>1, QuorumSize
<1>3. C \in SUBSET Node
  BY QuorumSize
<1>4. /\ u \in LocalState /\ u.id = s.id /\ u.trusted = s.trusted
      /\ Resting(u, C) /\ \A j \in FdPart(s) : u.config[j] = s.config[j]
  BY <1>1, <1>2, <1>3, RestingPass
<1> QED
  BY <1>1, <1>4 DEF Calm, Resting

(* ... what it sends ... *)
LEMMA CalmSays ==
  ASSUME NEW C, NEW s \in LocalState, Calm(s, C), NEW k
  PROVE  StateMsg(s, k).prp = DfltNtf /\ StateMsg(s, k).config = C
BY DEF StateMsg, Calm, LocalState

(* ... and what the others make of it. *)
LEMMA CalmReceipt ==
  ASSUME NEW C, NEW s \in LocalState, Calm(s, C),
         NEW j \in Node, NEW m \in Message, m.prp = DfltNtf, m.config = C
  PROVE  Calm(ReceiveMsg(s, j, m), C)
<1> DEFINE u == ReceiveMsg(s, j, m)
<1>1. /\ u.config = [s.config EXCEPT ![j] = m.config]
      /\ u.prp = [s.prp EXCEPT ![j] = m.prp] /\ u.trusted = s.trusted
  BY DEF ReceiveMsg, LocalState
<1> HIDE DEF u
<1>2. s.config \in [Node -> Config] /\ s.prp \in [Node -> Ntf]
  BY DEF LocalState
<1>3. Calm(u, C)
  BY <1>1, <1>2 DEF Calm
<1> QED
  BY <1>3 DEF u

(* No step but a death disturbs a healthy system. *)
LEMMA NextCalm ==
  ASSUME N >= 3, TypeOK, ManagerTypeOK, suspects = MaxSuspect, up = Node,
         NEW C \in Quorums, CalmWith(C), [ManagerNext]_mvars, up' = Node
  PROVE  suspects' = MaxSuspect /\ CalmWith(C)'
<1>1. /\ st \in [Node -> LocalState]
      /\ \A i \in Node : /\ st[i] \in LocalState /\ st[i].id = i
                         /\ Calm(st[i], C)
                         /\ curConfig[i] \in {NotParticipant, C}
      /\ curConfig \in [Node -> Config]
      /\ chan \in [Node -> [Node -> Seq(Message)]]
      /\ \A j, k \in Node : \A n \in 1..Len(chan[j][k]) :
           chan[j][k][n].prp = DfltNtf /\ chan[j][k][n].config = C
  BY DEF TypeOK, ManagerTypeOK, CalmWith
<1> DEFINE States == \A i \in Node : Calm(st'[i], C)
           Read == \A i \in Node : curConfig'[i] \in {NotParticipant, C}
           Sent == \A j, k \in Node : \A n \in 1..Len(chan'[j][k]) :
                     chan'[j][k][n].prp = DfltNtf /\ chan'[j][k][n].config = C
           Goal == suspects' = MaxSuspect /\ States /\ Read /\ Sent
<1>2. ASSUME NEW i \in Node, NEW s, Calm(s, C), st' = [st EXCEPT ![i] = s]
      PROVE  States
  BY <1>1, <1>2
<1>3. ASSUME UNCHANGED curConfig
      PROVE  Read
  BY <1>1, <1>3
<1>4. ASSUME NEW i \in Node, Iterate(i), UNCHANGED manager
      PROVE  Goal
  <2>1. PICK t \in BeforeTests(st[i]) :
          \E s \in AfterTests(t) : st' = [st EXCEPT ![i] = s] /\ Send(s)
    BY <1>4 DEF Iterate
  <2>2. PICK s \in AfterTests(t) : st' = [st EXCEPT ![i] = s] /\ Send(s)
    BY <2>1
  <2>3. s \in LocalState /\ s.id = i /\ Calm(s, C)
    BY <1>1, <2>1, <2>2, CalmPass
  <2>4. \A j, k \in Node : \A n \in 1..Len(chan'[j][k]) :
          \/ \E m \in 1..Len(chan[j][k]) : chan'[j][k][n] = chan[j][k][m]
          \/ j = s.id /\ chan'[j][k][n] = StateMsg(s, k)
    BY <1>1, <2>2, <2>3, SentTo
  <2>5. \A k : StateMsg(s, k).prp = DfltNtf /\ StateMsg(s, k).config = C
    BY <2>3, CalmSays
  <2>6. Sent
    <3> SUFFICES ASSUME NEW j \in Node, NEW k \in Node,
                        NEW n \in 1..Len(chan'[j][k])
                 PROVE  /\ chan'[j][k][n].prp = DfltNtf
                        /\ chan'[j][k][n].config = C
      OBVIOUS
    <3>1. CASE \E m \in 1..Len(chan[j][k]) : chan'[j][k][n] = chan[j][k][m]
      BY <1>1, <3>1
    <3>2. CASE chan'[j][k][n] = StateMsg(s, k)
      BY <2>5, <3>2
    <3> QED
      BY <2>4, <3>1, <3>2
  <2>7. suspects' = MaxSuspect
    BY <1>4 DEF Iterate
  <2>8. States /\ Read
    BY <1>2, <1>3, <1>4, <2>2, <2>3 DEF manager
  <2> QED
    BY <2>6, <2>7, <2>8
<1>5. ASSUME NEW i \in Node, NEW j \in Node, Receive(i, j), UNCHANGED manager
      PROVE  Goal
  <2> DEFINE m == Head(chan[j][i])
             s == ReceiveMsg(st[i], j, m)
  <2>1. /\ m \in Message /\ m = chan[j][i][1] /\ 1 \in 1..Len(chan[j][i])
        /\ \A k, l \in Node : \A n \in 1..Len(chan'[k][l]) :
             \E p \in 1..Len(chan[k][l]) : chan'[k][l][n] = chan[k][l][p]
    BY <1>5, ReceiptEffect
  <2>2. st' = [st EXCEPT ![i] = s] /\ suspects' = MaxSuspect
    BY <1>5 DEF Receive
  <2>3. m.prp = DfltNtf /\ m.config = C
    BY <1>1, <2>1
  <2> HIDE DEF m
  <2>4. Calm(s, C)
    <3>1. st[i] \in LocalState /\ Calm(st[i], C) /\ m \in Message
      BY <1>1, <2>1
    <3> QED
      BY <2>3, <3>1, CalmReceipt
  <2> HIDE DEF s
  <2>5. States /\ Read
    BY <1>2, <1>3, <1>5, <2>2, <2>4 DEF manager
  <2>6. Sent
    <3> SUFFICES ASSUME NEW k \in Node, NEW l \in Node,
                        NEW n \in 1..Len(chan'[k][l])
                 PROVE  /\ chan'[k][l][n].prp = DfltNtf
                        /\ chan'[k][l][n].config = C
      OBVIOUS
    <3>1. PICK p \in 1..Len(chan[k][l]) : chan'[k][l][n] = chan[k][l][p]
      BY <2>1
    <3> QED
      BY <1>1, <3>1
  <2> QED
    BY <2>2, <2>5, <2>6
<1>6. ASSUME NEW i \in Node, NEW j \in Node, FDToken(i, j), UNCHANGED manager
      PROVE  Goal
  <2>1. PICK s \in LocalState :
           /\ st' = [st EXCEPT ![i] = s]
           /\ s.config = st[i].config /\ s.prp = st[i].prp
           /\ suspects' = suspects
           /\ st[i].trusted = {} \/ up \subseteq st[i].trusted
                => up \subseteq s.trusted
    BY <1>6, TokenOutcome
  <2>2. Calm(s, C)
    <3>1. Node \subseteq s.trusted
      BY <1>1, <2>1 DEF Calm
    <3>2. s.trusted \subseteq Node
      BY DEF LocalState
    <3>3. \A k \in Node : s.prp[k] = DfltNtf /\ s.config[k] = C
      BY <1>1, <2>1 DEF Calm
    <3>4. s.trusted = Node
      BY <3>1, <3>2
    <3> QED
      BY <3>3, <3>4 DEF Calm
  <2>3. States /\ Read
    BY <1>2, <1>3, <1>6, <2>1, <2>2 DEF manager
  <2>4. Sent
    BY <1>1, <1>6 DEF FDToken
  <2> QED
    BY <2>1, <2>3, <2>4
<1>7. ASSUME NEW i \in Node, Look(i)
      PROVE  Goal
  <2>1. GetConfig(st[i]) = C
    BY <1>1, CalmConfig
  <2>2. UNCHANGED vars /\ curConfig' = [curConfig EXCEPT ![i] = C]
    BY <1>7, <2>1 DEF Look
  <2> QED
    BY <1>1, <2>2 DEF vars
<1>8. ASSUME NEW i \in Node, Decide(i)
      PROVE  Goal
  <2>1. curConfig[i] = C
    BY <1>1, <1>8 DEF Decide
  <2>2. ~ NoMajority(st[i], C) /\ ~ EvalConfig(st[i], C)
    BY <1>1, CalmVerdict
  <2>3. st' = st
    <3>1. ASSUME Evaluate(i)
          PROVE  st' = st
      <4> DEFINE lost == [noMaj[i] EXCEPT ![i] = NoMajority(st[i], C)]
                 need == [needReconf[i] EXCEPT ![i] = EvalConfig(st[i], C)]
      <4>1. ~ lost[i] /\ ~ need[i]
        BY <2>2 DEF ManagerTypeOK
      <4>2. ~ AsksForMajority(st[i], lost) /\ ~ AsksForQuality(st[i], C, need)
        BY <1>1, <4>1 DEF AsksForMajority, AsksForQuality
      <4>3. st' = [st EXCEPT ![i] = st[i]]
        BY <2>1, <3>1, <4>2 DEF Evaluate
      <4> QED
        BY <1>1, <4>3
    <3> QED
      BY <1>8, <3>1 DEF Decide
  <2>4. /\ curConfig' = [curConfig EXCEPT ![i] = NotParticipant]
        /\ UNCHANGED <<up, loop, chan, estabs, suspects>>
    BY <1>8 DEF Decide
  <2> QED
    BY <1>1, <2>3, <2>4
<1>9. ASSUME NEW i \in Node, NEW j \in Node, ReceiveFlags(i, j)
      PROVE  Goal
  BY <1>1, <1>9 DEF ReceiveFlags, vars
<1>10. ASSUME NEW i \in Node, CrashAll(i)
       PROVE  FALSE
  BY <1>10 DEF CrashAll, Crash
<1>11. ASSUME UNCHANGED mvars
       PROVE  Goal
  BY <1>1, <1>11 DEF mvars, manager, vars
<1> HIDE DEF Goal
<1>12. Goal
  BY <1>4, <1>5, <1>6, <1>7, <1>8, <1>9, <1>10, <1>11 DEF ManagerNext, RecSAStep
<1> QED
  BY <1>12 DEF Goal, CalmWith

(* No running processor is suspected where none may be. *)
LEMMA NextSuspects ==
  ASSUME TypeOK, suspects = MaxSuspect, [ManagerNext]_mvars
  PROVE  suspects' = MaxSuspect
<1>1. ASSUME NEW i \in Node, NEW j \in Node, FDToken(i, j)
      PROVE  suspects' = MaxSuspect
  BY <1>1, TokenOutcome
<1>2. ASSUME NEW i \in Node, NEW j \in Node,
             \/ Iterate(i) \/ Receive(i, j) \/ Look(i) \/ Decide(i)
             \/ CrashAll(i) \/ ReceiveFlags(i, j) \/ UNCHANGED mvars
      PROVE  suspects' = MaxSuspect
  BY <1>2 DEF Iterate, Receive, Look, Decide, CrashAll, Crash, ReceiveFlags,
              mvars, vars
<1>3. Node # {}
  BY NodeNotEmpty
<1> QED
  BY <1>1, <1>2, <1>3 DEF ManagerNext, RecSAStep

(* Who is dead stays dead. *)
LEMMA NextUp ==
  ASSUME TypeOK, [ManagerNext]_mvars
  PROVE  up' = Node => up = Node
<1>1. ASSUME NEW i \in Node, NEW j \in Node,
             RecSAStep(i) \/ Look(i) \/ Decide(i) \/ CrashAll(i)
               \/ ReceiveFlags(i, j)
      PROVE  up' \subseteq up
  BY <1>1 DEF RecSAStep, Iterate, Receive, FDToken, Look, Decide, CrashAll,
              Crash, ReceiveFlags, vars
<1>2. ASSUME UNCHANGED mvars
      PROVE  up' \subseteq up
  BY <1>2 DEF mvars, vars
<1>3. up' \subseteq up
  BY <1>1, <1>2 DEF ManagerNext, RecSAStep
<1> QED
  BY <1>3 DEF TypeOK

LEMMA SteadyCalm ==
  ASSUME NEW C \in SUBSET Node, NEW i \in Node
  PROVE  Calm(Steady(i, Node, C), C)
BY DEF Steady, FreshState, Calm

LEMMA ManagedInitHealthy ==
  ASSUME N >= 3, MaxSuspect = 0, ManagedInit
  PROVE  HealthyInv
<1>1. PICK C \in {Node, Node \ {0}} : st = [i \in Node |-> Steady(i, Node, C)]
  BY DEF ManagedInit
<1>2. C \in Quorums
  <2>1. IsFiniteSet(Node) /\ Cardinality(Node) = N
    BY NAssumption, FS_Interval DEF Node
  <2>2. 0 \in Node
    BY NAssumption DEF Node
  <2>3. Cardinality(Node \ {0}) = N - 1
    BY <2>1, <2>2, FS_RemoveElement
  <2>4. N + 1 <= 2 * N /\ N + 1 <= 2 * (N - 1)
    BY NAssumption
  <2> QED
    BY <2>1, <2>3, <2>4 DEF Quorums
<1>3. C \in SUBSET Node
  BY <1>2 DEF Quorums
<1>4. \A i \in Node : Calm(st[i], C) /\ curConfig[i] = NotParticipant
  BY <1>1, <1>3, SteadyCalm DEF ManagedInit, ManagerInit
<1>5. (\A j, k \in Node : chan[j][k] = <<>>) /\ suspects = MaxSuspect
  BY DEF ManagedInit, AllRunning
<1>6. CalmWith(C)
  BY <1>4, <1>5 DEF CalmWith
<1> QED
  BY <1>2, <1>5, <1>6, ManagedInitType DEF HealthyInv

(***************************************************************************)
(* RecMA leaves a healthy system alone: while nobody has died or is        *)
(* wrongly suspected, no prediction and no count of members asks for a     *)
(* replacement, so that all stay at rest in the configuration in which     *)
(* they began - whatever was read, flushed, received or is under way when. *)
(* With fewer than three processors it is not so: of two, the one member   *)
(* of a configuration is no quorum (recma/module.py:55).                   *)
(***************************************************************************)
THEOREM HealthyIsLeftAlone ==
  N >= 3 /\ MaxSuspect = 0 => (ManagedSpec => [](up = Node => AtRest))
<1> SUFFICES ASSUME N >= 3, MaxSuspect = 0
             PROVE  ManagedSpec => [](up = Node => AtRest)
  OBVIOUS
<1>1. ManagedInit => HealthyInv
  BY ManagedInitHealthy
<1>2. HealthyInv /\ [ManagerNext]_mvars => HealthyInv'
  <2> SUFFICES ASSUME HealthyInv, [ManagerNext]_mvars
               PROVE  HealthyInv'
    OBVIOUS
  <2>1. TypeOK' /\ ManagerTypeOK'
    BY ManagerNextType DEF HealthyInv
  <2>2. suspects' = MaxSuspect
    BY NextSuspects DEF HealthyInv
  <2>3. ASSUME up' = Node
        PROVE  \E C \in Quorums : CalmWith(C)'
    <3>1. up = Node
      BY <2>3, NextUp DEF HealthyInv
    <3>2. PICK C \in Quorums : CalmWith(C)
      BY <3>1 DEF HealthyInv
    <3>3. CalmWith(C)'
      BY <2>3, <3>1, <3>2, NextCalm DEF HealthyInv
    <3> QED
      BY <3>3
  <2> QED
    BY <2>1, <2>2, <2>3 DEF HealthyInv
<1>3. HealthyInv => (up = Node => AtRest)
  <2> SUFFICES ASSUME HealthyInv, up = Node
               PROVE  AtRest
    OBVIOUS
  <2>1. PICK C \in Quorums : CalmWith(C)
    BY DEF HealthyInv
  <2>2. C # NotParticipant /\ C # Bottom
    BY QuorumSize, SpecialAssumption
  <2>3. \A i \in Node : st[i].config[i] = C /\ st[i].prp[i] = DfltNtf
    BY <2>1 DEF CalmWith, Calm
  <2> QED
    BY <2>2, <2>3 DEF AtRest, Installed, Conf, Phase, DfltNtf
<1> QED
  BY <1>1, <1>2, <1>3, PTL DEF ManagedSpec
=============================================================================
