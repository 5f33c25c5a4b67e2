----------------------------- MODULE RecSAProofs -----------------------------
(***************************************************************************)
(* Theorems about RecSA for every number of processors and every bound.    *)
(*                                                                         *)
(* First the types, and what every notification looks like: each line of   *)
(* the loop is a lemma about one record, and the theorems put them         *)
(* together, one step per action.                                          *)
(*                                                                         *)
(* Then the loops that go on, the rest that lasts, and the boot that       *)
(* installs one configuration and never resets it.                         *)
(***************************************************************************)
EXTENDS MCRecSA, FiniteSetTheorems, SequenceTheorems, TLAPS

LEMMA DfltNtfType == DfltNtf \in Ntf
BY DEF DfltNtf, Ntf

(* A processor starts with well-typed variables. *)
LEMMA FreshStateType ==
  ASSUME NEW i \in Node
  PROVE  FreshState(i) \in LocalState /\ FreshState(i).id = i
BY SpecialAssumption DEF FreshState, LocalState, Config, Ntf, DfltNtf, Node

(* The rest state is well-typed. *)
LEMMA SteadyType ==
  ASSUME NEW i \in Node, NEW P \in SUBSET Node, NEW C \in SUBSET Node
  PROVE  Steady(i, P, C) \in LocalState /\ Steady(i, P, C).id = i
<1>1. FreshState(i) \in LocalState /\ FreshState(i).id = i
  BY FreshStateType
<1>2. [k \in Node |-> IF k \in P THEN 3 ELSE 0] \in [Node -> 0..3]
  OBVIOUS
<1>3. [k \in Node |-> IF k \in P THEN C ELSE NotParticipant] \in [Node -> Config]
  BY DEF Config
<1>4. /\ [k \in Node |-> k \in P] \in [Node -> BOOLEAN]
      /\ [k \in Node |-> k \in P \ {i}] \in [Node -> BOOLEAN]
  OBVIOUS
<1>5. /\ [k \in Node |-> IF k \in P THEN P ELSE {}] \in [Node -> SUBSET Node]
      /\ [k \in Node |-> IF k \in P \ {i} THEN P ELSE {}] \in [Node -> SUBSET Node]
  OBVIOUS
<1> QED
  BY <1>1, <1>2, <1>3, <1>4, <1>5 DEF Steady, LocalState

(* Line 22 keeps the types. *)
LEMMA Line22Type ==
  ASSUME NEW s \in LocalState
  PROVE  Line22(s) \in LocalState /\ Line22(s).id = s.id
<1> DEFINE F == {k \in Node \ FdPart(s) :
                   s.config[k] # NotParticipant \/ s.prp[k] # DfltNtf}
<1>1. [k \in Node |-> IF k \in F THEN NotParticipant ELSE s.config[k]]
        \in [Node -> Config]
  BY DEF Config, LocalState
<1>2. [k \in Node |-> IF k \in F THEN DfltNtf ELSE s.prp[k]] \in [Node -> Ntf]
  BY DfltNtfType DEF LocalState
<1>3. [k \in Node |-> IF k \in F THEN 0 ELSE s.monitor[k]] \in [Node -> 0..3]
  BY DEF LocalState
<1> QED
  BY <1>1, <1>2, <1>3 DEF Line22, Forget, LocalState

(* Line 23 keeps the types: the maximal proposal is a set of processors. *)
LEMMA MaxLexType ==
  ASSUME NEW F \in SUBSET ({Bottom} \union SUBSET Node)
  PROVE  MaxLex(F) \in {Bottom} \union SUBSET Node
BY DEF MaxLex

LEMMA Line23Type ==
  ASSUME NEW s \in LocalState
  PROVE  Line23(s) \in LocalState /\ Line23(s).id = s.id
<1> DEFINE m == MaxLex({s.prp[k].set : k \in FdPart(s)})
<1>1. {s.prp[k].set : k \in FdPart(s)} \in SUBSET ({Bottom} \union SUBSET Node)
  BY DEF LocalState, Ntf, FdPart
<1>2. m \in {Bottom} \union SUBSET Node
  BY <1>1, MaxLexType
<1> HIDE DEF m
<1>3. \A ph \in 0..2 : [ph |-> ph, set |-> m] \in Ntf
  BY <1>2 DEF Ntf
<1>4. s.id \in Node /\ s.prp \in [Node -> Ntf] /\ s.prp[s.id].ph \in 0..2
  BY DEF LocalState, Ntf
<1>5. (IF JoinsPhaseOne(s) THEN 1 ELSE s.prp[s.id].ph) \in 0..2
  BY <1>4
<1> QED
  BY <1>3, <1>4, <1>5 DEF Line23, LocalState, m

LEMMA Line25Type ==
  ASSUME NEW s \in LocalState
  PROVE  Line25(s) \in LocalState /\ Line25(s).id = s.id
BY DEF Line25, LocalState

LEMMA Line26Type ==
  ASSUME NEW s \in LocalState
  PROVE  Line26(s) \in LocalState /\ Line26(s).id = s.id
BY DEF Line26, LocalState, FdPart

(* The part of a pass before the staleness tests keeps the types. *)
LEMMA BeforeTestsType ==
  ASSUME NEW s \in LocalState, NEW t \in BeforeTests(s)
  PROVE  t \in LocalState /\ t.id = s.id
BY Line22Type, Line23Type, Line25Type, Line26Type DEF BeforeTests

LEMMA ConfigSetType ==
  ASSUME NEW s \in LocalState, NEW c \in Config
  PROVE  ConfigSet(s, c) \in LocalState /\ ConfigSet(s, c).id = s.id
<1>1. [k \in Node |-> c] \in [Node -> Config]
  OBVIOUS
<1>2. [k \in Node |-> DfltNtf] \in [Node -> Ntf]
  BY DfltNtfType
<1> QED
  BY <1>1, <1>2 DEF ConfigSet, LocalState

LEMMA Line24Type ==
  ASSUME NEW s \in LocalState
  PROVE  Line24(s) \in LocalState /\ Line24(s).id = s.id
BY ConfigSetType DEF Line24, Config

LEMMA BruteForceType ==
  ASSUME NEW s \in LocalState
  PROVE  BruteForce(s) \in LocalState /\ BruteForce(s).id = s.id
<1> DEFINE s1 == IF ConfigConflict(s) THEN ConfigSet(s, Bottom) ELSE s
<1>1. s1 \in LocalState /\ s1.id = s.id
  BY ConfigSetType DEF Config
<1>2. s1.trusted \in Config
  BY <1>1 DEF LocalState, Config
<1> HIDE DEF s1
<1>3. ConfigSet(s1, s1.trusted) \in LocalState /\ ConfigSet(s1, s1.trusted).id = s1.id
  BY <1>1, <1>2, ConfigSetType
<1> QED
  BY <1>1, <1>3 DEF BruteForce, ResetConflict, s1

LEMMA InstallType ==
  ASSUME NEW s \in LocalState
  PROVE  Install(s) \in LocalState /\ Install(s).id = s.id
BY DEF Install, LocalState, Ntf, Config

LEMMA IncrementType ==
  ASSUME NEW s \in LocalState
  PROVE  Increment(s) \in LocalState /\ Increment(s).id = s.id
<1>1. s.id \in Node /\ s.prp \in [Node -> Ntf] /\ s.alll \in [Node -> BOOLEAN]
  BY DEF LocalState
<1>2. [ph |-> 2, set |-> s.prp[s.id].set] \in Ntf
  BY <1>1 DEF Ntf
<1> DEFINE Moved(p) == [s EXCEPT !.prp[s.id] = p, !.alll[s.id] = FALSE,
                                  !.allSeen = {}]
<1>3. \A p \in Ntf : Moved(p) \in LocalState /\ Moved(p).id = s.id
  BY <1>1 DEF LocalState
<1>4. [s EXCEPT !.allSeen = {}] \in LocalState /\ [s EXCEPT !.allSeen = {}].id = s.id
  BY DEF LocalState
<1> QED
  BY <1>1, <1>2, <1>3, <1>4, DfltNtfType DEF Increment

(* The part of a pass after the staleness tests keeps the types. *)
LEMMA AfterTestsType ==
  ASSUME NEW s \in LocalState, NEW t \in AfterTests(s)
  PROVE  t \in LocalState /\ t.id = s.id
<1>1. \A u \in LocalState : Delicate(u) \in LocalState /\ Delicate(u).id = u.id
  BY InstallType, IncrementType DEF Delicate
<1>2. \A u \in LocalState : Lines27to32(u) \in LocalState /\ Lines27to32(u).id = u.id
  BY <1>1, BruteForceType DEF Lines27to32
<1> QED
  BY <1>2, Line24Type DEF AfterTests
-----------------------------------------------------------------------------
(* What is sent is a message. *)
LEMMA StateMsgType ==
  ASSUME NEW s \in LocalState, NEW j \in Node
  PROVE  StateMsg(s, j) \in Message
<1>1. MyAlll(s, s.id) \in BOOLEAN
  BY DEF MyAlll, LocalState
<1>2. FdPart(s) \in SUBSET Node /\ FdPartOf(s, j) \in SUBSET Node
  BY DEF FdPartOf, FdPart, LocalState
<1>3. s.id \in Node /\ s.config[s.id] \in Config /\ s.trusted \in SUBSET Node
  BY DEF LocalState
<1>4. s.prp[s.id] \in Ntf /\ s.prp[j] \in Ntf /\ s.alll[j] \in BOOLEAN
  BY DEF LocalState
<1> QED
  BY <1>1, <1>2, <1>3, <1>4 DEF StateMsg, Message

(* What is received is stored with its type. *)
LEMMA ReceiveMsgType ==
  ASSUME NEW s \in LocalState, NEW j \in Node, NEW m \in Message
  PROVE  ReceiveMsg(s, j, m) \in LocalState /\ ReceiveMsg(s, j, m).id = s.id
<1>1. /\ m.fd \in SUBSET Node /\ m.fdPart \in SUBSET Node
      /\ m.config \in Config /\ m.prp \in Ntf /\ m.alll \in BOOLEAN
      /\ m.echoPart \in SUBSET Node /\ m.echoPrp \in Ntf
      /\ m.echoAll \in BOOLEAN
  BY DEF Message
<1>2. /\ s.trusted \in SUBSET Node /\ s.id \in Node
      /\ s.fd \in [Node -> SUBSET Node]
  BY DEF LocalState
<1>3. [s.fd EXCEPT ![s.id] = s.trusted, ![j] = m.fd] \in [Node -> SUBSET Node]
  BY <1>1, <1>2
<1> QED
  BY <1>1, <1>3 DEF ReceiveMsg, LocalState

LEMMA EstabType ==
  ASSUME NEW s \in LocalState, NEW S \in SUBSET Node
  PROVE  Estab(s, S) \in LocalState /\ Estab(s, S).id = s.id
<1>1. [ph |-> 1, set |-> S] \in Ntf
  BY DEF Ntf
<1> QED
  BY <1>1 DEF Estab, LocalState

(* participate() joins configurations only when none is the string BOTTOM. *)
LEMMA ParticipateType ==
  ASSUME NEW s \in LocalState
  PROVE  Participate(s) \in LocalState /\ Participate(s).id = s.id
<1>1. CASE AllowReco(s)
  <2>1. \A j \in FdPart(s) : s.config[j] \in SUBSET Node
    BY <1>1 DEF AllowReco, FdPart, LocalState, Config
  <2>2. UNION {s.config[j] : j \in FdPart(s)} \in SUBSET Node
    BY <2>1
  <2>3. ChsConfig(s) \in Config
    BY <2>2 DEF ChsConfig, Config
  <2> QED
    BY <1>1, <2>3 DEF Participate, LocalState
<1>2. CASE ~ AllowReco(s)
  BY <1>2 DEF Participate
<1> QED
  BY <1>1, <1>2

(* The processors are finitely many. *)
LEMMA NodeFinite ==
  /\ IsFiniteSet(Node)
  /\ \A S \in SUBSET Node : IsFiniteSet(S) /\ Cardinality(S) \in Nat
<1>1. IsFiniteSet(Node)
  BY NAssumption, FS_Interval DEF Node
<1> QED
  BY <1>1, FS_Subset, FS_CardinalityType
-----------------------------------------------------------------------------
(* A pass sends messages only. *)
LEMMA SendType ==
  ASSUME TypeOK, NEW s \in LocalState, Send(s)
  PROVE  chan' \in [Node -> [Node -> Seq(Message)]]
<1> DEFINE row == [j \in Node |-> IF j \in Targets(s)
                                  THEN Append(chan[s.id][j], StateMsg(s, j))
                                  ELSE chan[s.id][j]]
<1>1. s.id \in Node /\ chan \in [Node -> [Node -> Seq(Message)]]
  BY DEF TypeOK, LocalState
<1>2. \A j \in Node : Append(chan[s.id][j], StateMsg(s, j)) \in Seq(Message)
  BY <1>1, StateMsgType
<1>3. row \in [Node -> Seq(Message)]
  BY <1>1, <1>2
<1>4. chan' = [chan EXCEPT ![s.id] = row]
  BY DEF Send
<1> QED
  BY <1>1, <1>3, <1>4

(* Replacing the record of one processor by one of its own keeps the types. *)
LEMMA StUpdateType ==
  ASSUME TypeOK, NEW i \in Node, NEW s \in LocalState, s.id = i,
         st' = [st EXCEPT ![i] = s]
  PROVE  st' \in [Node -> LocalState] /\ \A k \in Node : st'[k].id = k
BY DEF TypeOK

(* Every step keeps the types. *)
LEMMA NextType ==
  ASSUME TypeOK, [Next]_vars
  PROVE  TypeOK'
<1> USE DEF TypeOK
<1>1. ASSUME NEW i \in Node, Iterate(i)
      PROVE  TypeOK'
  <2>1. PICK t \in BeforeTests(st[i]) :
          \E s \in AfterTests(t) : st' = [st EXCEPT ![i] = s] /\ Send(s)
    BY <1>1 DEF Iterate
  <2>2. PICK s \in AfterTests(t) : st' = [st EXCEPT ![i] = s] /\ Send(s)
    BY <2>1
  <2>3. st[i] \in LocalState /\ st[i].id = i
    OBVIOUS
  <2>4. t \in LocalState /\ t.id = i
    BY <2>1, <2>3, BeforeTestsType
  <2>5. s \in LocalState /\ s.id = i
    BY <2>2, <2>4, AfterTestsType
  <2>6. st' \in [Node -> LocalState] /\ \A k \in Node : st'[k].id = k
    BY <2>2, <2>5, StUpdateType
  <2>7. chan' \in [Node -> [Node -> Seq(Message)]]
    BY <2>2, <2>5, SendType
  <2> QED
    BY <1>1, <2>6, <2>7 DEF Iterate
<1>2. ASSUME NEW i \in Node, IterateRaises(i)
      PROVE  TypeOK'
  <2>1. PICK t \in BeforeTests(st[i]) : st' = [st EXCEPT ![i] = t]
    BY <1>2 DEF IterateRaises
  <2>2. st[i] \in LocalState /\ st[i].id = i
    OBVIOUS
  <2>3. t \in LocalState /\ t.id = i
    BY <2>1, <2>2, BeforeTestsType
  <2>4. st' \in [Node -> LocalState] /\ \A k \in Node : st'[k].id = k
    BY <2>1, <2>3, StUpdateType
  <2> QED
    BY <1>2, <2>4 DEF IterateRaises
<1>3. ASSUME NEW i \in Node, RequestParticipate(i)
      PROVE  TypeOK'
  <2>1. st[i] \in LocalState /\ st[i].id = i
    OBVIOUS
  <2>2. st' \in [Node -> LocalState] /\ \A k \in Node : st'[k].id = k
    BY <1>3, <2>1, ParticipateType, StUpdateType DEF RequestParticipate
  <2> QED
    BY <1>3, <2>2 DEF RequestParticipate
<1>4. ASSUME NEW i \in Node, Crash(i)
      PROVE  TypeOK'
  <2>1. st' \in [Node -> LocalState] /\ \A k \in Node : st'[k].id = k
    BY <1>4, FreshStateType, StUpdateType DEF Crash
  <2>2. <<>> \in Seq(Message)
    OBVIOUS
  <2>3. \A j \in Node : [chan[j] EXCEPT ![i] = <<>>] \in [Node -> Seq(Message)]
    BY <2>2
  <2>4. chan' \in [Node -> [Node -> Seq(Message)]]
    BY <1>4, <2>3 DEF Crash
  <2> QED
    BY <1>4, <2>1, <2>4 DEF Crash
<1>5. ASSUME NEW i \in Node, NEW S \in Proposals, RequestEstab(i, S)
      PROVE  TypeOK'
  <2>1. S \in SUBSET Node /\ st[i] \in LocalState /\ st[i].id = i
    BY ProposalsAssumption
  <2>2. st' \in [Node -> LocalState] /\ \A k \in Node : st'[k].id = k
    BY <1>5, <2>1, EstabType, StUpdateType DEF RequestEstab
  <2>3. estabs' \in 0..MaxEstab
    BY <1>5, BoundsAssumption DEF RequestEstab
  <2> QED
    BY <1>5, <2>2, <2>3 DEF RequestEstab
<1>6. ASSUME NEW i \in Node, NEW j \in Node, Receive(i, j)
      PROVE  TypeOK'
  <2>1. chan[j][i] \in Seq(Message) /\ chan[j][i] # <<>>
    BY <1>6 DEF Receive
  <2>2. Head(chan[j][i]) \in Message /\ Tail(chan[j][i]) \in Seq(Message)
    BY <2>1
  <2>3. st[i] \in LocalState /\ st[i].id = i
    OBVIOUS
  <2>4. st' \in [Node -> LocalState] /\ \A k \in Node : st'[k].id = k
    BY <1>6, <2>2, <2>3, ReceiveMsgType, StUpdateType DEF Receive
  <2>5. [chan[j] EXCEPT ![i] = Tail(chan[j][i])] \in [Node -> Seq(Message)]
    BY <2>2
  <2>6. chan' \in [Node -> [Node -> Seq(Message)]]
    BY <1>6, <2>5 DEF Receive
  <2> QED
    BY <1>6, <2>4, <2>6 DEF Receive
<1>7. ASSUME NEW i \in Node, NEW j \in Node, FDToken(i, j)
      PROVE  TypeOK'
  <2> DEFINE s == st[i]
             known == IF s.trusted = {} THEN Node ELSE s.trusted \union {i, j}
             m == CapAt3(s.monitor[j] + 1)
             After(drop) == [s EXCEPT !.trusted = known \ drop,
                                      !.monitor = [s.monitor EXCEPT
                                        ![j] = m, ![i] = CapAt3(m + 1)]]
  <2>1. PICK drop \in SUBSET (known \ {i, j}) :
          /\ suspects' = suspects + Cardinality(drop \intersect up)
          /\ suspects' <= MaxSuspect
          /\ st' = [st EXCEPT ![i] = After(drop)]
    BY <1>7 DEF FDToken
  <2>2. s \in LocalState /\ s.id = i
    OBVIOUS
  <2>3. m \in 0..3 /\ CapAt3(m + 1) \in 0..3
    <3>1. s.monitor[j] \in 0..3
      BY <2>2 DEF LocalState
    <3>2. \A n \in 0..3 : CapAt3(n + 1) \in 0..3
      BY DEF CapAt3
    <3> QED
      BY <3>1, <3>2
  <2>4. known \in SUBSET Node /\ s.monitor \in [Node -> 0..3]
    BY <2>2 DEF LocalState
  <2>5. After(drop) \in LocalState /\ After(drop).id = i
    BY <2>2, <2>3, <2>4 DEF LocalState
  <2>6. st' \in [Node -> LocalState] /\ \A k \in Node : st'[k].id = k
    BY <2>1, <2>5, StUpdateType
  <2>7. Cardinality(drop \intersect up) \in Nat
    BY NodeFinite
  <2>8. suspects' \in 0..MaxSuspect
    BY <2>1, <2>7, BoundsAssumption
  <2> QED
    BY <1>7, <2>6, <2>8 DEF FDToken
<1>8. CASE UNCHANGED vars
  BY <1>8 DEF vars
<1> QED
  BY <1>1, <1>2, <1>3, <1>4, <1>5, <1>6, <1>7, <1>8 DEF Next

(* Both starts are well-typed. *)
LEMMA InitType == Init => TypeOK
<1>1. ASSUME NEW e \in 0..MaxEstab, NEW f \in 0..MaxSuspect, AllRunning(e, f)
      PROVE  /\ up \subseteq Node /\ loop \subseteq Node
             /\ chan \in [Node -> [Node -> Seq(Message)]]
             /\ estabs \in 0..MaxEstab /\ suspects \in 0..MaxSuspect
  BY <1>1 DEF AllRunning
<1>2. 0 \in 0..MaxEstab /\ MaxEstab \in 0..MaxEstab /\ 0 \in 0..MaxSuspect
  BY BoundsAssumption
<1>3. InitBoot => TypeOK
  BY <1>1, <1>2, FreshStateType DEF InitBoot, TypeOK
<1>4. InitSteady => TypeOK
  BY <1>1, <1>2, SteadyType DEF InitSteady, TypeOK
<1> QED
  BY <1>3, <1>4 DEF Init

(***************************************************************************)
(* From either start every variable keeps its type, for every number of    *)
(* processors: in particular a proposal is always a set of processors and  *)
(* participate() never builds a set out of the letters of 'BOTTOM'.        *)
(***************************************************************************)
THEOREM TypeCorrect == Spec => []TypeOK
<1>1. TypeOK /\ [Next]_vars => TypeOK'
  BY NextType
<1> QED
  BY <1>1, InitType, PTL DEF Spec
-----------------------------------------------------------------------------
(* The notifications of one processor. *)
ValidState(s) == \A k \in Node : Valid(s.prp[k]) /\ Valid(s.echoPrp[k])

LEMMA DfltNtfValid == Valid(DfltNtf)
BY DEF Valid, DfltNtf

LEMMA Line22Valid ==
  ASSUME NEW s \in LocalState, ValidState(s)
  PROVE  /\ ValidState(Line22(s))
         /\ \A k \in Node \ FdPart(Line22(s)) : Line22(s).prp[k] = DfltNtf
<1> DEFINE F == {k \in Node \ FdPart(s) :
                   s.config[k] # NotParticipant \/ s.prp[k] # DfltNtf}
<1>1. \A k \in Node : Line22(s).prp[k] = IF k \in F THEN DfltNtf ELSE s.prp[k]
  BY DEF Line22, Forget, LocalState
<1>2. \A k \in Node : Line22(s).config[k] =
                       IF k \in F THEN NotParticipant ELSE s.config[k]
  BY DEF Line22, Forget, LocalState
<1>3. Line22(s).echoPrp = s.echoPrp /\ Line22(s).trusted = s.trusted
  BY DEF Line22, Forget, LocalState
<1>4. FdPart(Line22(s)) = FdPart(s)
  BY <1>2, <1>3 DEF FdPart, LocalState
<1> QED
  BY <1>1, <1>3, <1>4, DfltNtfValid DEF ValidState

(***************************************************************************)
(* max_ntf: when all degrees are at most one ahead, the new phase is 0     *)
(* exactly if nobody has a proposal.                                       *)
(***************************************************************************)
LEMMA Line23Valid ==
  ASSUME NEW s \in LocalState, ValidState(s),
         \A k \in Node \ FdPart(s) : s.prp[k] = DfltNtf
  PROVE  ValidState(Line23(s))
<1> DEFINE P == FdPart(s)
           F == {s.prp[k].set : k \in P}
           ph == IF JoinsPhaseOne(s) THEN 1 ELSE s.prp[s.id].ph
<1>1. /\ s.id \in Node /\ P \subseteq Node
      /\ \A k \in Node : s.prp[k] \in Ntf /\ s.prp[k].ph \in 0..2
  BY DEF LocalState, Ntf, FdPart
<1>2. (MaxLex(F) = Bottom) <=> (\A k \in P : s.prp[k].ph = 0)
  <2>1. \A k \in P : (s.prp[k].ph = 0) <=> (s.prp[k].set = Bottom)
    BY <1>1 DEF ValidState, Valid
  <2>2. F \subseteq {Bottom} \union SUBSET Node
    BY <1>1 DEF Ntf
  <2>3. CASE F \ {Bottom} = {}
    BY <2>1, <2>3 DEF MaxLex
  <2>4. CASE F \ {Bottom} # {}
    <3>1. MaxLex(F) = UNION {m \in F \ {Bottom} : \A x \in F \ {Bottom} : LexLeq(x, m)}
      BY <2>4 DEF MaxLex
    <3>2. MaxLex(F) \in SUBSET Node
      BY <2>2, <3>1
    <3>3. MaxLex(F) # Bottom
      BY <3>2, SpecialAssumption
    <3> QED
      BY <2>1, <2>4, <3>3
  <2> QED
    BY <2>3, <2>4
<1>3. ASSUME \A k \in P : OneAhead(s, k)
      PROVE  (ph = 0) <=> (\A k \in P : s.prp[k].ph = 0)
  <2>1. \A k \in Node : \E b \in 0..1 : Degree(s, k) = 2 * s.prp[k].ph + b
    BY <1>1 DEF Degree
  <2>2. \A k \in P : (Degree(s, k) - Degree(s, s.id)) % 6 \in {0, 1}
    BY <1>3 DEF OneAhead
  <2>3. CASE s.prp[s.id].ph = 0
    <3>1. \A k \in P : s.prp[k].ph \in 0..1
      <4> TAKE k \in P
      <4>1. PICK a \in 0..1 : Degree(s, s.id) = a
        BY <2>1, <1>1, <2>3
      <4>2. PICK b \in 0..1 : Degree(s, k) = 2 * s.prp[k].ph + b
        BY <2>1, <1>1
      <4>3. ((2 * s.prp[k].ph + b) - a) % 6 \in {0, 1}
        BY <2>2, <4>1, <4>2
      <4> QED
        BY <4>3, <1>1
    <3>2. JoinsPhaseOne(s) <=> (\E k \in P : s.prp[k].ph = 1)
      BY <3>1, <2>3 DEF JoinsPhaseOne
    <3> QED
      BY <3>1, <3>2, <2>3
  <2>4. CASE s.prp[s.id].ph # 0
    <3>1. s.id \in P
      BY <2>4, <1>1 DEF DfltNtf
    <3>2. ph # 0
      BY <2>4
    <3> QED
      BY <3>1, <3>2, <2>4
  <2> QED
    BY <2>3, <2>4
<1>4. CASE \A k \in P : OneAhead(s, k)
  <2> DEFINE new == [ph |-> ph, set |-> MaxLex(F)]
  <2>1. Valid(new)
    BY <1>2, <1>3, <1>4 DEF Valid
  <2>2. /\ Line23(s).prp = [s.prp EXCEPT ![s.id] = new]
        /\ Line23(s).echoPrp = s.echoPrp
    BY <1>4 DEF Line23, LocalState
  <2>3. \A k \in Node : Line23(s).prp[k] = IF k = s.id THEN new ELSE s.prp[k]
    BY <2>2, <1>1 DEF LocalState
  <2> QED
    BY <2>1, <2>2, <2>3 DEF ValidState
<1>5. CASE ~ \A k \in P : OneAhead(s, k)
  BY <1>5 DEF Line23
<1> QED
  BY <1>4, <1>5

LEMMA BeforeTestsValid ==
  ASSUME NEW s \in LocalState, ValidState(s), NEW t \in BeforeTests(s)
  PROVE  ValidState(t)
<1>1. Line22(s) \in LocalState
  BY Line22Type
<1>2. ValidState(Line23(Line22(s))) /\ Line23(Line22(s)) \in LocalState
  BY <1>1, Line22Valid, Line23Valid, Line23Type
<1>3. ASSUME NEW u \in LocalState, ValidState(u)
      PROVE  ValidState(Line25(u)) /\ ValidState(Line26(u))
  BY <1>3 DEF Line25, Line26, ValidState, LocalState
<1> QED
  BY <1>2, <1>3, Line25Type DEF BeforeTests

LEMMA ConfigSetValid ==
  ASSUME NEW s \in LocalState, ValidState(s), NEW c \in Config
  PROVE  ValidState(ConfigSet(s, c))
BY DfltNtfValid DEF ConfigSet, ValidState, LocalState

(* increment() moves a proposal on with its set, or drops both. *)
LEMMA IncrementValid ==
  ASSUME NEW s \in LocalState, ValidState(s)
  PROVE  ValidState(Increment(s))
<1>1. s.id \in Node /\ s.prp \in [Node -> Ntf] /\ Valid(s.prp[s.id])
  BY DEF LocalState, ValidState
<1> DEFINE Moved(p) == [s EXCEPT !.prp[s.id] = p, !.alll[s.id] = FALSE,
                                  !.allSeen = {}]
<1>2. ASSUME NEW p, Valid(p)
      PROVE  ValidState(Moved(p))
  <2>1. /\ Moved(p).prp = [s.prp EXCEPT ![s.id] = p]
        /\ Moved(p).echoPrp = s.echoPrp
    BY DEF LocalState
  <2>2. \A k \in Node : Moved(p).prp[k] = IF k = s.id THEN p ELSE s.prp[k]
    BY <2>1, <1>1
  <2> QED
    BY <1>2, <2>1, <2>2 DEF ValidState
<1> DEFINE next == [ph |-> 2, set |-> s.prp[s.id].set]
<1>3. CASE s.prp[s.id].ph = 1
  <2>1. Valid(next)
    BY <1>1, <1>3 DEF Valid
  <2>2. Increment(s) = Moved(next)
    BY <1>3 DEF Increment
  <2> QED
    BY <1>2, <2>1, <2>2
<1>4. CASE s.prp[s.id].ph = 2
  <2>1. Increment(s) = Moved(DfltNtf)
    BY <1>4 DEF Increment
  <2> QED
    BY <1>2, <2>1, DfltNtfValid
<1>5. CASE s.prp[s.id].ph \notin {1, 2}
  <2>1. Increment(s) = [s EXCEPT !.allSeen = {}]
    BY <1>5 DEF Increment
  <2> QED
    BY <2>1 DEF ValidState, LocalState
<1> QED
  BY <1>3, <1>4, <1>5

LEMMA AfterTestsValid ==
  ASSUME NEW s \in LocalState, ValidState(s), NEW t \in AfterTests(s)
  PROVE  ValidState(t)
<1>1. Line24(s) \in LocalState /\ ValidState(Line24(s))
  BY Line24Type, ConfigSetValid DEF Line24, Config
<1>2. ASSUME NEW u \in LocalState, ValidState(u)
      PROVE  ValidState(BruteForce(u))
  <2> DEFINE u1 == IF ConfigConflict(u) THEN ConfigSet(u, Bottom) ELSE u
  <2>1. u1 \in LocalState /\ ValidState(u1)
    BY <1>2, ConfigSetType, ConfigSetValid DEF Config
  <2>2. u1.trusted \in Config
    BY <2>1 DEF LocalState, Config
  <2> HIDE DEF u1
  <2>3. ValidState(ConfigSet(u1, u1.trusted))
    BY <2>1, <2>2, ConfigSetValid
  <2> QED
    BY <2>1, <2>3 DEF BruteForce, ResetConflict, u1
<1>3. ASSUME NEW u \in LocalState, ValidState(u)
      PROVE  ValidState(Delicate(u))
  <2>1. ValidState(Install(u))
    BY <1>3 DEF Install, ValidState, LocalState
  <2> QED
    BY <2>1, InstallType, IncrementValid DEF Delicate
<1> QED
  BY <1>1, <1>2, <1>3 DEF AfterTests, Lines27to32

LEMMA EstabValid ==
  ASSUME NEW s \in LocalState, ValidState(s), NEW S \in SUBSET Node
  PROVE  ValidState(Estab(s, S))
<1>1. Valid([ph |-> 1, set |-> S])
  BY SpecialAssumption DEF Valid
<1> QED
  BY <1>1 DEF Estab, ValidState, LocalState

(* The notification in a message and its echo. *)
ValidMsg(m) == Valid(m.prp) /\ Valid(m.echoPrp)

LEMMA StateMsgValid ==
  ASSUME NEW s \in LocalState, ValidState(s), NEW j \in Node
  PROVE  ValidMsg(StateMsg(s, j))
BY DEF StateMsg, ValidMsg, ValidState, LocalState

LEMMA ReceiveMsgValid ==
  ASSUME NEW s \in LocalState, ValidState(s), NEW j \in Node,
         NEW m \in Message, ValidMsg(m)
  PROVE  ValidState(ReceiveMsg(s, j, m))
BY DEF ReceiveMsg, ValidMsg, ValidState, LocalState

ValidChan == \A i, j \in Node : \A n \in 1..Len(chan[i][j]) :
                ValidMsg(chan[i][j][n])

LEMMA NtfValidParts ==
  ASSUME TypeOK
  PROVE  NtfValid <=> ((\A i \in Node : ValidState(st[i])) /\ ValidChan)
BY DEF NtfValid, ValidState, ValidChan, ValidMsg

(* A pass sends valid notifications only. *)
LEMMA SendValid ==
  ASSUME TypeOK, ValidChan, NEW s \in LocalState, ValidState(s), Send(s)
  PROVE  ValidChan'
<1>1. s.id \in Node /\ chan \in [Node -> [Node -> Seq(Message)]]
  BY DEF TypeOK, LocalState
<1>2. \A i, j \in Node : chan'[i][j] = IF i = s.id /\ j \in Targets(s)
                                       THEN Append(chan[i][j], StateMsg(s, j))
                                       ELSE chan[i][j]
  BY <1>1 DEF Send
<1>3. ASSUME NEW i \in Node, NEW j \in Node, NEW n \in 1..Len(chan'[i][j])
      PROVE  ValidMsg(chan'[i][j][n])
  <2>1. CASE i = s.id /\ j \in Targets(s)
    <3>1. chan'[i][j] = Append(chan[i][j], StateMsg(s, j))
      BY <2>1, <1>2
    <3>2. chan[i][j] \in Seq(Message) /\ StateMsg(s, j) \in Message
      BY <1>1, StateMsgType
    <3>3. CASE n = Len(chan[i][j]) + 1
      BY <3>1, <3>2, <3>3, StateMsgValid
    <3>4. CASE n \in 1..Len(chan[i][j])
      BY <3>1, <3>2, <3>4 DEF ValidChan
    <3> QED
      BY <3>1, <3>2, <3>3, <3>4
  <2>2. CASE ~ (i = s.id /\ j \in Targets(s))
    BY <2>2, <1>2 DEF ValidChan
  <2> QED
    BY <2>1, <2>2
<1> QED
  BY <1>3 DEF ValidChan

LEMMA StUpdateValid ==
  ASSUME TypeOK, NEW i \in Node, NEW s, ValidState(s),
         \A k \in Node : ValidState(st[k]), st' = [st EXCEPT ![i] = s]
  PROVE  \A k \in Node : ValidState(st'[k])
BY DEF TypeOK

(* Every step keeps the notifications valid. *)
LEMMA NextValid ==
  ASSUME TypeOK, \A i \in Node : ValidState(st[i]), ValidChan, [Next]_vars
  PROVE  (\A i \in Node : ValidState(st'[i])) /\ ValidChan'
<1>1. ASSUME NEW i \in Node
      PROVE  st[i] \in LocalState /\ st[i].id = i /\ ValidState(st[i])
  BY DEF TypeOK
<1>2. ASSUME NEW i \in Node, Iterate(i)
      PROVE  (\A k \in Node : ValidState(st'[k])) /\ ValidChan'
  <2>1. PICK t \in BeforeTests(st[i]) :
          \E s \in AfterTests(t) : st' = [st EXCEPT ![i] = s] /\ Send(s)
    BY <1>2 DEF Iterate
  <2>2. PICK s \in AfterTests(t) : st' = [st EXCEPT ![i] = s] /\ Send(s)
    BY <2>1
  <2>3. t \in LocalState /\ ValidState(t)
    BY <1>1, <2>1, BeforeTestsType, BeforeTestsValid
  <2>4. s \in LocalState /\ ValidState(s)
    BY <2>2, <2>3, AfterTestsType, AfterTestsValid
  <2> QED
    BY <2>2, <2>4, SendValid, StUpdateValid
<1>3. ASSUME NEW i \in Node, IterateRaises(i)
      PROVE  (\A k \in Node : ValidState(st'[k])) /\ ValidChan'
  <2>1. PICK t \in BeforeTests(st[i]) : st' = [st EXCEPT ![i] = t]
    BY <1>3 DEF IterateRaises
  <2>2. ValidState(t)
    BY <1>1, <2>1, BeforeTestsValid
  <2>3. UNCHANGED chan
    BY <1>3 DEF IterateRaises
  <2> QED
    BY <2>1, <2>2, <2>3, StUpdateValid DEF ValidChan
<1>4. ASSUME NEW i \in Node, RequestParticipate(i)
      PROVE  (\A k \in Node : ValidState(st'[k])) /\ ValidChan'
  <2>1. ValidState(Participate(st[i]))
    BY <1>1 DEF Participate, ValidState, LocalState
  <2> QED
    BY <1>4, <2>1, StUpdateValid DEF RequestParticipate, ValidChan
<1>5. ASSUME NEW i \in Node, Crash(i)
      PROVE  (\A k \in Node : ValidState(st'[k])) /\ ValidChan'
  <2>1. ValidState(FreshState(i))
    BY DfltNtfValid DEF FreshState, ValidState
  <2>2. \A j, k \in Node : chan'[j][k] = IF k = i THEN <<>> ELSE chan[j][k]
    BY <1>5 DEF Crash, TypeOK
  <2>3. ValidChan'
    BY <2>2 DEF ValidChan
  <2> QED
    BY <1>5, <2>1, <2>3, StUpdateValid DEF Crash
<1>6. ASSUME NEW i \in Node, NEW S \in Proposals, RequestEstab(i, S)
      PROVE  (\A k \in Node : ValidState(st'[k])) /\ ValidChan'
  <2>1. ValidState(Estab(st[i], S))
    BY <1>1, ProposalsAssumption, EstabValid
  <2> QED
    BY <1>6, <2>1, StUpdateValid DEF RequestEstab, ValidChan
<1>7. ASSUME NEW i \in Node, NEW j \in Node, Receive(i, j)
      PROVE  (\A k \in Node : ValidState(st'[k])) /\ ValidChan'
  <2>1. chan[j][i] \in Seq(Message) /\ chan[j][i] # <<>>
    BY <1>7 DEF Receive, TypeOK
  <2>2. 1 \in 1..Len(chan[j][i]) /\ Head(chan[j][i]) = chan[j][i][1]
    BY <2>1
  <2>3. ValidMsg(Head(chan[j][i])) /\ Head(chan[j][i]) \in Message
    BY <2>1, <2>2 DEF ValidChan
  <2>4. ValidState(ReceiveMsg(st[i], j, Head(chan[j][i])))
    BY <1>1, <2>3, ReceiveMsgValid
  <2>5. \A k, l \in Node : chan'[k][l] = IF k = j /\ l = i
                                         THEN Tail(chan[k][l]) ELSE chan[k][l]
    BY <1>7 DEF Receive, TypeOK
  <2>6. \A n \in 1..Len(Tail(chan[j][i])) :
           /\ n + 1 \in 1..Len(chan[j][i])
           /\ Tail(chan[j][i])[n] = chan[j][i][n + 1]
    BY <2>1
  <2>7. ASSUME NEW k \in Node, NEW l \in Node, NEW n \in 1..Len(chan'[k][l])
        PROVE  ValidMsg(chan'[k][l][n])
    <3>1. CASE k = j /\ l = i
      <4>1. chan'[k][l] = Tail(chan[j][i])
        BY <2>5, <3>1
      <4>2. ValidMsg(chan[j][i][n + 1])
        BY <2>6, <4>1 DEF ValidChan
      <4>3. chan'[k][l][n] = chan[j][i][n + 1]
        BY <2>6, <4>1
      <4> QED
        BY <4>2, <4>3
    <3>2. CASE ~ (k = j /\ l = i)
      BY <2>5, <3>2 DEF ValidChan
    <3> QED
      BY <3>1, <3>2
  <2>8. ValidChan'
    BY <2>7 DEF ValidChan
  <2> QED
    BY <1>7, <2>4, <2>8, StUpdateValid DEF Receive
<1>8. ASSUME NEW i \in Node, NEW j \in Node, FDToken(i, j)
      PROVE  (\A k \in Node : ValidState(st'[k])) /\ ValidChan'
  <2>1. PICK T, M : st' = [st EXCEPT ![i] = [st[i] EXCEPT !.trusted = T,
                                                          !.monitor = M]]
    BY <1>8 DEF FDToken
  <2>2. ValidState([st[i] EXCEPT !.trusted = T, !.monitor = M])
    BY <1>1 DEF ValidState, LocalState
  <2> QED
    BY <1>8, <2>1, <2>2, StUpdateValid DEF FDToken, ValidChan
<1>9. CASE UNCHANGED vars
  BY <1>9 DEF vars, ValidChan
<1> QED
  BY <1>2, <1>3, <1>4, <1>5, <1>6, <1>7, <1>8, <1>9 DEF Next

LEMMA InitValid == Init => NtfValid
<1>1. Init => ValidChan
  BY DEF Init, InitBoot, InitSteady, AllRunning, ValidChan
<1>2. \A i \in Node : ValidState(FreshState(i)) /\ ValidState(Steady(i, Node, Node))
  BY DfltNtfValid DEF FreshState, Steady, ValidState
<1>3. Init => \A i \in Node : ValidState(st[i])
  BY <1>2 DEF Init, InitBoot, InitSteady
<1> QED
  BY <1>1, <1>3, InitType, NtfValidParts

LEMMA NextNtfValid ==
  ASSUME TypeOK, NtfValid, [Next]_vars
  PROVE  NtfValid'
<1>1. TypeOK' /\ (\A i \in Node : ValidState(st[i])) /\ ValidChan
  BY NextType, NtfValidParts
<1>2. (\A i \in Node : ValidState(st'[i])) /\ ValidChan'
  BY <1>1, NextValid
<1> QED
  BY <1>2 DEF NtfValid, ValidState, ValidChan, ValidMsg

(***************************************************************************)
(* From either start, for every number of processors, set of proposals and *)
(* number of crashes and suspicions: phase 0 and having no proposal are    *)
(* the same thing everywhere, so staleness test 1 never fires unless a     *)
(* transient fault has damaged a notification.                             *)
(***************************************************************************)
THEOREM NotificationsValid == Spec => []NtfValid
<1>1. TypeOK /\ NtfValid /\ [Next]_vars => TypeOK' /\ NtfValid'
  BY NextType, NextNtfValid
<1> QED
  BY <1>1, InitType, InitValid, PTL DEF Spec
-----------------------------------------------------------------------------
(***************************************************************************)
(* Why no main loop ends in the TypeError of staleness test 4, and why a   *)
(* system at rest stays at rest, for every number of processors, whatever  *)
(* is under way and whoever is killed.                                     *)
(*                                                                         *)
(* Test 4 raises where a processor without a configuration knows a         *)
(* participant that has one.  A participant never is that processor: it    *)
(* trusts itself, and its own Bottom is caught by test 2 first.  During a  *)
(* boot everybody is without a configuration; a first one is installed     *)
(* only after fds_stabilized(), that is after a message of every other     *)
(* processor, and non-participants send no messages: unless a running      *)
(* processor is suspected, nobody is outside any more when a real          *)
(* configuration appears.                                                  *)
(***************************************************************************)

Real(c) == c \notin {NotParticipant, Bottom}

(* Of a killed processor nothing is asked. *)
Joined(k) == k \in up => Conf(k) # NotParticipant
AllJoined == \A k \in Node : Joined(k)

(* Until the first token nobody is trusted, then every running processor. *)
Trusting(s) == \/ s.trusted = {} /\ s.config[s.id] = NotParticipant
               \/ up \subseteq s.trusted
Healthy ==
  /\ suspects = MaxSuspect
  /\ \A i \in up : Trusting(st[i])

(* Who was heard, or will be, is a participant. *)
Heard ==
  \A i \in up, j \in Node :
    /\ chan[j][i] # <<>> => Joined(j)
    /\ i # j /\ st[i].fd[j] # {} => Joined(j)

(* A real configuration, known or under way, means that all have joined. *)
Spread ==
  \A i \in up, j \in Node :
    /\ Real(st[i].config[j]) => AllJoined
    /\ \A n \in 1..Len(chan[j][i]) : Real(chan[j][i][n].config) => AllJoined

NothingToOneself == \A i \in Node : chan[i][i] = <<>>

LoopInv == /\ TypeOK /\ NtfValid /\ loop = Node
           /\ NothingToOneself /\ Healthy /\ Heard /\ Spread

LEMMA NodeNotEmpty == Node # {} /\ Real(Node) /\ \A S \in SUBSET Node : Real(S)
<1>1. 0 \in Node
  BY NAssumption DEF Node
<1>2. \A S \in SUBSET Node : Real(S)
  BY SpecialAssumption DEF Real
<1> QED
  BY <1>1, <1>2
-----------------------------------------------------------------------------
(* One pass of one processor. *)

(* What is the same when the staleness tests run. *)
LEMMA BeforeTestsKeeps ==
  ASSUME NEW s \in LocalState, NEW t \in BeforeTests(s)
  PROVE  /\ t.trusted = s.trusted /\ t.fd = s.fd
         /\ \A k \in Node :
              t.config[k] = IF k \in FdPart(s) THEN s.config[k]
                                               ELSE NotParticipant
<1> DEFINE a == Line22(s)
           b == Line23(a)
           c == Line25(b)
<1>1. a \in LocalState /\ b \in LocalState /\ c \in LocalState
  BY Line22Type, Line23Type, Line25Type
<1>2. a.trusted = s.trusted /\ a.fd = s.fd
  BY DEF Line22, Forget, LocalState
<1>3. \A k \in Node :
        a.config[k] = IF k \in FdPart(s) THEN s.config[k] ELSE NotParticipant
  BY DEF Line22, Forget, LocalState
<1> HIDE DEF a
<1>4. b.trusted = a.trusted /\ b.fd = a.fd /\ b.config = a.config
  BY <1>1 DEF Line23, LocalState
<1> HIDE DEF b
<1>5. c.trusted = b.trusted /\ c.fd = b.fd /\ c.config = b.config
  BY <1>1 DEF Line25, LocalState
<1> HIDE DEF c
<1>6. t = Line26(c)
  BY DEF BeforeTests, a, b, c
<1>7. t.trusted = c.trusted /\ t.fd = c.fd /\ t.config = c.config
  BY <1>1, <1>6 DEF Line26, LocalState
<1> QED
  BY <1>2, <1>3, <1>4, <1>5, <1>7

(* Test 4 raises only next to a real configuration. *)
LEMMA RaisesNextToReal ==
  ASSUME NEW t \in LocalState, Raises(t)
  PROVE  /\ t.config[t.id] = NotParticipant
         /\ \E k \in Node : Real(t.config[k])
<1>1. /\ ~ StaleInfoType2(t) /\ FdPart(t) # {}
      /\ t.config[t.id] \in {NotParticipant, Bottom}
  BY DEF Raises, StaleBeforeType4, StaleInfoType4Raises
<1>2. t.id \in Node /\ \A k \in Node : t.config[k] # Bottom
  BY <1>1 DEF StaleInfoType2, LocalState
<1>3. PICK k \in FdPart(t) : TRUE
  BY <1>1
<1>4. k \in Node /\ t.config[k] # NotParticipant
  BY DEF FdPart, LocalState
<1> QED
  BY <1>1, <1>2, <1>4 DEF Real

(* A reset, and the brute-force installation that may follow it. *)
LEMMA BruteForceOutcome ==
  ASSUME NEW s \in LocalState
  PROVE  LET u == BruteForce(s)
         IN  /\ u.trusted = s.trusted /\ u.fd = s.fd
             /\ \/ u.config = s.config
                \/ /\ u.config = [k \in Node |-> Bottom]
                   /\ ConfigConflict(s)
                \/ /\ u.config = [k \in Node |-> s.trusted]
                   /\ FdsStabilized(s)
                   /\ ConfigConflict(s) \/ s.config[s.id] = Bottom
<1> DEFINE r == ResetConflict(s)
<1>1. CASE ~ ConfigConflict(s)
  <2>1. r = s
    BY <1>1 DEF ResetConflict
  <2>2. BruteForce(s) = IF s.config[s.id] = Bottom /\ FdsStabilized(s)
                        THEN ConfigSet(s, s.trusted) ELSE s
    BY <2>1 DEF BruteForce
  <2> QED
    BY <2>2 DEF ConfigSet, LocalState
<1>2. CASE ConfigConflict(s)
  <2>1. r = ConfigSet(s, Bottom)
    BY <1>2 DEF ResetConflict
  <2>2. /\ r \in LocalState /\ r.trusted = s.trusted /\ r.fd = s.fd
        /\ r.config = [k \in Node |-> Bottom] /\ r.id = s.id
    <3>1. ConfigSet(s, Bottom) \in LocalState /\ ConfigSet(s, Bottom).id = s.id
      BY ConfigSetType DEF Config
    <3>2. /\ ConfigSet(s, Bottom).trusted = s.trusted
          /\ ConfigSet(s, Bottom).fd = s.fd
          /\ ConfigSet(s, Bottom).config = [k \in Node |-> Bottom]
      BY DEF ConfigSet, LocalState
    <3> QED
      BY <2>1, <3>1, <3>2
  <2>3. FdsStabilized(r) <=> FdsStabilized(s)
    BY <2>2 DEF FdsStabilized
  <2>4. BruteForce(s) = IF r.config[r.id] = Bottom /\ FdsStabilized(r)
                        THEN ConfigSet(r, r.trusted) ELSE r
    BY DEF BruteForce
  <2> HIDE DEF r
  <2>5. /\ ConfigSet(r, r.trusted).config = [k \in Node |-> r.trusted]
        /\ ConfigSet(r, r.trusted).trusted = r.trusted
        /\ ConfigSet(r, r.trusted).fd = r.fd
    BY <2>2 DEF ConfigSet, LocalState
  <2>6. CASE r.config[r.id] = Bottom /\ FdsStabilized(r)
    <3>1. BruteForce(s) = ConfigSet(r, r.trusted) /\ r.trusted = s.trusted
      BY <2>2, <2>4, <2>6
    <3>2. BruteForce(s).config = [k \in Node |-> s.trusted]
      BY <2>5, <3>1
    <3> QED
      BY <1>2, <2>2, <2>3, <2>5, <2>6, <3>1, <3>2
  <2>7. CASE ~ (r.config[r.id] = Bottom /\ FdsStabilized(r))
    <3>1. BruteForce(s) = r
      BY <2>4, <2>7
    <3> QED
      BY <1>2, <2>2, <3>1
  <2> QED
    BY <2>6, <2>7
<1> QED
  BY <1>1, <1>2

(* The delicate replacement touches the own configuration only. *)
LEMMA DelicateOutcome ==
  ASSUME NEW s \in LocalState
  PROVE  LET u == Delicate(s)
         IN  /\ u.trusted = s.trusted /\ u.fd = s.fd
             /\ u.config[s.id] \in {s.config[s.id], s.prp[s.id].set}
<1> DEFINE a == Install(s)
<1>1. /\ a \in LocalState /\ a.trusted = s.trusted /\ a.fd = s.fd
      /\ a.config[s.id] \in {s.config[s.id], s.prp[s.id].set}
  BY InstallType DEF Install, LocalState
<1> HIDE DEF a
<1>2. /\ Increment(a).trusted = a.trusted /\ Increment(a).fd = a.fd
      /\ Increment(a).config = a.config
  BY <1>1 DEF Increment, LocalState
<1>3. Delicate(s) = a \/ Delicate(s) = Increment(a)
  BY DEF Delicate, a
<1> QED
  BY <1>1, <1>2, <1>3

(* What a whole pass does, when the record it starts with is valid. *)
LEMMA AfterTestsOutcome ==
  ASSUME NEW t \in LocalState, ValidState(t), NEW u \in AfterTests(t)
  PROVE  /\ u.trusted = t.trusted /\ u.fd = t.fd
         /\ t.config[t.id] # NotParticipant => u.config[t.id] # NotParticipant
         /\ (\E k \in Node : Real(u.config[k])) =>
              \/ \E k \in Node : Real(t.config[k])
              \/ FdsStabilized(t) /\ u.config[t.id] = t.trusted
         /\ (\A k \in Node : t.config[k] = NotParticipant) /\ t.trusted = {}
              => u.config[t.id] = NotParticipant
<1> DEFINE w == Line24(t)
<1>1. w \in LocalState /\ w.id = t.id /\ t.id \in Node
  BY Line24Type DEF LocalState
<1>2. u = Lines27to32(w)
  BY DEF AfterTests
<1>3. \/ w = t /\ ~ StaleInfoType2(t)
      \/ w = ConfigSet(t, Bottom)
  BY DEF Line24, StaleBeforeType4
<1>4. ~ StaleInfoType1(t)
  BY DEF StaleInfoType1, ValidState, Valid
<1>5. (\A k \in Node : t.config[k] = NotParticipant) /\ t.trusted = {} => w = t
  <2> SUFFICES ASSUME \A k \in Node : t.config[k] = NotParticipant,
                      t.trusted = {}
               PROVE  w = t
    OBVIOUS
  <2>1. FdPart(t) = {}
    BY DEF FdPart
  <2>2. ~ StaleInfoType2(t)
    BY SpecialAssumption DEF StaleInfoType2
  <2>3. ~ StaleInfoType3(t) /\ ~ StaleInfoType4(t)
    BY <2>1 DEF StaleInfoType3, StaleInfoType4
  <2>4. ~ NoParticipantsAndStableMonitors(t)
    BY DEF NoParticipantsAndStableMonitors
  <2> QED
    BY <1>4, <2>2, <2>3, <2>4 DEF Line24, StaleBeforeType4
<1>6. CASE w = ConfigSet(t, Bottom)
  <2>1. /\ w.trusted = t.trusted /\ w.fd = t.fd
        /\ w.config = [k \in Node |-> Bottom]
        /\ w.prp = [k \in Node |-> DfltNtf]
    BY <1>6 DEF ConfigSet, LocalState
  <2>2. NoNtfArrived(w)
    BY <1>1, <2>1 DEF NoNtfArrived, FdPart, DfltNtf, LocalState
  <2>3. u = BruteForce(w)
    BY <1>2, <2>2 DEF Lines27to32
  <2>4. /\ u.trusted = w.trusted /\ u.fd = w.fd
        /\ \/ u.config = w.config
           \/ u.config = [k \in Node |-> Bottom]
           \/ u.config = [k \in Node |-> w.trusted] /\ FdsStabilized(w)
    BY <1>1, <2>3, BruteForceOutcome
  <2>5. FdsStabilized(w) <=> FdsStabilized(t)
    BY <2>1 DEF FdsStabilized
  <2>6. t.trusted \in SUBSET Node
    BY DEF LocalState
  <2>7. \/ u.config = [k \in Node |-> Bottom]
        \/ u.config = [k \in Node |-> t.trusted] /\ FdsStabilized(t)
    BY <2>1, <2>4, <2>5
  <2>8. u.config[t.id] # NotParticipant
    BY <1>1, <2>6, <2>7, SpecialAssumption
  <2>9. (\E k \in Node : Real(u.config[k])) =>
          FdsStabilized(t) /\ u.config[t.id] = t.trusted
    BY <1>1, <2>7 DEF Real
  <2>10. ~ ((\A k \in Node : t.config[k] = NotParticipant) /\ t.trusted = {})
    BY <1>1, <1>5, <2>1, SpecialAssumption
  <2> QED
    BY <2>1, <2>4, <2>8, <2>9, <2>10
<1>7. CASE w = t /\ ~ StaleInfoType2(t) /\ NoNtfArrived(t)
  <2>1. u = BruteForce(t)
    BY <1>2, <1>7 DEF Lines27to32
  <2>2. \A k \in Node : t.config[k] # Bottom
    BY <1>7 DEF StaleInfoType2
  <2>3. /\ u.trusted = t.trusted /\ u.fd = t.fd
        /\ \/ u.config = t.config
           \/ u.config = [k \in Node |-> Bottom] /\ ConfigConflict(t)
           \/ u.config = [k \in Node |-> t.trusted] /\ ConfigConflict(t)
    BY <1>1, <2>1, <2>2, BruteForceOutcome
  <2>4. ConfigConflict(t) => \E k \in t.trusted : Real(t.config[k])
    BY DEF ConfigConflict, RealConfigs, Real
  <2>5. t.trusted \in SUBSET Node
    BY DEF LocalState
  <2>6. \A S \in {Bottom, t.trusted} : S # NotParticipant
    BY <2>5, SpecialAssumption
  <2> QED
    BY <1>1, <2>3, <2>4, <2>5, <2>6
<1>8. CASE w = t /\ ~ StaleInfoType2(t) /\ ~ NoNtfArrived(t)
  <2>1. u = Delicate(t)
    BY <1>2, <1>8 DEF Lines27to32
  <2>2. PICK k \in FdPart(t) : TRUE
    BY <1>8 DEF NoNtfArrived
  <2>3. k \in Node /\ k \in t.trusted /\ Real(t.config[k])
    BY <1>8 DEF FdPart, StaleInfoType2, Real, LocalState
  <2>4. t.prp[t.id].set # NotParticipant
    BY <1>1, SpecialAssumption DEF LocalState, Ntf
  <2>5. /\ u.trusted = t.trusted /\ u.fd = t.fd
        /\ u.config[t.id] \in {t.config[t.id], t.prp[t.id].set}
    BY <2>1, DelicateOutcome
  <2> QED
    BY <2>3, <2>4, <2>5
<1> QED
  BY <1>3, <1>6, <1>7, <1>8
-----------------------------------------------------------------------------
(* Nobody sends to itself. *)
LEMMA SendEffect ==
  ASSUME TypeOK, NEW i \in Node, NEW s \in LocalState, s.id = i, Send(s)
  PROVE  /\ \A k \in Node : chan'[k][k] = chan[k][k]
         /\ \A j, k \in Node : chan'[j][k] # <<>> =>
              chan[j][k] # <<>> \/ (j = i /\ s.config[i] # NotParticipant)
         /\ \A j, k \in Node : \A n \in 1..Len(chan'[j][k]) :
              \/ \E m \in 1..Len(chan[j][k]) : chan'[j][k][n] = chan[j][k][m]
              \/ chan'[j][k][n].config = s.config[i]
<1>1. chan \in [Node -> [Node -> Seq(Message)]]
  BY DEF TypeOK
<1>2. \A j, k \in Node : chan'[j][k] = IF j = i /\ k \in Targets(s)
                                       THEN Append(chan[j][k], StateMsg(s, k))
                                       ELSE chan[j][k]
  BY <1>1 DEF Send
<1>3. i \notin Targets(s) /\ (Targets(s) # {} => s.config[i] # NotParticipant)
  BY DEF Targets
<1>4. \A k \in Node : chan'[k][k] = chan[k][k]
  BY <1>2, <1>3
<1>5. ASSUME NEW j \in Node, NEW k \in Node, NEW n \in 1..Len(chan'[j][k])
      PROVE  \/ \E m \in 1..Len(chan[j][k]) : chan'[j][k][n] = chan[j][k][m]
             \/ chan'[j][k][n].config = s.config[i]
  <2>1. CASE j = i /\ k \in Targets(s)
    <3>1. chan'[j][k] = Append(chan[j][k], StateMsg(s, k))
      BY <1>2, <2>1
    <3>2. chan[j][k] \in Seq(Message) /\ StateMsg(s, k) \in Message
      BY <1>1, StateMsgType
    <3>3. StateMsg(s, k).config = s.config[i]
      BY DEF StateMsg
    <3>4. CASE n = Len(chan[j][k]) + 1
      BY <3>1, <3>2, <3>3, <3>4
    <3>5. CASE n \in 1..Len(chan[j][k])
      BY <3>1, <3>2, <3>5
    <3> QED
      BY <3>1, <3>2, <3>4, <3>5
  <2>2. CASE ~ (j = i /\ k \in Targets(s))
    BY <1>2, <2>2
  <2> QED
    BY <2>1, <2>2
<1> QED
  BY <1>2, <1>3, <1>4, <1>5

(* A receipt takes the first message and leaves the others. *)
LEMMA ReceiptEffect ==
  ASSUME TypeOK, NEW i \in Node, NEW j \in Node, Receive(i, j)
  PROVE  /\ Head(chan[j][i]) \in Message
         /\ Head(chan[j][i]) = chan[j][i][1] /\ 1 \in 1..Len(chan[j][i])
         /\ chan[j][i] # <<>>
         /\ \A k \in Node : chan[k][k] = <<>> => chan'[k][k] = <<>>
         /\ \A k, l \in Node : chan'[k][l] # <<>> => chan[k][l] # <<>>
         /\ \A k, l \in Node : \A n \in 1..Len(chan'[k][l]) :
              \E p \in 1..Len(chan[k][l]) : chan'[k][l][n] = chan[k][l][p]
<1>1. chan[j][i] \in Seq(Message) /\ chan[j][i] # <<>>
  BY DEF Receive, TypeOK
<1>2. /\ Head(chan[j][i]) \in Message
      /\ Head(chan[j][i]) = chan[j][i][1] /\ 1 \in 1..Len(chan[j][i])
  BY <1>1
<1>3. \A k, l \in Node : chan'[k][l] = IF k = j /\ l = i
                                       THEN Tail(chan[k][l]) ELSE chan[k][l]
  BY DEF Receive, TypeOK
<1>4. \A n \in 1..Len(Tail(chan[j][i])) :
        /\ n + 1 \in 1..Len(chan[j][i])
        /\ Tail(chan[j][i])[n] = chan[j][i][n + 1]
  BY <1>1
<1>5. \A k, l \in Node : chan'[k][l] # <<>> => chan[k][l] # <<>>
  BY <1>1, <1>3
<1>6. ASSUME NEW k \in Node, NEW l \in Node, NEW n \in 1..Len(chan'[k][l])
      PROVE  \E p \in 1..Len(chan[k][l]) : chan'[k][l][n] = chan[k][l][p]
  <2>1. CASE k = j /\ l = i
    <3>1. chan'[k][l] = Tail(chan[j][i])
      BY <1>3, <2>1
    <3> QED
      BY <1>4, <2>1, <3>1
  <2>2. CASE ~ (k = j /\ l = i)
    <3>1. chan'[k][l] = chan[k][l]
      BY <1>3, <2>2
    <3> QED
      BY <3>1
  <2> QED
    BY <2>1, <2>2
<1>7. \A k \in Node : chan[k][k] = <<>> => chan'[k][k] = <<>>
  BY <1>5
<1> QED
  BY <1>1, <1>2, <1>5, <1>6, <1>7

(* What participate() and estab() do to the configurations. *)
LEMMA ParticipateOutcome ==
  ASSUME NEW s \in LocalState
  PROVE  LET u == Participate(s)
         IN  /\ u.trusted = s.trusted /\ u.fd = s.fd
             /\ \/ u = s
                \/ /\ u.config[s.id] # NotParticipant
                   /\ s.trusted # {}
                   /\ (\E k \in Node : Real(u.config[k])) =>
                        \E k \in Node : Real(s.config[k])
<1>1. CASE ~ AllowReco(s)
  BY <1>1 DEF Participate
<1>2. CASE AllowReco(s)
  <2> DEFINE u == Participate(s)
  <2>1. /\ u.trusted = s.trusted /\ u.fd = s.fd
        /\ \A k \in Node : u.config[k] = IF k = s.id THEN ChsConfig(s)
                                                     ELSE s.config[k]
    BY <1>2 DEF Participate, LocalState
  <2>2. \A j \in FdPart(s) : j \in Node /\ Real(s.config[j])
    BY <1>2 DEF AllowReco, FdPart, Real, LocalState
  <2>3. \A j \in FdPart(s) : s.config[j] \in SUBSET Node
    BY <2>2 DEF FdPart, LocalState, Config, Real
  <2>4. /\ ChsConfig(s) # NotParticipant
        /\ Real(ChsConfig(s)) => FdPart(s) # {}
    BY <2>3, SpecialAssumption DEF ChsConfig, Real
  <2>5. s.trusted # {} /\ s.id \in Node
    BY <1>2 DEF AllowReco, LocalState
  <2> HIDE DEF u
  <2>6. (\E k \in Node : Real(u.config[k])) => \E k \in Node : Real(s.config[k])
    BY <2>1, <2>2, <2>4
  <2> QED
    BY <2>1, <2>4, <2>5, <2>6 DEF u
<1> QED
  BY <1>1, <1>2

LEMMA EstabOutcome ==
  ASSUME NEW s \in LocalState, NEW S
  PROVE  LET u == Estab(s, S)
         IN  /\ u.trusted = s.trusted /\ u.fd = s.fd
             /\ u.config = s.config
BY DEF Estab, LocalState

(* Where nobody runs that would be dropped wrongly, all that run stay. *)
LEMMA TokenOutcome ==
  ASSUME TypeOK, NEW i \in Node, NEW j \in Node, FDToken(i, j)
  PROVE  \E s \in LocalState :
           /\ st' = [st EXCEPT ![i] = s] /\ s.id = i
           /\ s.fd = st[i].fd /\ s.config = st[i].config
           /\ s.prp = st[i].prp /\ s.fdPart = st[i].fdPart
           /\ i \in s.trusted
           /\ suspects = MaxSuspect =>
                /\ suspects' = suspects
                /\ st[i].trusted = {} \/ up \subseteq st[i].trusted
                     => up \subseteq s.trusted
<1> DEFINE known == IF st[i].trusted = {} THEN Node
                                          ELSE st[i].trusted \union {i, j}
           m == CapAt3(st[i].monitor[j] + 1)
           After(drop) == [st[i] EXCEPT !.trusted = known \ drop,
                                        !.monitor = [st[i].monitor EXCEPT
                                           ![j] = m, ![i] = CapAt3(m + 1)]]
<1>1. PICK drop \in SUBSET (known \ {i, j}) :
        /\ suspects' = suspects + Cardinality(drop \intersect up)
        /\ suspects' <= MaxSuspect
        /\ st' = [st EXCEPT ![i] = After(drop)]
  BY DEF FDToken
<1> DEFINE s == After(drop)
<1>2. TypeOK'
  <2>1. Next
    BY DEF Next
  <2> QED
    BY <2>1, NextType
<1>3. st'[i] = s
  BY <1>1 DEF TypeOK
<1>4. s \in LocalState /\ s.id = i
  BY <1>2, <1>3 DEF TypeOK
<1>5. /\ s.trusted = known \ drop /\ s.prp = st[i].prp
      /\ s.fdPart = st[i].fdPart
      /\ s.fd = st[i].fd /\ s.config = st[i].config
  BY DEF TypeOK, LocalState
<1>6. ASSUME suspects = MaxSuspect
      PROVE  drop \intersect up = {} /\ suspects' = suspects
  <2>1. /\ IsFiniteSet(drop \intersect up)
        /\ Cardinality(drop \intersect up) \in Nat
    <3>1. drop \intersect up \in SUBSET Node
      BY DEF TypeOK
    <3> QED
      BY <3>1, NodeFinite
  <2>2. Cardinality(drop \intersect up) = 0
    BY <1>1, <1>6, <2>1, BoundsAssumption
  <2> QED
    BY <1>1, <1>6, <2>1, <2>2, FS_EmptySet, BoundsAssumption
<1>7. i \in s.trusted /\ up \subseteq Node
  BY <1>5 DEF TypeOK
<1>8. st[i].trusted = {} \/ up \subseteq st[i].trusted => up \subseteq known
  BY <1>7
<1> HIDE DEF s, known
<1> QED
  BY <1>1, <1>4, <1>5, <1>6, <1>7, <1>8 DEF s
-----------------------------------------------------------------------------
(* A boot, and what follows it, when nobody is suspected wrongly any more. *)

(* No pass raises. *)
LEMMA NobodyRaises ==
  ASSUME LoopInv, NEW i \in up, NEW t \in BeforeTests(st[i])
  PROVE  ~ Raises(t)
<1> SUFFICES ASSUME Raises(t)
             PROVE  FALSE
  OBVIOUS
<1>1. i \in Node /\ st[i] \in LocalState /\ st[i].id = i
  BY DEF LoopInv, TypeOK
<1>2. t \in LocalState /\ t.id = i
  BY <1>1, BeforeTestsType
<1>3. t.config[i] = NotParticipant /\ \E k \in Node : Real(t.config[k])
  BY <1>2, RaisesNextToReal
<1>4. \A k \in Node : t.config[k] = IF k \in FdPart(st[i])
                                    THEN st[i].config[k] ELSE NotParticipant
  BY <1>1, BeforeTestsKeeps
<1>5. \E k \in Node : Real(st[i].config[k])
  BY <1>3, <1>4 DEF Real
<1>6. Conf(i) # NotParticipant
  BY <1>1, <1>5 DEF LoopInv, Spread, AllJoined, Joined
<1>7. i \in st[i].trusted
  BY <1>1, <1>6 DEF LoopInv, Healthy, Trusting, Conf
<1>8. i \in FdPart(st[i])
  BY <1>6, <1>7 DEF FdPart, Conf
<1> QED
  BY <1>1, <1>3, <1>4, <1>6, <1>8 DEF Conf

(* A pass neither leaves nor installs anything on its own. *)
LEMMA PassKeeps ==
  ASSUME LoopInv, NEW i \in up,
         NEW t \in BeforeTests(st[i]), NEW s \in AfterTests(t)
  PROVE  /\ s \in LocalState /\ s.id = i
         /\ s.trusted = st[i].trusted /\ s.fd = st[i].fd
         /\ Trusting(s)
         /\ Conf(i) # NotParticipant => s.config[i] # NotParticipant
         /\ (\E k \in Node : Real(s.config[k])) =>
              /\ s.config[i] # NotParticipant
              /\ \A k \in Node \ {i} : Joined(k)
<1>1. /\ i \in Node /\ st[i] \in LocalState /\ st[i].id = i
      /\ ValidState(st[i])
  BY NtfValidParts DEF LoopInv, TypeOK
<1>2. t \in LocalState /\ t.id = i /\ ValidState(t)
  BY <1>1, BeforeTestsType, BeforeTestsValid
<1>3. s \in LocalState /\ s.id = i
  BY <1>2, AfterTestsType
<1>4. /\ t.trusted = st[i].trusted /\ t.fd = st[i].fd
      /\ \A k \in Node : t.config[k] = IF k \in FdPart(st[i])
                                       THEN st[i].config[k]
                                       ELSE NotParticipant
  BY <1>1, BeforeTestsKeeps
<1>5. /\ s.trusted = t.trusted /\ s.fd = t.fd
      /\ t.config[i] # NotParticipant => s.config[i] # NotParticipant
      /\ (\E k \in Node : Real(s.config[k])) =>
           \/ \E k \in Node : Real(t.config[k])
           \/ FdsStabilized(t) /\ s.config[i] = t.trusted
      /\ (\A k \in Node : t.config[k] = NotParticipant) /\ t.trusted = {}
           => s.config[i] = NotParticipant
  BY <1>2, AfterTestsOutcome
<1>6. Conf(i) # NotParticipant => t.config[i] # NotParticipant
  <2> SUFFICES ASSUME Conf(i) # NotParticipant
               PROVE  t.config[i] # NotParticipant
    OBVIOUS
  <2>1. i \in FdPart(st[i])
    BY <1>1 DEF LoopInv, Healthy, Trusting, FdPart, Conf
  <2> QED
    BY <1>1, <1>4, <2>1 DEF Conf
<1>7. s.trusted = {} => s.config[i] = NotParticipant
  <2> SUFFICES ASSUME s.trusted = {}
               PROVE  s.config[i] = NotParticipant
    OBVIOUS
  <2>1. FdPart(st[i]) = {}
    BY <1>4, <1>5 DEF FdPart
  <2> QED
    BY <1>4, <1>5, <2>1
<1>8. Trusting(s)
  <2>1. s.trusted = {} \/ up \subseteq s.trusted
    BY <1>4, <1>5 DEF LoopInv, Healthy, Trusting
  <2> QED
    BY <1>3, <1>7, <2>1 DEF Trusting
<1>9. ASSUME \E k \in Node : Real(s.config[k])
      PROVE  /\ s.config[i] # NotParticipant
             /\ \A k \in Node \ {i} : Joined(k)
  <2>1. CASE \E k \in Node : Real(t.config[k])
    <3>1. \E k \in Node : Real(st[i].config[k])
      BY <1>4, <2>1 DEF Real
    <3>2. AllJoined
      BY <3>1 DEF LoopInv, Spread
    <3> QED
      BY <1>1, <1>5, <1>6, <3>2 DEF AllJoined, Joined
  <2>2. CASE FdsStabilized(t) /\ s.config[i] = t.trusted
    <3>1. t.trusted \in SUBSET Node
      BY <1>2 DEF LocalState
    <3>2. s.config[i] # NotParticipant
      BY <2>2, <3>1, SpecialAssumption
    <3>3. up \subseteq t.trusted
      BY <1>3, <1>5, <1>8, <3>2 DEF Trusting
    <3>4. \A k \in up : st[i].fd[k] # {}
      BY <1>4, <2>2, <3>3 DEF FdsStabilized
    <3> QED
      BY <3>2, <3>4 DEF LoopInv, Heard, Joined
  <2> QED
    BY <1>5, <1>9, <2>1, <2>2
<1> QED
  BY <1>3, <1>4, <1>5, <1>6, <1>8, <1>9

(***************************************************************************)
(* The record of i becomes s and i may send its configuration: what such a *)
(* step must respect so that the invariant stays.                          *)
(***************************************************************************)
LEMMA StepKeeps ==
  ASSUME LoopInv, NEW i \in up, NEW s \in LocalState, s.id = i,
         st' = [st EXCEPT ![i] = s], up' = up, suspects' = suspects,
         Trusting(s),
         Conf(i) # NotParticipant => s.config[i] # NotParticipant,
         \A j \in Node \ {i} : s.fd[j] # {} => Joined(j),
         (\E k \in Node : Real(s.config[k])) =>
            /\ s.config[i] # NotParticipant
            /\ \A k \in Node \ {i} : Joined(k),
         \A j, k \in Node : chan'[j][k] # <<>> =>
            chan[j][k] # <<>> \/ (j = i /\ s.config[i] # NotParticipant),
         \A j, k \in Node : \A n \in 1..Len(chan'[j][k]) :
            \/ \E m \in 1..Len(chan[j][k]) : chan'[j][k][n] = chan[j][k][m]
            \/ chan'[j][k][n].config = s.config[i]
  PROVE  Healthy' /\ Heard' /\ Spread'
<1>1. /\ \A k \in Node : st'[k] = IF k = i THEN s ELSE st[k]
      /\ i \in Node /\ up \subseteq Node
  BY DEF LoopInv, TypeOK
<1>2. \A k \in Node : Conf(k)' = IF k = i THEN s.config[i] ELSE Conf(k)
  BY <1>1 DEF Conf
<1>3. \A k \in Node : Joined(k) => Joined(k)'
  BY <1>2 DEF Joined
<1>4. AllJoined => AllJoined'
  BY <1>3 DEF AllJoined
<1>5. (\E k \in Node : Real(s.config[k])) => AllJoined'
  BY <1>1, <1>2 DEF AllJoined, Joined
<1>6. Healthy'
  BY <1>1 DEF LoopInv, Healthy, Trusting
<1>7. Heard'
  <2>1. ASSUME NEW k \in up, NEW j \in Node, chan'[j][k] # <<>>
        PROVE  Joined(j)'
    <3>1. chan[j][k] # <<>> => Joined(j)
      BY DEF LoopInv, Heard
    <3>2. s.config[i] # NotParticipant => Joined(i)'
      BY <1>1, <1>2 DEF Joined
    <3> QED
      BY <1>1, <1>3, <2>1, <3>1, <3>2
  <2>2. ASSUME NEW k \in up, NEW j \in Node, k # j, st'[k].fd[j] # {}
        PROVE  Joined(j)'
    <3>1. st[k].fd[j] # {} => Joined(j)
      BY <2>2 DEF LoopInv, Heard
    <3> QED
      BY <1>1, <1>3, <2>2, <3>1
  <2> QED
    BY <2>1, <2>2 DEF Heard
<1>8. Spread'
  <2>1. ASSUME NEW k \in up, NEW j \in Node, Real(st'[k].config[j])
        PROVE  AllJoined'
    BY <1>1, <1>4, <1>5, <2>1 DEF LoopInv, Spread
  <2>2. ASSUME NEW k \in up, NEW j \in Node, NEW n \in 1..Len(chan'[j][k]),
               Real(chan'[j][k][n].config)
        PROVE  AllJoined'
    <3>1. CASE \E m \in 1..Len(chan[j][k]) : chan'[j][k][n] = chan[j][k][m]
      BY <1>4, <2>2, <3>1 DEF LoopInv, Spread
    <3>2. CASE chan'[j][k][n].config = s.config[i]
      BY <1>1, <1>5, <2>2, <3>2
    <3> QED
      BY <1>1, <3>1, <3>2
  <2> QED
    BY <2>1, <2>2 DEF Spread
<1> QED
  BY <1>6, <1>7, <1>8

(* The same, when nothing is sent and nothing new is heard. *)
LEMMA QuietStepKeeps ==
  ASSUME LoopInv, NEW i \in up, NEW s \in LocalState, s.id = i,
         st' = [st EXCEPT ![i] = s], up' = up, suspects' = suspects,
         chan' = chan,
         Trusting(s),
         Conf(i) # NotParticipant => s.config[i] # NotParticipant,
         s.fd = st[i].fd,
         (\E k \in Node : Real(s.config[k])) => AllJoined
  PROVE  Healthy' /\ Heard' /\ Spread'
<1>1. i \in Node
  BY DEF LoopInv, TypeOK
<1>2. \A j \in Node \ {i} : s.fd[j] # {} => Joined(j)
  BY DEF LoopInv, Heard
<1>3. (\E k \in Node : Real(s.config[k])) =>
        /\ s.config[i] # NotParticipant
        /\ \A k \in Node \ {i} : Joined(k)
  BY <1>1 DEF AllJoined, Joined, Conf
<1>4. \A j, k \in Node : \A n \in 1..Len(chan'[j][k]) :
         \E m \in 1..Len(chan[j][k]) : chan'[j][k][n] = chan[j][k][m]
  OBVIOUS
<1>5. \A j, k \in Node : chan'[j][k] # <<>> => chan[j][k] # <<>>
  OBVIOUS
<1> QED
  BY <1>2, <1>3, <1>4, <1>5, StepKeeps

(* Unless a running processor is suspected, every step keeps the invariant. *)
LEMMA NextLoopInv ==
  ASSUME LoopInv, [Next]_vars
  PROVE  LoopInv'
<1>1. TypeOK' /\ NtfValid'
  BY NextType, NextNtfValid DEF LoopInv
<1>2. TypeOK /\ \A i \in Node : st[i] \in LocalState /\ st[i].id = i
  BY DEF LoopInv, TypeOK
<1>3. ASSUME NEW i \in up
      PROVE  /\ i \in Node /\ Trusting(st[i])
             /\ \A j \in Node \ {i} : st[i].fd[j] # {} => Joined(j)
             /\ (\E k \in Node : Real(st[i].config[k])) => AllJoined
  BY DEF LoopInv, Healthy, Heard, Spread, TypeOK
<1> DEFINE Kept == NothingToOneself' /\ Healthy' /\ Heard' /\ Spread'
                   /\ loop' = loop
<1>4. ASSUME NEW i \in Node, Iterate(i)
      PROVE  Kept
  <2>1. PICK t \in BeforeTests(st[i]) :
          \E s \in AfterTests(t) : st' = [st EXCEPT ![i] = s] /\ Send(s)
    BY <1>4 DEF Iterate
  <2>2. PICK s \in AfterTests(t) : st' = [st EXCEPT ![i] = s] /\ Send(s)
    BY <2>1
  <2>3. i \in up /\ up' = up /\ loop' = loop /\ suspects' = suspects
    BY <1>4 DEF Iterate
  <2>4. /\ s \in LocalState /\ s.id = i
        /\ s.fd = st[i].fd
        /\ Trusting(s)
        /\ Conf(i) # NotParticipant => s.config[i] # NotParticipant
        /\ (\E k \in Node : Real(s.config[k])) =>
             /\ s.config[i] # NotParticipant
             /\ \A k \in Node \ {i} : Joined(k)
    BY <2>1, <2>2, <2>3, PassKeeps
  <2>5. /\ \A k \in Node : chan'[k][k] = chan[k][k]
        /\ \A j, k \in Node : chan'[j][k] # <<>> =>
             chan[j][k] # <<>> \/ (j = i /\ s.config[i] # NotParticipant)
        /\ \A j, k \in Node : \A n \in 1..Len(chan'[j][k]) :
             \/ \E m \in 1..Len(chan[j][k]) : chan'[j][k][n] = chan[j][k][m]
             \/ chan'[j][k][n].config = s.config[i]
    BY <1>2, <2>2, <2>4, SendEffect
  <2>6. NothingToOneself'
    BY <2>5 DEF LoopInv, NothingToOneself
  <2>7. \A j \in Node \ {i} : s.fd[j] # {} => Joined(j)
    BY <1>3, <2>3, <2>4
  <2>8. Healthy' /\ Heard' /\ Spread'
    BY <2>2, <2>3, <2>4, <2>5, <2>7, StepKeeps
  <2> QED
    BY <2>3, <2>6, <2>8
<1>5. ASSUME NEW i \in Node, IterateRaises(i)
      PROVE  FALSE
  BY <1>5, NobodyRaises DEF IterateRaises
<1>6. ASSUME NEW i \in Node, RequestParticipate(i)
      PROVE  Kept
  <2> DEFINE s == Participate(st[i])
  <2>1. /\ i \in up /\ up' = up /\ loop' = loop /\ suspects' = suspects
        /\ chan' = chan /\ st' = [st EXCEPT ![i] = s]
    BY <1>6 DEF RequestParticipate
  <2>2. s \in LocalState /\ s.id = i
    BY <1>2, ParticipateType
  <2>3. /\ s.trusted = st[i].trusted /\ s.fd = st[i].fd
        /\ \/ s = st[i]
           \/ /\ s.config[i] # NotParticipant
              /\ st[i].trusted # {}
              /\ (\E k \in Node : Real(s.config[k])) =>
                   \E k \in Node : Real(st[i].config[k])
    BY <1>2, ParticipateOutcome
  <2> HIDE DEF s
  <2>4. /\ Conf(i) # NotParticipant => s.config[i] # NotParticipant
        /\ (\E k \in Node : Real(s.config[k])) => AllJoined
    BY <1>3, <2>1, <2>3 DEF Conf
  <2>5. Trusting(s)
    BY <1>2, <1>3, <2>1, <2>2, <2>3 DEF Trusting
  <2>6. Healthy' /\ Heard' /\ Spread'
    BY <2>1, <2>2, <2>3, <2>4, <2>5, QuietStepKeeps
  <2> QED
    BY <2>1, <2>6 DEF LoopInv, NothingToOneself
<1>7. ASSUME NEW i \in Node, Crash(i)
      PROVE  Kept
  <2>1. /\ up' = up \ {i} /\ loop' = loop /\ suspects' = suspects
        /\ \A k \in Node \ {i} : st'[k] = st[k]
        /\ \A j, k \in Node : chan'[j][k] = IF k = i THEN <<>> ELSE chan[j][k]
        /\ up \subseteq Node
    BY <1>2, <1>7 DEF Crash, TypeOK
  <2>2. \A k \in Node : Joined(k) => Joined(k)'
    BY <2>1 DEF Joined, Conf
  <2>3. AllJoined => AllJoined'
    BY <2>2 DEF AllJoined
  <2>4. Healthy'
    BY <2>1 DEF LoopInv, Healthy, Trusting
  <2>5. Heard'
    BY <2>1, <2>2 DEF LoopInv, Heard
  <2>6. Spread'
    BY <2>1, <2>3 DEF LoopInv, Spread
  <2> QED
    BY <2>1, <2>4, <2>5, <2>6 DEF LoopInv, NothingToOneself
<1>8. ASSUME NEW i \in Node, NEW S \in Proposals, RequestEstab(i, S)
      PROVE  Kept
  <2> DEFINE s == Estab(st[i], S)
  <2>1. /\ i \in up /\ up' = up /\ loop' = loop /\ suspects' = suspects
        /\ chan' = chan /\ st' = [st EXCEPT ![i] = s]
    BY <1>8 DEF RequestEstab
  <2>2. s \in LocalState /\ s.id = i
    BY <1>2, EstabType, ProposalsAssumption
  <2>3. /\ s.trusted = st[i].trusted /\ s.fd = st[i].fd
        /\ s.config = st[i].config
    BY <1>2, EstabOutcome
  <2> HIDE DEF s
  <2>4. Trusting(s)
    BY <1>2, <1>3, <2>1, <2>2, <2>3 DEF Trusting
  <2>5. Healthy' /\ Heard' /\ Spread'
    BY <1>3, <2>1, <2>2, <2>3, <2>4, QuietStepKeeps DEF Conf
  <2> QED
    BY <2>1, <2>5 DEF LoopInv, NothingToOneself
<1>9. ASSUME NEW i \in Node, NEW j \in Node, Receive(i, j)
      PROVE  Kept
  <2> DEFINE m == Head(chan[j][i])
             s == ReceiveMsg(st[i], j, m)
  <2>1. /\ m \in Message
        /\ m = chan[j][i][1] /\ 1 \in 1..Len(chan[j][i])
        /\ chan[j][i] # <<>>
        /\ \A k \in Node : chan[k][k] = <<>> => chan'[k][k] = <<>>
        /\ \A k, l \in Node : chan'[k][l] # <<>> => chan[k][l] # <<>>
        /\ \A k, l \in Node : \A n \in 1..Len(chan'[k][l]) :
             \E p \in 1..Len(chan[k][l]) : chan'[k][l][n] = chan[k][l][p]
    BY <1>2, <1>9, ReceiptEffect
  <2>2. /\ i \in up /\ up' = up /\ loop' = loop /\ suspects' = suspects
        /\ st' = [st EXCEPT ![i] = s]
    BY <1>9 DEF Receive
  <2>3. i # j
    BY <2>1 DEF LoopInv, NothingToOneself
  <2> HIDE DEF m
  <2>4. s \in LocalState /\ s.id = i
    BY <1>2, <2>1, ReceiveMsgType
  <2>5. /\ s.trusted = st[i].trusted
        /\ \A k \in Node : k # j => s.config[k] = st[i].config[k]
        /\ s.config[j] = m.config
        /\ \A k \in Node \ {i, j} : s.fd[k] = st[i].fd[k]
    BY <1>2 DEF ReceiveMsg, LocalState
  <2> HIDE DEF s
  <2>6. Joined(j) /\ (Real(m.config) => AllJoined)
    BY <2>1, <2>2 DEF LoopInv, Heard, Spread
  <2>7. \A k \in Node \ {i} : s.fd[k] # {} => Joined(k)
    BY <1>3, <2>2, <2>5, <2>6
  <2>8. (\E k \in Node : Real(s.config[k])) => AllJoined
    BY <1>3, <2>2, <2>5, <2>6
  <2>9. s.config[i] = Conf(i)
    BY <2>3, <2>5 DEF Conf
  <2>10. (\E k \in Node : Real(s.config[k])) =>
           /\ s.config[i] # NotParticipant
           /\ \A k \in Node \ {i} : Joined(k)
    BY <2>2, <2>8, <2>9 DEF AllJoined, Joined
  <2>11. Trusting(s)
    BY <1>2, <1>3, <2>2, <2>4, <2>5, <2>9 DEF Trusting, Conf
  <2>12. Conf(i) # NotParticipant => s.config[i] # NotParticipant
    BY <2>9
  <2>13. /\ \A k, l \in Node : chan'[k][l] # <<>> =>
              chan[k][l] # <<>> \/ (k = i /\ s.config[i] # NotParticipant)
         /\ \A k, l \in Node : \A n \in 1..Len(chan'[k][l]) :
              \/ \E p \in 1..Len(chan[k][l]) : chan'[k][l][n] = chan[k][l][p]
              \/ chan'[k][l][n].config = s.config[i]
    BY <2>1
  <2>14. Healthy' /\ Heard' /\ Spread'
    BY <2>2, <2>4, <2>7, <2>10, <2>11, <2>12, <2>13, StepKeeps
  <2> QED
    BY <2>1, <2>2, <2>14 DEF LoopInv, NothingToOneself
<1>10. ASSUME NEW i \in Node, NEW j \in Node, FDToken(i, j)
       PROVE  Kept
  <2>1. PICK s \in LocalState :
           /\ st' = [st EXCEPT ![i] = s] /\ s.id = i
           /\ s.fd = st[i].fd /\ s.config = st[i].config
           /\ suspects = MaxSuspect =>
                /\ suspects' = suspects
                /\ st[i].trusted = {} \/ up \subseteq st[i].trusted
                     => up \subseteq s.trusted
    BY <1>2, <1>10, TokenOutcome
  <2>2. i \in up /\ up' = up /\ loop' = loop /\ chan' = chan
    BY <1>10 DEF FDToken
  <2>3. suspects' = suspects /\ Trusting(s)
    BY <1>3, <2>1, <2>2 DEF LoopInv, Healthy, Trusting
  <2>4. /\ Conf(i) # NotParticipant => s.config[i] # NotParticipant
        /\ (\E k \in Node : Real(s.config[k])) => AllJoined
    BY <1>3, <2>1, <2>2 DEF Conf
  <2>5. Healthy' /\ Heard' /\ Spread'
    BY <2>1, <2>2, <2>3, <2>4, QuietStepKeeps
  <2> QED
    BY <2>2, <2>5 DEF LoopInv, NothingToOneself
<1>11. ASSUME UNCHANGED vars
       PROVE  Kept
  <2>1. st' = st /\ up' = up /\ loop' = loop /\ chan' = chan
        /\ suspects' = suspects
    BY <1>11 DEF vars
  <2>2. Healthy' /\ NothingToOneself'
    BY <2>1 DEF LoopInv, Healthy, Trusting, NothingToOneself
  <2>3. Heard'
    BY <2>1 DEF LoopInv, Heard, Joined, Conf
  <2>4. Spread'
    BY <2>1 DEF LoopInv, Spread, AllJoined, Joined, Conf
  <2> QED
    BY <2>1, <2>2, <2>3, <2>4
<1> HIDE DEF Kept
<1>12. Kept
  BY <1>4, <1>5, <1>6, <1>7, <1>8, <1>9, <1>10, <1>11 DEF Next
<1> QED
  BY <1>1, <1>12 DEF LoopInv, Kept
-----------------------------------------------------------------------------
(* Participants, whoever is suspected or killed next to them. *)
Members(M) ==
  /\ TypeOK /\ NtfValid /\ NothingToOneself
  /\ M \subseteq loop
  /\ \A i \in up \intersect M : /\ Conf(i) # NotParticipant
                                /\ i \in st[i].trusted

(* No step takes a participant out of its configuration or its loop. *)
LEMMA NextMembers ==
  ASSUME NEW M \in SUBSET Node, Members(M), [Next]_vars
  PROVE  Members(M)'
<1>1. TypeOK' /\ NtfValid'
  BY NextType, NextNtfValid DEF Members
<1>2. TypeOK /\ \A i \in Node : /\ st[i] \in LocalState /\ st[i].id = i
                                /\ ValidState(st[i])
  BY NtfValidParts DEF Members, TypeOK
<1> DEFINE In(s) == s.config[s.id] # NotParticipant /\ s.id \in s.trusted
           Kept == /\ NothingToOneself' /\ M \subseteq loop'
                   /\ \A k \in up' \intersect M : In(st'[k])
<1>3. \A k \in up \intersect M : In(st[k])
  BY <1>2 DEF Members, Conf
<1>4. ASSUME NEW i \in Node, NEW s \in LocalState, s.id = i,
             st' = [st EXCEPT ![i] = s], i \in M => In(s), up' = up, i \in up
      PROVE  \A k \in up' \intersect M : In(st'[k])
  BY <1>2, <1>3, <1>4 DEF TypeOK
<1>5. ASSUME NEW i \in up \intersect M, NEW t \in BeforeTests(st[i])
      PROVE  /\ t \in LocalState /\ t.id = i /\ ValidState(t)
             /\ t.config[i] # NotParticipant /\ i \in t.trusted
  <2>1. t \in LocalState /\ t.id = i /\ ValidState(t)
    BY <1>2, BeforeTestsType, BeforeTestsValid
  <2>2. /\ t.trusted = st[i].trusted
        /\ t.config[i] = IF i \in FdPart(st[i]) THEN st[i].config[i]
                                                ELSE NotParticipant
    BY <1>2, BeforeTestsKeeps
  <2>3. i \in FdPart(st[i])
    BY <1>2, <1>3 DEF FdPart
  <2> QED
    BY <1>2, <1>3, <2>1, <2>2, <2>3
<1>6. ASSUME NEW i \in Node, Iterate(i)
      PROVE  Kept
  <2>1. PICK t \in BeforeTests(st[i]) :
          \E s \in AfterTests(t) : st' = [st EXCEPT ![i] = s] /\ Send(s)
    BY <1>6 DEF Iterate
  <2>2. PICK s \in AfterTests(t) : st' = [st EXCEPT ![i] = s] /\ Send(s)
    BY <2>1
  <2>3. i \in up /\ up' = up /\ loop' = loop
    BY <1>6 DEF Iterate
  <2>4. s \in LocalState /\ s.id = i
    BY <1>2, <2>1, <2>2, BeforeTestsType, AfterTestsType
  <2>5. i \in M => In(s)
    <3> SUFFICES ASSUME i \in M PROVE In(s)
      OBVIOUS
    <3>1. /\ t \in LocalState /\ t.id = i /\ ValidState(t)
          /\ t.config[i] # NotParticipant /\ i \in t.trusted
      BY <1>5, <2>1, <2>3
    <3>2. s.trusted = t.trusted /\ s.config[i] # NotParticipant
      BY <2>2, <3>1, AfterTestsOutcome
    <3> QED
      BY <2>4, <3>1, <3>2
  <2>6. \A k \in up' \intersect M : In(st'[k])
    BY <1>4, <2>2, <2>3, <2>4, <2>5
  <2>7. NothingToOneself'
    BY <1>2, <2>2, <2>4, SendEffect DEF Members, NothingToOneself
  <2> QED
    BY <2>3, <2>6, <2>7 DEF Members
<1>7. ASSUME NEW i \in Node, IterateRaises(i)
      PROVE  Kept
  <2>1. PICK t \in BeforeTests(st[i]) : Raises(t) /\ st' = [st EXCEPT ![i] = t]
    BY <1>7 DEF IterateRaises
  <2>2. i \in up /\ up' = up /\ loop' = loop \ {i} /\ chan' = chan
    BY <1>7 DEF IterateRaises
  <2>3. t \in LocalState /\ t.id = i
    BY <1>2, <2>1, BeforeTestsType
  <2>4. i \notin M
    BY <1>5, <2>1, <2>2, <2>3, RaisesNextToReal
  <2>5. \A k \in up' \intersect M : In(st'[k])
    BY <1>4, <2>1, <2>2, <2>3, <2>4
  <2> QED
    BY <2>2, <2>4, <2>5 DEF Members, NothingToOneself
<1>8. ASSUME NEW i \in Node, RequestParticipate(i)
      PROVE  Kept
  <2> DEFINE s == Participate(st[i])
  <2>1. /\ i \in up /\ up' = up /\ loop' = loop
        /\ chan' = chan /\ st' = [st EXCEPT ![i] = s]
    BY <1>8 DEF RequestParticipate
  <2>2. s \in LocalState /\ s.id = i
    BY <1>2, ParticipateType
  <2>3. /\ s.trusted = st[i].trusted
        /\ s = st[i] \/ s.config[i] # NotParticipant
    BY <1>2, ParticipateOutcome
  <2> HIDE DEF s
  <2>4. i \in M => In(s)
    BY <1>2, <1>3, <2>1, <2>2, <2>3
  <2> QED
    BY <1>4, <2>1, <2>2, <2>4 DEF Members, NothingToOneself
<1>9. ASSUME NEW i \in Node, Crash(i)
      PROVE  Kept
  <2>1. /\ up' = up \ {i} /\ loop' = loop
        /\ \A k \in Node \ {i} : st'[k] = st[k]
        /\ \A j, k \in Node : chan'[j][k] = IF k = i THEN <<>> ELSE chan[j][k]
        /\ up \subseteq Node
    BY <1>2, <1>9 DEF Crash, TypeOK
  <2> QED
    BY <1>3, <2>1 DEF Members, NothingToOneself
<1>10. ASSUME NEW i \in Node, NEW S \in Proposals, RequestEstab(i, S)
       PROVE  Kept
  <2> DEFINE s == Estab(st[i], S)
  <2>1. /\ i \in up /\ up' = up /\ loop' = loop
        /\ chan' = chan /\ st' = [st EXCEPT ![i] = s]
    BY <1>10 DEF RequestEstab
  <2>2. s \in LocalState /\ s.id = i
    BY <1>2, EstabType, ProposalsAssumption
  <2>3. s.trusted = st[i].trusted /\ s.config = st[i].config
    BY <1>2, EstabOutcome
  <2> HIDE DEF s
  <2>4. i \in M => In(s)
    BY <1>2, <1>3, <2>1, <2>2, <2>3
  <2> QED
    BY <1>4, <2>1, <2>2, <2>4 DEF Members, NothingToOneself
<1>11. ASSUME NEW i \in Node, NEW j \in Node, Receive(i, j)
       PROVE  Kept
  <2> DEFINE m == Head(chan[j][i])
             s == ReceiveMsg(st[i], j, m)
  <2>1. /\ m \in Message /\ chan[j][i] # <<>>
        /\ \A k \in Node : chan[k][k] = <<>> => chan'[k][k] = <<>>
    BY <1>2, <1>11, ReceiptEffect
  <2>2. /\ i \in up /\ up' = up /\ loop' = loop
        /\ st' = [st EXCEPT ![i] = s]
    BY <1>11 DEF Receive
  <2>3. i # j
    BY <2>1 DEF Members, NothingToOneself
  <2> HIDE DEF m
  <2>4. s \in LocalState /\ s.id = i
    BY <1>2, <2>1, ReceiveMsgType
  <2>5. s.trusted = st[i].trusted /\ s.config[i] = st[i].config[i]
    BY <1>2, <2>3 DEF ReceiveMsg, LocalState
  <2> HIDE DEF s
  <2>6. i \in M => In(s)
    BY <1>2, <1>3, <2>2, <2>4, <2>5
  <2> QED
    BY <1>4, <2>1, <2>2, <2>4, <2>6 DEF Members, NothingToOneself
<1>12. ASSUME NEW i \in Node, NEW j \in Node, FDToken(i, j)
       PROVE  Kept
  <2>1. PICK s \in LocalState :
           /\ st' = [st EXCEPT ![i] = s] /\ s.id = i
           /\ s.config = st[i].config /\ i \in s.trusted
    BY <1>2, <1>12, TokenOutcome
  <2>2. i \in up /\ up' = up /\ loop' = loop /\ chan' = chan
    BY <1>12 DEF FDToken
  <2>3. i \in M => In(s)
    BY <1>2, <1>3, <2>1, <2>2
  <2> QED
    BY <1>4, <2>1, <2>2, <2>3 DEF Members, NothingToOneself
<1>13. ASSUME UNCHANGED vars
       PROVE  Kept
  BY <1>3, <1>13 DEF vars, Members, NothingToOneself
<1> HIDE DEF Kept
<1>14. Kept
  BY <1>6, <1>7, <1>8, <1>9, <1>10, <1>11, <1>12, <1>13 DEF Next
<1>15. \A k \in up' \intersect M : st'[k].id = k
  BY <1>1 DEF TypeOK
<1> QED
  BY <1>1, <1>14, <1>15 DEF Members, Conf, Kept
-----------------------------------------------------------------------------
(* The starts. *)
NothingSent == /\ up = Node /\ loop = Node
               /\ \A i, j \in Node : chan[i][j] = <<>>

LEMMA QuietStart ==
  ASSUME NEW e \in 0..MaxEstab, NEW f \in 0..MaxSuspect, AllRunning(e, f),
         st \in [Node -> LocalState],
         \A i \in Node : st[i].id = i /\ ValidState(st[i])
  PROVE  /\ TypeOK /\ NtfValid /\ NothingToOneself /\ NothingSent
         /\ suspects = f
<1>1. NothingSent /\ NothingToOneself /\ suspects = f
  BY DEF AllRunning, NothingSent, NothingToOneself
<1>2. TypeOK
  <2>1. chan \in [Node -> [Node -> Seq(Message)]]
    <3>1. <<>> \in Seq(Message)
      OBVIOUS
    <3> QED
      BY <3>1 DEF AllRunning
  <2> QED
    BY <2>1 DEF AllRunning, TypeOK
<1>3. NtfValid
  <2>1. ValidChan
    BY <1>1 DEF NothingSent, ValidChan
  <2> QED
    BY <1>2, <2>1, NtfValidParts
<1> QED
  BY <1>1, <1>2, <1>3

(* A processor that has just been started, or has seen the others start. *)
LEMMA FreshValid ==
  ASSUME NEW i \in Node
  PROVE  /\ FreshState(i) \in LocalState /\ FreshState(i).id = i
         /\ ValidState(FreshState(i))
         /\ NoParticipants(i) \in LocalState /\ NoParticipants(i).id = i
         /\ ValidState(NoParticipants(i))
<1>1. FreshState(i) \in LocalState /\ FreshState(i).id = i
  BY FreshStateType
<1>2. /\ \A k \in Node : /\ FreshState(i).prp[k] = DfltNtf
                         /\ FreshState(i).echoPrp[k] = DfltNtf
      /\ NoParticipants(i).prp = FreshState(i).prp
      /\ NoParticipants(i).echoPrp = FreshState(i).echoPrp
  BY DEF FreshState, NoParticipants
<1>3. NoParticipants(i) \in LocalState /\ NoParticipants(i).id = i
  <2> DEFINE f == FreshState(i)
             m == [k \in Node |-> 3]
  <2>1. f \in LocalState /\ f.id = i
    BY <1>1
  <2>2. m \in [Node -> 0..3]
    OBVIOUS
  <2>3. NoParticipants(i) = [f EXCEPT !.trusted = Node, !.monitor = m]
    BY DEF NoParticipants
  <2> HIDE DEF f, m
  <2> QED
    BY <2>1, <2>2, <2>3 DEF LocalState
<1> QED
  BY <1>1, <1>2, <1>3, DfltNtfValid DEF ValidState

LEMMA SteadyValid ==
  ASSUME NEW i \in Node
  PROVE  /\ Steady(i, Node, Node) \in LocalState
         /\ Steady(i, Node, Node).id = i
         /\ ValidState(Steady(i, Node, Node))
         /\ Steady(i, Node, Node).trusted = Node
         /\ \A k \in Node : /\ Steady(i, Node, Node).config[k] = Node
                            /\ Steady(i, Node, Node).prp[k] = DfltNtf
                            /\ Steady(i, Node, Node).echoPrp[k] = DfltNtf
<1>1. /\ Steady(i, Node, Node) \in LocalState
      /\ Steady(i, Node, Node).id = i
  BY SteadyType
<1>2. /\ Steady(i, Node, Node).trusted = Node
      /\ \A k \in Node : /\ Steady(i, Node, Node).config[k] = Node
                         /\ Steady(i, Node, Node).prp[k] = DfltNtf
                         /\ Steady(i, Node, Node).echoPrp[k] = DfltNtf
  BY DEF Steady, FreshState
<1> QED
  BY <1>1, <1>2, DfltNtfValid DEF ValidState

(* Nobody is a participant, and nobody will be suspected. *)
LEMMA BootLoopInv ==
  ASSUME NEW e \in 0..MaxEstab, AllRunning(e, MaxSuspect),
         st = [i \in Node |-> FreshState(i)]
           \/ st = [i \in Node |-> NoParticipants(i)]
  PROVE  LoopInv
<1>1. /\ st \in [Node -> LocalState]
      /\ \A i \in Node : st[i].id = i /\ ValidState(st[i])
  BY FreshValid
<1>2. MaxSuspect \in 0..MaxSuspect
  BY BoundsAssumption
<1>3. /\ TypeOK /\ NtfValid /\ NothingToOneself /\ NothingSent
      /\ suspects = MaxSuspect
  BY <1>1, <1>2, QuietStart
<1>4. \A i \in Node :
        /\ st[i].trusted = {} \/ st[i].trusted = Node
        /\ \A k \in Node : /\ st[i].config[k] = NotParticipant
                           /\ st[i].fd[k] = {}
  <2>1. ASSUME NEW i \in Node
        PROVE  /\ FreshState(i).trusted = {} /\ NoParticipants(i).trusted = Node
               /\ \A k \in Node : /\ FreshState(i).config[k] = NotParticipant
                                  /\ FreshState(i).fd[k] = {}
               /\ NoParticipants(i).config = FreshState(i).config
               /\ NoParticipants(i).fd = FreshState(i).fd
    BY DEF FreshState, NoParticipants
  <2> QED
    BY <2>1
<1>5. Healthy
  BY <1>1, <1>3, <1>4 DEF NothingSent, Healthy, Trusting
<1>6. Heard
  BY <1>3, <1>4 DEF NothingSent, Heard
<1>7. Spread
  BY <1>3, <1>4 DEF NothingSent, Spread, Real
<1> QED
  BY <1>3, <1>5, <1>6, <1>7 DEF LoopInv, NothingSent

(* All but those outside M rest as participants. *)
LEMMA SteadyMembers ==
  ASSUME NEW e \in 0..MaxEstab, NEW f \in 0..MaxSuspect, AllRunning(e, f),
         NEW M \in SUBSET Node,
         st = [i \in Node |-> IF i \in M THEN Steady(i, Node, Node)
                                         ELSE FreshState(i)]
  PROVE  Members(M)
<1>1. /\ st \in [Node -> LocalState]
      /\ \A i \in Node : st[i].id = i /\ ValidState(st[i])
  BY FreshValid, SteadyValid
<1>2. TypeOK /\ NtfValid /\ NothingToOneself /\ NothingSent
  BY <1>1, QuietStart
<1>3. \A i \in M : Conf(i) = Node /\ st[i].trusted = Node
  BY SteadyValid DEF Conf
<1> QED
  BY <1>2, <1>3, NodeNotEmpty DEF Members, NothingSent, Real

LEMMA InitBootLoopInv ==
  ASSUME MaxSuspect = 0, InitBoot
  PROVE  LoopInv
<1>1. MaxEstab \in 0..MaxEstab
  BY BoundsAssumption
<1> QED
  BY <1>1, BootLoopInv DEF InitBoot

LEMMA InitSteadyMembers == InitSteady => Members(Node)
<1> SUFFICES ASSUME InitSteady PROVE Members(Node)
  OBVIOUS
<1>1. 0 \in 0..MaxEstab /\ 0 \in 0..MaxSuspect
  BY BoundsAssumption
<1>2. st = [i \in Node |-> IF i \in Node THEN Steady(i, Node, Node)
                                         ELSE FreshState(i)]
  BY DEF InitSteady
<1> QED
  BY <1>1, <1>2, SteadyMembers DEF InitSteady

Survivors == Node \ {Restarted}

LEMMA InitFaultsSurvivors == InitFaults => LoopInv \/ Members(Survivors)
<1> SUFFICES ASSUME InitFaults PROVE LoopInv \/ Members(Survivors)
  OBVIOUS
<1>1. /\ 0 \in 0..MaxEstab /\ 0 \in 0..MaxSuspect
      /\ MaxEstab \in 0..MaxEstab /\ MaxSuspect \in 0..MaxSuspect
  BY BoundsAssumption
<1>2. CASE InitRestart
  <2>1. st = [i \in Node |-> IF i \in Survivors THEN Steady(i, Node, Node)
                                                ELSE FreshState(i)]
    BY <1>2 DEF InitRestart, Survivors
  <2> QED
    BY <1>1, <1>2, <2>1, SteadyMembers DEF InitRestart, Survivors
<1>3. ASSUME NEW e \in 0..MaxEstab, NEW f \in 0..MaxSuspect, AllRunning(e, f),
             st = [i \in Node |-> Steady(i, Node, Node)]
      PROVE  Members(Survivors)
  <2>1. st = [i \in Node |-> IF i \in Node THEN Steady(i, Node, Node)
                                           ELSE FreshState(i)]
    BY <1>3
  <2>2. Members(Node)
    BY <1>3, <2>1, SteadyMembers
  <2> QED
    BY <2>2 DEF Members, Survivors
<1>4. CASE /\ AllRunning(MaxEstab, MaxSuspect)
           /\ st = [i \in Node |-> NoParticipants(i)]
  BY <1>1, <1>4, BootLoopInv
<1> QED
  BY <1>1, <1>2, <1>3, <1>4 DEF InitFaults

(***************************************************************************)
(* No main loop ends in the TypeError of staleness test 4 while a system   *)
(* that boots stabilizes, unless a running processor is suspected in it;   *)
(* nor in one that rests, whoever is suspected: for every number of        *)
(* processors, every set of proposals, any number of messages under way    *)
(* and whoever is killed.                                                  *)
(***************************************************************************)
THEOREM LoopsOutlive ==
  MaxSuspect = 0 => (Spec => []LoopsRun)
<1> SUFFICES ASSUME MaxSuspect = 0
             PROVE  Spec => []LoopsRun
  OBVIOUS
<1>1. Init => LoopInv \/ Members(Node)
  BY InitBootLoopInv, InitSteadyMembers DEF Init
<1>2. (LoopInv \/ Members(Node)) /\ [Next]_vars => (LoopInv \/ Members(Node))'
  BY NextLoopInv, NextMembers
<1>3. LoopInv \/ Members(Node) => LoopsRun
  BY DEF LoopInv, Members, LoopsRun, TypeOK
<1> QED
  BY <1>1, <1>2, <1>3, PTL DEF Spec

(***************************************************************************)
(* The loops of participants run on whoever is suspected or killed: what   *)
(* holds of boots under MaxSuspect = 0 holds of a system at rest without.  *)
(***************************************************************************)
THEOREM ParticipantsOutlive == SpecSteady => []LoopsRun
<1>1. Members(Node) /\ [Next]_vars => Members(Node)'
  BY NextMembers
<1>2. Members(Node) => LoopsRun
  BY DEF Members, LoopsRun, TypeOK
<1> QED
  BY <1>1, <1>2, InitSteadyMembers, PTL DEF SpecSteady

(***************************************************************************)
(* A replacement, a wrong suspicion, a boot or a restart next to a resting *)
(* system, each with kills: none ends the loop of a processor that keeps   *)
(* its memory, for every number of processors and any messages under way.  *)
(***************************************************************************)
THEOREM SurvivorsOutlive == SpecFaults => []SurvivorsRun
<1>1. /\ LoopInv \/ Members(Survivors)
      /\ [Next]_vars
      => (LoopInv \/ Members(Survivors))'
  <2>1. Survivors \in SUBSET Node
    BY DEF Survivors
  <2> QED
    BY <2>1, NextLoopInv, NextMembers
<1>2. LoopInv \/ Members(Survivors) => SurvivorsRun
  BY DEF LoopInv, Members, SurvivorsRun, Survivors
<1> QED
  BY <1>1, <1>2, InitFaultsSurvivors, PTL DEF SpecFaults
-----------------------------------------------------------------------------
(***************************************************************************)
(* A system at rest.  While nobody proposes anything, a pass of the main   *)
(* loop is a pass at rest: no staleness test fires, no conflict is seen    *)
(* and no configuration changes, whoever is suspected, killed or let in,   *)
(* and whatever is under way.                                              *)
(***************************************************************************)

(* Everybody that s knows of has configuration C or none, and no proposal. *)
Resting(s, C) ==
  \A k \in Node : s.prp[k] = DfltNtf /\ s.config[k] \in {C, NotParticipant}

LEMMA MaxLexOfNothing ==
  ASSUME NEW F, F \subseteq {Bottom}
  PROVE  MaxLex(F) = Bottom
<1>1. F \ {Bottom} = {}
  OBVIOUS
<1> QED
  BY <1>1 DEF MaxLex

(* Lines 22 to 26 find no proposal to adopt. *)
LEMMA IdleBeforeTests ==
  ASSUME NEW s \in LocalState, \A k \in Node : s.prp[k] = DfltNtf,
         NEW t \in BeforeTests(s)
  PROVE  \A k \in Node : t.prp[k] = DfltNtf
<1> DEFINE Idle(r) == \A k \in Node : r.prp[k] = DfltNtf
           a == Line22(s)
           b == Line23(a)
           c == Line25(b)
<1>1. a \in LocalState /\ b \in LocalState /\ c \in LocalState /\ t = Line26(c)
  BY Line22Type, Line23Type, Line25Type DEF BeforeTests
<1>2. Idle(a)
  BY DEF Line22, Forget, LocalState
<1> HIDE DEF a
<1>3. Idle(b)
  <2>1. CASE b = a
    BY <1>2, <2>1
  <2>2. CASE \A k \in FdPart(a) : OneAhead(a, k)
    <3> DEFINE F == {a.prp[k].set : k \in FdPart(a)}
               ph == IF JoinsPhaseOne(a) THEN 1 ELSE a.prp[a.id].ph
               new == [ph |-> ph, set |-> MaxLex(F)]
    <3>1. \A k \in Node : a.prp[k].ph = 0 /\ a.prp[k].set = Bottom
      BY <1>2 DEF DfltNtf
    <3>2. FdPart(a) \subseteq Node /\ a.id \in Node
      BY <1>1 DEF FdPart, LocalState
    <3>3. ~ JoinsPhaseOne(a)
      BY <3>1, <3>2 DEF JoinsPhaseOne
    <3>4. MaxLex(F) = Bottom
      BY <3>1, <3>2, MaxLexOfNothing
    <3>5. ph = 0
      BY <3>1, <3>2, <3>3
    <3>6. new = DfltNtf
      BY <3>4, <3>5 DEF DfltNtf
    <3>7. b = [a EXCEPT !.prp[a.id] = new,
                        !.allSeen = IF JoinsPhaseOne(a) THEN {}
                                                        ELSE a.allSeen]
      BY <2>2 DEF Line23
    <3> HIDE DEF new, b
    <3>8. b.prp = [a.prp EXCEPT ![a.id] = new]
      BY <1>1, <3>7 DEF LocalState
    <3> QED
      BY <1>1, <1>2, <3>2, <3>6, <3>8 DEF LocalState
  <2> QED
    BY <2>1, <2>2 DEF Line23
<1> HIDE DEF b
<1>4. c.prp = b.prp
  BY <1>1 DEF Line25, LocalState
<1> HIDE DEF c
<1>5. t.prp = c.prp
  BY <1>1 DEF Line26, LocalState
<1> QED
  BY <1>3, <1>4, <1>5

LEMMA RestingBeforeTests ==
  ASSUME NEW s \in LocalState, NEW C, Resting(s, C), NEW t \in BeforeTests(s)
  PROVE  Resting(t, C)
BY IdleBeforeTests, BeforeTestsKeeps DEF Resting

(* No test fires next to a participant of the configuration, ... *)
LEMMA NothingStale ==
  ASSUME NEW t \in LocalState, NEW C \in SUBSET Node, Resting(t, C),
         NEW k \in FdPart(t), k \in C
  PROVE  Line24(t) = t
<1>1. \A j \in Node : t.prp[j].ph = 0 /\ t.prp[j].set = Bottom
  BY DEF Resting, DfltNtf
<1>2. FdPart(t) \subseteq Node /\ t.id \in Node
  BY DEF FdPart, LocalState
<1>3. ~ StaleInfoType1(t)
  BY <1>1 DEF StaleInfoType1
<1>4. ~ StaleInfoType2(t)
  BY SpecialAssumption DEF StaleInfoType2, Resting
<1>5. ~ StaleInfoType3(t)
  <2>1. ASSUME NEW a \in Node, NEW b \in Node
        PROVE  CorrDeg(t, a, b)
    <3>1. Degree(t, a) \in {0, 1} /\ Degree(t, b) \in {0, 1}
      BY <1>1 DEF Degree
    <3>2. (Degree(t, a) - Degree(t, b)) \in {-1, 0, 1}
      BY <3>1
    <3> QED
      BY <3>2 DEF CorrDeg
  <2>2. \A a \in FdPart(t) : /\ t.prp[a].ph # (t.prp[t.id].ph + 1) % 3
                             /\ t.prp[a].ph # 2
    BY <1>1, <1>2
  <2> QED
    BY <1>2, <2>1, <2>2 DEF StaleInfoType3
<1>6. ~ StaleInfoType4(t)
  <2>1. t.config[t.id] \notin {NotParticipant, Bottom} => t.config[t.id] = C
    BY <1>2 DEF Resting
  <2> QED
    BY <2>1 DEF StaleInfoType4
<1>7. ~ NoParticipantsAndStableMonitors(t)
  BY DEF NoParticipantsAndStableMonitors, FdPart
<1> QED
  BY <1>3, <1>4, <1>5, <1>6, <1>7 DEF Line24, StaleBeforeType4

(* ... and what follows leaves everything as it is. *)
LEMMA RestingAfterTests ==
  ASSUME NEW t \in LocalState, NEW C \in SUBSET Node, Resting(t, C),
         NEW k \in FdPart(t), k \in C, NEW u \in AfterTests(t)
  PROVE  u = t
<1>1. u = Lines27to32(t)
  BY NothingStale DEF AfterTests
<1>2. NoNtfArrived(t)
  BY DEF NoNtfArrived, Resting, DfltNtf, FdPart, LocalState
<1>3. ~ ConfigConflict(t)
  BY DEF ConfigConflict, RealConfigs, Resting, LocalState
<1>4. t.config[t.id] # Bottom
  BY SpecialAssumption DEF Resting, LocalState
<1> QED
  BY <1>1, <1>2, <1>3, <1>4 DEF Lines27to32, BruteForce, ResetConflict

(* A whole pass. *)
LEMMA RestingPass ==
  ASSUME NEW s \in LocalState, NEW C \in SUBSET Node, Resting(s, C),
         NEW k \in FdPart(s), k \in C,
         NEW t \in BeforeTests(s), NEW u \in AfterTests(t)
  PROVE  /\ u \in LocalState /\ u.id = s.id /\ u.trusted = s.trusted
         /\ Resting(u, C)
         /\ \A j \in FdPart(s) : u.config[j] = s.config[j]
<1>1. t \in LocalState /\ t.id = s.id
  BY BeforeTestsType
<1>2. /\ t.trusted = s.trusted /\ Resting(t, C)
      /\ \A j \in Node : t.config[j] = IF j \in FdPart(s) THEN s.config[j]
                                                          ELSE NotParticipant
  BY BeforeTestsKeeps, RestingBeforeTests
<1>3. FdPart(s) \subseteq Node
  BY DEF FdPart, LocalState
<1>4. k \in FdPart(t)
  BY <1>2, <1>3 DEF FdPart
<1>5. u = t
  BY <1>1, <1>2, <1>4, RestingAfterTests
<1> QED
  BY <1>1, <1>2, <1>3, <1>5
(* No pass changes who is trusted. *)
LEMMA PassTrusts ==
  ASSUME NEW t \in LocalState, NEW u \in AfterTests(t)
  PROVE  u.trusted = t.trusted
<1>1. Line24(t) \in LocalState /\ Line24(t).trusted = t.trusted
  BY Line24Type DEF Line24, ConfigSet, LocalState
<1>2. \A w \in LocalState : /\ BruteForce(w).trusted = w.trusted
                            /\ Delicate(w).trusted = w.trusted
  BY BruteForceOutcome, DelicateOutcome
<1> QED
  BY <1>1, <1>2 DEF AfterTests, Lines27to32

(* What Send adds, to queues that may hold messages of other kinds, too. *)
LEMMA SentTo ==
  ASSUME NEW M, Message \subseteq M, chan \in [Node -> [Node -> Seq(M)]],
         NEW s \in LocalState, Send(s)
  PROVE  /\ chan' \in [Node -> [Node -> Seq(M)]]
         /\ \A j, k \in Node : \A n \in 1..Len(chan'[j][k]) :
              \/ \E m \in 1..Len(chan[j][k]) : chan'[j][k][n] = chan[j][k][m]
              \/ j = s.id /\ chan'[j][k][n] = StateMsg(s, k)
<1>1. s.id \in Node
  BY DEF LocalState
<1>2. ASSUME NEW k \in Node
      PROVE  Append(chan[s.id][k], StateMsg(s, k)) \in Seq(M)
  <2>1. StateMsg(s, k) \in M /\ chan[s.id][k] \in Seq(M)
    BY <1>1, StateMsgType
  <2> QED
    BY <2>1
<1> DEFINE row == [k \in Node |-> IF k \in Targets(s)
                                  THEN Append(chan[s.id][k], StateMsg(s, k))
                                  ELSE chan[s.id][k]]
<1>3. row \in [Node -> Seq(M)]
  BY <1>1, <1>2
<1>4. chan' = [chan EXCEPT ![s.id] = row]
  BY DEF Send
<1>5. chan' \in [Node -> [Node -> Seq(M)]]
  BY <1>3, <1>4
<1>6. ASSUME NEW j \in Node, NEW k \in Node, NEW n \in 1..Len(chan'[j][k])
      PROVE  \/ \E m \in 1..Len(chan[j][k]) : chan'[j][k][n] = chan[j][k][m]
             \/ j = s.id /\ chan'[j][k][n] = StateMsg(s, k)
  <2>1. CASE j = s.id /\ k \in Targets(s)
    <3>1. chan'[j][k] = Append(chan[j][k], StateMsg(s, k))
      BY <1>1, <1>4, <2>1
    <3>2. chan[j][k] \in Seq(M)
      OBVIOUS
    <3>3. n = Len(chan[j][k]) + 1 \/ n \in 1..Len(chan[j][k])
      BY <3>1, <3>2
    <3> QED
      BY <2>1, <3>1, <3>2, <3>3
  <2>2. CASE ~ (j = s.id /\ k \in Targets(s))
    <3>1. chan'[j][k] = chan[j][k]
      BY <1>1, <1>4, <2>2
    <3> QED
      BY <3>1
  <2> QED
    BY <2>1, <2>2
<1> QED
  BY <1>5, <1>6

(* A configuration C, or none, and no proposal. *)
Says(m, C) == m.prp = DfltNtf /\ m.config \in {C, NotParticipant}

(***************************************************************************)
(* All are participants of the configuration of all, they know nothing     *)
(* else, nothing else is under way, and nobody may propose.                *)
(***************************************************************************)
RestInv ==
  /\ Members(Node)
  /\ estabs = MaxEstab
  /\ \A i \in Node : Resting(st[i], Node)
  /\ \A j, k \in Node : \A n \in 1..Len(chan[j][k]) : Says(chan[j][k][n], Node)

LEMMA RestHasConfig ==
  ASSUME RestInv, NEW i \in up
  PROVE  /\ i \in Node /\ st[i] \in LocalState /\ st[i].id = i
         /\ Resting(st[i], Node) /\ Conf(i) = Node /\ i \in FdPart(st[i])
<1>1. i \in Node /\ st[i] \in LocalState /\ st[i].id = i
  BY DEF RestInv, Members, TypeOK
<1>2. Conf(i) # NotParticipant /\ i \in st[i].trusted
  BY <1>1 DEF RestInv, Members
<1> QED
  BY <1>1, <1>2 DEF RestInv, Resting, Conf, FdPart

LEMMA FreshResting ==
  ASSUME NEW i \in Node, NEW C
  PROVE  Resting(FreshState(i), C)
BY DEF FreshState, Resting

(* What a processor at rest sends. *)
LEMMA RestingSays ==
  ASSUME NEW s \in LocalState, NEW C, Resting(s, C), NEW k \in Node
  PROVE  Says(StateMsg(s, k), C)
BY DEF Says, StateMsg, Resting, LocalState

LEMMA RestingReceipt ==
  ASSUME NEW s \in LocalState, NEW C, Resting(s, C),
         NEW j \in Node, NEW m \in Message, Says(m, C)
  PROVE  Resting(ReceiveMsg(s, j, m), C)
<1> DEFINE u == ReceiveMsg(s, j, m)
<1>1. /\ u.config = [s.config EXCEPT ![j] = m.config]
      /\ u.prp = [s.prp EXCEPT ![j] = m.prp]
  BY DEF ReceiveMsg, LocalState
<1> HIDE DEF u
<1>2. s.config \in [Node -> Config] /\ s.prp \in [Node -> Ntf]
  BY DEF LocalState
<1>3. \A k \in Node : /\ u.config[k] = IF k = j THEN m.config ELSE s.config[k]
                      /\ u.prp[k] = IF k = j THEN m.prp ELSE s.prp[k]
  BY <1>1, <1>2
<1>4. Resting(u, C)
  BY <1>3 DEF Resting, Says
<1> QED
  BY <1>4 DEF u

(* Nothing but a kill changes what such a system is. *)
LEMMA NextRestInv ==
  ASSUME RestInv, [Next]_vars
  PROVE  RestInv'
<1>1. Members(Node)'
  BY NextMembers DEF RestInv
<1>2. /\ TypeOK /\ TypeOK' /\ estabs = MaxEstab
      /\ \A i \in Node : /\ st[i] \in LocalState /\ st[i].id = i
                         /\ Resting(st[i], Node)
      /\ chan \in [Node -> [Node -> Seq(Message)]]
      /\ \A j, k \in Node : \A n \in 1..Len(chan[j][k]) :
           Says(chan[j][k][n], Node)
  BY <1>1 DEF RestInv, Members, TypeOK
<1> DEFINE Kept == /\ estabs' = estabs
                   /\ \A i \in Node : Resting(st'[i], Node)
                   /\ \A j, k \in Node : \A n \in 1..Len(chan'[j][k]) :
                        Says(chan'[j][k][n], Node)
<1>3. ASSUME NEW i \in Node, NEW s, Resting(s, Node), st' = [st EXCEPT ![i] = s]
      PROVE  \A k \in Node : Resting(st'[k], Node)
  BY <1>2, <1>3 DEF TypeOK
<1>4. ASSUME NEW i \in Node, Iterate(i)
      PROVE  Kept
  <2>1. PICK t \in BeforeTests(st[i]) :
          \E s \in AfterTests(t) : st' = [st EXCEPT ![i] = s] /\ Send(s)
    BY <1>4 DEF Iterate
  <2>2. PICK s \in AfterTests(t) : st' = [st EXCEPT ![i] = s] /\ Send(s)
    BY <2>1
  <2>3. i \in up /\ estabs' = estabs
    BY <1>4 DEF Iterate
  <2>4. i \in FdPart(st[i])
    BY <2>3, RestHasConfig
  <2>5. s \in LocalState /\ s.id = i /\ Resting(s, Node)
    BY <1>2, <2>1, <2>2, <2>4, RestingPass
  <2>6. \A j, k \in Node : \A n \in 1..Len(chan'[j][k]) :
          \/ \E m \in 1..Len(chan[j][k]) : chan'[j][k][n] = chan[j][k][m]
          \/ j = i /\ chan'[j][k][n] = StateMsg(s, k)
    <3>1. \A j, k \in Node : \A n \in 1..Len(chan'[j][k]) :
            \/ \E m \in 1..Len(chan[j][k]) : chan'[j][k][n] = chan[j][k][m]
            \/ j = s.id /\ chan'[j][k][n] = StateMsg(s, k)
      BY <1>2, <2>2, <2>5, SentTo
    <3> QED
      BY <2>5, <3>1
  <2>7. \A k \in Node : Says(StateMsg(s, k), Node)
    BY <2>5, RestingSays
  <2>8. \A j, k \in Node : \A n \in 1..Len(chan'[j][k]) :
          Says(chan'[j][k][n], Node)
    <3> SUFFICES ASSUME NEW j \in Node, NEW k \in Node,
                        NEW n \in 1..Len(chan'[j][k])
                 PROVE  Says(chan'[j][k][n], Node)
      OBVIOUS
    <3>1. CASE \E m \in 1..Len(chan[j][k]) : chan'[j][k][n] = chan[j][k][m]
      BY <1>2, <3>1
    <3>2. CASE j = i /\ chan'[j][k][n] = StateMsg(s, k)
      BY <2>7, <3>2
    <3> QED
      BY <2>6, <3>1, <3>2
  <2>9. \A k \in Node : Resting(st'[k], Node)
    BY <1>3, <2>2, <2>5
  <2> QED
    BY <2>3, <2>8, <2>9
<1>5. ASSUME NEW i \in Node, IterateRaises(i)
      PROVE  FALSE
  <2>1. PICK t \in BeforeTests(st[i]) : Raises(t)
    BY <1>5 DEF IterateRaises
  <2>2. i \in FdPart(st[i]) /\ Conf(i) = Node
    BY <1>5, RestHasConfig DEF IterateRaises
  <2>3. t \in LocalState /\ t.id = i
    BY <1>2, <2>1, BeforeTestsType
  <2>4. t.config[i] = Node
    BY <1>2, <2>1, <2>2, BeforeTestsKeeps DEF Conf
  <2> QED
    BY <2>1, <2>3, <2>4, RaisesNextToReal, NodeNotEmpty DEF Real
<1>6. ASSUME NEW i \in Node, RequestParticipate(i)
      PROVE  FALSE
  BY <1>6, RestHasConfig DEF RequestParticipate
<1>7. ASSUME NEW i \in Node, Crash(i)
      PROVE  Kept
  <2>1. /\ st' = [st EXCEPT ![i] = FreshState(i)] /\ estabs' = estabs
        /\ \A j, k \in Node : chan'[j][k] = IF k = i THEN <<>> ELSE chan[j][k]
    BY <1>2, <1>7 DEF Crash
  <2>2. \A k \in Node : Resting(st'[k], Node)
    BY <1>3, <2>1, FreshResting
  <2> QED
    BY <1>2, <2>1, <2>2
<1>8. ASSUME NEW i \in Node, NEW S \in Proposals, RequestEstab(i, S)
      PROVE  FALSE
  BY <1>2, <1>8, BoundsAssumption DEF RequestEstab
<1>9. ASSUME NEW i \in Node, NEW j \in Node, Receive(i, j)
      PROVE  Kept
  <2> DEFINE m == Head(chan[j][i])
             s == ReceiveMsg(st[i], j, m)
  <2>1. /\ m \in Message /\ m = chan[j][i][1] /\ 1 \in 1..Len(chan[j][i])
        /\ \A k, l \in Node : \A n \in 1..Len(chan'[k][l]) :
             \E p \in 1..Len(chan[k][l]) : chan'[k][l][n] = chan[k][l][p]
    BY <1>2, <1>9, ReceiptEffect
  <2>2. st' = [st EXCEPT ![i] = s] /\ estabs' = estabs
    BY <1>9 DEF Receive
  <2>3. Says(m, Node)
    BY <1>2, <2>1
  <2>4. Resting(s, Node)
    BY <1>2, <2>1, <2>3, RestingReceipt
  <2> HIDE DEF m, s
  <2>5. \A k \in Node : Resting(st'[k], Node)
    BY <1>3, <2>2, <2>4
  <2>6. \A k, l \in Node : \A n \in 1..Len(chan'[k][l]) :
          Says(chan'[k][l][n], Node)
    BY <1>2, <2>1
  <2> QED
    BY <2>2, <2>5, <2>6
<1>10. ASSUME NEW i \in Node, NEW j \in Node, FDToken(i, j)
       PROVE  Kept
  <2>1. PICK s \in LocalState :
           /\ st' = [st EXCEPT ![i] = s]
           /\ s.config = st[i].config /\ s.prp = st[i].prp
    BY <1>2, <1>10, TokenOutcome
  <2>2. Resting(s, Node)
    BY <1>2, <2>1 DEF Resting
  <2>3. chan' = chan /\ estabs' = estabs
    BY <1>10 DEF FDToken
  <2>4. \A k \in Node : Resting(st'[k], Node)
    BY <1>3, <2>1, <2>2
  <2> QED
    BY <1>2, <2>3, <2>4
<1>11. ASSUME UNCHANGED vars
       PROVE  Kept
  BY <1>2, <1>11 DEF vars
<1> HIDE DEF Kept
<1>12. Kept
  BY <1>4, <1>5, <1>6, <1>7, <1>8, <1>9, <1>10, <1>11 DEF Next
<1> QED
  BY <1>1, <1>2, <1>12 DEF Kept, RestInv

LEMMA InitRestInv ==
  ASSUME MaxEstab = 0, InitSteady
  PROVE  RestInv
<1>1. Members(Node) /\ estabs = MaxEstab
  BY InitSteadyMembers DEF InitSteady, AllRunning
<1>2. \A i \in Node : Resting(st[i], Node)
  BY SteadyValid DEF InitSteady, Resting
<1>3. \A j, k \in Node : chan[j][k] = <<>>
  BY DEF InitSteady, AllRunning
<1> QED
  BY <1>1, <1>2, <1>3 DEF RestInv

(***************************************************************************)
(* A system at rest in which nobody proposes keeps its configuration,      *)
(* whichever processors are suspected or killed, in any number and order,  *)
(* and whatever is under way: neither a staleness test nor a conflict      *)
(* starts a reset.                                                         *)
(***************************************************************************)
THEOREM RestLasts ==
  MaxEstab = 0 => (SpecSteady => RestIsKept)
<1> SUFFICES ASSUME MaxEstab = 0
             PROVE  SpecSteady => RestIsKept
  OBVIOUS
<1>1. InitSteady => RestInv
  BY InitRestInv
<1>2. RestInv /\ [Next]_vars => RestInv'
  BY NextRestInv
<1>3. RestInv => \A i \in up : Conf(i) = Node
  BY RestHasConfig
<1>4. /\ \A i \in up : Conf(i) = Node
      /\ (\A i \in up : Conf(i) = Node)'
      => [AtRest /\ up = Node =>
            \A i \in up \intersect up' : Conf(i)' = Conf(i)]_vars
  OBVIOUS
<1> QED
  BY <1>1, <1>2, <1>3, <1>4, PTL DEF SpecSteady, RestIsKept
-----------------------------------------------------------------------------
(***************************************************************************)
(* A boot.  The first configuration is the set of all, and who has it has  *)
(* heard from everybody: a message from before makes test 2 fire once      *)
(* more, but the same pass installs the same configuration again.          *)
(***************************************************************************)
Booted(s) == s.trusted = Node /\ \A k \in Node : s.fd[k] = Node

Booting(s) ==
  /\ s.trusted \in {{}, Node}
  /\ s.trusted = {} => s.config[s.id] = NotParticipant
  /\ \A k \in Node : /\ s.prp[k] = DfltNtf
                     /\ s.config[k] \in {NotParticipant, Bottom, Node}
                     /\ k # s.id /\ s.fd[k] # {} => k \in s.fdPart[k]
  /\ s.config[s.id] = Node => Booted(s)

(* What k says in a boot. *)
BootSays(k, m) == /\ m.fd = Node /\ k \in m.fdPart /\ m.prp = DfltNtf
                  /\ m.config \in {Bottom, Node}

(* No lines of a pass without a proposal touch what the others are heard of. *)
LEMMA PassFdPart ==
  ASSUME NEW s \in LocalState, NEW t \in BeforeTests(s)
  PROVE  t.fdPart = s.fdPart
<1> DEFINE a == Line22(s)
           b == Line23(a)
           c == Line25(b)
<1>1. a \in LocalState /\ b \in LocalState /\ c \in LocalState /\ t = Line26(c)
  BY Line22Type, Line23Type, Line25Type DEF BeforeTests
<1>2. a.fdPart = s.fdPart
  BY DEF Line22, Forget, LocalState
<1> HIDE DEF a
<1>3. b.fdPart = a.fdPart
  BY <1>1 DEF Line23, LocalState
<1> HIDE DEF b
<1>4. c.fdPart = b.fdPart
  BY <1>1 DEF Line25, LocalState
<1> HIDE DEF c
<1>5. t.fdPart = c.fdPart
  BY <1>1 DEF Line26, LocalState
<1> QED
  BY <1>2, <1>3, <1>4, <1>5

(* The tests leave a booting record as it is or forget all configurations. *)
LEMMA BootTests ==
  ASSUME NEW t \in LocalState, Booting(t), NEW v, v = Line24(t),
         t.trusted = {} => \A k \in Node : t.config[k] = NotParticipant
  PROVE  /\ v \in LocalState /\ v.id = t.id
         /\ v.trusted = t.trusted /\ v.fd = t.fd /\ v.fdPart = t.fdPart
         /\ \A k \in Node : v.prp[k] = DfltNtf
         /\ \/ v = t
            \/ t.trusted = Node /\ \A k \in Node : v.config[k] = Bottom
<1>1. CASE v = t
  BY <1>1 DEF Booting
<1>2. CASE v # t
  <2>1. v = ConfigSet(t, Bottom)
    BY <1>2 DEF Line24
  <2>2. /\ v \in LocalState /\ v.id = t.id
        /\ v.trusted = t.trusted /\ v.fd = t.fd /\ v.fdPart = t.fdPart
        /\ \A k \in Node : v.prp[k] = DfltNtf /\ v.config[k] = Bottom
    <3>1. Bottom \in Config
      BY DEF Config
    <3>2. v \in LocalState /\ v.id = t.id
      BY <2>1, <3>1, ConfigSetType
    <3>3. /\ v.config = [k \in Node |-> Bottom]
          /\ v.prp = [k \in Node |-> DfltNtf]
          /\ v.trusted = t.trusted /\ v.fd = t.fd /\ v.fdPart = t.fdPart
      BY <2>1 DEF ConfigSet, LocalState
    <3> QED
      BY <3>2, <3>3
  <2>3. t.trusted # {}
    <3> SUFFICES ASSUME t.trusted = {}
                 PROVE  Line24(t) = t
      BY <1>2
    <3>1. FdPart(t) = {}
      BY DEF FdPart
    <3>2. ~ StaleInfoType1(t)
      BY DEF StaleInfoType1, Booting, DfltNtf
    <3>3. ~ StaleInfoType2(t)
      BY SpecialAssumption DEF StaleInfoType2
    <3> QED
      BY <3>1, <3>2, <3>3 DEF Line24, StaleBeforeType4, StaleInfoType3,
                              StaleInfoType4, NoParticipantsAndStableMonitors
  <2> QED
    BY <2>2, <2>3 DEF Booting
<1> QED
  BY <1>1, <1>2

LEMMA BootPass ==
  ASSUME NEW s \in LocalState, Booting(s),
         NEW t \in BeforeTests(s), NEW u \in AfterTests(t)
  PROVE  /\ u \in LocalState /\ u.id = s.id /\ Booting(u)
         /\ u.trusted = s.trusted
         /\ s.config[s.id] = Node => u.config[s.id] = Node
<1> DEFINE i == s.id
           v == Line24(t)
<1>1. /\ t \in LocalState /\ t.id = i /\ i \in Node
      /\ t.trusted = s.trusted /\ t.fd = s.fd /\ t.fdPart = s.fdPart
      /\ \A k \in Node : t.prp[k] = DfltNtf
      /\ \A k \in Node : t.config[k] = IF k \in FdPart(s) THEN s.config[k]
                                                          ELSE NotParticipant
  BY BeforeTestsType, BeforeTestsKeeps, PassFdPart, IdleBeforeTests
     DEF Booting, LocalState
<1>2. t.config[i] = s.config[i]
  BY <1>1 DEF FdPart, Booting
<1>3. t.trusted = {} => \A k \in Node : t.config[k] = NotParticipant
  BY <1>1 DEF FdPart
<1>4. Booting(t)
  BY <1>1, <1>2 DEF Booting, Booted
<1>5. /\ v \in LocalState /\ v.id = i
      /\ v.trusted = t.trusted /\ v.fd = t.fd /\ v.fdPart = t.fdPart
      /\ \A k \in Node : v.prp[k] = DfltNtf
      /\ \/ v = t
         \/ t.trusted = Node /\ \A k \in Node : v.config[k] = Bottom
  BY <1>1, <1>3, <1>4, BootTests
<1>6. u = Lines27to32(v)
  BY DEF AfterTests
<1> HIDE DEF v
<1>7. u = BruteForce(v)
  <2>1. NoNtfArrived(v)
    BY <1>5 DEF NoNtfArrived, FdPart, DfltNtf, LocalState
  <2> QED
    BY <1>6, <2>1 DEF Lines27to32
<1>8. \A k \in Node : v.config[k] \in {NotParticipant, Bottom, Node}
  BY <1>4, <1>5 DEF Booting
<1>9. ~ ConfigConflict(v)
  BY <1>5, <1>8 DEF ConfigConflict, RealConfigs, LocalState
<1>10. v.config[i] = Bottom => v.trusted = Node
  BY <1>1, <1>4, <1>5, SpecialAssumption DEF Booting
<1>11. CASE v.config[i] = Bottom /\ FdsStabilized(v)
  <2>1. u = ConfigSet(v, Node)
    BY <1>5, <1>7, <1>9, <1>10, <1>11 DEF BruteForce, ResetConflict
  <2>2. /\ u.config = [k \in Node |-> Node]
        /\ u.prp = [k \in Node |-> DfltNtf]
        /\ u.trusted = v.trusted /\ u.fd = v.fd /\ u.fdPart = v.fdPart
    BY <1>5, <2>1 DEF ConfigSet, LocalState
  <2>3. u \in LocalState /\ u.id = i
    <3>1. Node \in Config
      BY DEF Config
    <3> QED
      BY <1>5, <2>1, <3>1, ConfigSetType
  <2>4. Booted(u)
    BY <1>10, <1>11, <2>2 DEF Booted, FdsStabilized
  <2> QED
    BY <1>1, <1>4, <1>5, <2>2, <2>3, <2>4, NodeNotEmpty DEF Booting, Booted
<1>12. CASE ~ (v.config[i] = Bottom /\ FdsStabilized(v))
  <2>1. u = v
    BY <1>5, <1>7, <1>9, <1>12 DEF BruteForce, ResetConflict
  <2>2. CASE v = t
    BY <1>1, <1>2, <1>4, <2>1, <2>2
  <2>3. CASE t.trusted = Node /\ \A k \in Node : v.config[k] = Bottom
    <3>1. Bottom # Node /\ Node # {}
      BY NodeNotEmpty DEF Real
    <3>2. Booting(u)
      BY <1>1, <1>4, <1>5, <2>1, <2>3, <3>1 DEF Booting
    <3>3. s.config[i] # Node
      <4> SUFFICES ASSUME s.config[i] = Node
                   PROVE  FdsStabilized(v) /\ v.config[i] = Bottom
        BY <1>12
      <4>1. Booted(s)
        BY DEF Booting
      <4> QED
        BY <1>1, <1>5, <2>3, <4>1 DEF Booted, FdsStabilized
    <3> QED
      BY <1>1, <1>5, <2>1, <3>2, <3>3
  <2> QED
    BY <1>5, <2>2, <2>3
<1> QED
  BY <1>11, <1>12

(***************************************************************************)
(* In a boot nobody is let in by allow_reco(): it needs a message of every *)
(* other processor, and a configuration where nobody is without one.       *)
(***************************************************************************)
LEMMA BootNotLetIn ==
  ASSUME NEW s \in LocalState, Booting(s),
         s.config[s.id] = NotParticipant,
         \A k \in Node : s.config[k] # Node
  PROVE  ~ AllowReco(s)
<1> SUFFICES ASSUME AllowReco(s)
             PROVE  FALSE
  OBVIOUS
<1>1. PICK j \in s.trusted \ {s.id} : s.id \in s.fd[j]
  BY DEF AllowReco
<1>2. j \in Node /\ j # s.id /\ s.trusted = Node
  BY <1>1 DEF Booting
<1>3. j \in s.fdPart[j]
  BY <1>1, <1>2 DEF Booting
<1>4. s.fdPart[j] \union s.echoPart[j] = FdPart(s)
  BY <1>1 DEF AllowReco
<1>5. j \in FdPart(s)
  BY <1>3, <1>4
<1>6. s.config[j] # NotParticipant /\ s.config[j] # Bottom
  BY <1>1, <1>5 DEF FdPart, AllowReco
<1> QED
  BY <1>2, <1>6 DEF Booting

LEMMA BootReceipt ==
  ASSUME NEW s \in LocalState, Booting(s), NEW j \in Node, j # s.id,
         NEW m \in Message, BootSays(j, m), NEW u, u = ReceiveMsg(s, j, m)
  PROVE  u \in LocalState /\ u.id = s.id /\ Booting(u)
         /\ u.config[s.id] = s.config[s.id]
<1>1. u \in LocalState /\ u.id = s.id /\ s.id \in Node
  BY ReceiveMsgType DEF LocalState
<1>2. /\ u.trusted = s.trusted
      /\ u.fd = [s.fd EXCEPT ![s.id] = s.trusted, ![j] = m.fd]
      /\ u.fdPart = [s.fdPart EXCEPT ![j] = m.fdPart]
      /\ u.config = [s.config EXCEPT ![j] = m.config]
      /\ u.prp = [s.prp EXCEPT ![j] = m.prp]
  BY DEF ReceiveMsg, LocalState
<1>3. /\ \A k \in Node : u.fd[k] = IF k = j THEN m.fd
                                   ELSE IF k = s.id THEN s.trusted ELSE s.fd[k]
      /\ \A k \in Node : u.fdPart[k] = IF k = j THEN m.fdPart ELSE s.fdPart[k]
      /\ \A k \in Node : u.config[k] = IF k = j THEN m.config ELSE s.config[k]
      /\ \A k \in Node : u.prp[k] = IF k = j THEN m.prp ELSE s.prp[k]
  BY <1>1, <1>2 DEF LocalState
<1>4. \A k \in Node : /\ u.prp[k] = DfltNtf
                      /\ u.config[k] \in {NotParticipant, Bottom, Node}
                      /\ k # u.id /\ u.fd[k] # {} => k \in u.fdPart[k]
  BY <1>1, <1>3 DEF Booting, BootSays
<1>5. u.config[s.id] = s.config[s.id]
  BY <1>1, <1>3
<1>6. u.config[s.id] = Node => Booted(u)
  BY <1>1, <1>2, <1>3, <1>5 DEF Booting, Booted, BootSays
<1> QED
  BY <1>1, <1>2, <1>4, <1>5, <1>6 DEF Booting

LEMMA BootSaid ==
  ASSUME NEW s \in LocalState, Booting(s), s.config[s.id] # NotParticipant,
         NEW k \in Node
  PROVE  BootSays(s.id, StateMsg(s, k))
<1>1. s.id \in Node /\ s.trusted = Node
  BY DEF Booting, LocalState
<1> QED
  BY <1>1 DEF BootSays, StateMsg, Booting, FdPart

(* Everybody runs and boots, and nobody may propose. *)
BootInv ==
  /\ LoopInv /\ up = Node /\ estabs = MaxEstab
  /\ \A i \in Node : Booting(st[i])
  /\ \A j, k \in Node : \A n \in 1..Len(chan[j][k]) :
       BootSays(j, chan[j][k][n])

(* Who has the configuration of all keeps it. *)
Keeps(i) == Conf(i) = Node => Conf(i)' = Node

LEMMA NextBootInv ==
  ASSUME Mortal = {}, BootInv, [Next]_vars
  PROVE  BootInv' /\ \A i \in Node : Keeps(i)
<1>1. LoopInv'
  BY NextLoopInv DEF BootInv
<1>2. /\ TypeOK /\ estabs = MaxEstab /\ up = Node
      /\ \A i \in Node : /\ st[i] \in LocalState /\ st[i].id = i
                         /\ Booting(st[i])
      /\ chan \in [Node -> [Node -> Seq(Message)]]
      /\ \A j, k \in Node : \A n \in 1..Len(chan[j][k]) :
           BootSays(j, chan[j][k][n])
      /\ \A k \in Node : chan[k][k] = <<>>
  BY DEF BootInv, LoopInv, TypeOK, NothingToOneself
<1> DEFINE Rest == /\ estabs' = estabs /\ up' = up
                   /\ \A j, k \in Node : \A n \in 1..Len(chan'[j][k]) :
                        BootSays(j, chan'[j][k][n])
           Boots == \A i \in Node : Booting(st'[i]) /\ Keeps(i)
<1>3. ASSUME NEW i \in Node, NEW s, Booting(s), st' = [st EXCEPT ![i] = s],
             Conf(i) = Node => s.config[i] = Node
      PROVE  Boots
  BY <1>2, <1>3 DEF TypeOK, Keeps, Conf
<1>4. ASSUME NEW i \in Node, Iterate(i)
      PROVE  Rest /\ Boots
  <2>1. PICK t \in BeforeTests(st[i]) :
          \E s \in AfterTests(t) : st' = [st EXCEPT ![i] = s] /\ Send(s)
    BY <1>4 DEF Iterate
  <2>2. PICK s \in AfterTests(t) : st' = [st EXCEPT ![i] = s] /\ Send(s)
    BY <2>1
  <2>3. estabs' = estabs /\ up' = up
    BY <1>4 DEF Iterate
  <2>4. /\ s \in LocalState /\ s.id = i /\ Booting(s)
        /\ Conf(i) = Node => s.config[i] = Node
    <3>1. st[i] \in LocalState /\ st[i].id = i /\ Booting(st[i])
      BY <1>2
    <3>2. /\ s \in LocalState /\ s.id = i /\ Booting(s)
          /\ st[i].config[i] = Node => s.config[i] = Node
      BY <2>1, <2>2, <3>1, BootPass
    <3> QED
      BY <3>2 DEF Conf
  <2>5. Boots
    BY <1>3, <2>2, <2>4
  <2>6. ASSUME NEW j \in Node, NEW k \in Node, NEW n \in 1..Len(chan'[j][k])
        PROVE  BootSays(j, chan'[j][k][n])
    <3>1. CASE s.config[i] = NotParticipant
      <4>1. Targets(s) = {}
        BY <2>4, <3>1 DEF Targets
      <4>2. chan' = [chan EXCEPT ![i] = [l \in Node |-> chan[i][l]]]
        BY <2>2, <2>4, <4>1 DEF Send
      <4>3. chan'[j][k] = chan[j][k]
        BY <1>2, <4>2
      <4> QED
        BY <1>2, <4>3
    <3>2. CASE s.config[i] # NotParticipant
      <4>1. \A a, b \in Node : \A c \in 1..Len(chan'[a][b]) :
              \/ \E m \in 1..Len(chan[a][b]) : chan'[a][b][c] = chan[a][b][m]
              \/ a = s.id /\ chan'[a][b][c] = StateMsg(s, b)
        BY <1>2, <2>2, <2>4, SentTo
      <4>2. BootSays(i, StateMsg(s, k))
        BY <2>4, <3>2, BootSaid
      <4>3. \/ \E m \in 1..Len(chan[j][k]) : chan'[j][k][n] = chan[j][k][m]
            \/ j = i /\ chan'[j][k][n] = StateMsg(s, k)
        BY <2>4, <4>1
      <4>4. CASE \E m \in 1..Len(chan[j][k]) : chan'[j][k][n] = chan[j][k][m]
        BY <1>2, <4>4
      <4> QED
        BY <4>2, <4>3, <4>4
    <3> QED
      BY <3>1, <3>2
  <2> QED
    BY <2>3, <2>5, <2>6
<1>5. ASSUME NEW i \in Node, IterateRaises(i)
      PROVE  FALSE
  BY <1>5, NobodyRaises DEF IterateRaises, BootInv
<1>6. ASSUME NEW i \in Node, RequestParticipate(i)
      PROVE  Rest /\ Boots
  <2>1. ~ AllowReco(st[i])
    <3>1. CASE st[i].trusted = {}
      BY <3>1 DEF AllowReco
    <3>2. CASE st[i].trusted = Node
      <4>1. st[i].config[i] = NotParticipant
        BY <1>6, <3>2 DEF RequestParticipate, FdPart
      <4>2. \A k \in Node : ~ Real(st[i].config[k])
        <5>1. ~ Joined(i)
          BY <1>2, <4>1 DEF Joined, Conf
        <5> QED
          BY <1>2, <5>1 DEF BootInv, LoopInv, Spread, AllJoined
      <4> QED
        BY <1>2, <4>1, <4>2, BootNotLetIn, NodeNotEmpty
    <3> QED
      BY <1>2, <3>1, <3>2 DEF Booting
  <2>2. st' = [st EXCEPT ![i] = st[i]]
    BY <1>6, <2>1 DEF RequestParticipate, Participate
  <2>3. Boots
    BY <1>2, <1>3, <2>2 DEF Conf
  <2> QED
    BY <1>2, <1>6, <2>3 DEF RequestParticipate
<1>7. ASSUME NEW i \in Node, Crash(i)
      PROVE  FALSE
  BY <1>7 DEF Crash
<1>8. ASSUME NEW i \in Node, NEW S \in Proposals, RequestEstab(i, S)
      PROVE  FALSE
  BY <1>2, <1>8, BoundsAssumption DEF RequestEstab
<1>9. ASSUME NEW i \in Node, NEW j \in Node, Receive(i, j)
      PROVE  Rest /\ Boots
  <2> DEFINE m == Head(chan[j][i])
             s == ReceiveMsg(st[i], j, m)
  <2>1. /\ m \in Message /\ m = chan[j][i][1] /\ 1 \in 1..Len(chan[j][i])
        /\ chan[j][i] # <<>>
        /\ \A k, l \in Node : \A n \in 1..Len(chan'[k][l]) :
             \E p \in 1..Len(chan[k][l]) : chan'[k][l][n] = chan[k][l][p]
    BY <1>2, <1>9, ReceiptEffect
  <2>2. st' = [st EXCEPT ![i] = s] /\ estabs' = estabs /\ up' = up
    BY <1>9 DEF Receive
  <2>3. BootSays(j, m) /\ j # i
    BY <1>2, <2>1
  <2> HIDE DEF m
  <2>4. Booting(s) /\ s.config[i] = Conf(i)
    <3>1. st[i] \in LocalState /\ st[i].id = i /\ Booting(st[i])
      BY <1>2
    <3>2. m \in Message
      BY <2>1
    <3>3. Booting(s) /\ s.config[i] = st[i].config[i]
      BY <2>3, <3>1, <3>2, BootReceipt
    <3> QED
      BY <3>3 DEF Conf
  <2> HIDE DEF s
  <2>5. Boots
    BY <1>3, <2>2, <2>4
  <2>6. \A k, l \in Node : \A n \in 1..Len(chan'[k][l]) :
          BootSays(k, chan'[k][l][n])
    BY <1>2, <2>1
  <2> QED
    BY <2>2, <2>5, <2>6
<1>10. ASSUME NEW i \in Node, NEW j \in Node, FDToken(i, j)
       PROVE  Rest /\ Boots
  <2>1. PICK s \in LocalState :
           /\ st' = [st EXCEPT ![i] = s] /\ s.id = i
           /\ s.fd = st[i].fd /\ s.config = st[i].config
           /\ s.prp = st[i].prp /\ s.fdPart = st[i].fdPart
           /\ st[i].trusted = {} \/ up \subseteq st[i].trusted
                => up \subseteq s.trusted
    <3>1. suspects = MaxSuspect
      BY DEF BootInv, LoopInv, Healthy
    <3> QED
      BY <1>2, <1>10, <3>1, TokenOutcome
  <2>2. s.trusted = Node
    <3>1. st[i].trusted = {} \/ st[i].trusted = Node
      BY <1>2 DEF Booting
    <3>2. up = Node /\ s.trusted \subseteq Node
      BY <1>2, <2>1 DEF LocalState
    <3> QED
      BY <2>1, <3>1, <3>2
  <2>3. Booting(s)
    <3>1. Booting(st[i]) /\ st[i].id = i
      BY <1>2
    <3>2. s.config[i] = Node => Booted(s)
      BY <2>1, <2>2, <3>1 DEF Booting, Booted
    <3>3. s.trusted # {}
      BY <2>2, NodeNotEmpty
    <3> QED
      BY <2>1, <2>2, <3>1, <3>2, <3>3 DEF Booting
  <2>4. Boots
    BY <1>3, <2>1, <2>3 DEF Conf
  <2> QED
    BY <1>2, <1>10, <2>4 DEF FDToken
<1>11. ASSUME UNCHANGED vars
       PROVE  Rest /\ Boots
  BY <1>2, <1>11 DEF vars, Keeps, Conf
<1> HIDE DEF Rest, Boots
<1>12. Rest /\ Boots
  BY <1>4, <1>5, <1>6, <1>7, <1>8, <1>9, <1>10, <1>11 DEF Next
<1> QED
  BY <1>1, <1>2, <1>12 DEF Rest, Boots, BootInv

LEMMA InitBootInv ==
  ASSUME MaxSuspect = 0, InitBoot
  PROVE  BootInv
<1>1. LoopInv /\ up = Node /\ estabs = MaxEstab
  BY InitBootLoopInv DEF InitBoot, AllRunning
<1>2. \A i \in Node : Booting(st[i])
  <2> SUFFICES ASSUME NEW i \in Node
               PROVE  Booting(FreshState(i))
    BY DEF InitBoot
  <2>1. NotParticipant # Node
    BY NodeNotEmpty DEF Real
  <2> QED
    BY <2>1 DEF Booting, FreshState
<1>3. \A j, k \in Node : \A n \in 1..Len(chan[j][k]) :
        BootSays(j, chan[j][k][n])
  BY DEF InitBoot, AllRunning
<1> QED
  BY <1>1, <1>2, <1>3 DEF BootInv

(* In a boot there are no proposals, and one configuration. *)
LEMMA BootIsIdle ==
  ASSUME BootInv, NEW i \in Node
  PROVE  /\ Phase(i) = 0 /\ Given(i) = Node
         /\ Installed(i) => Conf(i) = Node
<1>1. Booting(st[i]) /\ st[i].id = i
  BY DEF BootInv, LoopInv, TypeOK
<1> QED
  BY <1>1 DEF Booting, Phase, Given, Installed, Conf, DfltNtf

(***************************************************************************)
(* A boot in which nobody is suspected or killed ends for a processor with *)
(* its first configuration: it never resets or replaces it again, for      *)
(* every number of processors and any messages under way.                  *)
(***************************************************************************)
THEOREM BootNeverResets ==
  MaxSuspect = 0 /\ Mortal = {} =>
    (InitBoot /\ [][Next]_vars => OnlyProposalsChangeConfig)
<1> SUFFICES ASSUME MaxSuspect = 0, Mortal = {}
             PROVE  InitBoot /\ [][Next]_vars => OnlyProposalsChangeConfig
  OBVIOUS
<1>1. InitBoot => BootInv
  BY InitBootInv
<1>2. BootInv /\ [Next]_vars => BootInv' /\ \A i \in Node : Keeps(i)
  BY NextBootInv
<1> DEFINE Only == \A i \in up :
        (/\ Installed(i)
         /\ Conf(i)' # Conf(i) \/ (Phase(i) # 0 /\ Phase(i)' = 0))
        => st[i].prp[i] = [ph |-> 2, set |-> Conf(i)']
<1>3. BootInv /\ (\A i \in Node : Keeps(i)) => [Only]_vars
  <2> SUFFICES ASSUME BootInv, \A i \in Node : Keeps(i), NEW i \in up,
                      Installed(i)
               PROVE  Conf(i)' = Conf(i) /\ Phase(i) = 0
    OBVIOUS
  <2>1. i \in Node
    BY DEF BootInv
  <2> QED
    BY <2>1, BootIsIdle DEF Keeps
<1> QED
  BY <1>1, <1>2, <1>3, PTL DEF OnlyProposalsChangeConfig

(***************************************************************************)
(* To the abstract specification nothing happens in a boot: everybody      *)
(* counts as having the configuration of all from the start.               *)
(***************************************************************************)
THEOREM BootReplaces ==
  MaxSuspect = 0 /\ Mortal = {} =>
    (InitBoot /\ [][Next]_vars => ReplacesOneAtATime)
<1> SUFFICES ASSUME MaxSuspect = 0, Mortal = {}
             PROVE  InitBoot /\ [][Next]_vars => ReplacesOneAtATime
  OBVIOUS
<1> DEFINE cfg == [i \in Node |-> Given(i)]
<1>1. InitBoot => BootInv
  BY InitBootInv
<1>2. BootInv /\ [Next]_vars => BootInv'
  BY NextBootInv
<1>3. BootInv => cfg = [i \in Node |-> Node] /\ Agreed = Bottom
  BY BootIsIdle DEF Agreed, BootInv
<1>4. BootInv => R!Init
  BY <1>3 DEF R!Init
<1>5. (BootInv => cfg = [i \in Node |-> Node] /\ Agreed = Bottom)'
  BY <1>3, PTL
<1>6. BootInv /\ BootInv' => [R!Next]_<<cfg, Agreed>>
  BY <1>3, <1>5
<1> QED
  BY <1>1, <1>2, <1>4, <1>6, PTL DEF ReplacesOneAtATime, R!Spec
=============================================================================
