----------------------------- MODULE JoiningProofs -----------------------------
(***************************************************************************)
(* Who asks a system at rest.  Everybody is trusted, so every array has an *)
(* entry for everybody; and the members of the configuration know it, so   *)
(* that requests only go to processors that can answer them.               *)
(***************************************************************************)
EXTENDS Joining, RecSAProofs

(* What is left when the first message of a queue has been taken. *)
LEMMA TakenFrom ==
  ASSUME NEW M, chan \in [Node -> [Node -> Seq(M)]],
         NEW i \in Node, NEW j \in Node, chan[j][i] # <<>>
  PROVE  /\ Taken(i, j) \in [Node -> [Node -> Seq(M)]]
         /\ Head(chan[j][i]) \in M
         /\ Head(chan[j][i]) = chan[j][i][1] /\ 1 \in 1..Len(chan[j][i])
         /\ \A k, l \in Node : \A n \in 1..Len(Taken(i, j)[k][l]) :
              \E m \in 1..Len(chan[k][l]) : Taken(i, j)[k][l][n] = chan[k][l][m]
<1>1. chan[j][i] \in Seq(M)
  OBVIOUS
<1>2. /\ Head(chan[j][i]) \in M /\ Tail(chan[j][i]) \in Seq(M)
      /\ Head(chan[j][i]) = chan[j][i][1] /\ 1 \in 1..Len(chan[j][i])
  BY <1>1
<1>3. Taken(i, j) \in [Node -> [Node -> Seq(M)]]
  BY <1>2 DEF Taken
<1>4. \A k, l \in Node : Taken(i, j)[k][l] = IF k = j /\ l = i
                                             THEN Tail(chan[j][i])
                                             ELSE chan[k][l]
  BY DEF Taken
<1>5. \A n \in 1..Len(Tail(chan[j][i])) :
        /\ n + 1 \in 1..Len(chan[j][i])
        /\ Tail(chan[j][i])[n] = chan[j][i][n + 1]
  BY <1>1
<1>6. ASSUME NEW k \in Node, NEW l \in Node,
             NEW n \in 1..Len(Taken(i, j)[k][l])
      PROVE  \E m \in 1..Len(chan[k][l]) : Taken(i, j)[k][l][n] = chan[k][l][m]
  <2>1. CASE k = j /\ l = i
    <3>1. Taken(i, j)[k][l] = Tail(chan[j][i])
      BY <1>4, <2>1
    <3> QED
      BY <1>5, <2>1, <3>1
  <2>2. CASE ~ (k = j /\ l = i)
    <3>1. Taken(i, j)[k][l] = chan[k][l]
      BY <1>4, <2>2
    <3> QED
      BY <3>1
  <2> QED
    BY <2>1, <2>2
<1> QED
  BY <1>2, <1>3, <1>6
-----------------------------------------------------------------------------
Kinds == {Join, Pass} \union Message

(***************************************************************************)
(* Everybody is trusted, as the failure detectors have stabilized, so that *)
(* the arrays have an entry for everybody, whatever was flushed when.      *)
(***************************************************************************)
JoinInv ==
  /\ st \in [Node -> LocalState]
  /\ \A i \in Node : st[i].id = i /\ st[i].trusted = Node
  /\ up = Node /\ joining = Node /\ hearing \subseteq Node
  /\ chan \in [Node -> [Node -> Seq(Kinds)]]
  /\ passs \in [Node -> [Node -> BOOLEAN]]
  /\ curConf \in [Node -> SUBSET Node]
  /\ enough \subseteq {i \in Node : curConf[i] # {}}

(* The configuration of which passes are counted has members. *)
LEMMA ChosenConf ==
  ASSUME NEW s \in LocalState, AllowReco(s), ChsConfig(s) # Bottom
  PROVE  ChsConfig(s) \in SUBSET Node /\ ChsConfig(s) # {}
<1>1. \A j \in FdPart(s) : s.config[j] \in SUBSET Node
  BY DEF AllowReco, FdPart, LocalState, Config
<1> QED
  BY <1>1 DEF ChsConfig

LEMMA PostType ==
  ASSUME chan \in [Node -> [Node -> Seq(Kinds)]], NEW i \in Node, NEW J,
         Post(i, J, Join)
  PROVE  /\ chan' \in [Node -> [Node -> Seq(Kinds)]]
         /\ \A k, l \in Node :
              chan'[k][l] = IF k = i /\ l \in (J \intersect up) \ {i}
                            THEN Append(chan[k][l], Join) ELSE chan[k][l]
<1> DEFINE row == [j \in Node |-> IF j \in (J \intersect up) \ {i}
                                  THEN Append(chan[i][j], Join)
                                  ELSE chan[i][j]]
<1>1. \A j \in Node : Append(chan[i][j], Join) \in Seq(Kinds)
  <2>1. Join \in Kinds
    BY DEF Kinds
  <2> QED
    BY <2>1
<1>2. row \in [Node -> Seq(Kinds)]
  BY <1>1
<1>3. chan' = [chan EXCEPT ![i] = row]
  BY DEF Post
<1> QED
  BY <1>2, <1>3

LEMMA NextJoinInv ==
  ASSUME JoinInv, [JoiningNext]_jvars
  PROVE  JoinInv'
<1>1. /\ st \in [Node -> LocalState]
      /\ \A i \in Node : /\ st[i] \in LocalState /\ st[i].id = i
                         /\ st[i].trusted = Node
      /\ up = Node /\ joining = Node
      /\ chan \in [Node -> [Node -> Seq(Kinds)]]
      /\ Message \subseteq Kinds
  BY DEF JoinInv, Kinds
<1> DEFINE Known == /\ st' \in [Node -> LocalState]
                    /\ \A i \in Node : st'[i].id = i /\ st'[i].trusted = Node
                    /\ up' = Node
                    /\ chan' \in [Node -> [Node -> Seq(Kinds)]]
           Arrays == /\ passs' \in [Node -> [Node -> BOOLEAN]]
                     /\ curConf' \in [Node -> SUBSET Node]
                     /\ enough' \subseteq {i \in Node : curConf'[i] # {}}
                     /\ joining' = Node /\ hearing' \subseteq Node
<1>2. ASSUME UNCHANGED vars
      PROVE  Known
  BY <1>1, <1>2 DEF vars
<1>3. ASSUME UNCHANGED mechanism
      PROVE  Arrays
  BY <1>3 DEF JoinInv, mechanism
<1>4. ASSUME NEW i \in Node, NEW s \in LocalState, s.id = i,
             s.trusted = Node, st' = [st EXCEPT ![i] = s]
      PROVE  /\ st' \in [Node -> LocalState]
             /\ \A k \in Node : st'[k].id = k /\ st'[k].trusted = Node
  BY <1>1, <1>4
<1>5. \A i \in Node : Flushed(i) \in [Node -> BOOLEAN]
  BY <1>1 DEF Flushed
<1>6. ASSUME NEW i \in Node, Flush(i)
      PROVE  Known /\ Arrays
  <2>1. Known
    BY <1>2, <1>6 DEF Flush
  <2>2. Arrays
    BY <1>5, <1>6 DEF Flush, JoinInv
  <2> QED
    BY <2>1, <2>2
<1>7. ASSUME NEW i \in Node, ReadConf(i)
      PROVE  Known /\ Arrays
  <2> DEFINE cur == ChsConfig(st[i])
  <2>1. cur \in SUBSET Node /\ cur # {}
    BY <1>1, <1>7, ChosenConf DEF ReadConf
  <2>2. cur \intersect st[i].trusted \subseteq DOMAIN passs[i]
    BY <2>1 DEF JoinInv
  <2>3. /\ curConf' = [curConf EXCEPT ![i] = cur]
        /\ enough' \subseteq enough \union {i}
        /\ joining' = joining /\ passs' = passs /\ hearing' = hearing
    BY <1>7, <2>2 DEF ReadConf
  <2>4. Arrays
    BY <2>1, <2>3 DEF JoinInv
  <2>5. Known
    BY <1>2, <1>7 DEF ReadConf
  <2> QED
    BY <2>4, <2>5
<1>8. ASSUME NEW i \in Node, ActOnConf(i)
      PROVE  Known /\ Arrays
  <2>1. PICK s \in {AdmittedNow(i)} :
          /\ st' = [st EXCEPT ![i] = s]
          /\ IF AllowReco(s) THEN Post(i, curConf[i], Join) ELSE chan' = chan
    BY <1>8 DEF ActOnConf
  <2>2. s \in LocalState /\ s.id = i /\ s.trusted = Node
    <3>1. s = Participate(st[i]) \/ s = st[i]
      BY <2>1 DEF AdmittedNow
    <3>2. /\ Participate(st[i]) \in LocalState /\ Participate(st[i]).id = i
          /\ Participate(st[i]).trusted = Node
      <4>1. st[i] \in LocalState /\ st[i].id = i /\ st[i].trusted = Node
        BY <1>1
      <4>2. Participate(st[i]) \in LocalState /\ Participate(st[i]).id = i
        BY <4>1, ParticipateType
      <4>3. Participate(st[i]).trusted = Node
        BY <4>1, ParticipateOutcome
      <4> QED
        BY <4>2, <4>3
    <3> QED
      BY <1>1, <3>1, <3>2
  <2>3. chan' \in [Node -> [Node -> Seq(Kinds)]]
    BY <1>1, <2>1, PostType
  <2>4. Known
    BY <1>1, <1>4, <1>8, <2>1, <2>2, <2>3 DEF ActOnConf
  <2>5. /\ passs' = [passs EXCEPT ![i] = IF AllowReco(st[i]) THEN passs[i]
                                                            ELSE Flushed(i)]
        /\ curConf' = [curConf EXCEPT ![i] = {}]
        /\ enough' = enough \ {i} /\ joining' = joining /\ hearing' = hearing
    BY <1>8 DEF ActOnConf
  <2>6. Arrays
    BY <1>5, <2>5 DEF JoinInv
  <2> QED
    BY <2>4, <2>6
<1>9. ASSUME NEW i \in Node, NEW j \in Node, ReceiveJoin(i, j)
      PROVE  Known /\ Arrays
  <2>1. chan[j][i] # <<>>
    BY <1>9 DEF ReceiveJoin, Arrives
  <2>2. Taken(i, j) \in [Node -> [Node -> Seq(Kinds)]]
    BY <1>1, <2>1, TakenFrom
  <2>3. Append(Taken(i, j)[i][j], Pass) \in Seq(Kinds)
    <3>1. Pass \in Kinds /\ Taken(i, j)[i][j] \in Seq(Kinds)
      BY <2>2 DEF Kinds
    <3> QED
      BY <3>1
  <2>4. chan' \in [Node -> [Node -> Seq(Kinds)]]
    BY <1>9, <2>2, <2>3 DEF ReceiveJoin
  <2>5. Known
    BY <1>1, <1>9, <2>4 DEF ReceiveJoin
  <2>6. Arrays
    BY <1>9 DEF ReceiveJoin, JoinInv
  <2> QED
    BY <2>5, <2>6
<1>10. ASSUME NEW i \in Node, NEW j \in Node, ReceivePass(i, j)
       PROVE  Known /\ Arrays
  <2>1. chan[j][i] # <<>>
    BY <1>10 DEF ReceivePass, Arrives
  <2>2. Taken(i, j) \in [Node -> [Node -> Seq(Kinds)]]
    BY <1>1, <2>1, TakenFrom
  <2>3. Known
    BY <1>1, <1>10, <2>2 DEF ReceivePass
  <2>4. Filed(i, j) \in [Node -> BOOLEAN]
    <3>1. passs[i] \in [Node -> BOOLEAN]
      BY DEF JoinInv
    <3>2. DOMAIN passs[i] \union {j} = Node
      BY <3>1
    <3>3. Filed(i, j) = [k \in Node |-> k = j \/ passs[i][k]]
      BY <3>2 DEF Filed
    <3> QED
      BY <3>3
  <2>5. /\ passs' = [passs EXCEPT ![i] = Filed(i, j)]
        /\ UNCHANGED <<curConf, enough, joining, hearing>>
    BY <1>10 DEF ReceivePass
  <2>6. passs' \in [Node -> [Node -> BOOLEAN]]
    BY <2>4, <2>5 DEF JoinInv
  <2> QED
    BY <2>3, <2>5, <2>6 DEF JoinInv
<1>11. ASSUME NEW i \in Node, NEW j \in Node, ReceiveState(i, j)
       PROVE  Known /\ Arrays
  <2>1. /\ chan[j][i] # <<>> /\ Head(chan[j][i]) \notin {Join, Pass}
        /\ Receive(i, j) /\ UNCHANGED mechanism
    BY <1>11 DEF ReceiveState
  <2>2. /\ Taken(i, j) \in [Node -> [Node -> Seq(Kinds)]]
        /\ Head(chan[j][i]) \in Message
    <3>1. /\ Taken(i, j) \in [Node -> [Node -> Seq(Kinds)]]
          /\ Head(chan[j][i]) \in Kinds
      BY <1>1, <2>1, TakenFrom
    <3> QED
      BY <2>1, <3>1 DEF Kinds
  <2> DEFINE m == Head(chan[j][i])
             s == ReceiveMsg(st[i], j, m)
  <2>3. st' = [st EXCEPT ![i] = s] /\ chan' = Taken(i, j) /\ up' = up
    BY <2>1 DEF Receive, Taken
  <2>4. m \in Message /\ st[i] \in LocalState /\ st[i].id = i
    BY <1>1, <2>2
  <2> HIDE DEF m
  <2>5. s \in LocalState /\ s.id = i /\ s.trusted = Node
    <3>1. s \in LocalState /\ s.id = i
      BY <2>4, ReceiveMsgType
    <3>2. s.trusted = st[i].trusted
      BY <2>4 DEF ReceiveMsg, LocalState
    <3> QED
      BY <1>1, <3>1, <3>2
  <2> HIDE DEF s
  <2>6. Known
    BY <1>1, <1>4, <2>2, <2>3, <2>5
  <2> QED
    BY <1>3, <2>1, <2>6
<1>12. ASSUME NEW i \in Node, RecSAPass(i)
       PROVE  Known /\ Arrays
  <2>1. Arrays
    BY <1>3, <1>12 DEF RecSAPass
  <2>2. CASE Iterate(i)
    <3>1. PICK t \in BeforeTests(st[i]) :
            \E s \in AfterTests(t) : st' = [st EXCEPT ![i] = s] /\ Send(s)
      BY <2>2 DEF Iterate
    <3>2. PICK s \in AfterTests(t) : st' = [st EXCEPT ![i] = s] /\ Send(s)
      BY <3>1
    <3>3. /\ t \in LocalState /\ t.id = i /\ t.trusted = Node
          /\ s \in LocalState /\ s.id = i
      <4>1. t \in LocalState /\ t.id = i
        BY <1>1, <3>1, BeforeTestsType
      <4>2. t.trusted = st[i].trusted
        BY <1>1, <3>1, BeforeTestsKeeps
      <4>3. s \in LocalState /\ s.id = i
        BY <3>2, <4>1, AfterTestsType
      <4> QED
        BY <1>1, <4>1, <4>2, <4>3
    <3>4. s.trusted = Node
      BY <3>2, <3>3, PassTrusts
    <3>5. chan' \in [Node -> [Node -> Seq(Kinds)]]
      BY <1>1, <3>2, <3>3, SentTo
    <3>6. up' = up
      BY <2>2 DEF Iterate
    <3>7. Known
      BY <1>1, <1>4, <3>2, <3>3, <3>4, <3>5, <3>6
    <3> QED
      BY <2>1, <3>7
  <2>3. CASE IterateRaises(i)
    <3>1. PICK t \in BeforeTests(st[i]) : st' = [st EXCEPT ![i] = t]
      BY <2>3 DEF IterateRaises
    <3>2. t \in LocalState /\ t.id = i /\ t.trusted = Node
      BY <1>1, <3>1, BeforeTestsType, BeforeTestsKeeps
    <3>3. up' = up /\ chan' = chan
      BY <2>3 DEF IterateRaises
    <3>4. Known
      BY <1>1, <1>4, <3>1, <3>2, <3>3
    <3> QED
      BY <2>1, <3>4
  <2> QED
    BY <1>12, <2>2, <2>3 DEF RecSAPass
<1>13. ASSUME NEW i \in Node, RecMAProposes(i)
       PROVE  Known /\ Arrays
  <2> DEFINE S == FdPart(st[i])
             s == Estab(st[i], S)
  <2>1. S \in SUBSET Node
    BY <1>1 DEF FdPart
  <2>2. s \in LocalState /\ s.id = i /\ s.trusted = Node
    <3>1. st[i] \in LocalState /\ st[i].id = i /\ st[i].trusted = Node
      BY <1>1
    <3>2. s \in LocalState /\ s.id = i
      BY <2>1, <3>1, EstabType
    <3>3. s.trusted = Node
      BY <3>1, EstabOutcome
    <3> QED
      BY <3>2, <3>3
  <2>3. st' = [st EXCEPT ![i] = s] /\ up' = up /\ chan' = chan
    BY <1>13 DEF RecMAProposes, RequestEstab
  <2> HIDE DEF s, S
  <2>4. Known
    BY <1>1, <1>4, <2>2, <2>3
  <2> QED
    BY <1>3, <1>13, <2>4 DEF RecMAProposes
<1>14. ASSUME UNCHANGED jvars
       PROVE  Known /\ Arrays
  BY <1>2, <1>3, <1>14 DEF jvars
<1> HIDE DEF Known, Arrays
<1>15. Known /\ Arrays
  BY <1>6, <1>7, <1>8, <1>9, <1>10, <1>11, <1>12, <1>13, <1>14
     DEF JoiningNext, JoinPass, Deliver
<1> QED
  BY <1>15 DEF Known, Arrays, JoinInv

LEMMA WithoutOthersType ==
  ASSUME NEW i \in Node, NEW P \in SUBSET Node, NEW C \in SUBSET Node
  PROVE  LET s == WithoutOthers(i, P, C)
         IN  /\ s \in LocalState /\ s.id = i /\ s.trusted = Node
             /\ \A k \in Node :
                  /\ s.prp[k] = DfltNtf
                  /\ s.config[k] = IF k \in P THEN C ELSE NotParticipant
<1> DEFINE f == Steady(i, P, C)
           s == WithoutOthers(i, P, C)
<1>1. /\ f \in LocalState /\ f.id = i
      /\ \A k \in Node :
           /\ f.prp[k] = DfltNtf
           /\ f.config[k] = IF k \in P THEN C ELSE NotParticipant
  <2>1. f \in LocalState /\ f.id = i
    BY SteadyType
  <2> QED
    BY <2>1 DEF Steady, FreshState
<1> DEFINE three == [k \in Node |-> 3]
           true == [k \in Node |-> TRUE]
           all == [k \in Node |-> Node]
           part == [k \in Node |-> P]
<1>2. /\ three \in [Node -> 0..3] /\ true \in [Node -> BOOLEAN]
      /\ all \in [Node -> SUBSET Node] /\ part \in [Node -> SUBSET Node]
  OBVIOUS
<1>3. s = [f EXCEPT !.trusted = Node, !.monitor = three, !.alll = true,
                    !.fd = all, !.fdPart = part, !.echoPart = part,
                    !.echoAll = true]
  BY DEF WithoutOthers
<1> HIDE DEF f, s, three, true, all, part
<1>4. s \in LocalState /\ s.id = f.id /\ s.trusted = Node
      /\ s.prp = f.prp /\ s.config = f.config
  BY <1>1, <1>2, <1>3 DEF LocalState
<1> QED
  BY <1>1, <1>4 DEF s

LEMMA InitJoinInv == InitJoining => JoinInv
<1> SUFFICES ASSUME InitJoining PROVE JoinInv
  OBVIOUS
<1>1. PICK P \in Groups, C \in Groups :
        st = [i \in Node |-> WithoutOthers(i, P, C)]
  BY DEF InitJoining
<1>2. /\ st \in [Node -> LocalState]
      /\ \A i \in Node : st[i].id = i /\ st[i].trusted = Node
  <2>1. P \in SUBSET Node /\ C \in SUBSET Node
    BY GroupsAssumption
  <2>2. ASSUME NEW i \in Node
        PROVE  /\ WithoutOthers(i, P, C) \in LocalState
               /\ WithoutOthers(i, P, C).id = i
               /\ WithoutOthers(i, P, C).trusted = Node
    <3>1. LET s == WithoutOthers(i, P, C)
          IN  /\ s \in LocalState /\ s.id = i /\ s.trusted = Node
              /\ \A k \in Node :
                   /\ s.prp[k] = DfltNtf
                   /\ s.config[k] = IF k \in P THEN C ELSE NotParticipant
      BY <2>1, WithoutOthersType
    <3> QED
      BY <3>1
  <2> QED
    BY <1>1, <2>2
<1>3. up = Node /\ chan = [i \in Node |-> [j \in Node |-> <<>>]]
  BY DEF InitJoining, AllRunning
<1>4. chan \in [Node -> [Node -> Seq(Kinds)]]
  <2>1. <<>> \in Seq(Kinds)
    OBVIOUS
  <2> QED
    BY <1>3, <2>1
<1>5. /\ passs = [i \in Node |-> Flushed(i)]
      /\ curConf = [i \in Node |-> {}]
      /\ enough = {} /\ joining = Node /\ hearing = Node
  BY DEF InitJoining, InitMechanism
<1>6. passs \in [Node -> [Node -> BOOLEAN]]
  BY <1>2, <1>5 DEF Flushed
<1> QED
  BY <1>2, <1>3, <1>4, <1>5, <1>6 DEF JoinInv

(* The variables of the Joining mechanism keep their types. *)
THEOREM JoiningTypeCorrect == SpecJoining => []JoiningTypeOK
<1>1. JoinInv /\ [JoiningNext]_jvars => JoinInv'
  BY NextJoinInv
<1>2. JoinInv => JoiningTypeOK
  BY DEF JoinInv, JoiningTypeOK, Kinds
<1> QED
  BY <1>1, <1>2, InitJoinInv, PTL DEF SpecJoining

-----------------------------------------------------------------------------
(* Joining a system in which nobody proposes. *)

(* From j to k: requests go to members, members state their configuration. *)
Fits(m, j, k, P) ==
  /\ m = Join => k \in P
  /\ m \in Message => Says(m, P) /\ (j \in P => m.config = P)

Fitting(c, P) ==
  \A j, k \in Node : \A n \in 1..Len(c[j][k]) : Fits(c[j][k][n], j, k, P)

(* s knows the members and nothing else. *)
Aware(s, P) == Resting(s, P) /\ \A k \in P : s.config[k] = P

(* The members P have configuration P, and it is the only one. *)
JoinRest(P) ==
  /\ JoinInv
  /\ P \in SUBSET Node /\ P # {}
  /\ estabs = MaxEstab /\ hearing = Node
  /\ \A i \in Node : Aware(st[i], P)
  /\ \A i \in Node : curConf[i] \in {{}, P}
  /\ Fitting(chan, P)

LEMMA AwareChoice ==
  ASSUME NEW s \in LocalState, s.trusted = Node,
         NEW P \in SUBSET Node, P # {}, Aware(s, P)
  PROVE  ChsConfig(s) = P /\ P \subseteq FdPart(s)
<1>1. \A k \in Node : s.config[k] \in {P, NotParticipant}
  BY DEF Aware, Resting
<1>2. FdPart(s) \subseteq Node /\ \A k \in FdPart(s) : s.config[k] = P
  BY <1>1 DEF FdPart
<1>3. P \subseteq FdPart(s)
  BY SpecialAssumption DEF Aware, FdPart
<1> QED
  BY <1>2, <1>3 DEF ChsConfig

LEMMA AwareParticipant ==
  ASSUME NEW s \in LocalState, s.trusted = Node,
         NEW P \in SUBSET Node, P # {}, Aware(s, P)
  PROVE  Aware(Participate(s), P)
<1>1. CASE ~ AllowReco(s)
  BY <1>1 DEF Participate
<1>2. CASE AllowReco(s)
  <2> DEFINE u == Participate(s)
  <2>1. u = [s EXCEPT !.config[s.id] = P]
    BY <1>2, AwareChoice DEF Participate
  <2> HIDE DEF u
  <2>2. /\ u.prp = s.prp
        /\ \A k \in Node : u.config[k] = IF k = s.id THEN P ELSE s.config[k]
    BY <2>1 DEF LocalState
  <2>3. Aware(u, P)
    BY <2>2 DEF Aware, Resting
  <2> QED
    BY <2>3 DEF u
<1> QED
  BY <1>1, <1>2

(* A pass, also one that ends the loop, learns nothing else. *)
LEMMA AwarePass ==
  ASSUME NEW s \in LocalState, s.trusted = Node,
         NEW P \in SUBSET Node, P # {}, Aware(s, P), NEW t \in BeforeTests(s)
  PROVE  /\ Aware(t, P)
         /\ \A u \in AfterTests(t) : u \in LocalState /\ u.id = s.id /\ Aware(u, P)
<1>1. Resting(s, P) /\ \A k \in P : s.config[k] = P
  BY DEF Aware
<1>2. P \subseteq FdPart(s)
  BY AwareChoice
<1>3. \A k \in P : t.config[k] = P
  BY <1>1, <1>2, BeforeTestsKeeps
<1>4. Aware(t, P)
  BY <1>1, <1>3, RestingBeforeTests DEF Aware
<1>5. ASSUME NEW u \in AfterTests(t)
      PROVE  u \in LocalState /\ u.id = s.id /\ Aware(u, P)
  <2>1. PICK k \in P : TRUE
    OBVIOUS
  <2>2. /\ u \in LocalState /\ u.id = s.id /\ Resting(u, P)
        /\ \A j \in FdPart(s) : u.config[j] = s.config[j]
    BY <1>1, <1>2, <1>5, <2>1, RestingPass
  <2> QED
    BY <1>1, <1>2, <2>2 DEF Aware
<1> QED
  BY <1>4, <1>5

LEMMA AwareReceipt ==
  ASSUME NEW s \in LocalState, NEW P \in SUBSET Node, Aware(s, P),
         NEW j \in Node, NEW k \in Node, NEW m \in Message, Fits(m, j, k, P)
  PROVE  Aware(ReceiveMsg(s, j, m), P)
<1> DEFINE u == ReceiveMsg(s, j, m)
<1>1. Resting(u, P)
  BY RestingReceipt DEF Aware, Fits
<1>2. \A i \in Node : u.config[i] = IF i = j THEN m.config ELSE s.config[i]
  <2>1. u.config = [s.config EXCEPT ![j] = m.config]
    BY DEF ReceiveMsg, LocalState
  <2>2. s.config \in [Node -> Config]
    BY DEF LocalState
  <2> HIDE DEF u
  <2> QED
    BY <2>1, <2>2
<1> HIDE DEF u
<1>3. \A i \in P : u.config[i] = P
  BY <1>2 DEF Aware, Fits
<1>4. Aware(u, P)
  BY <1>1, <1>3 DEF Aware
<1> QED
  BY <1>4 DEF u

LEMMA AwareSays ==
  ASSUME NEW s \in LocalState, NEW P \in SUBSET Node, Aware(s, P),
         NEW k \in Node
  PROVE  Fits(StateMsg(s, k), s.id, k, P)
<1>1. StateMsg(s, k) \in Message /\ Says(StateMsg(s, k), P)
  BY StateMsgType, RestingSays DEF Aware
<1>2. StateMsg(s, k).config = s.config[s.id]
  BY DEF StateMsg
<1> QED
  BY <1>1, <1>2, KindsAssumption DEF Fits, Aware

LEMMA AppendFits ==
  ASSUME NEW c \in [Node -> [Node -> Seq(Kinds)]],
         NEW d \in [Node -> [Node -> Seq(Kinds)]],
         NEW P, Fitting(c, P), NEW data \in Kinds,
         \A j, k \in Node :
            \/ d[j][k] = c[j][k]
            \/ d[j][k] = Append(c[j][k], data) /\ Fits(data, j, k, P)
  PROVE  Fitting(d, P)
<1> SUFFICES ASSUME NEW j \in Node, NEW k \in Node, NEW n \in 1..Len(d[j][k])
             PROVE  Fits(d[j][k][n], j, k, P)
  BY DEF Fitting
<1>1. c[j][k] \in Seq(Kinds)
  OBVIOUS
<1>2. CASE d[j][k] = c[j][k]
  BY <1>2 DEF Fitting
<1>3. CASE d[j][k] = Append(c[j][k], data) /\ Fits(data, j, k, P)
  <2>1. n \in 1..Len(c[j][k]) \/ n = Len(c[j][k]) + 1
    BY <1>1, <1>3
  <2>2. CASE n \in 1..Len(c[j][k])
    <3>1. d[j][k][n] = c[j][k][n]
      BY <1>1, <1>3, <2>2
    <3> QED
      BY <2>2, <3>1 DEF Fitting
  <2>3. CASE n = Len(c[j][k]) + 1
    <3>1. d[j][k][n] = data
      BY <1>1, <1>3, <2>3
    <3> QED
      BY <1>3, <3>1
  <2> QED
    BY <2>1, <2>2, <2>3
<1> QED
  BY <1>2, <1>3

LEMMA TakenFits ==
  ASSUME chan \in [Node -> [Node -> Seq(Kinds)]], NEW P, Fitting(chan, P),
         NEW i \in Node, NEW j \in Node, chan[j][i] # <<>>
  PROVE  Fitting(Taken(i, j), P) /\ Fits(Head(chan[j][i]), j, i, P)
<1>1. /\ Head(chan[j][i]) = chan[j][i][1] /\ 1 \in 1..Len(chan[j][i])
      /\ \A k, l \in Node : \A n \in 1..Len(Taken(i, j)[k][l]) :
           \E m \in 1..Len(chan[k][l]) : Taken(i, j)[k][l][n] = chan[k][l][m]
  BY TakenFrom
<1> QED
  BY <1>1 DEF Fitting

(* No step teaches anybody another configuration or ends a receiver. *)
LEMMA NextJoinRest ==
  ASSUME NEW P, JoinRest(P), [JoiningNext]_jvars
  PROVE  JoinRest(P)'
<1>1. JoinInv'
  BY NextJoinInv DEF JoinRest
<1>2. /\ P \in SUBSET Node /\ P # {}
      /\ \A i \in Node : /\ st[i] \in LocalState /\ st[i].id = i
                         /\ st[i].trusted = Node /\ Aware(st[i], P)
      /\ up = Node
      /\ chan \in [Node -> [Node -> Seq(Kinds)]] /\ Fitting(chan, P)
      /\ passs \in [Node -> [Node -> BOOLEAN]]
      /\ curConf \in [Node -> SUBSET Node]
      /\ \A i \in Node : curConf[i] \in {{}, P}
  BY DEF JoinRest, JoinInv
<1>3. chan' \in [Node -> [Node -> Seq(Kinds)]]
  BY <1>1 DEF JoinInv
<1>4. Join \in Kinds /\ Pass \in Kinds /\ Message \subseteq Kinds
  BY DEF Kinds
<1> DEFINE Known == /\ estabs' = estabs
                    /\ \A i \in Node : Aware(st'[i], P)
                    /\ Fitting(chan', P)
           Calm == hearing' = hearing /\ \A i \in Node : curConf'[i] \in {{}, P}
<1>5. ASSUME UNCHANGED vars
      PROVE  Known
  BY <1>2, <1>5 DEF vars
<1>6. ASSUME UNCHANGED mechanism
      PROVE  Calm
  BY <1>2, <1>6 DEF mechanism
<1>7. ASSUME NEW i \in Node, NEW s, Aware(s, P), st' = [st EXCEPT ![i] = s]
      PROVE  \A k \in Node : Aware(st'[k], P)
  BY <1>2, <1>7 DEF JoinRest, JoinInv
<1>8. ASSUME NEW i \in Node, Flush(i)
      PROVE  Known /\ Calm
  BY <1>2, <1>5, <1>8 DEF Flush
<1>9. ASSUME NEW i \in Node, ReadConf(i)
      PROVE  Known /\ Calm
  <2>1. ChsConfig(st[i]) = P
    BY <1>2, AwareChoice
  <2>2. /\ UNCHANGED vars /\ hearing' = hearing
        /\ curConf' \in {curConf, [curConf EXCEPT ![i] = ChsConfig(st[i])]}
    BY <1>9 DEF ReadConf
  <2>3. Calm
    BY <1>2, <2>1, <2>2
  <2> QED
    BY <1>5, <2>2, <2>3
<1>10. ASSUME NEW i \in Node, ActOnConf(i)
       PROVE  Known /\ Calm
  <2>1. PICK s \in {AdmittedNow(i)} :
          /\ st' = [st EXCEPT ![i] = s]
          /\ IF AllowReco(s) THEN Post(i, curConf[i], Join) ELSE chan' = chan
    BY <1>10 DEF ActOnConf
  <2>2. s = Participate(st[i]) \/ s = st[i]
    BY <2>1 DEF AdmittedNow
  <2>3. Aware(Participate(st[i]), P) /\ Aware(st[i], P)
    BY <1>2, AwareParticipant
  <2>4. \A k \in Node : Aware(st'[k], P)
    BY <1>7, <2>1, <2>2, <2>3
  <2>5. ASSUME chan' = chan
        PROVE  Fitting(chan', P)
    BY <1>2, <2>5
  <2>6. ASSUME Post(i, curConf[i], Join)
        PROVE  Fitting(chan', P)
    <3>1. \A k \in curConf[i] : k \in P
      BY <1>2
    <3>2. \A j, k \in Node : k \in curConf[i] => Fits(Join, j, k, P)
      BY <3>1, KindsAssumption DEF Fits
    <3>3. \A k, l \in Node :
            chan'[k][l] = IF k = i /\ l \in (curConf[i] \intersect up) \ {i}
                          THEN Append(chan[k][l], Join) ELSE chan[k][l]
      <4>1. chan \in [Node -> [Node -> Seq(Kinds)]]
        BY <1>2
      <4> QED
        BY <2>6, <4>1, PostType
    <3>4. \A k, l \in Node :
            \/ chan'[k][l] = chan[k][l]
            \/ chan'[k][l] = Append(chan[k][l], Join) /\ Fits(Join, k, l, P)
      BY <3>2, <3>3
    <3> QED
      BY <1>2, <1>3, <1>4, <3>4, AppendFits
  <2>7. Fitting(chan', P)
    BY <2>1, <2>5, <2>6
  <2>8. estabs' = estabs /\ hearing' = hearing
        /\ curConf' = [curConf EXCEPT ![i] = {}]
    BY <1>10 DEF ActOnConf
  <2>9. Calm
    BY <1>2, <2>8
  <2> QED
    BY <2>4, <2>7, <2>8, <2>9
<1>11. ASSUME NEW i \in Node, NEW j \in Node, ReceiveJoin(i, j)
       PROVE  Known /\ Calm
  <2>1. chan[j][i] # <<>> /\ Head(chan[j][i]) = Join
    BY <1>11 DEF ReceiveJoin, Arrives
  <2>2. Fitting(Taken(i, j), P) /\ Fits(Join, j, i, P)
    BY <1>2, <2>1, TakenFits
  <2>3. i \in P
    BY <2>2 DEF Fits
  <2>4. ~ RequestRaises(i)
    <3>1. ChsConfig(st[i]) = P /\ st[i].config[st[i].id] = P
      <4>1. /\ st[i] \in LocalState /\ st[i].id = i
            /\ st[i].trusted = Node /\ Aware(st[i], P)
        BY <1>2
      <4>2. ChsConfig(st[i]) = P
        BY <1>2, <4>1, AwareChoice
      <4> QED
        BY <2>3, <4>1, <4>2 DEF Aware
    <3>2. GetConfig(st[i]) = P
      BY <3>1 DEF GetConfig
    <3>3. i \in DOMAIN passs[i]
      BY <1>2
    <3> QED
      BY <1>2, <3>2, <3>3, SpecialAssumption DEF RequestRaises
  <2>5. hearing' = hearing
    BY <1>11, <2>4 DEF ReceiveJoin
  <2>6. Taken(i, j) \in [Node -> [Node -> Seq(Kinds)]]
    BY <1>2, <2>1, TakenFrom
  <2>7. \A k, l \in Node :
          \/ chan'[k][l] = Taken(i, j)[k][l]
          \/ chan'[k][l] = Append(Taken(i, j)[k][l], Pass)
    <3> DEFINE c == Taken(i, j)
               row == IF Answers(i, j) /\ j \in up THEN Append(c[i][j], Pass)
                                                   ELSE c[i][j]
    <3>1. chan' = [c EXCEPT ![i] = [c[i] EXCEPT ![j] = row]]
      BY <1>11 DEF ReceiveJoin
    <3>2. row = Append(c[i][j], Pass) \/ row = c[i][j]
      OBVIOUS
    <3> HIDE DEF c, row
    <3>3. c \in [Node -> [Node -> Seq(Kinds)]]
      BY <2>6 DEF c
    <3>4. \A k, l \in Node : chan'[k][l] = IF k = i /\ l = j THEN row
                                                             ELSE c[k][l]
      BY <3>1, <3>3
    <3>5. \A k, l \in Node : \/ chan'[k][l] = c[k][l]
                             \/ chan'[k][l] = Append(c[k][l], Pass)
      BY <3>2, <3>4
    <3> QED
      BY <3>5 DEF c
  <2>8. \A k, l \in Node : Fits(Pass, k, l, P)
    BY KindsAssumption DEF Fits
  <2>9. \A k, l \in Node :
          \/ chan'[k][l] = Taken(i, j)[k][l]
          \/ chan'[k][l] = Append(Taken(i, j)[k][l], Pass) /\ Fits(Pass, k, l, P)
    BY <2>7, <2>8
  <2>10. Fitting(chan', P)
    BY <1>3, <1>4, <2>2, <2>6, <2>9, AppendFits
  <2>11. UNCHANGED <<st, estabs, curConf>>
    BY <1>11 DEF ReceiveJoin
  <2> QED
    BY <1>2, <2>5, <2>10, <2>11
<1>12. ASSUME NEW i \in Node, NEW j \in Node, ReceivePass(i, j)
       PROVE  Known /\ Calm
  <2>1. /\ chan[j][i] # <<>> /\ chan' = Taken(i, j)
        /\ UNCHANGED <<st, estabs, curConf, hearing>>
    BY <1>12 DEF ReceivePass, Arrives
  <2>2. Fitting(chan', P)
    BY <1>2, <2>1, TakenFits
  <2> QED
    BY <1>2, <2>1, <2>2
<1>13. ASSUME NEW i \in Node, NEW j \in Node, ReceiveState(i, j)
       PROVE  Known /\ Calm
  <2> DEFINE m == Head(chan[j][i])
             s == ReceiveMsg(st[i], j, m)
  <2>1. /\ chan[j][i] # <<>> /\ m \notin {Join, Pass}
        /\ Receive(i, j) /\ UNCHANGED mechanism
    BY <1>13 DEF ReceiveState
  <2>2. m \in Message
    <3>1. m \in Kinds
      BY <1>2, <2>1, TakenFrom
    <3> QED
      BY <2>1, <3>1 DEF Kinds
  <2>3. Fitting(Taken(i, j), P) /\ Fits(m, j, i, P)
    BY <1>2, <2>1, TakenFits
  <2>4. st' = [st EXCEPT ![i] = s] /\ chan' = Taken(i, j) /\ estabs' = estabs
    BY <2>1 DEF Receive, Taken
  <2>5. st[i] \in LocalState /\ Aware(st[i], P)
    BY <1>2
  <2> HIDE DEF m
  <2>6. Aware(s, P)
    BY <1>2, <2>2, <2>3, <2>5, AwareReceipt
  <2> HIDE DEF s
  <2>7. \A k \in Node : Aware(st'[k], P)
    BY <1>7, <2>4, <2>6
  <2> QED
    BY <1>6, <2>1, <2>3, <2>4, <2>7
<1>14. ASSUME NEW i \in Node, RecSAPass(i)
       PROVE  Known /\ Calm
  <2>1. Calm
    BY <1>6, <1>14 DEF RecSAPass
  <2>2. st[i] \in LocalState /\ st[i].id = i /\ st[i].trusted = Node
        /\ Aware(st[i], P)
    BY <1>2
  <2>3. CASE Iterate(i)
    <3>1. PICK t \in BeforeTests(st[i]) :
            \E s \in AfterTests(t) : st' = [st EXCEPT ![i] = s] /\ Send(s)
      BY <2>3 DEF Iterate
    <3>2. PICK s \in AfterTests(t) : st' = [st EXCEPT ![i] = s] /\ Send(s)
      BY <3>1
    <3>3. s \in LocalState /\ s.id = i /\ Aware(s, P)
      <4>1. P \in SUBSET Node /\ P # {}
        BY <1>2
      <4> QED
        BY <2>2, <3>1, <3>2, <4>1, AwarePass
    <3>4. \A j, k \in Node : \A n \in 1..Len(chan'[j][k]) :
            \/ \E m \in 1..Len(chan[j][k]) : chan'[j][k][n] = chan[j][k][m]
            \/ j = s.id /\ chan'[j][k][n] = StateMsg(s, k)
      <4>1. chan \in [Node -> [Node -> Seq(Kinds)]]
        BY <1>2
      <4> QED
        BY <1>4, <3>2, <3>3, <4>1, SentTo
    <3>5. \A k \in Node : Fits(StateMsg(s, k), i, k, P)
      BY <1>2, <3>3, AwareSays
    <3>6. ASSUME NEW j \in Node, NEW k \in Node, NEW n \in 1..Len(chan'[j][k])
          PROVE  Fits(chan'[j][k][n], j, k, P)
      <4>1. CASE \E m \in 1..Len(chan[j][k]) : chan'[j][k][n] = chan[j][k][m]
        BY <1>2, <4>1 DEF Fitting
      <4>2. CASE j = s.id /\ chan'[j][k][n] = StateMsg(s, k)
        BY <3>3, <3>5, <4>2
      <4> QED
        BY <3>4, <4>1, <4>2
    <3>7. Fitting(chan', P)
      BY <3>6 DEF Fitting
    <3>8. \A k \in Node : Aware(st'[k], P)
      BY <1>7, <3>2, <3>3
    <3>9. estabs' = estabs
      BY <2>3 DEF Iterate
    <3> QED
      BY <2>1, <3>7, <3>8, <3>9
  <2>4. CASE IterateRaises(i)
    <3>1. PICK t \in BeforeTests(st[i]) : st' = [st EXCEPT ![i] = t]
      BY <2>4 DEF IterateRaises
    <3>2. Aware(t, P)
      BY <1>2, <2>2, <3>1, AwarePass
    <3>3. \A k \in Node : Aware(st'[k], P)
      BY <1>7, <3>1, <3>2
    <3>4. estabs' = estabs /\ chan' = chan
      BY <2>4 DEF IterateRaises
    <3> QED
      BY <1>2, <2>1, <3>3, <3>4
  <2> QED
    BY <1>14, <2>3, <2>4 DEF RecSAPass
<1>15. ASSUME NEW i \in Node, RecMAProposes(i)
       PROVE  FALSE
  BY <1>15, BoundsAssumption DEF RecMAProposes, RequestEstab, JoinRest
<1>16. ASSUME UNCHANGED jvars
       PROVE  Known /\ Calm
  BY <1>5, <1>6, <1>16 DEF jvars
<1> HIDE DEF Known, Calm
<1>17. Known /\ Calm
  BY <1>8, <1>9, <1>10, <1>11, <1>12, <1>13, <1>14, <1>15, <1>16
     DEF JoiningNext, JoinPass, Deliver
<1> QED
  BY <1>1, <1>2, <1>17 DEF Known, Calm, JoinRest

InvitingRest == \E P \in SUBSET Node : JoinRest(P)

LEMMA InitInvitingRest ==
  ASSUME MaxEstab = 0, InitJoining
  PROVE  InvitingRest
<1>1. PICK Q \in Groups, P \in Groups :
        /\ P # {} /\ P \subseteq Q
        /\ st = [i \in Node |-> WithoutOthers(i, Q, P)]
  BY DEF InitJoining
<1>2. P \in SUBSET Node /\ Q \in SUBSET Node /\ P # {}
  BY <1>1, GroupsAssumption
<1>3. \A i \in Node :
        LET s == WithoutOthers(i, Q, P)
        IN  \A k \in Node :
              /\ s.prp[k] = DfltNtf
              /\ s.config[k] = IF k \in Q THEN P ELSE NotParticipant
  BY <1>2, WithoutOthersType
<1>4. \A i \in Node : Aware(st[i], P)
  BY <1>1, <1>2, <1>3 DEF Aware, Resting
<1>5. Fitting(chan, P)
  BY DEF InitJoining, AllRunning, Fitting
<1>6. estabs = MaxEstab /\ hearing = Node /\ curConf = [i \in Node |-> {}]
  BY DEF InitJoining, AllRunning, InitMechanism
<1>7. JoinRest(P)
  BY <1>2, <1>4, <1>5, <1>6, InitJoinInv DEF JoinRest
<1> QED
  BY <1>2, <1>7 DEF InvitingRest

(***************************************************************************)
(* While nobody proposes, no receiver thread ends with an exception of     *)
(* receive_join_request(), whatever the configuration and its participants *)
(* are when the others begin to ask (Groups is any set of sets), however   *)
(* many ask, in whatever order requests, answers and states are delivered. *)
(***************************************************************************)
THEOREM ServersListen ==
  MaxEstab = 0 => (SpecJoining => []ServersHear)
<1> SUFFICES ASSUME MaxEstab = 0
             PROVE  SpecJoining => []ServersHear
  OBVIOUS
<1>1. InitJoining => InvitingRest
  BY InitInvitingRest
<1>2. InvitingRest /\ [JoiningNext]_jvars => InvitingRest'
  BY NextJoinRest DEF InvitingRest
<1>3. InvitingRest => ServersHear
  BY DEF InvitingRest, JoinRest, ServersHear
<1> QED
  BY <1>1, <1>2, <1>3, PTL DEF SpecJoining
=============================================================================
