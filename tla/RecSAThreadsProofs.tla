--------------------------- MODULE RecSAThreadsProofs ---------------------------
(***************************************************************************)
(* What no interleaving of the threads of a process can break: the types   *)
(* of what the loop carries from one of its cuts to the next, and the      *)
(* loops of participants.                                                  *)
(***************************************************************************)
EXTENDS RecSAThreads, RecSAProofs

(* Line 22 with the participants that were read a while ago. *)
LEMMA ForgetType ==
  ASSUME NEW s \in LocalState, NEW part
  PROVE  /\ Forget(s, part) \in LocalState /\ Forget(s, part).id = s.id
         /\ Forget(s, part).trusted = s.trusted
         /\ \A k \in part : k \in Node => Forget(s, part).config[k] = s.config[k]
<1> DEFINE F == {k \in Node \ part :
                   s.config[k] # NotParticipant \/ s.prp[k] # DfltNtf}
           conf == [k \in Node |-> IF k \in F THEN NotParticipant
                                              ELSE s.config[k]]
           ntf == [k \in Node |-> IF k \in F THEN DfltNtf ELSE s.prp[k]]
           mon == [k \in Node |-> IF k \in F THEN 0 ELSE s.monitor[k]]
<1>1. /\ conf \in [Node -> Config] /\ ntf \in [Node -> Ntf]
      /\ mon \in [Node -> 0..3]
  BY DfltNtfType DEF LocalState, Config
<1>2. \A k \in part : k \in Node => conf[k] = s.config[k]
  OBVIOUS
<1>3. Forget(s, part) = [s EXCEPT !.config = conf, !.prp = ntf, !.monitor = mon]
  BY DEF Forget
<1> HIDE DEF conf, ntf, mon
<1> QED
  BY <1>1, <1>2, <1>3 DEF LocalState

(* Lines 25, 26 and 24 with the echoes that were read a while ago. *)
LEMMA TestedType ==
  ASSUME NEW s \in LocalState, NEW b \in BOOLEAN
  PROVE  LET t == Line26([s EXCEPT !.alll[s.id] = b])
         IN  /\ t \in LocalState /\ t.id = s.id /\ t.trusted = s.trusted
             /\ t.config = s.config
             /\ Line24(t) \in LocalState /\ Line24(t).id = s.id
             /\ Line24(t).trusted = s.trusted
             /\ Line24(t).config[s.id] \in {s.config[s.id], Bottom}
<1> DEFINE a == [s EXCEPT !.alll[s.id] = b]
           t == Line26(a)
<1>1. a \in LocalState /\ a.id = s.id /\ a.trusted = s.trusted
      /\ a.config = s.config
  BY DEF LocalState
<1> HIDE DEF a
<1>2. t \in LocalState /\ t.id = s.id
  BY <1>1, Line26Type
<1>3. t.trusted = s.trusted /\ t.config = s.config
  BY <1>1 DEF Line26, LocalState
<1> HIDE DEF t
<1>4. Line24(t) \in LocalState /\ Line24(t).id = s.id
  BY <1>2, Line24Type
<1>5. Line24(t) = t \/ Line24(t) = ConfigSet(t, Bottom)
  BY DEF Line24
<1>6. /\ ConfigSet(t, Bottom).trusted = t.trusted
      /\ ConfigSet(t, Bottom).config[s.id] = Bottom
  BY <1>2 DEF ConfigSet, LocalState
<1>7. Line24(t).trusted = s.trusted /\ Line24(t).config[s.id] \in {s.config[s.id], Bottom}
  BY <1>3, <1>5, <1>6
<1> QED
  BY <1>2, <1>3, <1>4, <1>7 DEF t, a

(* What is written at the later cuts. *)
LEMMA WrittenType ==
  ASSUME NEW s \in LocalState, NEW p \in Ntf, NEW A \in SUBSET Node
  PROVE  /\ [s EXCEPT !.allSeen = A] \in LocalState
         /\ [s EXCEPT !.prp[s.id] = p] \in LocalState
         /\ [s EXCEPT !.prp[s.id] = p, !.alll[s.id] = FALSE, !.allSeen = A]
              \in LocalState
         /\ ResetConflict(s) \in LocalState /\ ResetConflict(s).id = s.id
         /\ ResetConflict(s).trusted = s.trusted
         /\ ResetConflict(s).config[s.id] \in {s.config[s.id], Bottom}
         /\ Install(s) \in LocalState /\ Install(s).id = s.id
         /\ Install(s).trusted = s.trusted
         /\ Install(s).config[s.id] # NotParticipant
              \/ Install(s).config[s.id] = s.config[s.id]
         /\ ConfigSet(s, s.trusted) \in LocalState
         /\ ConfigSet(s, s.trusted).id = s.id
         /\ ConfigSet(s, s.trusted).trusted = s.trusted
         /\ ConfigSet(s, s.trusted).config[s.id] # NotParticipant
         /\ Increment(s) \in LocalState /\ Increment(s).id = s.id
         /\ Increment(s).trusted = s.trusted /\ Increment(s).config = s.config
<1>1. s.id \in Node /\ s.trusted \in SUBSET Node
  BY DEF LocalState
<1>2. /\ [s EXCEPT !.allSeen = A] \in LocalState
      /\ [s EXCEPT !.prp[s.id] = p] \in LocalState
      /\ [s EXCEPT !.prp[s.id] = p, !.alll[s.id] = FALSE, !.allSeen = A]
           \in LocalState
  BY DEF LocalState
<1>3. \A c \in Config : /\ ConfigSet(s, c) \in LocalState
                        /\ ConfigSet(s, c).id = s.id
                        /\ ConfigSet(s, c).trusted = s.trusted
                        /\ ConfigSet(s, c).config[s.id] = c
  <2> SUFFICES ASSUME NEW c \in Config
               PROVE  /\ ConfigSet(s, c) \in LocalState
                      /\ ConfigSet(s, c).id = s.id
                      /\ ConfigSet(s, c).trusted = s.trusted
                      /\ ConfigSet(s, c).config[s.id] = c
    OBVIOUS
  <2>1. ConfigSet(s, c).trusted = s.trusted /\ ConfigSet(s, c).config[s.id] = c
    BY <1>1 DEF ConfigSet, LocalState
  <2> QED
    BY <2>1, ConfigSetType
<1>4. Bottom \in Config /\ s.trusted \in Config /\ s.trusted # NotParticipant
  BY <1>1, SpecialAssumption DEF Config
<1>5. /\ ResetConflict(s) \in LocalState /\ ResetConflict(s).id = s.id
      /\ ResetConflict(s).trusted = s.trusted
      /\ ResetConflict(s).config[s.id] \in {s.config[s.id], Bottom}
  BY <1>3, <1>4 DEF ResetConflict
<1>6. /\ Install(s) \in LocalState /\ Install(s).id = s.id
      /\ Install(s).trusted = s.trusted
      /\ Install(s).config[s.id] # NotParticipant
           \/ Install(s).config[s.id] = s.config[s.id]
  <2>1. Install(s) \in LocalState /\ Install(s).id = s.id
    BY InstallType
  <2>2. s.prp[s.id].set # NotParticipant
    BY <1>1, SpecialAssumption DEF LocalState, Ntf
  <2>3. /\ Install(s).trusted = s.trusted
        /\ Install(s).config[s.id] \in {s.config[s.id], s.prp[s.id].set}
    BY <1>1 DEF Install, LocalState
  <2> QED
    BY <2>1, <2>2, <2>3
<1>7. /\ Increment(s) \in LocalState /\ Increment(s).id = s.id
      /\ Increment(s).trusted = s.trusted /\ Increment(s).config = s.config
  <2>1. Increment(s) \in LocalState /\ Increment(s).id = s.id
    BY IncrementType
  <2>2. Increment(s).trusted = s.trusted /\ Increment(s).config = s.config
    BY DEF Increment, LocalState
  <2> QED
    BY <2>1, <2>2
<1> QED
  BY <1>2, <1>3, <1>4, <1>5, <1>6, <1>7

(* A write of one thread keeps the types of all. *)
LEMMA WriteType ==
  ASSUME TypeOK, NEW i \in Node, NEW s \in LocalState, s.id = i, Write(i, s),
         loop' \subseteq loop, UNCHANGED <<up, chan, estabs, suspects>>
  PROVE  TypeOK'
BY DEF TypeOK, Write
-----------------------------------------------------------------------------
(* What the loop carries from one cut to the next. *)
CarriedOK ==
  /\ pc \in [Node -> Label]
  /\ seen \in [Node -> SUBSET Node]
  /\ found \in [Node -> Ntf]
  /\ echoed \in [Node -> BOOLEAN]
  /\ asked \in [Node -> {Bottom} \union Proposals]

LEMMA LabelNames ==
  {"line22", "forget", "mod_max", "line23", "line25", "line26", "line27",
   "config_set", "increment", "line33"} \subseteq Label
BY DEF Label

(***************************************************************************)
(* What a step of the loop of i or of RecMA's thread does, whatever the    *)
(* others have done since the last one: it writes one record, whose trust  *)
(* stays, and leaves the configuration only for another one, except where  *)
(* line 22 has not seen its own processor as a participant.                *)
(***************************************************************************)
LoopStep(i, s) ==
  /\ s \in LocalState /\ s.id = i /\ s.trusted = st[i].trusted
  /\ st' = [st EXCEPT ![i] = s]
  /\ \/ s.config[i] # NotParticipant
     \/ s.config[i] = Conf(i)
     \/ pc[i] = "forget" /\ i \notin seen[i]

LEMMA ReadPartStep ==
  ASSUME ThreadsTypeOK, NEW i \in Node, ReadPart(i)
  PROVE  /\ CarriedOK' /\ UNCHANGED vars
         /\ seen' = [seen EXCEPT ![i] = FdPart(st[i])]
         /\ \A k \in Node \ {i} : pc'[k] = pc[k]
<1>1. FdPart(st[i]) \in SUBSET Node
  BY DEF ThreadsTypeOK, TypeOK, LocalState, FdPart
<1> QED
  BY <1>1, LabelNames DEF ThreadsTypeOK, CarriedOK, ReadPart, Goto

(* Every step inside a pass. *)
LEMMA InsideStep ==
  ASSUME ThreadsTypeOK, NEW i \in Node, Inside(i)
  PROVE  /\ CarriedOK' /\ TypeOK' /\ i \in up \intersect loop
         /\ UNCHANGED <<up, estabs, suspects>>
         /\ \E s \in LocalState : LoopStep(i, s)
         /\ pc'[i] # "forget" /\ \A k \in Node \ {i} : pc'[k] = pc[k]
         /\ \A k \in Node \ {i} : seen'[k] = seen[k]
         /\ loop' = loop \/ TestStaleness(i)
         /\ \/ chan' = chan
            \/ \E s \in LocalState : s.id = i /\ Send(s)
<1> DEFINE s == st[i]
           Rest == /\ i \in up \intersect loop
                   /\ UNCHANGED <<up, estabs, suspects>>
                   /\ pc'[i] # "forget" /\ \A k \in Node \ {i} : pc'[k] = pc[k]
                   /\ \A k \in Node \ {i} : seen'[k] = seen[k]
                   /\ loop' = loop \/ TestStaleness(i)
                   /\ \/ chan' = chan
                      \/ \E u \in LocalState : u.id = i /\ Send(u)
           Whole == /\ CarriedOK' /\ TypeOK' /\ Rest
                    /\ \E u \in LocalState : LoopStep(i, u)
<1>1. /\ s \in LocalState /\ s.id = i /\ TypeOK
      /\ pc \in [Node -> Label] /\ seen \in [Node -> SUBSET Node]
      /\ found \in [Node -> Ntf] /\ echoed \in [Node -> BOOLEAN]
      /\ asked \in [Node -> {Bottom} \union Proposals]
      /\ Conf(i) = s.config[i]
  BY DEF ThreadsTypeOK, TypeOK, Conf
<1>2. FdPart(s) \in SUBSET Node /\ s.prp[i] \in Ntf
  BY <1>1 DEF LocalState, FdPart
<1> HIDE DEF s
<1>3. ASSUME NEW u \in LocalState, u.id = i, Write(i, u),
             loop' \subseteq loop, UNCHANGED <<up, chan, estabs, suspects>>
      PROVE  TypeOK'
  BY <1>1, <1>3, WriteType
<1>4. ASSUME ForgetOthers(i)
      PROVE  Whole
  <2>1. PICK u \in {Forget(s, seen[i])} :
          /\ Write(i, u)
          /\ \/ /\ found' = [found EXCEPT ![i] =
                     [ph |-> 0, set |-> MaxLex({u.prp[k].set : k \in FdPart(u)})]]
                /\ Goto(i, "mod_max")
             \/ /\ found' = [found EXCEPT ![i] = u.prp[i]]
                /\ Goto(i, "line23")
    BY <1>4 DEF ForgetOthers, s
  <2>2. /\ seen' = [seen EXCEPT ![i] = {}]
        /\ UNCHANGED <<up, loop, chan, estabs, suspects, echoed, asked>>
        /\ i \in up \intersect loop /\ pc[i] = "forget"
    BY <1>4 DEF ForgetOthers, At
  <2>3. /\ u \in LocalState /\ u.id = i /\ u.trusted = s.trusted
        /\ i \in seen[i] => u.config[i] = s.config[i]
    BY <1>1, <2>1, ForgetType
  <2>4. /\ u.prp[i] \in Ntf
        /\ [ph |-> 0, set |-> MaxLex({u.prp[k].set : k \in FdPart(u)})] \in Ntf
    <3>1. {u.prp[k].set : k \in FdPart(u)} \in SUBSET ({Bottom} \union SUBSET Node)
      BY <2>3 DEF LocalState, Ntf, FdPart
    <3>2. MaxLex({u.prp[k].set : k \in FdPart(u)}) \in {Bottom} \union SUBSET Node
      BY <3>1, MaxLexType
    <3> QED
      BY <2>3, <3>2 DEF LocalState, Ntf
  <2>5. found' \in [Node -> Ntf]
    BY <1>1, <2>1, <2>4
  <2>6. /\ pc' \in [Node -> Label] /\ pc'[i] # "forget"
        /\ \A k \in Node \ {i} : pc'[k] = pc[k]
    BY <1>1, <2>1, LabelNames DEF Goto
  <2>7. CarriedOK'
    BY <1>1, <2>2, <2>5, <2>6 DEF CarriedOK
  <2>8. TypeOK'
    BY <1>3, <2>1, <2>2, <2>3
  <2>9. LoopStep(i, u)
    BY <1>1, <2>1, <2>2, <2>3 DEF LoopStep, Write, s
  <2>10. Rest
    BY <1>1, <2>2, <2>6
  <2> QED
    BY <2>3, <2>7, <2>8, <2>9, <2>10
<1>5. ASSUME ModMax(i)
      PROVE  Whole
  <2> DEFINE joins == JoinsPhaseOne(s)
             p == [found[i] EXCEPT !.ph = IF joins THEN 1 ELSE s.prp[i].ph]
             u == [s EXCEPT !.allSeen = IF joins THEN {} ELSE s.allSeen]
  <2>1. /\ Write(i, u) /\ found' = [found EXCEPT ![i] = p]
        /\ Goto(i, "line23") /\ i \in up \intersect loop
        /\ UNCHANGED <<up, loop, chan, estabs, suspects, seen, echoed, asked>>
    BY <1>5 DEF ModMax, At, s
  <2>2. u \in LocalState /\ u.id = i /\ u.trusted = s.trusted
        /\ u.config = s.config
    BY <1>1 DEF LocalState
  <2>3. p \in Ntf
    BY <1>1, <1>2 DEF Ntf
  <2> HIDE DEF u, p
  <2>4. /\ pc' \in [Node -> Label] /\ pc'[i] # "forget"
        /\ \A k \in Node \ {i} : pc'[k] = pc[k]
    BY <1>1, <2>1, LabelNames DEF Goto
  <2>5. CarriedOK'
    BY <1>1, <2>1, <2>3, <2>4 DEF CarriedOK
  <2>6. TypeOK'
    BY <1>3, <2>1, <2>2
  <2>7. LoopStep(i, u)
    BY <1>1, <2>1, <2>2 DEF LoopStep, Write, s
  <2>8. Rest
    BY <2>1, <2>4
  <2> QED
    BY <2>2, <2>5, <2>6, <2>7, <2>8
<1>6. ASSUME AssignMax(i)
      PROVE  Whole
  <2> DEFINE u == [s EXCEPT !.prp[i] = found[i]]
  <2>1. /\ Write(i, u) /\ found' = [found EXCEPT ![i] = DfltNtf]
        /\ Goto(i, "line25") /\ i \in up \intersect loop
        /\ UNCHANGED <<up, loop, chan, estabs, suspects, seen, echoed, asked>>
    BY <1>6 DEF AssignMax, At, s
  <2>2. u \in LocalState /\ u.id = i /\ u.trusted = s.trusted
        /\ u.config = s.config
    BY <1>1 DEF LocalState
  <2> HIDE DEF u
  <2>3. found' \in [Node -> Ntf]
    BY <1>1, <2>1, DfltNtfType
  <2>4. /\ pc' \in [Node -> Label] /\ pc'[i] # "forget"
        /\ \A k \in Node \ {i} : pc'[k] = pc[k]
    BY <1>1, <2>1, LabelNames DEF Goto
  <2>5. CarriedOK'
    BY <1>1, <2>1, <2>3, <2>4 DEF CarriedOK
  <2>6. TypeOK'
    BY <1>3, <2>1, <2>2
  <2>7. LoopStep(i, u)
    BY <1>1, <2>1, <2>2 DEF LoopStep, Write, s
  <2>8. Rest
    BY <2>1, <2>4
  <2> QED
    BY <2>2, <2>5, <2>6, <2>7, <2>8
<1>7. ASSUME LookAtEchoes(i)
      PROVE  Whole
  <2>1. /\ UNCHANGED <<vars, seen, found, asked>> /\ i \in up \intersect loop
        /\ Goto(i, "line26")
        /\ echoed' = [echoed EXCEPT ![i] = \A k \in FdPart(st[i]) :
                                             EchoNoAll(st[i], k)]
    BY <1>7 DEF LookAtEchoes, At
  <2>2. echoed' \in [Node -> BOOLEAN]
    BY <1>1, <2>1
  <2>3. /\ pc' \in [Node -> Label] /\ pc'[i] # "forget"
        /\ \A k \in Node \ {i} : pc'[k] = pc[k]
    BY <1>1, <2>1, LabelNames DEF Goto
  <2>4. CarriedOK'
    BY <1>1, <2>1, <2>2, <2>3 DEF CarriedOK
  <2>5. TypeOK' /\ st' = st
    BY <1>1, <2>1 DEF vars, TypeOK
  <2>6. st' = [st EXCEPT ![i] = s]
    BY <1>1, <2>5 DEF s, TypeOK
  <2>7. LoopStep(i, s)
    BY <1>1, <2>6 DEF LoopStep, s
  <2>8. Rest
    BY <2>1, <2>3 DEF vars
  <2> QED
    BY <1>1, <2>4, <2>5, <2>7, <2>8
<1>8. ASSUME TestStaleness(i)
      PROVE  Whole
  <2> DEFINE t == Line26([s EXCEPT !.alll[i] = echoed[i]])
  <2>1. PICK u \in {t, Line24(t)} :
          /\ Write(i, u)
          /\ \/ Goto(i, "line27") /\ loop' = loop
             \/ Goto(i, "line22") /\ loop' = loop \ {i}
    BY <1>8 DEF TestStaleness, s
  <2>2. /\ echoed' = [echoed EXCEPT ![i] = FALSE]
        /\ UNCHANGED <<up, chan, estabs, suspects, seen, found, asked>>
        /\ i \in up \intersect loop
    BY <1>8 DEF TestStaleness, At
  <2>3. t = Line26([s EXCEPT !.alll[s.id] = echoed[i]]) /\ echoed[i] \in BOOLEAN
    BY <1>1
  <2> HIDE DEF t
  <2>4. /\ u \in LocalState /\ u.id = i /\ u.trusted = s.trusted
        /\ u.config[i] \in {s.config[i], Bottom}
    <3>1. /\ t \in LocalState /\ t.id = s.id /\ t.trusted = s.trusted
          /\ t.config = s.config
          /\ Line24(t) \in LocalState /\ Line24(t).id = s.id
          /\ Line24(t).trusted = s.trusted
          /\ Line24(t).config[s.id] \in {s.config[s.id], Bottom}
      BY <1>1, <2>3, TestedType
    <3> QED
      BY <1>1, <2>1, <3>1
  <2>5. /\ pc' \in [Node -> Label] /\ pc'[i] # "forget"
        /\ \A k \in Node \ {i} : pc'[k] = pc[k]
    BY <1>1, <2>1, LabelNames DEF Goto
  <2>6. echoed' \in [Node -> BOOLEAN]
    BY <1>1, <2>2
  <2>7. CarriedOK'
    BY <1>1, <2>2, <2>5, <2>6 DEF CarriedOK
  <2>8. TypeOK'
    BY <1>3, <2>1, <2>2, <2>4
  <2>9. LoopStep(i, u)
    BY <1>1, <2>1, <2>4, SpecialAssumption DEF LoopStep, Write, s
  <2>10. Rest
    BY <1>8, <2>2, <2>5
  <2> QED
    BY <2>4, <2>7, <2>8, <2>9, <2>10
<1>9. ASSUME NEW u \in LocalState, u.id = i, u.trusted = s.trusted,
             u.config[i] # NotParticipant \/ u.config[i] = s.config[i],
             Write(i, u), NEW l \in Label \ {"forget"}, Goto(i, l),
             i \in up \intersect loop,
             UNCHANGED <<up, loop, chan, estabs, suspects, seen, found, echoed,
                         asked>>
      PROVE  Whole
  <2>1. /\ pc' \in [Node -> Label] /\ pc'[i] # "forget"
        /\ \A k \in Node \ {i} : pc'[k] = pc[k]
    BY <1>1, <1>9 DEF Goto
  <2>2. CarriedOK'
    BY <1>1, <1>9, <2>1 DEF CarriedOK
  <2>3. TypeOK'
    BY <1>3, <1>9
  <2>4. LoopStep(i, u)
    BY <1>1, <1>9 DEF LoopStep, Write, s
  <2>5. Rest
    BY <1>9, <2>1
  <2> QED
    BY <2>2, <2>3, <2>4, <2>5
<1>10. /\ ResetConflict(s) \in LocalState /\ ResetConflict(s).id = i
       /\ ResetConflict(s).trusted = s.trusted
       /\ ResetConflict(s).config[i] \in {s.config[i], Bottom}
       /\ Install(s) \in LocalState /\ Install(s).id = i
       /\ Install(s).trusted = s.trusted
       /\ Install(s).config[i] # NotParticipant
            \/ Install(s).config[i] = s.config[i]
       /\ ConfigSet(s, s.trusted) \in LocalState
       /\ ConfigSet(s, s.trusted).id = i
       /\ ConfigSet(s, s.trusted).trusted = s.trusted
       /\ ConfigSet(s, s.trusted).config[i] # NotParticipant
       /\ Increment(s) \in LocalState /\ Increment(s).id = i
       /\ Increment(s).trusted = s.trusted /\ Increment(s).config = s.config
  <2>1. {} \in SUBSET Node
    OBVIOUS
  <2> QED
    BY <1>1, <2>1, DfltNtfType, WrittenType
<1>11. ASSUME Decide(i)
       PROVE  Whole
  <2>1. PICK u \in {ResetConflict(s), Install(s)} :
          /\ Write(i, u)
          /\ \E l \in {"config_set", "increment", "line33"} : Goto(i, l)
    BY <1>11 DEF Decide, s
  <2>2. PICK l \in {"config_set", "increment", "line33"} : Goto(i, l)
    BY <2>1
  <2>3. l \in Label \ {"forget"}
    BY LabelNames
  <2>4. /\ u \in LocalState /\ u.id = i /\ u.trusted = s.trusted
        /\ u.config[i] # NotParticipant \/ u.config[i] = s.config[i]
    BY <1>10, <2>1, SpecialAssumption
  <2>5. /\ i \in up \intersect loop
        /\ UNCHANGED <<up, loop, chan, estabs, suspects, seen, found, echoed,
                       asked>>
    BY <1>11 DEF Decide, At
  <2> HIDE DEF Whole
  <2> QED
    BY <1>9, <2>1, <2>2, <2>3, <2>4, <2>5
<1>12. ASSUME InstallTrusted(i)
       PROVE  Whole
  <2>1. /\ Write(i, ConfigSet(s, s.trusted)) /\ Goto(i, "line33")
        /\ i \in up \intersect loop
        /\ UNCHANGED <<up, loop, chan, estabs, suspects, seen, found, echoed,
                       asked>>
    BY <1>12 DEF InstallTrusted, At, s
  <2>2. "line33" \in Label \ {"forget"}
    BY LabelNames
  <2> HIDE DEF Whole
  <2> QED
    BY <1>9, <1>10, <2>1, <2>2
<1>13. ASSUME NextPhase(i)
       PROVE  Whole
  <2>1. /\ Write(i, Increment(s)) /\ Goto(i, "line33")
        /\ i \in up \intersect loop
        /\ UNCHANGED <<up, loop, chan, estabs, suspects, seen, found, echoed,
                       asked>>
    BY <1>13 DEF NextPhase, At, s
  <2>2. "line33" \in Label \ {"forget"}
    BY LabelNames
  <2> HIDE DEF Whole
  <2> QED
    BY <1>9, <1>10, <2>1, <2>2
<1>14. ASSUME SendStates(i)
       PROVE  Whole
  <2>1. /\ Send(s) /\ Goto(i, "line22") /\ i \in up \intersect loop
        /\ UNCHANGED <<st, up, loop, estabs, suspects, seen, found, echoed,
                       asked>>
    BY <1>14 DEF SendStates, At, s
  <2>2. /\ pc' \in [Node -> Label] /\ pc'[i] # "forget"
        /\ \A k \in Node \ {i} : pc'[k] = pc[k]
    BY <1>1, <2>1, LabelNames DEF Goto
  <2>3. CarriedOK'
    BY <1>1, <2>1, <2>2 DEF CarriedOK
  <2>4. chan' \in [Node -> [Node -> Seq(Message)]]
    BY <1>1, <2>1, SendType
  <2>5. TypeOK'
    BY <1>1, <2>1, <2>4 DEF TypeOK
  <2>6. st' = [st EXCEPT ![i] = s]
    BY <1>1, <2>1 DEF s, TypeOK
  <2>7. LoopStep(i, s)
    BY <1>1, <2>6 DEF LoopStep, s
  <2>8. Rest
    BY <1>1, <2>1, <2>2
  <2> QED
    BY <1>1, <2>3, <2>5, <2>7, <2>8
<1> HIDE DEF Whole
<1>15. Whole
  BY <1>4, <1>5, <1>6, <1>7, <1>8, <1>11, <1>12, <1>13, <1>14 DEF Inside
<1> QED
  BY <1>15 DEF Whole

(* estab() of RecMA's thread, between its test and its assignments. *)
LEMMA ProposeStep ==
  ASSUME ThreadsTypeOK, NEW i \in Node, Propose(i)
  PROVE  /\ CarriedOK' /\ TypeOK' /\ i \in up
         /\ \E s \in LocalState : LoopStep(i, s)
         /\ UNCHANGED <<up, loop, chan, pc, seen>>
<1> DEFINE s == st[i]
           p == [ph |-> 1, set |-> asked[i]]
           u == [s EXCEPT !.prp[i] = p, !.alll[i] = FALSE, !.allSeen = {}]
<1>1. /\ s \in LocalState /\ s.id = i /\ TypeOK
      /\ pc \in [Node -> Label] /\ seen \in [Node -> SUBSET Node]
      /\ found \in [Node -> Ntf] /\ echoed \in [Node -> BOOLEAN]
      /\ asked \in [Node -> {Bottom} \union Proposals]
      /\ Conf(i) = s.config[i]
  BY DEF ThreadsTypeOK, TypeOK, Conf
<1>2. p \in Ntf
  <2>1. asked[i] \in SUBSET Node
    BY <1>1, ProposalsAssumption DEF Propose
  <2> QED
    BY <2>1 DEF Ntf
<1>3. /\ Write(i, u) /\ asked' = [asked EXCEPT ![i] = Bottom] /\ i \in up
      /\ UNCHANGED <<up, loop, chan, estabs, suspects, pc, seen, found, echoed>>
  BY DEF Propose
<1> HIDE DEF s, p
<1>4. /\ u \in LocalState /\ u.id = i
      /\ u.trusted = s.trusted /\ u.config = s.config
  BY <1>1, <1>2 DEF LocalState
<1> HIDE DEF u
<1>5. TypeOK'
  BY <1>1, <1>3, <1>4, WriteType
<1>6. CarriedOK'
  BY <1>1, <1>3 DEF CarriedOK
<1>7. LoopStep(i, u)
  BY <1>1, <1>3, <1>4 DEF LoopStep, Write, s
<1> QED
  BY <1>3, <1>4, <1>5, <1>6, <1>7

LEMMA AskStep ==
  ASSUME ThreadsTypeOK, NEW i \in Node, NEW S \in Proposals, Ask(i, S)
  PROVE  /\ CarriedOK' /\ TypeOK'
         /\ UNCHANGED <<st, up, loop, chan, pc, seen>>
<1>1. /\ asked' = [asked EXCEPT ![i] = S] /\ estabs < MaxEstab
      /\ estabs' = estabs + 1
      /\ UNCHANGED <<st, up, loop, chan, suspects, pc, seen, found, echoed>>
  BY DEF Ask
<1>2. CarriedOK'
  BY <1>1 DEF ThreadsTypeOK, CarriedOK
<1>3. estabs' \in 0..MaxEstab
  BY <1>1, BoundsAssumption DEF ThreadsTypeOK, TypeOK
<1> QED
  BY <1>1, <1>2, <1>3 DEF ThreadsTypeOK, TypeOK

LEMMA ThreadsTypeParts == ThreadsTypeOK <=> TypeOK /\ CarriedOK
BY DEF ThreadsTypeOK, CarriedOK

(* What other threads do to a record leaves what the loop carries. *)
LEMMA NextThreadsType ==
  ASSUME ThreadsTypeOK, [NextThreads]_tvars
  PROVE  ThreadsTypeOK'
<1>1. TypeOK /\ CarriedOK
  BY ThreadsTypeParts
<1>2. ASSUME UNCHANGED vars
      PROVE  TypeOK'
  BY <1>1, <1>2 DEF vars, TypeOK
<1>3. ASSUME UNCHANGED threads
      PROVE  CarriedOK'
  BY <1>1, <1>3 DEF threads, CarriedOK
<1>4. ASSUME NEW i \in Node, ReadPart(i)
      PROVE  TypeOK' /\ CarriedOK'
  BY <1>2, <1>4, ReadPartStep
<1>5. ASSUME NEW i \in Node, NEW j \in Node, Handle(i, j)
      PROVE  TypeOK' /\ CarriedOK'
  <2>1. Next /\ UNCHANGED threads
    BY <1>5 DEF Handle, Next
  <2> QED
    BY <1>1, <1>3, <2>1, NextType
<1>6. ASSUME UNCHANGED tvars
      PROVE  TypeOK' /\ CarriedOK'
  BY <1>2, <1>3, <1>6 DEF tvars
<1>7. TypeOK' /\ CarriedOK'
  BY <1>4, <1>5, <1>6, InsideStep, ProposeStep, AskStep DEF NextThreads
<1> QED
  BY <1>7 DEF ThreadsTypeOK, CarriedOK
-----------------------------------------------------------------------------
(* Participants. *)
Attending ==
  /\ ThreadsTypeOK /\ NothingToOneself /\ up \subseteq loop
  /\ \A i \in up : /\ Conf(i) # NotParticipant
                   /\ i \in st[i].trusted
                   /\ pc[i] = "forget" => i \in seen[i]

(* No step of the loop, of RecMA or of a handler takes one out. *)
LEMMA NextAttending ==
  ASSUME Attending, [NextThreads]_tvars
  PROVE  Attending'
<1>1. /\ ThreadsTypeOK' /\ ThreadsTypeOK /\ TypeOK /\ up \subseteq Node
      /\ \A i \in Node : st[i] \in LocalState /\ st[i].id = i
      /\ NothingToOneself /\ up \subseteq loop
      /\ \A i \in up : /\ Conf(i) # NotParticipant
                       /\ i \in st[i].trusted
                       /\ pc[i] = "forget" => i \in seen[i]
      /\ seen \in [Node -> SUBSET Node]
  BY NextThreadsType DEF Attending, ThreadsTypeOK, TypeOK
<1> DEFINE Kept == /\ NothingToOneself' /\ up' \subseteq loop'
                   /\ \A i \in up' : /\ st'[i].config[i] # NotParticipant
                                     /\ i \in st'[i].trusted
                                     /\ pc'[i] = "forget" => i \in seen'[i]
<1>2. ASSUME NEW i \in up, NEW s, LoopStep(i, s), up' = up
      PROVE  \A k \in up' : /\ st'[k].config[k] # NotParticipant
                            /\ k \in st'[k].trusted
  <2>1. st' = [st EXCEPT ![i] = s] /\ s.trusted = st[i].trusted
    BY <1>2 DEF LoopStep
  <2>2. s.config[i] # NotParticipant
    BY <1>1, <1>2 DEF LoopStep
  <2>3. st \in [Node -> LocalState]
    BY <1>1 DEF TypeOK
  <2> QED
    BY <1>1, <1>2, <2>1, <2>2, <2>3 DEF Conf
<1>3. ASSUME NEW i \in Node, ReadPart(i)
      PROVE  Kept
  <2>1. /\ UNCHANGED vars /\ seen' = [seen EXCEPT ![i] = FdPart(st[i])]
        /\ \A k \in Node \ {i} : pc'[k] = pc[k]
    BY <1>1, <1>3, ReadPartStep
  <2>2. i \in up => i \in FdPart(st[i])
    BY <1>1 DEF FdPart, Conf
  <2>3. \A k \in up : pc'[k] = "forget" => k \in seen'[k]
    BY <1>1, <2>1, <2>2
  <2> QED
    BY <1>1, <2>1, <2>3 DEF vars, Conf, NothingToOneself
<1>4. ASSUME NEW i \in Node, Inside(i)
      PROVE  Kept
  <2>1. /\ i \in up /\ up' = up
        /\ \E s \in LocalState : LoopStep(i, s)
        /\ pc'[i] # "forget" /\ \A k \in Node \ {i} : pc'[k] = pc[k]
        /\ \A k \in Node \ {i} : seen'[k] = seen[k]
        /\ loop' = loop \/ TestStaleness(i)
        /\ chan' = chan \/ \E s \in LocalState : s.id = i /\ Send(s)
    BY <1>1, <1>4, InsideStep
  <2>2. \A k \in up' : /\ st'[k].config[k] # NotParticipant
                       /\ k \in st'[k].trusted
    BY <1>2, <2>1
  <2>3. \A k \in up' : pc'[k] = "forget" => k \in seen'[k]
    BY <1>1, <2>1
  <2>4. NothingToOneself'
    <3>1. CASE chan' = chan
      BY <1>1, <3>1 DEF NothingToOneself
    <3>2. CASE \E s \in LocalState : s.id = i /\ Send(s)
      BY <1>1, <3>2, SendEffect DEF NothingToOneself
    <3> QED
      BY <2>1, <3>1, <3>2
  <2>5. loop' = loop
    <3> SUFFICES ASSUME TestStaleness(i)
                 PROVE  loop' = loop
      BY <2>1
    <3> DEFINE t == Line26([st[i] EXCEPT !.alll[i] = echoed[i]])
    <3>1. /\ t \in LocalState /\ t.id = i /\ t.config = st[i].config
      <4>1. echoed[i] \in BOOLEAN /\ st[i] \in LocalState /\ st[i].id = i
        BY <1>1 DEF ThreadsTypeOK
      <4>2. t = Line26([st[i] EXCEPT !.alll[st[i].id] = echoed[i]])
        BY <4>1
      <4> HIDE DEF t
      <4> QED
        BY <4>1, <4>2, TestedType
    <3>2. \/ loop' = loop
          \/ Raises(t)
      BY DEF TestStaleness
    <3> HIDE DEF t
    <3>3. ~ Raises(t)
      BY <1>1, <2>1, <3>1, RaisesNextToReal DEF Conf
    <3> QED
      BY <3>2, <3>3
  <2> QED
    BY <1>1, <2>1, <2>2, <2>3, <2>4, <2>5
<1>5. ASSUME NEW i \in Node, Propose(i)
      PROVE  Kept
  <2>1. /\ i \in up /\ \E s \in LocalState : LoopStep(i, s)
        /\ UNCHANGED <<up, loop, chan, pc, seen>>
    BY <1>1, <1>5, ProposeStep
  <2>2. \A k \in up' : /\ st'[k].config[k] # NotParticipant
                       /\ k \in st'[k].trusted
    BY <1>2, <2>1
  <2> QED
    BY <1>1, <2>1, <2>2 DEF NothingToOneself
<1>6. ASSUME NEW i \in Node, NEW S \in Proposals, Ask(i, S)
      PROVE  Kept
  <2>1. UNCHANGED <<st, up, loop, chan, pc, seen>>
    BY <1>1, <1>6, AskStep
  <2> QED
    BY <1>1, <2>1 DEF NothingToOneself, Conf
<1>7. ASSUME NEW i \in Node, NEW j \in Node, Receive(i, j), UNCHANGED threads
      PROVE  Kept
  <2> DEFINE m == Head(chan[j][i])
             s == ReceiveMsg(st[i], j, m)
  <2>1. /\ m \in Message /\ chan[j][i] # <<>>
        /\ \A k \in Node : chan[k][k] = <<>> => chan'[k][k] = <<>>
    BY <1>1, <1>7, ReceiptEffect
  <2>2. /\ i \in up /\ up' = up /\ loop' = loop
        /\ st' = [st EXCEPT ![i] = s]
    BY <1>7 DEF Receive
  <2>3. i # j
    BY <1>1, <2>1 DEF NothingToOneself
  <2> HIDE DEF m
  <2>4. s.trusted = st[i].trusted /\ s.config[i] = st[i].config[i]
    BY <1>1, <2>3 DEF ReceiveMsg, LocalState
  <2> HIDE DEF s
  <2>5. \A k \in up' : /\ st'[k].config[k] # NotParticipant
                       /\ k \in st'[k].trusted
    <3>1. st \in [Node -> LocalState]
      BY <1>1 DEF TypeOK
    <3> QED
      BY <1>1, <2>2, <2>4, <3>1 DEF Conf
  <2>6. pc' = pc /\ seen' = seen
    BY <1>7 DEF threads
  <2> QED
    BY <1>1, <2>1, <2>2, <2>5, <2>6 DEF NothingToOneself
<1>8. ASSUME NEW i \in Node, NEW j \in Node, FDToken(i, j), UNCHANGED threads
      PROVE  Kept
  <2>1. PICK s \in LocalState :
           /\ st' = [st EXCEPT ![i] = s]
           /\ s.config = st[i].config /\ i \in s.trusted
    BY <1>1, <1>8, TokenOutcome
  <2>2. /\ i \in up /\ up' = up /\ loop' = loop /\ chan' = chan
        /\ pc' = pc /\ seen' = seen
    BY <1>8 DEF FDToken, threads
  <2>3. \A k \in up' : /\ st'[k].config[k] # NotParticipant
                       /\ k \in st'[k].trusted
    <3>1. st \in [Node -> LocalState]
      BY <1>1 DEF TypeOK
    <3> QED
      BY <1>1, <2>1, <2>2, <3>1 DEF Conf
  <2> QED
    BY <1>1, <2>2, <2>3 DEF NothingToOneself
<1>9. ASSUME UNCHANGED tvars
      PROVE  Kept
  BY <1>1, <1>9 DEF tvars, vars, threads, NothingToOneself, Conf
<1> HIDE DEF Kept
<1>10. Kept
  BY <1>3, <1>4, <1>5, <1>6, <1>7, <1>8, <1>9 DEF NextThreads, Handle
<1> QED
  BY <1>1, <1>10 DEF Attending, Kept, Conf
-----------------------------------------------------------------------------
(* The starts. *)
\* A processor that a transient fault has left with the configurations and
\* notifications c, and with all_seen = seenBy.
CorruptState(i, c, seenBy) ==
  [Steady(i, Node, Node) EXCEPT
     !.config = [k \in Node |-> c[k].config],
     !.prp = [k \in Node |-> c[k].prp],
     !.alll = [k \in Node |-> k \in seenBy],
     !.allSeen = seenBy]

LEMMA CorruptType ==
  ASSUME N > 1, NEW i \in Node, NEW c \in [Node -> Corrupt],
         NEW seenBy \in {{}, Node}
  PROVE  LET s == CorruptState(i, c, seenBy)
         IN  /\ s \in LocalState /\ s.id = i /\ s.trusted = Node
             /\ s.config[i] # NotParticipant
<1> DEFINE f == Steady(i, Node, Node)
           conf == [k \in Node |-> c[k].config]
           ntf == [k \in Node |-> c[k].prp]
           all == [k \in Node |-> k \in seenBy]
<1>1. f \in LocalState /\ f.id = i /\ f.trusted = Node
  BY SteadyValid
<1>2. {0} \in SUBSET Node /\ {1} \in SUBSET Node /\ Node \in SUBSET Node
  BY NAssumption DEF Node
<1>3. \A k \in Node : c[k].config \in {Bottom, {0}, Node} /\ c[k].prp \in CorruptNtf
  BY DEF Corrupt
<1>4. CorruptNtf \subseteq Ntf
  BY <1>2 DEF CorruptNtf, Ntf, DfltNtf
<1>5. conf \in [Node -> Config] /\ \A k \in Node : conf[k] # NotParticipant
  BY <1>2, <1>3, SpecialAssumption DEF Config
<1>6. ntf \in [Node -> Ntf] /\ all \in [Node -> BOOLEAN] /\ seenBy \in SUBSET Node
  BY <1>3, <1>4
<1> HIDE DEF f, conf, ntf, all
<1> DEFINE s == [f EXCEPT !.config = conf, !.prp = ntf, !.alll = all,
                          !.allSeen = seenBy]
<1>7. s \in LocalState /\ s.id = i /\ s.trusted = Node
      /\ s.config[i] # NotParticipant
  BY <1>1, <1>5, <1>6 DEF LocalState
<1> QED
  BY <1>7 DEF s, f, conf, ntf, all, CorruptState

LEMMA ThreadsStart ==
  ASSUME InitThreads, TypeOK
  PROVE  ThreadsTypeOK
BY DfltNtfType DEF InitThreads, ThreadsTypeOK, Label

LEMMA InitCorruptType ==
  ASSUME N > 1, InitCorrupt
  PROVE  /\ TypeOK /\ NothingToOneself /\ up = Node /\ loop = Node
         /\ \A i \in Node : Conf(i) # NotParticipant /\ st[i].trusted = Node
<1>1. PICK c \in [Node -> Corrupt], seenBy \in {{}, Node} :
        st = [i \in Node |-> CorruptState(i, c, seenBy)]
  BY Zenon DEF InitCorrupt, CorruptState
<1>2. /\ st \in [Node -> LocalState]
      /\ \A i \in Node : /\ st[i].id = i /\ st[i].trusted = Node
                         /\ st[i].config[i] # NotParticipant
  <2>1. ASSUME NEW i \in Node
        PROVE  /\ CorruptState(i, c, seenBy) \in LocalState
               /\ CorruptState(i, c, seenBy).id = i
               /\ CorruptState(i, c, seenBy).trusted = Node
               /\ CorruptState(i, c, seenBy).config[i] # NotParticipant
    <3> HIDE DEF Corrupt
    <3> QED
      BY CorruptType
  <2> QED
    BY <1>1, <2>1
<1>3. AllRunning(MaxEstab, MaxSuspect)
  BY DEF InitCorrupt
<1>4. chan \in [Node -> [Node -> Seq(Message)]]
  <2>1. <<>> \in Seq(Message)
    OBVIOUS
  <2> QED
    BY <1>3, <2>1 DEF AllRunning
<1>5. TypeOK
  BY <1>2, <1>3, <1>4, BoundsAssumption DEF AllRunning, TypeOK
<1> QED
  BY <1>2, <1>3, <1>5 DEF AllRunning, NothingToOneself, Conf

(***************************************************************************)
(* Each cut of a pass and of estab() finds what the earlier ones have left *)
(* well typed, whatever messages and tokens came in between, from boot,    *)
(* from rest and from corrupt values, for every number of processors.      *)
(***************************************************************************)
THEOREM ThreadsTypeCorrect == N > 1 => (SpecThreads => []ThreadsTypeOK)
<1> SUFFICES ASSUME N > 1
             PROVE  SpecThreads => []ThreadsTypeOK
  OBVIOUS
<1>1. InitAll => ThreadsTypeOK
  BY InitType, InitCorruptType, ThreadsStart DEF InitAll
<1>2. ThreadsTypeOK /\ [NextThreads]_tvars => ThreadsTypeOK'
  BY NextThreadsType
<1> QED
  BY <1>1, <1>2, PTL DEF SpecThreads

(* Threads of processors that all are participants, resting or corrupt. *)
InitParticipants == (InitSteady \/ InitCorrupt) /\ InitThreads
SpecParticipants == InitParticipants /\ [][NextThreads]_tvars

LEMMA InitAttending ==
  ASSUME N > 1, InitParticipants
  PROVE  Attending
<1>1. /\ TypeOK /\ NothingToOneself /\ up \subseteq loop
      /\ \A i \in up : Conf(i) # NotParticipant /\ i \in st[i].trusted
  <2>1. CASE InitSteady
    BY <2>1, InitSteadyMembers DEF Members, TypeOK
  <2>2. CASE InitCorrupt
    BY <2>2, InitCorruptType
  <2> QED
    BY <2>1, <2>2 DEF InitParticipants
<1>2. \A i \in Node : pc[i] # "forget"
  BY DEF InitParticipants, InitThreads
<1>3. up \subseteq Node
  BY <1>1 DEF TypeOK
<1> QED
  BY <1>1, <1>2, <1>3, ThreadsStart DEF Attending, InitParticipants

(***************************************************************************)
(* No interleaving of threads ends the loop of a participant, whatever a   *)
(* transient fault has left in its variables, whatever wrong set the races *)
(* install and whoever is suspected: a loop that ends needs a processor    *)
(* that has no configuration.                                              *)
(***************************************************************************)
THEOREM ThreadsOutlive == N > 1 => (SpecParticipants => []LoopsRun)
<1> SUFFICES ASSUME N > 1
             PROVE  SpecParticipants => []LoopsRun
  OBVIOUS
<1>1. InitParticipants => Attending
  BY InitAttending
<1>2. Attending /\ [NextThreads]_tvars => Attending'
  BY NextAttending
<1>3. Attending => LoopsRun
  BY DEF Attending, LoopsRun
<1> QED
  BY <1>1, <1>2, <1>3, PTL DEF SpecParticipants
=============================================================================
