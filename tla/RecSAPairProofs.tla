--------------------------- MODULE RecSAPairProofs ---------------------------
(***************************************************************************)
(* Why two processors agree on one proposal at a time, for any proposals   *)
(* and any number of messages under way between them.                      *)
(*                                                                         *)
(* A processor's own notification and flag put it somewhere on a circle of *)
(* six degrees (Stand).  What the other one has stored of it, followed by  *)
(* the messages under way, is a sequence of its earlier stands (Flow) that *)
(* never runs ahead of it nor falls more than a degree behind the other    *)
(* (OneWay).  Each change of a stand waits for the echo of the present     *)
(* one, which is why the two are never more than one degree apart.         *)
(***************************************************************************)
EXTENDS RecSAProofs

Other(i) == 1 - i

LEMMA TwoProcessors ==
  ASSUME N = 2, NEW i \in Node
  PROVE  /\ Node = {0, 1} /\ Node = {i, Other(i)}
         /\ Other(i) \in Node /\ Other(i) # i /\ Other(Other(i)) = i
<1>1. Node = {0, 1}
  BY DEF Node
<1> QED
  BY <1>1 DEF Other
-----------------------------------------------------------------------------
(***************************************************************************)
(* The order of max_lex on the sets of two identifiers: a sorted list is   *)
(* below those that continue it and those that have a larger first member. *)
(***************************************************************************)
Rank(A) == CASE A = Bottom -> -1
             [] A = {} -> 0
             [] A = {0} -> 1
             [] A = {0, 1} -> 2
             [] OTHER -> 3

LEMMA FourSets ==
  ASSUME N = 2
  PROVE  /\ SUBSET Node = {{}, {0}, {0, 1}, {1}}
         /\ \A A \in SUBSET Node : A # Bottom
<1>1. Node = {0, 1}
  BY DEF Node
<1>2. ASSUME NEW A \in SUBSET Node
      PROVE  A \in {{}, {0}, {0, 1}, {1}}
  <2>1. CASE 0 \in A /\ 1 \in A
    BY <1>1, <2>1
  <2>2. CASE 0 \in A /\ 1 \notin A
    BY <1>1, <2>2
  <2>3. CASE 0 \notin A /\ 1 \in A
    BY <1>1, <2>3
  <2>4. CASE 0 \notin A /\ 1 \notin A
    BY <1>1, <2>4
  <2> QED
    BY <2>1, <2>2, <2>3, <2>4
<1> QED
  BY <1>1, <1>2, SpecialAssumption

LEMMA RankOf ==
  ASSUME N = 2
  PROVE  /\ Rank(Bottom) = -1 /\ Rank({}) = 0 /\ Rank({0}) = 1
         /\ Rank({0, 1}) = 2 /\ Rank({1}) = 3
<1>1. /\ {} # Bottom /\ {0} # Bottom /\ {0, 1} # Bottom /\ {1} # Bottom
  BY FourSets
<1>2. {0} # {} /\ {0, 1} # {} /\ {1} # {} /\ {0, 1} # {0} /\ {1} # {0}
      /\ {1} # {0, 1}
  <2>1. 0 \in {0} /\ 0 \in {0, 1} /\ 1 \in {0, 1} /\ 1 \in {1}
    OBVIOUS
  <2>2. 1 \notin {0} /\ 0 \notin {1}
    OBVIOUS
  <2> QED
    BY <2>1, <2>2
<1> QED
  BY <1>1, <1>2 DEF Rank

LEMMA RankType ==
  ASSUME N = 2
  PROVE  /\ \A A \in SUBSET Node : Rank(A) \in 0..3
         /\ \A A, B \in {Bottom} \union SUBSET Node :
              Rank(A) = Rank(B) => A = B
<1>1. \A A \in SUBSET Node : A = {} \/ A = {0} \/ A = {0, 1} \/ A = {1}
  BY FourSets
<1>2. \A A \in SUBSET Node : Rank(A) \in 0..3
  BY <1>1, RankOf
<1>3. ASSUME NEW A \in {Bottom} \union SUBSET Node,
             NEW B \in {Bottom} \union SUBSET Node, Rank(A) = Rank(B)
      PROVE  A = B
  <2>1. \/ A = Bottom \/ A = {} \/ A = {0} \/ A = {0, 1} \/ A = {1}
    BY <1>1
  <2>2. \/ B = Bottom \/ B = {} \/ B = {0} \/ B = {0, 1} \/ B = {1}
    BY <1>1
  <2> QED
    BY <1>3, <2>1, <2>2, RankOf
<1> QED
  BY <1>2, <1>3

(* The order of max_lex is the order of the ranks. *)
LEMMA LexIsRank ==
  ASSUME N = 2, NEW A \in SUBSET Node, NEW B \in SUBSET Node
  PROVE  LexLeq(A, B) <=> Rank(A) <= Rank(B)
<1>1. /\ A \in {{}, {0}, {0, 1}, {1}} /\ B \in {{}, {0}, {0, 1}, {1}}
  BY FourSets
<1>2. Below(A, B) <=> \/ 0 \in A /\ 0 \notin B /\ 1 \in B
  <2>1. Below(A, B) => 0 \in A /\ 0 \notin B /\ 1 \in B
    BY <1>1 DEF Below
  <2>2. 0 \in A /\ 0 \notin B /\ 1 \in B => Below(A, B)
    <3> SUFFICES ASSUME 0 \in A, 0 \notin B, 1 \in B
                 PROVE  Below(A, B)
      OBVIOUS
    <3>1. 0 \in A \ B /\ \E b \in B : b > 0
      OBVIOUS
    <3>2. \A e \in (A \ B) \union (B \ A) : 0 <= e
      BY <1>1
    <3> QED
      BY <3>1, <3>2 DEF Below
  <2> QED
    BY <2>1, <2>2
<1>3. EndsInside(A, B) <=> \/ A = {} /\ B # {}
                           \/ A = {0} /\ B = {0, 1}
  <2>1. CASE A = {} /\ B # {}
    <3>1. CASE 0 \in B
      <4>1. \A e \in (A \ B) \union (B \ A) : 0 <= e
        BY <1>1
      <4> QED
        BY <2>1, <3>1, <4>1 DEF EndsInside
    <3>2. CASE B = {1}
      BY <2>1, <3>2 DEF EndsInside
    <3> QED
      BY <1>1, <2>1, <3>1, <3>2
  <2>2. CASE A = {0} /\ B = {0, 1}
    <3>1. \A e \in (A \ B) \union (B \ A) : 1 <= e
      BY <2>2
    <3>2. 1 \in B \ A /\ \A a \in A : a <= 1
      BY <2>2
    <3> QED
      BY <2>2, <3>1, <3>2 DEF EndsInside
  <2>3. CASE ~ (A = {} /\ B # {}) /\ ~ (A = {0} /\ B = {0, 1})
    BY <1>1, <2>3 DEF EndsInside
  <2> QED
    BY <2>1, <2>2, <2>3
<1>4. LexLeq(A, B) <=> \/ A = B
                       \/ 0 \in A /\ 0 \notin B /\ 1 \in B
                       \/ A = {} /\ B # {}
                       \/ A = {0} /\ B = {0, 1}
  BY <1>2, <1>3 DEF LexLeq
<1> QED
  BY <1>1, <1>4, RankOf

LEMMA MaxOfSets ==
  ASSUME NEW real, real # {}, Bottom \notin real, NEW F, F \ {Bottom} = real,
         NEW B \in real, \A x \in real : LexLeq(x, B),
         \A m \in real : LexLeq(B, m) => m = B
  PROVE  MaxLex(F) = B
<1>1. {m \in real : \A x \in real : LexLeq(x, m)} = {B}
  OBVIOUS
<1>2. MaxLex(F) = UNION {m \in real : \A x \in real : LexLeq(x, m)}
  BY DEF MaxLex
<1> QED
  BY <1>1, <1>2

(* What max_lex returns. *)
LEMMA MaxOfTwo ==
  ASSUME N = 2, NEW A \in {Bottom} \union SUBSET Node,
         NEW B \in {Bottom} \union SUBSET Node
  PROVE  MaxLex({A, B}) = IF Rank(A) <= Rank(B) THEN B ELSE A
<1>1. /\ Rank(Bottom) = -1 /\ \A S \in SUBSET Node : Rank(S) \in 0..3
      /\ \A S \in SUBSET Node : S # Bottom
      /\ \A S, T \in {Bottom} \union SUBSET Node : Rank(S) = Rank(T) => S = T
  BY RankOf, RankType, FourSets
<1>2. ASSUME NEW C \in SUBSET Node, NEW D \in {Bottom} \union SUBSET Node,
             Rank(D) <= Rank(C), NEW F, F = {C, D}
      PROVE  MaxLex(F) = C
  <2> DEFINE real == F \ {Bottom}
  <2>1. real = {C} \union (IF D = Bottom THEN {} ELSE {D})
    BY <1>1, <1>2
  <2>2. \A x \in real : x \in SUBSET Node /\ Rank(x) <= Rank(C)
    <3>1. Rank(C) <= Rank(C)
      BY <1>1
    <3> QED
      BY <1>2, <2>1, <3>1
  <2>3. \A x \in real : LexLeq(x, C)
    BY <2>2, LexIsRank
  <2>4. \A m \in real : LexLeq(C, m) => m = C
    <3> SUFFICES ASSUME NEW m \in real, LexLeq(C, m)
                 PROVE  m = C
      OBVIOUS
    <3>1. m \in SUBSET Node /\ Rank(m) <= Rank(C) /\ Rank(C) <= Rank(m)
      BY <2>2, LexIsRank
    <3>2. Rank(m) = Rank(C)
      BY <1>1, <3>1
    <3> QED
      BY <1>1, <3>1, <3>2
  <2>5. Bottom \notin real /\ C \in real /\ real # {}
    BY <1>1, <2>1
  <2> HIDE DEF real
  <2>6. F \ {Bottom} = real
    BY DEF real
  <2> QED
    BY <2>3, <2>4, <2>5, <2>6, MaxOfSets
<1>3. CASE A = Bottom /\ B = Bottom
  BY <1>3, MaxLexOfNothing
<1>4. CASE B \in SUBSET Node /\ Rank(A) <= Rank(B)
  <2>1. {A, B} = {B, A}
    OBVIOUS
  <2> QED
    BY <1>2, <1>4, <2>1
<1>5. CASE A \in SUBSET Node /\ ~ (Rank(A) <= Rank(B))
  <2>1. Rank(B) <= Rank(A)
    BY <1>1, <1>5
  <2> QED
    BY <1>2, <1>5, <2>1
<1> QED
  <2>1. Rank(A) \in -1..3 /\ Rank(B) \in -1..3
    BY <1>1
  <2>2. A = Bottom => Rank(A) <= Rank(B)
    BY <1>1, <2>1
  <2> QED
    BY <1>1, <1>3, <1>4, <1>5, <2>1, <2>2
-----------------------------------------------------------------------------
(***************************************************************************)
(* Where a notification p with flag a stands: its degree on the circle of  *)
(* six, and the rank of what it proposes.                                  *)
(***************************************************************************)
Stand(p, a) == [c |-> 2 * p.ph + (IF a THEN 1 ELSE 0), r |-> Rank(p.set)]

Succ(c) == IF c = 5 THEN 0 ELSE c + 1

SameStand(v, w) == v.c = w.c /\ v.r = w.r

(***************************************************************************)
(* v is w, or a stand that a processor may have just before w: a smaller   *)
(* proposal of phase 1, or one degree less with the same proposal.         *)
(***************************************************************************)
AtOrBefore(v, w) ==
  \/ v.c = w.c /\ (IF v.c = 2 THEN v.r <= w.r ELSE v.r = w.r)
  \/ w.c = Succ(v.c) /\ (v.c \in 2..4 => v.r = w.r)

Proper(v) == v.c \in 0..5 /\ (IF v.c <= 1 THEN v.r = -1 ELSE v.r \in 1..3)

Sets == {S \in SUBSET Node : S # {}}

Sound(p) == /\ p \in Ntf
            /\ p.ph = 0 => p.set = Bottom
            /\ p.ph # 0 => p.set \in Sets

LEMMA StandProper ==
  ASSUME N = 2, NEW p, Sound(p), NEW a
  PROVE  /\ Proper(Stand(p, a))
         /\ Stand(p, a).c = 2 * p.ph + (IF a THEN 1 ELSE 0)
         /\ Stand(p, a).r = Rank(p.set)
<1>1. p.ph \in 0..2
  BY DEF Sound, Ntf
<1>2. p.ph # 0 => p.set \in SUBSET Node /\ p.set # {}
  BY DEF Sound, Sets
<1>3. p.ph # 0 => Rank(p.set) \in 0..3 /\ Rank(p.set) # Rank({})
  <2>1. {} \in SUBSET Node
    OBVIOUS
  <2> QED
    BY <1>2, <2>1, RankType
<1>4. p.ph # 0 => Rank(p.set) \in 1..3
  BY <1>3, RankOf
<1>5. p.ph = 0 => Rank(p.set) = -1
  BY RankOf DEF Sound
<1> QED
  BY <1>1, <1>4, <1>5 DEF Stand, Proper

(* The proposals of sound notifications are the same when their ranks are. *)
LEMMA SameRank ==
  ASSUME N = 2, NEW p, Sound(p), NEW q, Sound(q)
  PROVE  /\ Rank(p.set) = Rank(q.set) => p.set = q.set
         /\ p.ph = q.ph /\ p.set = q.set => p = q
         /\ p.set \in {Bottom} \union SUBSET Node
<1>1. /\ p.set \in {Bottom} \union SUBSET Node
      /\ q.set \in {Bottom} \union SUBSET Node
      /\ p \in Ntf /\ q \in Ntf
  BY DEF Sound, Sets
<1>2. p.ph = q.ph /\ p.set = q.set => p = q
  BY <1>1 DEF Ntf
<1> QED
  BY <1>1, <1>2, RankType
-----------------------------------------------------------------------------
(***************************************************************************)
(* A processor that trusts both, where both are participants, and has      *)
(* heard so from the other.                                                *)
(***************************************************************************)
PairState(s) ==
  /\ s \in LocalState /\ s.trusted = Node
  /\ \A k \in Node : /\ s.config[k] \in Sets
                     /\ Sound(s.prp[k]) /\ Sound(s.echoPrp[k])
  /\ s.fdPart[Other(s.id)] = Node /\ s.echoPart[Other(s.id)] = Node

Mine(s) == Stand(s.prp[s.id], s.alll[s.id])
Yours(s) == Stand(s.prp[Other(s.id)], s.alll[Other(s.id)])
Echo(s) == Stand(s.echoPrp[Other(s.id)], s.echoAll[Other(s.id)])

(* The processor has seen itself in the step in which it is. *)
SeesItself(s) == s.alll[s.id] <=> s.id \in s.allSeen

LEMMA PairParts ==
  ASSUME N = 2, NEW s, PairState(s)
  PROVE  /\ s.id \in Node /\ Other(s.id) \in Node /\ Other(s.id) # s.id
         /\ Node = {s.id, Other(s.id)}
         /\ FdPart(s) = Node
         /\ Proper(Mine(s)) /\ Proper(Yours(s)) /\ Proper(Echo(s))
<1>1. s.id \in Node
  BY DEF PairState, LocalState
<1>2. Other(s.id) \in Node /\ Other(s.id) # s.id /\ Node = {s.id, Other(s.id)}
  BY <1>1, TwoProcessors
<1>3. FdPart(s) = Node
  <2>1. \A k \in Node : s.config[k] # NotParticipant
    BY NodeNotEmpty DEF PairState, Sets, Real
  <2> QED
    BY <2>1 DEF FdPart, PairState
<1> QED
  BY <1>1, <1>2, <1>3, StandProper DEF PairState, Mine, Yours, Echo

(* Nobody is forgotten. *)
LEMMA PairLine22 ==
  ASSUME N = 2, NEW s, PairState(s)
  PROVE  Line22(s) = s
<1>1. FdPart(s) = Node /\ s \in LocalState
  BY PairParts DEF PairState
<1> DEFINE forget == {k \in Node \ Node :
                   s.config[k] # NotParticipant \/ s.prp[k] # DfltNtf}
<1>2. forget = {}
  OBVIOUS
<1>3. Line22(s) = [s EXCEPT
         !.config = [k \in Node |-> IF k \in forget THEN NotParticipant
                                                    ELSE s.config[k]],
         !.prp = [k \in Node |-> IF k \in forget THEN DfltNtf ELSE s.prp[k]],
         !.monitor = [k \in Node |-> IF k \in forget THEN 0
                                                     ELSE s.monitor[k]]]
  BY <1>1 DEF Line22, Forget
<1> HIDE DEF forget
<1>4. /\ [k \in Node |-> IF k \in forget THEN NotParticipant ELSE s.config[k]]
           = s.config
      /\ [k \in Node |-> IF k \in forget THEN DfltNtf ELSE s.prp[k]] = s.prp
      /\ [k \in Node |-> IF k \in forget THEN 0 ELSE s.monitor[k]] = s.monitor
  BY <1>1, <1>2 DEF LocalState
<1>5. [s EXCEPT !.config = s.config, !.prp = s.prp, !.monitor = s.monitor] = s
  BY <1>1 DEF LocalState
<1> QED
  BY <1>3, <1>4, <1>5

(* A flag that is not set does not count as set, either. *)
FlagIsOwn(s) ==
  \/ s.alll[s.id]
  \/ Other(s.id) \notin s.allSeen
  \/ s.prp[Other(s.id)].ph # (s.prp[s.id].ph + 1) % 3

LEMMA PairDegrees ==
  ASSUME N = 2, NEW s, PairState(s), FlagIsOwn(s)
  PROVE  /\ MyAlll(s, s.id) <=> s.alll[s.id]
         /\ Degree(s, s.id) = Mine(s).c
         /\ Degree(s, Other(s.id)) = Yours(s).c
<1> DEFINE i == s.id
           o == Other(s.id)
<1>1. i \in Node /\ o \in Node /\ o # i /\ Node = {i, o}
  BY PairParts
<1>2. Sound(s.prp[i]) /\ Sound(s.prp[o])
  BY <1>1 DEF PairState
<1>3. s.prp[i].ph \in 0..2 /\ s.prp[o].ph \in 0..2
  BY <1>2 DEF Sound, Ntf
<1>4. s.prp[i].ph # (s.prp[i].ph + 1) % 3
  BY <1>3
<1>5. s.allSeen \subseteq Node
  BY DEF PairState, LocalState
<1>6. MyAlll(s, i) <=> s.alll[i]
  BY <1>1, <1>4, <1>5 DEF MyAlll, FlagIsOwn
<1>7. MyAlll(s, o) <=> s.alll[o]
  BY <1>1 DEF MyAlll
<1>8. Mine(s).c = 2 * s.prp[i].ph + (IF s.alll[i] THEN 1 ELSE 0)
  BY <1>2, StandProper DEF Mine
<1>9. Yours(s).c = 2 * s.prp[o].ph + (IF s.alll[o] THEN 1 ELSE 0)
  BY <1>2, StandProper DEF Yours
<1>10. Degree(s, i) = Mine(s).c
  BY <1>6, <1>8 DEF Degree
<1>11. Degree(s, o) = Yours(s).c
  BY <1>7, <1>9 DEF Degree
<1> QED
  BY <1>6, <1>10, <1>11

LEMMA PairOneAhead ==
  ASSUME N = 2, NEW s, PairState(s), FlagIsOwn(s)
  PROVE  /\ OneAhead(s, s.id)
         /\ OneAhead(s, Other(s.id)) <=> Yours(s).c \in {Mine(s).c, Succ(Mine(s).c)}
<1>1. Mine(s).c \in 0..5 /\ Yours(s).c \in 0..5
  BY PairParts DEF Proper
<1>2. /\ OneAhead(s, s.id) <=> (Mine(s).c - Mine(s).c) % 6 \in {0, 1}
      /\ OneAhead(s, Other(s.id)) <=> (Yours(s).c - Mine(s).c) % 6 \in {0, 1}
  BY PairDegrees DEF OneAhead
<1>3. (Mine(s).c - Mine(s).c) % 6 \in {0, 1}
  BY <1>1
<1>4. (Yours(s).c - Mine(s).c) % 6 \in {0, 1}
        <=> Yours(s).c \in {Mine(s).c, Succ(Mine(s).c)}
  BY <1>1 DEF Succ
<1> QED
  BY <1>2, <1>3, <1>4

Joins(s) == s.prp[s.id].ph = 0 /\ s.prp[Other(s.id)].ph = 1

(* max_ntf between two. *)
LEMMA PairLine23 ==
  ASSUME N = 2, NEW s, PairState(s), FlagIsOwn(s), NEW o, o = Other(s.id)
  PROVE  LET b == Line23(s)
             i == s.id
         IN  /\ Yours(s).c \notin {Mine(s).c, Succ(Mine(s).c)} => b = s
             /\ Yours(s).c \in {Mine(s).c, Succ(Mine(s).c)} =>
                  b = [s EXCEPT
                    !.prp = [s.prp EXCEPT ![i] =
                      [ph |-> IF Joins(s) THEN 1 ELSE s.prp[i].ph,
                       set |-> IF Rank(s.prp[i].set) <= Rank(s.prp[o].set)
                               THEN s.prp[o].set ELSE s.prp[i].set]],
                    !.allSeen = IF Joins(s) THEN {} ELSE s.allSeen]
<1> DEFINE i == s.id
<1>1. /\ i \in Node /\ o \in Node /\ o # i /\ Node = {i, o} /\ FdPart(s) = Node
      /\ s \in LocalState
  BY PairParts DEF PairState
<1>2. Sound(s.prp[i]) /\ Sound(s.prp[o])
  BY <1>1 DEF PairState
<1>3. (\A k \in FdPart(s) : OneAhead(s, k))
        <=> Yours(s).c \in {Mine(s).c, Succ(Mine(s).c)}
  BY <1>1, PairOneAhead
<1>4. JoinsPhaseOne(s) <=> Joins(s)
  <2>1. {s.prp[k].ph : k \in FdPart(s)} = {s.prp[i].ph, s.prp[o].ph}
    BY <1>1
  <2>2. s.prp[i].ph \in 0..2 /\ s.prp[o].ph \in 0..2
    BY <1>2 DEF Sound, Ntf
  <2>3. JoinsPhaseOne(s) <=> /\ 1 \in {s.prp[i].ph, s.prp[o].ph}
                             /\ 2 \notin {s.prp[i].ph, s.prp[o].ph}
                             /\ s.prp[i].ph # 1
    BY <2>1 DEF JoinsPhaseOne
  <2> QED
    BY <2>2, <2>3 DEF Joins
<1>5. MaxLex({s.prp[k].set : k \in FdPart(s)})
        = IF Rank(s.prp[i].set) <= Rank(s.prp[o].set)
          THEN s.prp[o].set ELSE s.prp[i].set
  <2>1. {s.prp[k].set : k \in FdPart(s)} = {s.prp[i].set, s.prp[o].set}
    BY <1>1
  <2>2. /\ s.prp[i].set \in {Bottom} \union SUBSET Node
        /\ s.prp[o].set \in {Bottom} \union SUBSET Node
    BY <1>2, SameRank
  <2> QED
    BY <2>1, <2>2, MaxOfTwo
<1> DEFINE ph == IF JoinsPhaseOne(s) THEN 1 ELSE s.prp[i].ph
           set == MaxLex({s.prp[k].set : k \in FdPart(s)})
           seen == IF JoinsPhaseOne(s) THEN {} ELSE s.allSeen
           max == IF Rank(s.prp[i].set) <= Rank(s.prp[o].set)
                  THEN s.prp[o].set ELSE s.prp[i].set
<1>6. Line23(s) = IF \A k \in FdPart(s) : OneAhead(s, k)
                  THEN [s EXCEPT !.prp[i] = [ph |-> ph, set |-> set],
                                 !.allSeen = seen]
                  ELSE s
  BY DEF Line23
<1>7. /\ ph = IF Joins(s) THEN 1 ELSE s.prp[i].ph
      /\ seen = IF Joins(s) THEN {} ELSE s.allSeen
      /\ set = max
  BY <1>4, <1>5
<1> HIDE DEF ph, set, seen, max
<1>8. [s EXCEPT !.prp[i] = [ph |-> ph, set |-> set], !.allSeen = seen]
        = [s EXCEPT !.prp = [s.prp EXCEPT ![i] = [ph |-> ph, set |-> max]],
                    !.allSeen = seen]
  BY <1>1, <1>7
<1> QED
  BY <1>3, <1>6, <1>7, <1>8 DEF max

Ahead(s) == Yours(s).c \in {Mine(s).c, Succ(Mine(s).c)}

(* What the owner proposes when the staleness tests run. *)
Adopted(s) ==
  LET p == s.prp[s.id]
      q == s.prp[Other(s.id)]
  IN  IF Ahead(s) THEN [ph |-> IF Joins(s) THEN 1 ELSE p.ph,
                        set |-> IF Rank(p.set) <= Rank(q.set) THEN q.set
                                                              ELSE p.set]
                  ELSE p

LEMMA AdoptedSound ==
  ASSUME N = 2, NEW s, PairState(s)
  PROVE  Sound(Adopted(s))
<1> DEFINE p == s.prp[s.id]
           q == s.prp[Other(s.id)]
           max == IF Rank(p.set) <= Rank(q.set) THEN q.set ELSE p.set
           ph == IF Joins(s) THEN 1 ELSE p.ph
<1>1. Sound(p) /\ Sound(q)
  BY PairParts DEF PairState
<1>2. p.ph \in 0..2 /\ q.ph \in 0..2 /\ ph \in 0..2
  BY <1>1 DEF Sound, Ntf
<1>3. max \in {Bottom} \union SUBSET Node
  BY <1>1, SameRank
<1>4. ASSUME Ahead(s)
      PROVE  (ph = 0 => max = Bottom) /\ (ph # 0 => max \in Sets)
  <2>1. /\ Rank(Bottom) = -1 /\ \A S \in Sets : Rank(S) \in 0..3
    BY RankOf, RankType DEF Sets
  <2>2. /\ p.ph = 0 => p.set = Bottom
        /\ p.ph # 0 => p.set \in Sets
        /\ q.ph = 0 => q.set = Bottom
        /\ q.ph # 0 => q.set \in Sets
    BY <1>1 DEF Sound
  <2>3. /\ Mine(s).c \in 0..5 /\ Yours(s).c \in 0..5
        /\ Mine(s).c \in {2 * p.ph, 2 * p.ph + 1}
        /\ Yours(s).c \in {2 * q.ph, 2 * q.ph + 1}
    <3>1. Mine(s) = Stand(p, s.alll[s.id])
          /\ Yours(s) = Stand(q, s.alll[Other(s.id)])
      BY DEF Mine, Yours
    <3>2. /\ Mine(s).c = 2 * p.ph + (IF s.alll[s.id] THEN 1 ELSE 0)
          /\ Yours(s).c = 2 * q.ph + (IF s.alll[Other(s.id)] THEN 1 ELSE 0)
      BY <1>1, <3>1, StandProper
    <3>3. Proper(Mine(s)) /\ Proper(Yours(s))
      BY PairParts
    <3> HIDE DEF p, q
    <3> QED
      BY <1>2, <3>2, <3>3 DEF Proper
  <2>4. p.ph = 0 => q.ph \in {0, 1}
    BY <1>2, <1>4, <2>3 DEF Ahead, Succ
  <2>5. CASE p.ph = 0 /\ q.ph = 0
    BY <2>1, <2>2, <2>5 DEF Joins
  <2>6. CASE p.ph = 0 /\ q.ph = 1
    <3>1. ph = 1 /\ q.set \in Sets /\ Rank(p.set) = -1 /\ Rank(q.set) \in 0..3
      BY <2>1, <2>2, <2>6 DEF Joins
    <3> QED
      BY <3>1
  <2>7. CASE p.ph # 0
    <3>1. ph # 0 /\ p.set \in Sets /\ Rank(p.set) \in 0..3
      BY <2>1, <2>2, <2>7 DEF Joins
    <3>2. q.set = Bottom => ~ (Rank(p.set) <= Rank(q.set))
      BY <2>1, <3>1
    <3> QED
      BY <2>2, <3>1, <3>2
  <2> QED
    BY <1>2, <2>4, <2>5, <2>6, <2>7
<1>5. ASSUME Ahead(s)
      PROVE  Sound([ph |-> ph, set |-> max])
  <2> HIDE DEF ph, max
  <2>1. [ph |-> ph, set |-> max] \in Ntf
    BY <1>2, <1>3 DEF Ntf
  <2> QED
    BY <1>4, <1>5, <2>1 DEF Sound
<1>6. Adopted(s) = IF Ahead(s) THEN [ph |-> ph, set |-> max] ELSE p
  BY DEF Adopted
<1> HIDE DEF ph, max, p
<1> QED
  BY <1>1, <1>5, <1>6

(* Lines 22 to 26 between two. *)
LEMMA PairBeforeTests ==
  ASSUME N = 2, NEW s, PairState(s), FlagIsOwn(s), NEW t \in BeforeTests(s),
         NEW i, i = s.id, NEW o, o = Other(s.id)
  PROVE  /\ PairState(t) /\ t.id = i
         /\ t.config = s.config /\ t.echoPrp = s.echoPrp
         /\ t.echoAll = s.echoAll
         /\ t.prp[o] = s.prp[o] /\ t.prp[i] = Adopted(s)
         /\ t.alll[o] <=> s.alll[o]
         /\ t.alll[i] <=> Adopted(s) = s.echoPrp[o]
         /\ t.allSeen = (IF Ahead(s) /\ Joins(s) THEN {} ELSE s.allSeen)
                          \union {k \in Node : t.alll[k]}
<1>1. /\ i \in Node /\ o \in Node /\ o # i /\ Node = {i, o} /\ FdPart(s) = Node
      /\ s \in LocalState /\ s.trusted = Node
  BY PairParts DEF PairState
<1> DEFINE b == Line23(s)
           c == Line25(b)
<1>2. b \in LocalState /\ c \in LocalState /\ t = Line26(c) /\ t \in LocalState
  BY <1>1, PairLine22, Line23Type, Line25Type, BeforeTestsType DEF BeforeTests
<1> DEFINE seen == IF Ahead(s) /\ Joins(s) THEN {} ELSE s.allSeen
<1>3. /\ b.id = i /\ b.trusted = Node /\ b.config = s.config
      /\ b.fdPart = s.fdPart /\ b.echoPart = s.echoPart
      /\ b.echoPrp = s.echoPrp /\ b.echoAll = s.echoAll /\ b.alll = s.alll
      /\ b.prp[i] = Adopted(s) /\ b.prp[o] = s.prp[o]
      /\ b.allSeen = seen
  <2>1. CASE ~ Ahead(s)
    <3>1. b = s
      BY <2>1, PairLine23 DEF Ahead
    <3> QED
      BY <1>1, <2>1, <3>1 DEF Adopted
  <2>2. CASE Ahead(s)
    <3>1. b = [s EXCEPT !.prp = [s.prp EXCEPT ![i] = Adopted(s)],
                        !.allSeen = IF Joins(s) THEN {} ELSE s.allSeen]
      BY <2>2, PairLine23 DEF Ahead, Adopted
    <3> HIDE DEF b
    <3> QED
      BY <1>1, <2>2, <3>1 DEF LocalState
  <2> QED
    BY <2>1, <2>2
<1> HIDE DEF b, seen
<1>4. FdPart(b) = Node
  BY <1>1, <1>3 DEF FdPart
<1>5. (\A k \in FdPart(b) : EchoNoAll(b, k)) <=> Adopted(s) = s.echoPrp[o]
  <2>1. EchoNoAll(b, i)
    BY <1>3 DEF EchoNoAll, EchoPartOf, EchoPrpOf
  <2>2. EchoNoAll(b, o) <=> Adopted(s) = s.echoPrp[o]
    <3>1. b.echoPart[o] = Node
      BY <1>1, <1>3 DEF PairState
    <3> QED
      BY <1>1, <1>3, <1>4, <3>1 DEF EchoNoAll, EchoPartOf, EchoPrpOf
  <2> QED
    BY <1>1, <1>4, <2>1, <2>2
<1>6. /\ c.id = i /\ c.trusted = Node /\ c.config = s.config
      /\ c.fdPart = s.fdPart /\ c.echoPart = s.echoPart
      /\ c.echoPrp = s.echoPrp /\ c.echoAll = s.echoAll
      /\ c.prp = b.prp /\ c.allSeen = seen
      /\ c.alll = [s.alll EXCEPT ![i] = \A k \in FdPart(b) : EchoNoAll(b, k)]
  BY <1>2, <1>3 DEF Line25, LocalState
<1>7. /\ c.alll[i] <=> Adopted(s) = s.echoPrp[o]
      /\ c.alll[o] <=> s.alll[o]
  BY <1>1, <1>5, <1>6 DEF LocalState
<1> HIDE DEF c
<1>8. FdPart(c) = Node
  BY <1>1, <1>3, <1>4, <1>6 DEF FdPart
<1>9. /\ t.id = i /\ t.trusted = Node /\ t.config = s.config
      /\ t.fdPart = s.fdPart /\ t.echoPart = s.echoPart
      /\ t.echoPrp = s.echoPrp /\ t.echoAll = s.echoAll
      /\ t.prp = b.prp /\ t.alll = c.alll
      /\ t.allSeen = seen \union {k \in Node : t.alll[k]}
  BY <1>2, <1>6, <1>8 DEF Line26, LocalState
<1>10. PairState(t)
  <2>1. \A k \in Node : Sound(t.prp[k])
    BY <1>1, <1>3, <1>9, AdoptedSound DEF PairState
  <2> QED
    BY <1>1, <1>2, <1>9, <2>1 DEF PairState
<1> QED
  BY <1>3, <1>7, <1>9, <1>10 DEF seen
-----------------------------------------------------------------------------
(* When no staleness test fires between two. *)
Fresh(t) ==
  LET p == t.prp[t.id]
      q == t.prp[Other(t.id)]
  IN  /\ \/ Mine(t).c = Yours(t).c
         \/ Yours(t).c = Succ(Mine(t).c)
         \/ Mine(t).c = Succ(Yours(t).c)
      /\ q.ph = (p.ph + 1) % 3 => Other(t.id) \in t.allSeen
      /\ (p.ph = 2 /\ q.ph # 0) \/ (q.ph = 2 /\ p.ph # 0) => p.set = q.set

LEMMA PairNotStale ==
  ASSUME N = 2, NEW t, PairState(t), FlagIsOwn(t), Fresh(t)
  PROVE  ~ Raises(t) /\ Line24(t) = t
<1> DEFINE i == t.id
           o == Other(t.id)
           p == t.prp[i]
           q == t.prp[o]
<1>1. /\ i \in Node /\ o \in Node /\ o # i /\ Node = {i, o} /\ FdPart(t) = Node
  BY PairParts
<1>2. /\ Sound(p) /\ Sound(q) /\ p.ph \in 0..2 /\ q.ph \in 0..2
  BY <1>1 DEF PairState, Sound, Ntf
<1>3. ~ StaleInfoType1(t)
  BY DEF StaleInfoType1, PairState, Sound
<1>4. \A k \in Node : Real(t.config[k]) /\ t.config[k] # {}
                      /\ t.config[k] \subseteq Node
  BY NodeNotEmpty DEF PairState, Sets
<1>5. ~ StaleInfoType2(t)
  BY <1>4 DEF StaleInfoType2, Real
<1>6. ~ StaleInfoType3(t)
  <2>1. /\ Mine(t).c \in 0..5 /\ Yours(t).c \in 0..5
        /\ Degree(t, i) = Mine(t).c /\ Degree(t, o) = Yours(t).c
    BY PairParts, PairDegrees DEF Proper
  <2>2. CorrDeg(t, i, i) /\ CorrDeg(t, i, o)
    <3>1. (Mine(t).c - Mine(t).c) % 6 = 0
      BY <2>1
    <3>2. (Mine(t).c - Yours(t).c) % 6 \in {0, 1, 5}
      BY <2>1 DEF Fresh, Succ
    <3> QED
      BY <2>1, <3>1, <3>2 DEF CorrDeg
  <2>3. p.ph # (p.ph + 1) % 3
    BY <1>2
  <2>4. {k \in FdPart(t) : t.prp[k].ph = (p.ph + 1) % 3} \subseteq t.allSeen
    BY <1>1, <2>3 DEF Fresh
  <2>5. {t.prp[k].set : k \in FdPart(t)} = {p.set, q.set}
    BY <1>1
  <2>6. (\E k \in FdPart(t) : t.prp[k].ph = 2) =>
          \A a, b \in {p.set, q.set} \ {Bottom} : a = b
    <3>1. /\ p.ph = 0 => p.set = Bottom
          /\ q.ph = 0 => q.set = Bottom
      BY <1>2 DEF Sound
    <3> QED
      BY <1>1, <3>1 DEF Fresh
  <2> QED
    BY <1>1, <2>2, <2>4, <2>5, <2>6 DEF StaleInfoType3
<1>7. ~ StaleInfoType4(t) /\ ~ StaleInfoType4Raises(t)
  <2>1. FdPart(t) \intersect t.config[i] # {}
    BY <1>1, <1>4
  <2> QED
    BY <1>1, <1>4, <2>1 DEF StaleInfoType4, StaleInfoType4Raises, Real
<1>8. ~ NoParticipantsAndStableMonitors(t)
  BY <1>1, <1>4 DEF NoParticipantsAndStableMonitors, PairState, Real
<1> QED
  BY <1>3, <1>5, <1>6, <1>7, <1>8 DEF Raises, Line24, StaleBeforeType4

(* Does the owner move on to the next phase? *)
MovesOn(t) ==
  LET o == Other(t.id)
  IN  /\ t.alll[t.id] /\ o \in t.allSeen
      /\ t.prp[t.id] = t.echoPrp[o] /\ t.echoAll[o] /\ Ahead(t)

InPhaseTwo(t) == t.prp[t.id].ph = 2 /\ t.alll[t.id]

LEMMA PairInstall ==
  ASSUME N = 2, NEW t, PairState(t), NEW i, i = t.id,
         NEW w, w = Install(t)
  PROVE  /\ w = [t EXCEPT !.config = w.config]
         /\ w.config = [t.config EXCEPT ![i] = IF InPhaseTwo(t) THEN t.prp[i].set
                                                      ELSE t.config[i]]
         /\ PairState(w)
<1>1. i \in Node /\ t \in LocalState
  BY PairParts DEF PairState
<1>2. w = [t EXCEPT !.config = w.config]
  BY <1>1 DEF Install, LocalState
<1>3. w.config = [t.config EXCEPT ![i] = IF InPhaseTwo(t) THEN t.prp[i].set
                                                ELSE t.config[i]]
  BY <1>1 DEF Install, InPhaseTwo, LocalState
<1>4. InPhaseTwo(t) => t.prp[i].set \in Sets
  BY <1>1 DEF InPhaseTwo, PairState, Sound
<1>5. w \in LocalState
  BY <1>1, InstallType
<1>6. \A k \in Node : w.config[k] \in Sets
  BY <1>1, <1>3, <1>4 DEF LocalState, PairState
<1> HIDE DEF Install
<1>7. /\ w.id = i /\ w.trusted = t.trusted /\ w.prp = t.prp
      /\ w.fdPart = t.fdPart /\ w.echoPart = t.echoPart /\ w.echoPrp = t.echoPrp
  BY <1>1, <1>2 DEF LocalState
<1>8. PairState(w)
  BY <1>5, <1>6, <1>7 DEF PairState
<1> QED
  BY <1>2, <1>3, <1>8

LEMMA PairMovesOn ==
  ASSUME N = 2, NEW w, PairState(w), FlagIsOwn(w)
  PROVE  (AllSeenFun(w) /\ \A k \in FdPart(w) : EchoFun(w, k)) <=> MovesOn(w)
<1> DEFINE i == w.id
           o == Other(w.id)
<1>1. /\ i \in Node /\ o \in Node /\ o # i /\ Node = {i, o} /\ FdPart(w) = Node
  BY PairParts
<1>2. AllSeenFun(w) <=> w.alll[i] /\ o \in w.allSeen
  BY <1>1 DEF AllSeenFun
<1>3. MyAlll(w, i) <=> w.alll[i]
  BY PairDegrees
<1>4. OneAhead(w, i) /\ (OneAhead(w, o) <=> Ahead(w))
  BY PairOneAhead DEF Ahead
<1>5. EchoNoAll(w, i) /\ (EchoNoAll(w, o) <=> w.prp[i] = w.echoPrp[o])
  BY <1>1 DEF EchoNoAll, EchoPartOf, EchoPrpOf, PairState
<1>6. w.echoAll[o] \in BOOLEAN /\ w.alll[i] \in BOOLEAN
  BY <1>1 DEF PairState, LocalState
<1>7. MyAlll(w, i) \in BOOLEAN
  BY DEF MyAlll
<1>8. ASSUME w.alll[i]
      PROVE  /\ MyAlll(w, i) = EchoAllOf(w, i)
             /\ MyAlll(w, i) = EchoAllOf(w, o) <=> w.echoAll[o]
  <2>1. MyAlll(w, i) = TRUE /\ w.alll[i] = TRUE
    BY <1>3, <1>6, <1>7, <1>8
  <2>2. EchoAllOf(w, i) = w.alll[i] /\ EchoAllOf(w, o) = w.echoAll[o]
    BY <1>1 DEF EchoAllOf
  <2>3. (TRUE = w.echoAll[o]) <=> w.echoAll[o]
    BY <1>6
  <2> QED
    BY <2>1, <2>2, <2>3
<1>9. ASSUME w.alll[i]
      PROVE  EchoFun(w, i) /\ (EchoFun(w, o) <=> /\ w.prp[i] = w.echoPrp[o]
                                                /\ w.echoAll[o] /\ Ahead(w))
  BY <1>4, <1>5, <1>8, <1>9 DEF EchoFun
<1>10. (\A k \in FdPart(w) : EchoFun(w, k)) <=> EchoFun(w, i) /\ EchoFun(w, o)
  BY <1>1
<1> QED
  BY <1>2, <1>9, <1>10 DEF MovesOn

(* The delicate replacement between two. *)
LEMMA PairDelicate ==
  ASSUME N = 2, NEW t, PairState(t), FlagIsOwn(t), NEW u, u = Delicate(t),
         NEW i, i = t.id, NEW o, o = Other(t.id)
  PROVE  /\ PairState(u) /\ u.id = i
         /\ u.config = [t.config EXCEPT ![i] = IF InPhaseTwo(t) THEN t.prp[i].set
                                                      ELSE t.config[i]]
         /\ u.prp[o] = t.prp[o] /\ (u.alll[o] <=> t.alll[o])
         /\ u.echoPrp = t.echoPrp /\ u.echoAll = t.echoAll
         /\ ~ MovesOn(t) \/ t.prp[i].ph = 0 =>
              u.prp[i] = t.prp[i] /\ (u.alll[i] <=> t.alll[i])
         /\ ~ MovesOn(t) => u.allSeen = t.allSeen
         /\ MovesOn(t) => u.allSeen = {}
         /\ MovesOn(t) /\ t.prp[i].ph # 0 => ~ u.alll[i]
         /\ MovesOn(t) /\ t.prp[i].ph = 1 =>
              u.prp[i] = [ph |-> 2, set |-> t.prp[i].set]
         /\ MovesOn(t) /\ t.prp[i].ph = 2 => u.prp[i] = DfltNtf
<1> DEFINE w == Install(t)
<1>1. /\ i \in Node /\ o \in Node /\ o # i /\ Node = {i, o}
      /\ t \in LocalState
  BY PairParts DEF PairState
<1>2. /\ w = [t EXCEPT !.config = w.config]
      /\ w.config = [t.config EXCEPT ![i] = IF InPhaseTwo(t) THEN t.prp[i].set
                                                ELSE t.config[i]]
      /\ PairState(w)
  BY PairInstall
<1>3. w \in LocalState
  BY <1>2 DEF PairState
<1> HIDE DEF w
<1>4. /\ w.id = i /\ w.trusted = t.trusted /\ w.prp = t.prp /\ w.alll = t.alll
      /\ w.fdPart = t.fdPart /\ w.echoPart = t.echoPart
      /\ w.echoPrp = t.echoPrp /\ w.echoAll = t.echoAll
      /\ w.allSeen = t.allSeen
  BY <1>1, <1>2 DEF LocalState
<1>5. FlagIsOwn(w) /\ (MovesOn(w) <=> MovesOn(t))
  BY <1>4 DEF FlagIsOwn, MovesOn, Ahead, Mine, Yours
<1>6. u = IF MovesOn(t) THEN Increment(w) ELSE w
  BY <1>2, <1>5, PairMovesOn DEF Delicate, w
<1> DEFINE p == w.prp[i]
<1>7. p = t.prp[i] /\ Sound(p) /\ p.ph \in 0..2
  BY <1>1, <1>4 DEF PairState, Sound, Ntf
<1>8. CASE ~ MovesOn(t)
  <2>1. u = w
    BY <1>6, <1>8
  <2> QED
    BY <1>2, <1>4, <1>8, <2>1
<1>9. CASE MovesOn(t)
  <2>1. u = Increment(w) /\ u \in LocalState
    BY <1>3, <1>6, <1>9, IncrementType
  <2>2. CASE p.ph = 1
    <3>1. u = [w EXCEPT !.prp[i] = [ph |-> 2, set |-> p.set],
                        !.alll[i] = FALSE, !.allSeen = {}]
      BY <1>4, <2>1, <2>2 DEF Increment
    <3>2. /\ u.id = i /\ u.trusted = w.trusted /\ u.config = w.config
          /\ u.fdPart = w.fdPart /\ u.echoPart = w.echoPart
          /\ u.echoPrp = w.echoPrp /\ u.echoAll = w.echoAll
          /\ u.prp = [w.prp EXCEPT ![i] = [ph |-> 2, set |-> p.set]]
          /\ u.alll = [w.alll EXCEPT ![i] = FALSE] /\ u.allSeen = {}
      BY <1>3, <1>4, <3>1 DEF LocalState
    <3>3. /\ u.prp[i] = [ph |-> 2, set |-> p.set] /\ u.prp[o] = w.prp[o]
          /\ ~ u.alll[i] /\ (u.alll[o] <=> w.alll[o])
      BY <1>1, <1>3, <3>2 DEF LocalState
    <3>4. Sound(u.prp[i])
      <4>1. p.set \in Sets /\ p.set \in {Bottom} \union SUBSET Node
        BY <1>7, <2>2, SameRank DEF Sound
      <4>2. [ph |-> 2, set |-> p.set] \in Ntf
        BY <4>1 DEF Ntf
      <4> QED
        BY <3>3, <4>1, <4>2 DEF Sound
    <3>5. PairState(u)
      BY <1>1, <1>2, <1>4, <2>1, <3>2, <3>3, <3>4 DEF PairState
    <3> QED
      BY <1>2, <1>4, <1>7, <1>9, <2>2, <3>2, <3>3, <3>5
  <2>3. CASE p.ph = 2
    <3>1. u = [w EXCEPT !.prp[i] = DfltNtf,
                        !.alll[i] = FALSE, !.allSeen = {}]
      BY <1>4, <2>1, <2>3 DEF Increment
    <3>2. /\ u.id = i /\ u.trusted = w.trusted /\ u.config = w.config
          /\ u.fdPart = w.fdPart /\ u.echoPart = w.echoPart
          /\ u.echoPrp = w.echoPrp /\ u.echoAll = w.echoAll
          /\ u.prp = [w.prp EXCEPT ![i] = DfltNtf]
          /\ u.alll = [w.alll EXCEPT ![i] = FALSE] /\ u.allSeen = {}
      BY <1>3, <1>4, <3>1 DEF LocalState
    <3>3. /\ u.prp[i] = DfltNtf /\ u.prp[o] = w.prp[o]
          /\ ~ u.alll[i] /\ (u.alll[o] <=> w.alll[o])
      BY <1>1, <1>3, <3>2 DEF LocalState
    <3>4. Sound(u.prp[i])
      BY <3>3, DfltNtfType DEF Sound, DfltNtf
    <3>5. PairState(u)
      BY <1>1, <1>2, <1>4, <2>1, <3>2, <3>3, <3>4 DEF PairState
    <3> QED
      BY <1>2, <1>4, <1>7, <1>9, <2>3, <3>2, <3>3, <3>5
  <2>4. CASE p.ph = 0
    <3>1. u = [w EXCEPT !.allSeen = {}]
      BY <1>4, <2>1, <2>4 DEF Increment
    <3>2. /\ u.id = i /\ u.trusted = w.trusted /\ u.config = w.config
          /\ u.fdPart = w.fdPart /\ u.echoPart = w.echoPart
          /\ u.echoPrp = w.echoPrp /\ u.echoAll = w.echoAll
          /\ u.prp = w.prp /\ u.alll = w.alll /\ u.allSeen = {}
      BY <1>3, <1>4, <3>1 DEF LocalState
    <3>3. PairState(u)
      BY <1>1, <1>2, <1>4, <2>1, <3>2 DEF PairState
    <3> QED
      BY <1>2, <1>4, <1>7, <1>9, <2>4, <3>2, <3>3
  <2> QED
    BY <1>7, <2>2, <2>3, <2>4
<1> QED
  BY <1>8, <1>9
-----------------------------------------------------------------------------
(* One pass in terms of stands. *)
PhaseAt(c) == IF c <= 1 THEN 0 ELSE IF c <= 3 THEN 1 ELSE 2

(* y is the stand x of a processor that has just been replaced by max_ntf  *)
(* and the echoes, when that of the other is w and the other echoed e.     *)
BeforeTestsStand(x, w, e, y) ==
  LET ahead == w.c \in {x.c, Succ(x.c)}
      ph == IF ahead /\ PhaseAt(x.c) = 0 /\ PhaseAt(w.c) = 1 THEN 1
                                                             ELSE PhaseAt(x.c)
  IN  /\ y.r = IF ahead /\ x.r <= w.r THEN w.r ELSE x.r
      /\ y.c = 2 * ph + (IF ph = PhaseAt(e.c) /\ y.r = e.r THEN 1 ELSE 0)

(***************************************************************************)
(* How a pass, or a call of estab(), may change the stand x of a processor *)
(* into y, when that of the other is w and the other echoed e: it stays;   *)
(* it moves on by one degree, when the other has echoed x and is not       *)
(* behind, nor of another mind in phase 1; it takes up a proposal when     *)
(* the other has echoed its rest; or it adopts a larger one in phase 1.    *)
(***************************************************************************)
StaysAt(x, y) == SameStand(x, y)
StepsOn(x, w, e, y) ==
  /\ SameStand(e, x) /\ x.c # 1 /\ (x.c = 2 /\ w.c = 2 => w.r = x.r)
  /\ y.c = Succ(x.c) /\ y.r = IF x.c = 5 THEN -1 ELSE x.r
TakesUp(x, w, e, y) ==
  SameStand(e, x) /\ x.c = 1 /\ w.c \in {1, 2} /\ y.c = 2
Adopts(x, w, y) == x.c = 2 /\ w.c = 2 /\ x.r < w.r /\ y.c = 2 /\ y.r = w.r

Changes(x, w, e, y) == \/ StaysAt(x, y)
                       \/ StepsOn(x, w, e, y)
                       \/ TakesUp(x, w, e, y)
                       \/ Adopts(x, w, y)

LEMMA BeforeTestsNumbers ==
  ASSUME NEW x, NEW w, NEW e, NEW y, Proper(x), Proper(w), Proper(e),
         AtOrBefore(e, x), AtOrBefore(e, w),
         x.c = 2 /\ w.c = 3 => x.r = w.r,
         x.c = 3 /\ w.c = 2 => x.r = w.r,
         BeforeTestsStand(x, w, e, y)
  PROVE  /\ Proper(y) /\ Changes(x, w, e, y)
         /\ w.c = y.c \/ w.c = Succ(y.c) \/ y.c = Succ(w.c)
         /\ y.c \in {3, 5} /\ w.c = Succ(y.c) => x.c = y.c
         /\ ~ (y.c <= 1 /\ w.c \in {2, 3})
         /\ PhaseAt(y.c) = 2 /\ PhaseAt(w.c) # 0 => y.r = w.r
         /\ PhaseAt(y.c) # 0 /\ PhaseAt(w.c) = 2 => y.r = w.r
         /\ AtOrBefore(w, y) \/ (SameStand(e, y) /\ SameStand(x, y) /\ y.c \in {3, 5})
         /\ SameStand(e, y) => SameStand(x, y) /\ y.c \notin {0, 2, 4}
         /\ y.c \in {3, 5} /\ SameStand(e, y) => w.c \in {y.c, Succ(y.c)}
         /\ w.c = x.c \/ w.c = Succ(x.c) \/ x.c = Succ(w.c)
         /\ x.c \in {1, 3, 5} => y.c = x.c \/ (x.c = 1 /\ w.c = 2)
<1> USE DEF Proper, AtOrBefore, BeforeTestsStand, PhaseAt, Succ, SameStand,
            Changes, StaysAt, StepsOn, TakesUp, Adopts
<1>1. CASE e.c = 0
  BY <1>1
<1>2. e.c = 1 => x.c \in {1, 2} /\ w.c \in {1, 2}
  OBVIOUS
<1>21. CASE e.c = 1 /\ x.c = 1
  BY <1>21
<1>22. CASE e.c = 1 /\ x.c = 2 /\ w.c = 1
  BY <1>22
<1>23. CASE e.c = 1 /\ x.c = 2 /\ w.c = 2
  BY <1>23
<1>3. e.c = 2 => x.c \in {2, 3} /\ w.c \in {2, 3}
  OBVIOUS
<1>31. CASE e.c = 2 /\ x.c = 2 /\ w.c = 2
  <2>1. /\ e.r \in 1..3 /\ x.r \in 1..3 /\ w.r \in 1..3
        /\ e.r <= x.r /\ e.r <= w.r
        /\ y.r = IF x.r <= w.r THEN w.r ELSE x.r
        /\ y.c = IF y.r = e.r THEN 3 ELSE 2
    BY <1>31
  <2>2. CASE y.r = e.r
    BY <1>31, <2>1, <2>2
  <2>3. CASE y.r # e.r /\ x.r < w.r
    BY <1>31, <2>1, <2>3
  <2>4. CASE y.r # e.r /\ ~ (x.r < w.r)
    <3>1. y.r = x.r /\ y.c = 2
      BY <2>1, <2>4
    <3> QED
      BY <1>31, <2>1, <2>4, <3>1
  <2> QED
    BY <2>2, <2>3, <2>4
<1>32. CASE e.c = 2 /\ x.c = 2 /\ w.c = 3
  <2>1. /\ x.r \in 1..3 /\ w.r = x.r /\ e.r = x.r /\ y.r = x.r /\ y.c = 3
    BY <1>32
  <2> QED
    BY <1>32, <2>1
<1>33. CASE e.c = 2 /\ x.c = 3
  <2>1. /\ x.r \in 1..3 /\ e.r = x.r /\ y.r = x.r /\ y.c = 3
        /\ w.c \in {2, 3}
    BY <1>33
  <2> QED
    BY <1>33, <2>1
<1>4. CASE e.c = 3
  BY <1>4
<1>5. CASE e.c = 4
  BY <1>5
<1>6. CASE e.c = 5
  BY <1>6
<1>7. e.c \in 0..5
  OBVIOUS
<1> HIDE DEF Proper, AtOrBefore, BeforeTestsStand, PhaseAt, Succ, SameStand,
             Changes, StaysAt, StepsOn, TakesUp, Adopts
<1> QED
  BY <1>1, <1>2, <1>21, <1>22, <1>23, <1>3, <1>31, <1>32, <1>33, <1>4, <1>5, <1>6, <1>7

LEMMA StandPhase ==
  ASSUME N = 2, NEW p, Sound(p), NEW a
  PROVE  /\ PhaseAt(Stand(p, a).c) = p.ph
         /\ a <=> Stand(p, a).c \in {1, 3, 5}
<1>1. p.ph \in 0..2 /\ Stand(p, a).c = 2 * p.ph + (IF a THEN 1 ELSE 0)
  BY StandProper DEF Sound, Ntf
<1> HIDE DEF Stand
<1>2. CASE a
  BY <1>1, <1>2 DEF PhaseAt
<1>3. CASE ~ a
  BY <1>1, <1>3 DEF PhaseAt
<1> QED
  BY <1>2, <1>3

(* Two sound notifications with their flags are told apart by their stands. *)
LEMMA StandTells ==
  ASSUME N = 2, NEW p, Sound(p), NEW a, NEW q, Sound(q), NEW b
  PROVE  SameStand(Stand(p, a), Stand(q, b)) <=> p = q /\ (a <=> b)
<1>1. /\ Stand(p, a).r = Rank(p.set) /\ Stand(q, b).r = Rank(q.set)
      /\ Stand(p, a).c = 2 * p.ph + (IF a THEN 1 ELSE 0)
      /\ Stand(q, b).c = 2 * q.ph + (IF b THEN 1 ELSE 0)
  BY StandProper
<1>2. /\ PhaseAt(Stand(p, a).c) = p.ph /\ (a <=> Stand(p, a).c \in {1, 3, 5})
      /\ PhaseAt(Stand(q, b).c) = q.ph /\ (b <=> Stand(q, b).c \in {1, 3, 5})
  BY StandPhase
<1>3. ASSUME SameStand(Stand(p, a), Stand(q, b))
      PROVE  p = q /\ (a <=> b)
  <2>1. Stand(p, a).c = Stand(q, b).c /\ Rank(p.set) = Rank(q.set)
    BY <1>1, <1>3 DEF SameStand
  <2>2. p.ph = q.ph /\ (a <=> b)
    BY <1>2, <2>1
  <2> QED
    BY <2>1, <2>2, SameRank
<1>4. ASSUME p = q, a <=> b
      PROVE  SameStand(Stand(p, a), Stand(q, b))
  <2>1. (IF a THEN 1 ELSE 0) = (IF b THEN 1 ELSE 0)
    BY <1>4
  <2> QED
    BY <1>1, <1>4, <2>1 DEF SameStand
<1> QED
  BY <1>3, <1>4

LEMMA SameFlag ==
  ASSUME NEW p, NEW a, NEW b, a <=> b
  PROVE  SameStand(Stand(p, a), Stand(p, b))
<1>1. (IF a THEN 1 ELSE 0) = (IF b THEN 1 ELSE 0)
  OBVIOUS
<1> QED
  BY <1>1 DEF SameStand, Stand

(* Lines 22 to 26 in terms of stands. *)
LEMMA PairBefore ==
  ASSUME N = 2, NEW s, PairState(s), FlagIsOwn(s), NEW t \in BeforeTests(s)
  PROVE  /\ BeforeTestsStand(Mine(s), Yours(s), Echo(s), Mine(t))
         /\ SameStand(Yours(t), Yours(s)) /\ SameStand(Echo(t), Echo(s))
<1> DEFINE i == s.id
           o == Other(s.id)
           p == s.prp[i]
           q == s.prp[o]
           e == s.echoPrp[o]
           n == Adopted(s)
<1>1. /\ i \in Node /\ o \in Node /\ o # i
      /\ Sound(p) /\ Sound(q) /\ Sound(e) /\ Sound(n)
  BY PairParts, AdoptedSound DEF PairState
<1>2. /\ PairState(t) /\ t.id = i
      /\ t.echoPrp[o] = e /\ t.echoAll[o] = s.echoAll[o]
      /\ t.prp[o] = q /\ t.prp[i] = n
      /\ t.alll[o] <=> s.alll[o]
      /\ t.alll[i] <=> n = e
  BY PairBeforeTests
<1>3. SameStand(Yours(t), Yours(s)) /\ SameStand(Echo(t), Echo(s))
  <2>1. Yours(t) = Stand(q, t.alll[o]) /\ Yours(s) = Stand(q, s.alll[o])
    BY <1>2 DEF Yours
  <2>2. Echo(t) = Echo(s)
    BY <1>2 DEF Echo
  <2>3. ASSUME NEW a, NEW b, a <=> b
        PROVE  SameStand(Stand(q, a), Stand(q, b))
    BY <2>3, SameFlag
  <2> QED
    BY <1>2, <2>1, <2>2, <2>3 DEF SameStand
<1>4. /\ Mine(s).r = Rank(p.set) /\ PhaseAt(Mine(s).c) = p.ph
      /\ Yours(s).r = Rank(q.set) /\ PhaseAt(Yours(s).c) = q.ph
      /\ Echo(s).r = Rank(e.set) /\ PhaseAt(Echo(s).c) = e.ph
  BY <1>1, StandProper, StandPhase DEF Mine, Yours, Echo
<1>5. /\ Mine(t).r = Rank(n.set)
      /\ Mine(t).c = 2 * n.ph + (IF t.alll[i] THEN 1 ELSE 0)
  BY <1>1, <1>2, StandProper DEF Mine
<1>6. n = e <=> n.ph = e.ph /\ Rank(n.set) = Rank(e.set)
  BY <1>1, SameRank
<1>7. /\ n.ph = IF Ahead(s) /\ Joins(s) THEN 1 ELSE p.ph
      /\ n.set = IF Ahead(s) /\ Rank(p.set) <= Rank(q.set) THEN q.set ELSE p.set
  BY DEF Adopted
<1>8. Joins(s) <=> PhaseAt(Mine(s).c) = 0 /\ PhaseAt(Yours(s).c) = 1
  BY <1>4 DEF Joins
<1> HIDE DEF p, q, e, n
<1>9. Mine(t).r = IF Ahead(s) /\ Mine(s).r <= Yours(s).r THEN Yours(s).r
                                                         ELSE Mine(s).r
  BY <1>4, <1>5, <1>7
<1>10. t.alll[i] <=> n.ph = PhaseAt(Echo(s).c) /\ Mine(t).r = Echo(s).r
  BY <1>2, <1>4, <1>5, <1>6
<1>11. n.ph = IF Ahead(s) /\ PhaseAt(Mine(s).c) = 0 /\ PhaseAt(Yours(s).c) = 1
              THEN 1 ELSE PhaseAt(Mine(s).c)
  BY <1>4, <1>7, <1>8
<1>12. (IF t.alll[i] THEN 1 ELSE 0)
         = (IF n.ph = PhaseAt(Echo(s).c) /\ Mine(t).r = Echo(s).r THEN 1 ELSE 0)
  BY <1>10
<1>13. BeforeTestsStand(Mine(s), Yours(s), Echo(s), Mine(t))
  BY <1>5, <1>9, <1>11, <1>12 DEF BeforeTestsStand, Ahead
<1> QED
  BY <1>3, <1>13
-----------------------------------------------------------------------------
(***************************************************************************)
(* What a processor knows of the other when a pass begins.                 *)
(***************************************************************************)
Knows(x, w, e) ==
  /\ AtOrBefore(e, x) /\ AtOrBefore(e, w)
  /\ x.c = 2 /\ w.c = 3 => x.r = w.r
  /\ x.c = 3 /\ w.c = 2 => x.r = w.r

PassReady(s) ==
  /\ PairState(s) /\ SeesItself(s)
  /\ Knows(Mine(s), Yours(s), Echo(s))
  /\ Mine(s).c \in {1, 3, 5} /\ Yours(s).c = Succ(Mine(s).c) =>
       Other(s.id) \in s.allSeen
  /\ Mine(s).c = 5 => s.config[s.id] = s.prp[s.id].set
  /\ Mine(s).c <= 1 /\ Yours(s).c <= 1 =>
       s.config[s.id] = s.config[Other(s.id)]

LEMMA PhaseNumbers ==
  ASSUME NEW x, NEW w, x.c \in 0..5, w.c \in 0..5
  PROVE  /\ PhaseAt(x.c) \in 0..2
         /\ (w.c = x.c \/ w.c = Succ(x.c) \/ x.c = Succ(w.c))
              /\ PhaseAt(w.c) = (PhaseAt(x.c) + 1) % 3
              => w.c = Succ(x.c) /\ x.c \in {1, 3, 5}
         /\ PhaseAt(x.c) = 0 <=> x.c <= 1
         /\ PhaseAt(x.c) = 1 <=> x.c \in {2, 3}
         /\ PhaseAt(x.c) = 2 <=> x.c \in {4, 5}
<1>1. PhaseAt(x.c) = IF x.c <= 1 THEN 0 ELSE IF x.c <= 3 THEN 1 ELSE 2
  BY DEF PhaseAt
<1>2. PhaseAt(w.c) = IF w.c <= 1 THEN 0 ELSE IF w.c <= 3 THEN 1 ELSE 2
  BY DEF PhaseAt
<1>3. /\ Succ(x.c) = IF x.c = 5 THEN 0 ELSE x.c + 1
      /\ Succ(w.c) = IF w.c = 5 THEN 0 ELSE w.c + 1
  BY DEF Succ
<1> QED
  BY <1>1, <1>2, <1>3

(* The stands of a record, read off its notifications. *)
LEMMA RecordStands ==
  ASSUME N = 2, NEW s, PairState(s), NEW i, i = s.id, NEW o, o = Other(s.id)
  PROVE  /\ Mine(s).c \in 0..5 /\ Yours(s).c \in 0..5
         /\ PhaseAt(Mine(s).c) = s.prp[i].ph /\ Mine(s).r = Rank(s.prp[i].set)
         /\ PhaseAt(Yours(s).c) = s.prp[o].ph /\ Yours(s).r = Rank(s.prp[o].set)
         /\ s.alll[i] <=> Mine(s).c \in {1, 3, 5}
         /\ s.alll[o] <=> Yours(s).c \in {1, 3, 5}
         /\ SameStand(Echo(s), Mine(s)) <=>
              s.prp[i] = s.echoPrp[o] /\ (s.echoAll[o] <=> s.alll[i])
<1>1. /\ i \in Node /\ o \in Node /\ o # i
      /\ Sound(s.prp[i]) /\ Sound(s.prp[o]) /\ Sound(s.echoPrp[o])
  BY PairParts DEF PairState
<1> DEFINE p == s.prp[i]
           q == s.prp[o]
           e == s.echoPrp[o]
           a == s.alll[i]
           b == s.alll[o]
           c == s.echoAll[o]
<1>2. /\ Mine(s) = Stand(p, a) /\ Yours(s) = Stand(q, b)
      /\ Echo(s) = Stand(e, c)
      /\ Sound(p) /\ Sound(q) /\ Sound(e)
  BY <1>1 DEF Mine, Yours, Echo
<1>3. Proper(Mine(s)) /\ Proper(Yours(s))
  BY PairParts
<1> HIDE DEF p, q, e, a, b, c
<1>4. /\ PhaseAt(Mine(s).c) = p.ph /\ Mine(s).r = Rank(p.set)
      /\ (a <=> Mine(s).c \in {1, 3, 5})
  <2>1. PhaseAt(Stand(p, a).c) = p.ph /\ (a <=> Stand(p, a).c \in {1, 3, 5})
    BY <1>2, StandPhase
  <2>2. Stand(p, a).r = Rank(p.set)
    BY <1>2, StandProper
  <2> QED
    BY <1>2, <2>1, <2>2
<1>5. /\ PhaseAt(Yours(s).c) = q.ph /\ Yours(s).r = Rank(q.set)
      /\ (b <=> Yours(s).c \in {1, 3, 5})
  BY <1>2, StandProper, StandPhase
<1>6. SameStand(Echo(s), Mine(s)) <=> p = e /\ (c <=> a)
  <2>1. /\ Echo(s).c = Mine(s).c => (c <=> a) /\ e.ph = p.ph
        /\ Echo(s).r = Rank(e.set)
    <3>1. PhaseAt(Stand(e, c).c) = e.ph /\ (c <=> Stand(e, c).c \in {1, 3, 5})
      BY <1>2, StandPhase
    <3>2. Stand(e, c).r = Rank(e.set)
      BY <1>2, StandProper
    <3> QED
      BY <1>2, <1>4, <3>1, <3>2
  <2>2. Rank(e.set) = Rank(p.set) /\ e.ph = p.ph => e = p
    BY <1>2, SameRank
  <2>3. (c <=> a) /\ e = p => SameStand(Echo(s), Mine(s))
    BY <1>2, SameFlag
  <2> QED
    BY <1>4, <2>1, <2>2, <2>3 DEF SameStand
<1> QED
  BY <1>3, <1>4, <1>5, <1>6 DEF Proper, p, q, e, a, b, c

LEMMA FlagFromStands ==
  ASSUME N = 2, NEW s, PairState(s),
         \/ Yours(s).c = Mine(s).c
         \/ Yours(s).c = Succ(Mine(s).c)
         \/ Mine(s).c = Succ(Yours(s).c)
  PROVE  FlagIsOwn(s)
<1>1. Mine(s).c \in 0..5 /\ Yours(s).c \in 0..5
  BY RecordStands
<1>2. /\ PhaseAt(Mine(s).c) = s.prp[s.id].ph
      /\ PhaseAt(Yours(s).c) = s.prp[Other(s.id)].ph
      /\ s.alll[s.id] <=> Mine(s).c \in {1, 3, 5}
  BY RecordStands
<1> QED
  BY <1>1, <1>2, PhaseNumbers DEF FlagIsOwn

(* The stands when the staleness tests run. *)
LEMMA PairTested ==
  ASSUME N = 2, NEW s, PassReady(s), NEW t \in BeforeTests(s),
         NEW x, x = Mine(s), NEW w, w = Yours(s), NEW e, e = Echo(s),
         NEW y, y = Mine(t)
  PROVE  /\ FlagIsOwn(s) /\ FlagIsOwn(t)
         /\ Proper(x) /\ Proper(w) /\ Proper(e) /\ Proper(y)
         /\ BeforeTestsStand(x, w, e, y)
         /\ Yours(t).c = w.c /\ Yours(t).r = w.r
         /\ SameStand(Echo(t), Echo(s))
         /\ Knows(x, w, e)
<1>1. /\ PairState(s) /\ Knows(x, w, e)
      /\ Proper(x) /\ Proper(w) /\ Proper(e)
  BY PairParts DEF PassReady
<1>2. w.c = x.c \/ w.c = Succ(x.c) \/ x.c = Succ(w.c)
  BY <1>1 DEF Knows, Proper, AtOrBefore, Succ
<1>3. FlagIsOwn(s)
  BY <1>1, <1>2, FlagFromStands
<1>4. /\ BeforeTestsStand(x, w, e, y)
      /\ SameStand(Yours(t), Yours(s)) /\ SameStand(Echo(t), Echo(s))
  BY <1>1, <1>3, PairBefore
<1>5. PairState(t)
  BY <1>1, <1>3, PairBeforeTests
<1>6. w.c = y.c \/ w.c = Succ(y.c) \/ y.c = Succ(w.c)
  BY <1>1, <1>4, BeforeTestsNumbers DEF Knows
<1>7. FlagIsOwn(t)
  BY <1>4, <1>5, <1>6, FlagFromStands DEF SameStand
<1>8. Proper(y)
  BY <1>5, PairParts
<1> QED
  BY <1>1, <1>3, <1>4, <1>7, <1>8 DEF SameStand
(* No staleness test fires. *)
LEMMA PairTests ==
  ASSUME N = 2, NEW s, PassReady(s), NEW t \in BeforeTests(s)
  PROVE  ~ Raises(t) /\ Line24(t) = t
<1> DEFINE o == Other(s.id)
           x == Mine(s)
           w == Yours(s)
           e == Echo(s)
           y == Mine(t)
<1>1. /\ FlagIsOwn(s) /\ FlagIsOwn(t)
      /\ Proper(x) /\ Proper(w) /\ Proper(e) /\ Proper(y)
      /\ BeforeTestsStand(x, w, e, y) /\ Knows(x, w, e)
      /\ Yours(t).c = w.c /\ Yours(t).r = w.r
  BY PairTested
<1>2. PairState(s)
  BY DEF PassReady
<1>3. /\ PairState(t) /\ t.id = s.id
      /\ t.allSeen = (IF Ahead(s) /\ Joins(s) THEN {} ELSE s.allSeen)
                       \union {k \in Node : t.alll[k]}
  BY <1>1, <1>2, PairBeforeTests
<1> DEFINE p == t.prp[t.id]
           q == t.prp[o]
<1>4. /\ y.c \in 0..5 /\ w.c \in 0..5 /\ x.c \in 0..5
      /\ PhaseAt(y.c) = p.ph /\ y.r = Rank(p.set)
      /\ PhaseAt(w.c) = q.ph /\ w.r = Rank(q.set)
  BY <1>1, <1>3, RecordStands DEF Proper
<1>5. PhaseAt(x.c) = s.prp[s.id].ph
  BY <1>2, RecordStands
<1>6. /\ w.c = y.c \/ w.c = Succ(y.c) \/ y.c = Succ(w.c)
      /\ y.c \in {3, 5} /\ w.c = Succ(y.c) => x.c = y.c
      /\ ~ (y.c <= 1 /\ w.c \in {2, 3})
      /\ PhaseAt(y.c) = 2 /\ PhaseAt(w.c) # 0 => y.r = w.r
      /\ PhaseAt(y.c) # 0 /\ PhaseAt(w.c) = 2 => y.r = w.r
  BY <1>1, BeforeTestsNumbers DEF Knows
<1>7. Sound(p) /\ Sound(q)
  BY <1>3, PairParts DEF PairState
<1>8. Rank(p.set) = Rank(q.set) => p.set = q.set
  BY <1>7, SameRank
<1>9. x.c \in {1, 3, 5} /\ w.c = Succ(x.c) => o \in s.allSeen
  BY DEF PassReady
<1>10. q.ph = (p.ph + 1) % 3 => o \in t.allSeen
  <2> HIDE DEF x, w, y, p, q
  <2> SUFFICES ASSUME q.ph = (p.ph + 1) % 3
               PROVE  o \in t.allSeen
    OBVIOUS
  <2>1. w.c = Succ(y.c) /\ y.c \in {1, 3, 5}
    BY <1>4, <1>6, PhaseNumbers
  <2>2. y.c \in {3, 5}
    BY <1>6, <2>1 DEF Succ
  <2>3. x.c = y.c
    BY <1>6, <2>1, <2>2
  <2>4. o \in s.allSeen
    BY <1>9, <2>1, <2>3
  <2>5. ~ Joins(s)
    <3>1. PhaseAt(x.c) # 0
      BY <2>2, <2>3 DEF PhaseAt
    <3> QED
      BY <1>5, <3>1 DEF Joins
  <2> QED
    BY <1>3, <2>4, <2>5
<1>11. (p.ph = 2 /\ q.ph # 0) \/ (q.ph = 2 /\ p.ph # 0) => p.set = q.set
  BY <1>4, <1>6, <1>8
<1>12. Fresh(t)
  BY <1>1, <1>3, <1>6, <1>10, <1>11 DEF Fresh
<1> QED
  BY <1>1, <1>3, <1>12, PairNotStale
(* When the owner moves on. *)
LEMMA PairMoves ==
  ASSUME N = 2, NEW s, PassReady(s), NEW t \in BeforeTests(s), ~ NoNtfArrived(t)
  PROVE  MovesOn(t) <=> Mine(t).c \in {3, 5} /\ SameStand(Echo(s), Mine(t))
<1> DEFINE i == s.id
           o == Other(s.id)
           x == Mine(s)
           w == Yours(s)
           e == Echo(s)
           y == Mine(t)
<1>1. /\ FlagIsOwn(s) /\ FlagIsOwn(t)
      /\ Proper(x) /\ Proper(w) /\ Proper(e) /\ Proper(y)
      /\ BeforeTestsStand(x, w, e, y) /\ Knows(x, w, e)
      /\ Yours(t).c = w.c /\ Yours(t).r = w.r /\ SameStand(Echo(t), Echo(s))
  BY PairTested
<1>2. PairState(s)
  BY DEF PassReady
<1>3. /\ PairState(t) /\ t.id = i
      /\ t.allSeen = (IF Ahead(s) /\ Joins(s) THEN {} ELSE s.allSeen)
                       \union {k \in Node : t.alll[k]}
  BY <1>1, <1>2, PairBeforeTests
<1>4. /\ i \in Node /\ o \in Node /\ Node = {i, o} /\ FdPart(t) = Node
  BY <1>3, PairParts
<1>5. /\ y.c \in 0..5 /\ w.c \in 0..5 /\ x.c \in 0..5
      /\ PhaseAt(y.c) = t.prp[i].ph /\ PhaseAt(w.c) = t.prp[o].ph
      /\ t.alll[i] <=> y.c \in {1, 3, 5}
      /\ t.alll[o] <=> w.c \in {1, 3, 5}
  BY <1>1, <1>3, RecordStands DEF Proper
<1>6. SameStand(e, y) <=>
        t.prp[i] = t.echoPrp[o] /\ (t.echoAll[o] <=> t.alll[i])
  <2>1. SameStand(Echo(t), Mine(t)) <=>
          t.prp[i] = t.echoPrp[o] /\ (t.echoAll[o] <=> t.alll[i])
    BY <1>3, RecordStands
  <2> QED
    BY <1>1, <2>1 DEF SameStand
<1>7. PhaseAt(x.c) = s.prp[i].ph
  BY <1>2, RecordStands
<1>8. /\ y.c \in {3, 5} /\ w.c = Succ(y.c) => x.c = y.c
      /\ ~ (y.c <= 1 /\ w.c \in {2, 3})
      /\ y.c \in {3, 5} /\ SameStand(e, y) => w.c \in {y.c, Succ(y.c)}
  BY <1>1, BeforeTestsNumbers DEF Knows
<1>9. x.c \in {1, 3, 5} /\ w.c = Succ(x.c) => o \in s.allSeen
  BY DEF PassReady
<1>10. MovesOn(t) <=> /\ t.alll[i] /\ o \in t.allSeen
                      /\ t.prp[i] = t.echoPrp[o] /\ t.echoAll[o]
                      /\ w.c \in {y.c, Succ(y.c)}
  BY <1>1, <1>3 DEF MovesOn, Ahead
<1>11. ~ (PhaseAt(y.c) = 0 /\ PhaseAt(w.c) = 0)
  BY <1>4, <1>5 DEF NoNtfArrived
<1> HIDE DEF x, w, y, e
<1>12. ASSUME MovesOn(t)
       PROVE  y.c \in {3, 5} /\ SameStand(e, y)
  <2>1. y.c \in {1, 3, 5} /\ w.c \in {y.c, Succ(y.c)}
    BY <1>5, <1>10, <1>12
  <2>2. y.c # 1
    BY <1>8, <1>11, <2>1 DEF PhaseAt, Succ
  <2> QED
    BY <1>6, <1>10, <1>12, <2>1, <2>2
<1>13. ASSUME y.c \in {3, 5}, SameStand(e, y)
       PROVE  MovesOn(t)
  <2>1. t.alll[i] /\ w.c \in {y.c, Succ(y.c)}
    BY <1>5, <1>8, <1>13
  <2>2. o \in t.allSeen
    <3>1. CASE w.c = y.c
      <4>1. t.alll[o]
        BY <1>5, <1>13, <3>1
      <4> QED
        BY <1>3, <1>4, <4>1
    <3>2. CASE w.c = Succ(y.c)
      <4>1. x.c = y.c /\ o \in s.allSeen
        BY <1>8, <1>9, <1>13, <3>2
      <4>2. ~ Joins(s)
        <5>1. PhaseAt(x.c) # 0
          BY <1>13, <4>1 DEF PhaseAt
        <5> QED
          BY <1>7, <5>1 DEF Joins
      <4> QED
        BY <1>3, <4>1, <4>2
    <3> QED
      BY <2>1, <3>1, <3>2
  <2> QED
    BY <1>6, <1>10, <1>13, <2>1, <2>2
<1> QED
  BY <1>12, <1>13 DEF y, e

(* The rest of the pass when no notification is in sight. *)
LEMMA PairResting ==
  ASSUME N = 2, NEW s, PassReady(s), NEW t \in BeforeTests(s), NoNtfArrived(t)
  PROVE  BruteForce(t) = t
<1>1. FlagIsOwn(s) /\ PairState(s)
  BY PairTested DEF PassReady
<1>2. /\ PairState(t) /\ t.id = s.id /\ t.config = s.config
      /\ t.prp[Other(s.id)] = s.prp[Other(s.id)]
      /\ t.prp[s.id] = Adopted(s)
  BY <1>1, PairBeforeTests
<1>3. /\ s.id \in Node /\ Other(s.id) \in Node
      /\ Node = {s.id, Other(s.id)} /\ FdPart(t) = Node
  BY <1>2, PairParts
<1>4. s.prp[Other(s.id)].ph = 0 /\ Adopted(s).ph = 0
  BY <1>2, <1>3 DEF NoNtfArrived
<1>5. s.prp[s.id].ph = 0
  BY <1>4 DEF Adopted
<1>6. Mine(s).c <= 1 /\ Yours(s).c <= 1
  BY <1>1, <1>4, <1>5, RecordStands, PhaseNumbers
<1>7. s.config[s.id] = s.config[Other(s.id)]
  BY <1>6 DEF PassReady
<1>8. ~ ConfigConflict(t)
  <2>1. t.trusted = Node
    BY <1>2 DEF PairState
  <2> QED
    BY <1>2, <1>3, <1>7, <2>1 DEF ConfigConflict, RealConfigs
<1>9. t.config[t.id] # Bottom
  BY <1>2, <1>3, NodeNotEmpty DEF PairState, Sets, Real
<1> QED
  BY <1>8, <1>9 DEF BruteForce, ResetConflict
-----------------------------------------------------------------------------
(* The owner moves on to the next phase. *)
Leaves(s, t) == Mine(t).c \in {3, 5} /\ SameStand(Echo(s), Mine(t))

(* What the rest of the pass does to the record t. *)
LEMMA PairRest ==
  ASSUME N = 2, NEW s, PassReady(s), NEW t \in BeforeTests(s),
         NEW u \in AfterTests(t), NEW i, i = s.id, NEW o, o = Other(s.id)
  PROVE  /\ PairState(u) /\ u.id = i
         /\ u.config = [t.config EXCEPT ![i] = IF Mine(t).c = 5
                                               THEN t.prp[i].set
                                               ELSE t.config[i]]
         /\ u.prp[o] = t.prp[o] /\ (u.alll[o] <=> t.alll[o])
         /\ u.echoPrp = t.echoPrp /\ u.echoAll = t.echoAll
         /\ ~ Leaves(s, t) => /\ u.prp[i] = t.prp[i] /\ (u.alll[i] <=> t.alll[i])
                       /\ u.allSeen = t.allSeen
         /\ Leaves(s, t) => u.allSeen = {} /\ ~ u.alll[i]
         /\ Leaves(s, t) /\ Mine(t).c = 3 =>
              u.prp[i] = [ph |-> 2, set |-> t.prp[i].set]
         /\ Leaves(s, t) /\ Mine(t).c = 5 => u.prp[i] = DfltNtf
<1>1. PairState(s) /\ FlagIsOwn(s) /\ FlagIsOwn(t)
  BY PairTested DEF PassReady
<1>2. PairState(t) /\ t.id = i
  BY <1>1, PairBeforeTests
<1>3. u = IF NoNtfArrived(t) THEN BruteForce(t) ELSE Delicate(t)
  BY PairTests DEF AfterTests, Lines27to32
<1>4. /\ Mine(t).c \in 0..5 /\ t.prp[i].ph \in 0..2
      /\ PhaseAt(Mine(t).c) = t.prp[i].ph
      /\ t.alll[i] <=> Mine(t).c \in {1, 3, 5}
  BY <1>2, RecordStands, PhaseNumbers
<1>5. t.prp[i].ph = 2 <=> Mine(t).c \in {4, 5}
  BY <1>4, PhaseNumbers
<1>6. InPhaseTwo(t) <=> Mine(t).c = 5
  BY <1>2, <1>4, <1>5 DEF InPhaseTwo
<1>7. CASE NoNtfArrived(t)
  <2>1. u = t
    BY <1>3, <1>7, PairResting
  <2>2. t.prp[i].ph = 0
    BY <1>2, <1>7, PairParts DEF NoNtfArrived
  <2>3. Mine(t).c <= 1
    BY <1>4, <2>2, PhaseNumbers
  <2>4. t.config = [t.config EXCEPT ![i] = t.config[i]]
    BY <1>2 DEF PairState, LocalState
  <2> QED
    BY <1>2, <1>4, <2>1, <2>3, <2>4 DEF Leaves
<1>8. CASE ~ NoNtfArrived(t)
  <2>1. MovesOn(t) <=> Leaves(s, t)
    BY <1>8, PairMoves DEF Leaves
  <2>2. u = Delicate(t)
    BY <1>3, <1>8
  <2>3. /\ PairState(u) /\ u.id = i
        /\ u.config = [t.config EXCEPT ![i] = IF InPhaseTwo(t) THEN t.prp[i].set
                                                      ELSE t.config[i]]
        /\ u.prp[o] = t.prp[o] /\ (u.alll[o] <=> t.alll[o])
        /\ u.echoPrp = t.echoPrp /\ u.echoAll = t.echoAll
        /\ ~ MovesOn(t) \/ t.prp[i].ph = 0 =>
              u.prp[i] = t.prp[i] /\ (u.alll[i] <=> t.alll[i])
        /\ ~ MovesOn(t) => u.allSeen = t.allSeen
        /\ MovesOn(t) => u.allSeen = {}
        /\ MovesOn(t) /\ t.prp[i].ph # 0 => ~ u.alll[i]
        /\ MovesOn(t) /\ t.prp[i].ph = 1 =>
             u.prp[i] = [ph |-> 2, set |-> t.prp[i].set]
        /\ MovesOn(t) /\ t.prp[i].ph = 2 => u.prp[i] = DfltNtf
    BY <1>1, <1>2, <2>2, PairDelicate
  <2>4. Leaves(s, t) => Mine(t).c \in {3, 5}
    BY DEF Leaves
  <2>5. (Mine(t).c = 3 => t.prp[i].ph = 1) /\ (Mine(t).c = 5 => t.prp[i].ph = 2)
    BY <1>4, PhaseNumbers
  <2>6. (IF InPhaseTwo(t) THEN t.prp[i].set ELSE t.config[i])
          = (IF Mine(t).c = 5 THEN t.prp[i].set ELSE t.config[i])
    BY <1>6
  <2> QED
    BY <2>1, <2>3, <2>4, <2>5, <2>6
<1> QED
  BY <1>7, <1>8
(* The stand after the pass. *)
LEMMA RestNumbers ==
  ASSUME NEW x, NEW w, NEW e, NEW y, NEW z,
         Proper(x), Proper(w), Proper(e), Proper(z),
         Knows(x, w, e), BeforeTestsStand(x, w, e, y), Proper(y),
         ~ (y.c \in {3, 5} /\ SameStand(e, y)) => SameStand(y, z),
         y.c = 3 /\ SameStand(e, y) => z.c = 4 /\ z.r = y.r,
         y.c = 5 /\ SameStand(e, y) => z.c = 0
  PROVE  Changes(x, w, e, z) /\ AtOrBefore(w, z)
<1>1. /\ Changes(x, w, e, y)
      /\ AtOrBefore(w, y) \/ (SameStand(e, y) /\ SameStand(x, y) /\ y.c \in {3, 5})
      /\ SameStand(e, y) => SameStand(x, y) /\ y.c \notin {0, 2, 4}
  BY BeforeTestsNumbers DEF Knows
<1>2. CASE ~ (y.c \in {3, 5} /\ SameStand(e, y))
  <2>1. z.c = y.c /\ z.r = y.r
    BY <1>2 DEF SameStand
  <2>2. Changes(x, w, e, z)
    BY <1>1, <2>1 DEF Changes, StaysAt, StepsOn, TakesUp, Adopts, SameStand
  <2>3. AtOrBefore(w, z)
    BY <1>1, <1>2, <2>1 DEF AtOrBefore
  <2> QED
    BY <2>2, <2>3
<1>3. CASE y.c \in {3, 5} /\ SameStand(e, y)
  <2>1. x.c = y.c /\ x.r = y.r /\ e.c = y.c /\ e.r = y.r
    BY <1>1, <1>3 DEF SameStand
  <2>2. AtOrBefore(e, w)
    BY DEF Knows
  <2>3. CASE y.c = 3
    <3>1. z.c = 4 /\ z.r = y.r
      BY <1>3, <2>3
    <3>2. StepsOn(x, w, e, z)
      BY <2>1, <2>3, <3>1 DEF StepsOn, SameStand, Succ
    <3>3. w.c \in {3, 4} /\ w.r = y.r
      BY <2>1, <2>2, <2>3 DEF AtOrBefore, Succ
    <3> QED
      BY <2>3, <3>1, <3>2, <3>3 DEF Changes, AtOrBefore, Succ
  <2>4. CASE y.c = 5
    <3>1. z.c = 0 /\ z.r = -1
      BY <1>3, <2>4 DEF Proper
    <3>2. StepsOn(x, w, e, z)
      BY <2>1, <2>4, <3>1 DEF StepsOn, SameStand, Succ
    <3>3. w.c = 5 \/ (w.c = 0 /\ w.r = -1)
      BY <2>1, <2>2, <2>4 DEF AtOrBefore, Succ, Proper
    <3> QED
      BY <2>4, <3>1, <3>2, <3>3 DEF Changes, AtOrBefore, Succ
  <2> QED
    BY <1>3, <2>3, <2>4
<1> QED
  BY <1>2, <1>3

(* The parts of the record that the pass of s computes as u. *)
LEMMA PairPass ==
  ASSUME N = 2, NEW s, PassReady(s), NEW t \in BeforeTests(s),
         NEW u \in AfterTests(t), NEW i, i = s.id, NEW o, o = Other(s.id)
  PROVE  /\ PairState(u) /\ u.id = i
         /\ u.prp[o] = s.prp[o] /\ (u.alll[o] <=> s.alll[o])
         /\ u.echoPrp = s.echoPrp /\ u.echoAll = s.echoAll
         /\ Changes(Mine(s), Yours(s), Echo(s), Mine(u))
         /\ AtOrBefore(Yours(s), Mine(u))
         /\ u.config = [s.config EXCEPT ![i] = IF Mine(u).c = 5
                                               THEN u.prp[i].set
                                               ELSE s.config[i]]
         /\ SeesItself(u)
         /\ Mine(u).c \in {1, 3, 5} /\ Yours(s).c = Mine(u).c => o \in u.allSeen
         /\ StaysAt(Mine(s), Mine(u)) => s.allSeen \subseteq u.allSeen
<1> DEFINE x == Mine(s)
           w == Yours(s)
           e == Echo(s)
           y == Mine(t)
           z == Mine(u)
<1>1. /\ FlagIsOwn(s) /\ FlagIsOwn(t)
      /\ Proper(x) /\ Proper(w) /\ Proper(e) /\ Proper(y)
      /\ BeforeTestsStand(x, w, e, y) /\ Knows(x, w, e)
  BY PairTested
<1>2. PairState(s) /\ s \in LocalState
  BY DEF PassReady, PairState
<1>3. /\ PairState(t) /\ t.id = i /\ t.config = s.config
      /\ t.echoPrp = s.echoPrp /\ t.echoAll = s.echoAll
      /\ t.prp[o] = s.prp[o] /\ (t.alll[o] <=> s.alll[o])
      /\ t.allSeen = (IF Ahead(s) /\ Joins(s) THEN {} ELSE s.allSeen)
                       \union {k \in Node : t.alll[k]}
  BY <1>1, <1>2, PairBeforeTests
<1>4. /\ PairState(u) /\ u.id = i
      /\ u.config = [t.config EXCEPT ![i] = IF y.c = 5 THEN t.prp[i].set
                                                      ELSE t.config[i]]
      /\ u.prp[o] = t.prp[o] /\ (u.alll[o] <=> t.alll[o])
      /\ u.echoPrp = t.echoPrp /\ u.echoAll = t.echoAll
      /\ ~ Leaves(s, t) => /\ u.prp[i] = t.prp[i] /\ (u.alll[i] <=> t.alll[i])
                           /\ u.allSeen = t.allSeen
      /\ Leaves(s, t) => u.allSeen = {} /\ ~ u.alll[i]
      /\ Leaves(s, t) /\ y.c = 3 =>
           u.prp[i] = [ph |-> 2, set |-> t.prp[i].set]
      /\ Leaves(s, t) /\ y.c = 5 => u.prp[i] = DfltNtf
  BY PairRest
<1>5. /\ i \in Node /\ o \in Node /\ o # i
  BY <1>2, PairParts
<1>6. /\ s.prp[i].ph = PhaseAt(x.c) /\ x.r = Rank(s.prp[i].set)
      /\ s.alll[i] <=> x.c \in {1, 3, 5}
      /\ s.prp[o].ph = PhaseAt(w.c) /\ (s.alll[o] <=> w.c \in {1, 3, 5})
  BY <1>2, RecordStands
<1>7. /\ t.prp[i].ph = PhaseAt(y.c) /\ y.r = Rank(t.prp[i].set)
      /\ t.alll[i] <=> y.c \in {1, 3, 5}
  BY <1>3, RecordStands
<1>8. /\ u.prp[i].ph = PhaseAt(z.c) /\ z.r = Rank(u.prp[i].set)
      /\ (u.alll[i] <=> z.c \in {1, 3, 5}) /\ Proper(z)
  BY <1>4, RecordStands, PairParts
<1>9. ~ Leaves(s, t) => SameStand(y, z)
  <2>1. ASSUME ~ Leaves(s, t)
        PROVE  SameStand(Stand(t.prp[i], t.alll[i]), Stand(u.prp[i], u.alll[i]))
    BY <1>4, <2>1, SameFlag
  <2> QED
    BY <1>3, <1>4, <2>1 DEF Mine
<1>10. Leaves(s, t) /\ y.c = 3 => z.c = 4 /\ z.r = y.r
  <2> SUFFICES ASSUME Leaves(s, t), y.c = 3
               PROVE  z.c = 4 /\ z.r = y.r
    OBVIOUS
  <2>1. u.prp[i] = [ph |-> 2, set |-> t.prp[i].set] /\ ~ u.alll[i]
    BY <1>4
  <2>2. PhaseAt(z.c) = 2 /\ z.r = y.r /\ z.c \notin {1, 3, 5}
    BY <1>7, <1>8, <2>1
  <2> QED
    BY <1>8, <2>2 DEF Proper, PhaseAt
<1>11. Leaves(s, t) /\ y.c = 5 => z.c = 0
  <2> SUFFICES ASSUME Leaves(s, t), y.c = 5
               PROVE  z.c = 0
    OBVIOUS
  <2>1. u.prp[i] = DfltNtf /\ ~ u.alll[i]
    BY <1>4
  <2>2. PhaseAt(z.c) = 0 /\ z.c \notin {1, 3, 5}
    BY <1>8, <2>1 DEF DfltNtf
  <2> QED
    BY <1>8, <2>2 DEF Proper, PhaseAt
<1> HIDE DEF x, w, e, y, z
<1>12. Leaves(s, t) <=> y.c \in {3, 5} /\ SameStand(e, y)
  BY DEF Leaves, y, e
<1>13. Changes(x, w, e, z) /\ AtOrBefore(w, z)
  BY <1>1, <1>8, <1>9, <1>10, <1>11, <1>12, RestNumbers
<1>14. /\ SameStand(e, y) => SameStand(x, y)
       /\ x.c \in {1, 3, 5} => y.c = x.c \/ (x.c = 1 /\ w.c = 2)
  BY <1>1, BeforeTestsNumbers DEF Knows
<1>15. Joins(s) <=> PhaseAt(x.c) = 0 /\ PhaseAt(w.c) = 1
  BY <1>6 DEF Joins
<1>16. Ahead(s) <=> w.c \in {x.c, Succ(x.c)}
  BY DEF Ahead, x, w
<1>17. u.config = [s.config EXCEPT ![i] = IF z.c = 5 THEN u.prp[i].set
                                                    ELSE s.config[i]]
  <2>1. CASE ~ Leaves(s, t)
    <3>1. u.prp[i] = t.prp[i] /\ z.c = y.c
      BY <1>4, <1>9, <2>1 DEF SameStand
    <3> QED
      BY <1>3, <1>4, <3>1
  <2>2. CASE Leaves(s, t) /\ y.c = 3
    <3>1. z.c = 4
      BY <1>10, <2>2
    <3> QED
      BY <1>3, <1>4, <2>2, <3>1
  <2>3. CASE Leaves(s, t) /\ y.c = 5
    <3>1. z.c = 0
      BY <1>11, <2>3
    <3>2. x.c = 5 /\ x.r = y.r
      BY <1>12, <1>14, <2>3 DEF SameStand
    <3>3. s.config[i] = s.prp[i].set
      BY <3>2 DEF PassReady, x
    <3>4. t.prp[i].set = s.prp[i].set
      <4>1. Sound(t.prp[i]) /\ Sound(s.prp[i])
        BY <1>2, <1>3, <1>5 DEF PairState
      <4>2. Rank(t.prp[i].set) = Rank(s.prp[i].set)
        BY <1>6, <1>7, <3>2
      <4> QED
        BY <4>1, <4>2, SameRank
    <3> QED
      BY <1>3, <1>4, <2>3, <3>1, <3>3, <3>4
  <2> QED
    BY <1>12, <2>1, <2>2, <2>3
<1>18. SeesItself(u)
  <2>1. CASE Leaves(s, t)
    BY <1>4, <2>1 DEF SeesItself
  <2>2. CASE ~ Leaves(s, t)
    <3>1. t.alll[i] => i \in t.allSeen
      BY <1>3, <1>5
    <3>2. ASSUME i \in t.allSeen, ~ t.alll[i]
          PROVE  FALSE
      <4>1. i \in s.allSeen /\ ~ (Ahead(s) /\ Joins(s))
        BY <1>3, <3>2
      <4>2. x.c \in {1, 3, 5}
        BY <1>6, <4>1 DEF PassReady, SeesItself
      <4>3. x.c = 1 /\ w.c = 2
        BY <1>7, <1>14, <3>2, <4>2
      <4> QED
        BY <1>15, <1>16, <4>1, <4>3 DEF PhaseAt, Succ
    <3> QED
      BY <1>4, <2>2, <3>1, <3>2 DEF SeesItself
  <2> QED
    BY <2>1, <2>2
<1>19. z.c \in {1, 3, 5} /\ w.c = z.c => o \in u.allSeen
  <2> SUFFICES ASSUME z.c \in {1, 3, 5}, w.c = z.c
               PROVE  o \in u.allSeen
    OBVIOUS
  <2>1. ~ Leaves(s, t)
    BY <1>4, <1>8
  <2>2. t.alll[o]
    BY <1>3, <1>6
  <2> QED
    BY <1>3, <1>4, <1>5, <2>1, <2>2
<1>20. StaysAt(x, z) => s.allSeen \subseteq u.allSeen
  <2> SUFFICES ASSUME StaysAt(x, z)
               PROVE  s.allSeen \subseteq u.allSeen
    OBVIOUS
  <2>1. ~ Leaves(s, t)
    <3> SUFFICES ASSUME Leaves(s, t)
                 PROVE  FALSE
      OBVIOUS
    <3>1. x.c = y.c /\ y.c = z.c
      BY <1>12, <1>14 DEF StaysAt, SameStand
    <3> QED
      BY <1>4, <1>8, <1>12, <3>1
  <2>2. ~ (Ahead(s) /\ Joins(s))
    <3> SUFFICES ASSUME Ahead(s), Joins(s)
                 PROVE  FALSE
      OBVIOUS
    <3>1. PhaseAt(y.c) = 1
      <4>1. t.prp[i] = Adopted(s)
        BY <1>1, <1>2, PairBeforeTests
      <4> QED
        BY <1>7, <4>1 DEF Adopted
    <3>2. PhaseAt(x.c) = 1
      BY <1>9, <2>1, <3>1 DEF StaysAt, SameStand
    <3> QED
      BY <1>15, <3>2
  <2> QED
    BY <1>3, <1>4, <2>1, <2>2
<1> QED
  BY <1>3, <1>4, <1>13, <1>17, <1>18, <1>19, <1>20 DEF x, w, e, z
-----------------------------------------------------------------------------
(***************************************************************************)
(* The flow from one processor to the other: what the other stores of it   *)
(* and the messages under way, the oldest first.  Each element was sent    *)
(* when the sender stood at said and had last received heard.  The sender  *)
(* stands at x, the other at y, and has told the sender g.                 *)
(***************************************************************************)
OneWay(x, y, f, g) ==
  /\ \A n \in DOMAIN f :
       /\ Proper(f[n].said) /\ Proper(f[n].heard)
       /\ AtOrBefore(f[n].heard, f[n].said) /\ AtOrBefore(f[n].said, x)
       /\ AtOrBefore(f[n].heard, y) /\ AtOrBefore(f[n].heard, g)
       /\ f[n].said.c = 2 /\ x.c = 2 /\ f[n].said.r # x.r =>
            y.c = 2 /\ x.r <= y.r
  /\ \A m, n \in DOMAIN f :
       m < n => /\ AtOrBefore(f[m].said, f[n].said)
                /\ AtOrBefore(f[m].heard, f[n].heard)

Meets(x, y) == AtOrBefore(x, y) \/ AtOrBefore(y, x)

LEMMA OrderOfStands ==
  ASSUME NEW v, NEW w, Proper(v), Proper(w)
  PROVE  /\ AtOrBefore(v, v)
         /\ AtOrBefore(v, w) /\ AtOrBefore(w, v) => SameStand(v, w)
         /\ SameStand(v, w) => AtOrBefore(v, w)
  BY DEF Proper, AtOrBefore, SameStand, Succ

LEMMA SameStandSame ==
  ASSUME NEW u, NEW v, NEW w, SameStand(u, v)
  PROVE  /\ AtOrBefore(u, w) <=> AtOrBefore(v, w)
         /\ AtOrBefore(w, u) <=> AtOrBefore(w, v)
         /\ SameStand(u, w) <=> SameStand(v, w)
         /\ SameStand(v, u)
  BY DEF AtOrBefore, SameStand

(* A stand that has not been passed by one in between. *)
LEMMA Window ==
  ASSUME NEW a, NEW b, NEW c, NEW d,
         Proper(a), Proper(b), Proper(c), Proper(d),
         AtOrBefore(a, b), AtOrBefore(b, c), AtOrBefore(c, d),
         AtOrBefore(a, d)
  PROVE  AtOrBefore(a, c)
<1> USE DEF Proper, AtOrBefore, Succ
<1>1. CASE a.c # 2
  BY <1>1
<1>2. CASE a.c = 2
  BY <1>2
<1> QED
  BY <1>1, <1>2

(* A stand that was before x is before what x is changed into. *)
LEMMA ChangeAfter ==
  ASSUME NEW x, NEW w, NEW e, NEW z, NEW v,
         Proper(x), Proper(w), Proper(z), Proper(v),
         Changes(x, w, e, z), AtOrBefore(v, x),
         SameStand(e, x) => SameStand(v, x)
  PROVE  AtOrBefore(v, z)
<1> USE DEF Proper, AtOrBefore, Succ, SameStand
<1>1. CASE StaysAt(x, z)
  BY <1>1 DEF StaysAt
<1>2. CASE StepsOn(x, w, e, z)
  BY <1>2 DEF StepsOn
<1>3. CASE TakesUp(x, w, e, z)
  BY <1>3 DEF TakesUp
<1>4. CASE Adopts(x, w, z)
  BY <1>4 DEF Adopts
<1> QED
  BY <1>1, <1>2, <1>3, <1>4 DEF Changes

(* The two remain next to each other. *)
LEMMA ChangeMeets ==
  ASSUME NEW x, NEW w, NEW e, NEW z, NEW y,
         Proper(x), Proper(w), Proper(e), Proper(z), Proper(y),
         Changes(x, w, e, z), Meets(x, y), AtOrBefore(w, y), AtOrBefore(e, w),
         w.c = 2 /\ y.c = 2 /\ w.r # y.r => x.c = 2 /\ y.r <= x.r
  PROVE  Meets(z, y)
<1> USE DEF Proper, AtOrBefore, Succ, SameStand, Meets
<1>1. CASE StaysAt(x, z)
  BY <1>1 DEF StaysAt
<1>2. CASE StepsOn(x, w, e, z) /\ x.c = 2
  BY <1>2 DEF StepsOn
<1>3. CASE StepsOn(x, w, e, z) /\ x.c # 2
  BY <1>3 DEF StepsOn
<1>4. CASE TakesUp(x, w, e, z)
  BY <1>4 DEF TakesUp
<1>5. CASE Adopts(x, w, z)
  BY <1>5 DEF Adopts
<1> QED
  BY <1>1, <1>2, <1>3, <1>4, <1>5 DEF Changes
IsFlow(f) == \E L \in Nat : DOMAIN f = 0..L

(* What has been echoed is all that is left of the earlier stands. *)
LEMMA EchoedSaid ==
  ASSUME NEW x, NEW y, NEW f, NEW g, NEW e, NEW n \in DOMAIN f,
         Proper(x), IsFlow(f), OneWay(x, y, f, g),
         SameStand(e, x), AtOrBefore(e, f[0].said)
  PROVE  SameStand(f[n].said, x)
<1>1. 0 \in DOMAIN f /\ n \in Nat
  BY DEF IsFlow
<1>2. /\ Proper(f[0].said) /\ Proper(f[n].said)
      /\ AtOrBefore(f[0].said, x) /\ AtOrBefore(f[n].said, x)
  BY <1>1 DEF OneWay
<1>3. SameStand(f[0].said, x)
  <2>1. AtOrBefore(x, f[0].said)
    BY SameStandSame
  <2> QED
    BY <1>2, <2>1, OrderOfStands
<1>4. CASE n = 0
  BY <1>3, <1>4
<1>5. CASE n # 0
  <2>1. AtOrBefore(f[0].said, f[n].said)
    BY <1>1, <1>5 DEF OneWay
  <2>2. AtOrBefore(x, f[n].said)
    BY <1>3, <2>1, SameStandSame
  <2> QED
    BY <1>2, <2>2, OrderOfStands
<1> QED
  BY <1>4, <1>5

LEMMA EchoedHeard ==
  ASSUME NEW x, NEW y, NEW f, NEW g, NEW n \in DOMAIN f,
         Proper(x), IsFlow(f), OneWay(y, x, f, g), SameStand(f[0].heard, x)
  PROVE  SameStand(f[n].heard, x)
<1>1. 0 \in DOMAIN f /\ n \in Nat
  BY DEF IsFlow
<1>2. CASE n # 0
  <2>1. /\ AtOrBefore(f[0].heard, f[n].heard) /\ AtOrBefore(f[n].heard, x)
        /\ Proper(f[n].heard)
    BY <1>1, <1>2 DEF OneWay
  <2>2. AtOrBefore(x, f[n].heard)
    BY <2>1, SameStandSame
  <2> QED
    BY <2>1, <2>2, OrderOfStands
<1> QED
  BY <1>2

(* x changes into z; the flow of its own. *)
LEMMA ChangeOwnFlow ==
  ASSUME NEW x, NEW y, NEW z, NEW f, NEW h, IsFlow(f), IsFlow(h),
         NEW w, w = h[0].said, NEW e, e = h[0].heard,
         Proper(x), Proper(y), Proper(z), Meets(x, y),
         OneWay(x, y, f, w), OneWay(y, x, h, f[0].said),
         Changes(x, w, e, z)
  PROVE  OneWay(z, y, f, w)
<1>1. 0 \in DOMAIN h /\ 0 \in DOMAIN f
  BY DEF IsFlow
<1>2. /\ Proper(w) /\ Proper(e) /\ AtOrBefore(e, f[0].said)
      /\ AtOrBefore(w, y) /\ AtOrBefore(e, w)
  BY <1>1 DEF OneWay
<1>3. ASSUME NEW n \in DOMAIN f
      PROVE  /\ AtOrBefore(f[n].said, z)
             /\ f[n].said.c = 2 /\ z.c = 2 /\ f[n].said.r # z.r =>
                  y.c = 2 /\ z.r <= y.r
  <2>1. /\ Proper(f[n].said) /\ AtOrBefore(f[n].said, x)
        /\ f[n].said.c = 2 /\ x.c = 2 /\ f[n].said.r # x.r =>
             y.c = 2 /\ x.r <= y.r
    BY DEF OneWay
  <2>2. SameStand(e, x) => SameStand(f[n].said, x)
    BY <1>2, EchoedSaid
  <2>3. AtOrBefore(f[n].said, z)
    BY <1>2, <2>1, <2>2, ChangeAfter
  <2>4. CASE StaysAt(x, z)
    BY <2>1, <2>3, <2>4 DEF StaysAt, SameStand
  <2>5. CASE StepsOn(x, w, e, z)
    BY <2>1, <2>2, <2>3, <2>5 DEF StepsOn, SameStand, Succ, Proper
  <2>6. CASE TakesUp(x, w, e, z)
    BY <2>2, <2>3, <2>6 DEF TakesUp, SameStand
  <2>7. CASE Adopts(x, w, z)
    <3>1. /\ z.r = w.r /\ x.c = 2 /\ w.c = 2 /\ x.r < w.r
      BY <2>7 DEF Adopts
    <3>2. y.c = 2 /\ w.r <= y.r
      BY <1>2, <3>1 DEF AtOrBefore, Meets, Succ, Proper
    <3> QED
      BY <2>3, <3>1, <3>2
  <2> QED
    BY <2>4, <2>5, <2>6, <2>7 DEF Changes
<1> QED
  BY <1>3 DEF OneWay

(* x changes into z; the flow of the other. *)
LEMMA ChangeOtherFlow ==
  ASSUME NEW x, NEW y, NEW z, NEW f, NEW h, IsFlow(f), IsFlow(h),
         NEW w, w = h[0].said, NEW e, e = h[0].heard,
         Proper(x), Proper(y), Proper(z), Meets(x, y),
         OneWay(x, y, f, w), OneWay(y, x, h, f[0].said),
         Changes(x, w, e, z)
  PROVE  OneWay(y, z, h, f[0].said)
<1>1. 0 \in DOMAIN h /\ 0 \in DOMAIN f
  BY DEF IsFlow
<1>2. /\ Proper(w) /\ Proper(e) /\ AtOrBefore(e, f[0].said)
      /\ AtOrBefore(w, y) /\ AtOrBefore(e, w)
      /\ w.c = 2 /\ y.c = 2 /\ w.r # y.r => x.c = 2 /\ y.r <= x.r
  BY <1>1 DEF OneWay
<1>3. ASSUME NEW n \in DOMAIN h
      PROVE  /\ AtOrBefore(h[n].heard, z)
             /\ h[n].said.c = 2 /\ y.c = 2 /\ h[n].said.r # y.r =>
                  z.c = 2 /\ y.r <= z.r
  <2>1. /\ Proper(h[n].said) /\ Proper(h[n].heard)
        /\ AtOrBefore(h[n].heard, x) /\ AtOrBefore(h[n].said, y)
        /\ h[n].said.c = 2 /\ y.c = 2 /\ h[n].said.r # y.r =>
             x.c = 2 /\ y.r <= x.r
    BY DEF OneWay
  <2>2. SameStand(e, x) => SameStand(h[n].heard, x)
    BY EchoedHeard
  <2>3. AtOrBefore(h[n].heard, z)
    BY <1>2, <2>1, <2>2, ChangeAfter
  <2>4. AtOrBefore(w, h[n].said)
    <3>1. CASE n = 0
      BY <1>2, <3>1, OrderOfStands
    <3>2. CASE n # 0
      <4>1. 0 < n
        BY <3>2 DEF IsFlow
      <4> QED
        BY <1>1, <4>1 DEF OneWay
    <3> QED
      BY <3>1, <3>2
  <2>5. ASSUME h[n].said.c = 2, y.c = 2, h[n].said.r # y.r
        PROVE  z.c = 2 /\ y.r <= z.r
    <3>1. x.c = 2 /\ y.r <= x.r
      BY <2>1, <2>5
    <3>2. CASE StaysAt(x, z)
      BY <3>1, <3>2 DEF StaysAt, SameStand
    <3>3. CASE StepsOn(x, w, e, z)
      <4>1. e.c = 2 /\ e.r = x.r /\ (w.c = 2 => w.r = x.r)
        BY <3>1, <3>3 DEF StepsOn, SameStand
      <4>2. w.c = 2 /\ w.r = x.r /\ w.r <= y.r
        BY <1>2, <2>5, <4>1 DEF AtOrBefore, Succ, Proper
      <4>3. w.r = y.r
        BY <1>2, <3>1, <4>2, <2>5 DEF Proper
      <4>4. w.r <= h[n].said.r /\ h[n].said.r <= y.r
        BY <2>1, <2>4, <2>5, <4>2 DEF AtOrBefore, Succ
      <4> QED
        BY <2>1, <2>5, <4>2, <4>3, <4>4 DEF Proper
    <3>4. CASE TakesUp(x, w, e, z)
      BY <3>1, <3>4 DEF TakesUp
    <3>5. CASE Adopts(x, w, z)
      BY <3>1, <3>5 DEF Adopts, Proper
    <3> QED
      BY <3>2, <3>3, <3>4, <3>5 DEF Changes
  <2> QED
    BY <2>3, <2>5
<1> QED
  BY <1>3 DEF OneWay
(* A message that is sent. *)
LEMMA SendFlow ==
  ASSUME NEW x, NEW y, NEW f, NEW w, NEW L \in Nat, DOMAIN f = 0..L,
         Proper(x), Proper(w), OneWay(x, y, f, w),
         AtOrBefore(w, x), AtOrBefore(w, y),
         NEW k, DOMAIN k = 0..(L + 1), \A n \in 0..L : k[n] = f[n],
         SameStand(k[L + 1].said, x), SameStand(k[L + 1].heard, w)
  PROVE  OneWay(x, y, k, w)
<1>1. \A n \in DOMAIN k : n \in DOMAIN f \/ n = L + 1
  OBVIOUS
<1>2. ASSUME NEW n \in DOMAIN k
      PROVE  /\ Proper(k[n].said) /\ Proper(k[n].heard)
             /\ AtOrBefore(k[n].heard, k[n].said) /\ AtOrBefore(k[n].said, x)
             /\ AtOrBefore(k[n].heard, y) /\ AtOrBefore(k[n].heard, w)
             /\ k[n].said.c = 2 /\ x.c = 2 /\ k[n].said.r # x.r =>
                  y.c = 2 /\ x.r <= y.r
  <2>1. CASE n \in DOMAIN f
    BY <2>1 DEF OneWay
  <2>2. CASE n = L + 1
    <3> DEFINE v == k[n].said
               h == k[n].heard
    <3>1. v.c = x.c /\ v.r = x.r /\ h.c = w.c /\ h.r = w.r
      BY <2>2 DEF SameStand
    <3> HIDE DEF v, h
    <3>2. Proper(v) /\ Proper(h)
      BY <3>1 DEF Proper
    <3>3. /\ AtOrBefore(h, v) /\ AtOrBefore(v, x)
          /\ AtOrBefore(h, y) /\ AtOrBefore(h, w)
      <4>1. AtOrBefore(x, x) /\ AtOrBefore(w, w)
        BY OrderOfStands
      <4> QED
        BY <3>1, <4>1 DEF AtOrBefore
    <3> QED
      BY <3>1, <3>2, <3>3 DEF v, h
  <2> QED
    BY <1>1, <2>1, <2>2
<1>3. ASSUME NEW m \in DOMAIN k, NEW n \in DOMAIN k, m < n
      PROVE  /\ AtOrBefore(k[m].said, k[n].said)
             /\ AtOrBefore(k[m].heard, k[n].heard)
  <2>1. m \in DOMAIN f
    BY <1>3
  <2>2. CASE n \in DOMAIN f
    <3>1. k[m] = f[m] /\ k[n] = f[n]
      BY <2>1, <2>2
    <3> QED
      BY <1>3, <2>1, <2>2, <3>1 DEF OneWay
  <2>3. CASE n = L + 1
    <3>1. AtOrBefore(k[m].said, x) /\ AtOrBefore(k[m].heard, w)
      BY <1>2
    <3>2. SameStand(k[n].said, x) /\ SameStand(k[n].heard, w)
      BY <2>3
    <3> QED
      BY <3>1, <3>2 DEF AtOrBefore, SameStand
  <2> QED
    BY <1>1, <2>2, <2>3
<1> QED
  BY <1>2, <1>3 DEF OneWay

(* A message that arrives: the flow to which it belongs. *)
LEMMA ArrivalFlow ==
  ASSUME NEW x, NEW y, NEW f, NEW w, NEW L \in Nat, L # 0, DOMAIN f = 0..L,
         OneWay(x, y, f, w),
         NEW k, DOMAIN k = 0..(L - 1), \A n \in 0..(L - 1) : k[n] = f[n + 1]
  PROVE  OneWay(x, y, k, w)
<1>1. \A n \in DOMAIN k : n + 1 \in DOMAIN f /\ k[n] = f[n + 1]
  OBVIOUS
<1>2. ASSUME NEW m \in DOMAIN k, NEW n \in DOMAIN k, m < n
      PROVE  /\ AtOrBefore(k[m].said, k[n].said)
             /\ AtOrBefore(k[m].heard, k[n].heard)
  <2>1. m + 1 < n + 1
    BY <1>2
  <2> QED
    BY <1>1, <2>1 DEF OneWay
<1> QED
  BY <1>1, <1>2 DEF OneWay

(* A message that arrives: the flow in the other direction. *)
LEMMA ArrivalOtherFlow ==
  ASSUME NEW x, NEW y, NEW f, NEW h, NEW w, NEW L \in Nat, L # 0,
         DOMAIN f = 0..L, Proper(x),
         OneWay(x, y, f, w), OneWay(y, x, h, f[0].said)
  PROVE  OneWay(y, x, h, f[1].said)
<1>1. 0 \in DOMAIN f /\ 1 \in DOMAIN f
  OBVIOUS
<1>2. ASSUME NEW n \in DOMAIN h
      PROVE  AtOrBefore(h[n].heard, f[1].said)
  <2>1. /\ Proper(h[n].heard) /\ AtOrBefore(h[n].heard, x)
        /\ AtOrBefore(h[n].heard, f[0].said)
    BY DEF OneWay
  <2>2. /\ Proper(f[0].said) /\ Proper(f[1].said)
        /\ AtOrBefore(f[0].said, f[1].said) /\ AtOrBefore(f[1].said, x)
    BY <1>1 DEF OneWay
  <2> QED
    BY <2>1, <2>2, Window
<1> QED
  BY <1>2 DEF OneWay

(***************************************************************************)
(* A processor at an odd degree x whose stand has been heard again from    *)
(* the other, or which the other has left behind, has seen the other.      *)
(***************************************************************************)
MustHaveSeen(x, y, f) ==
  /\ x.c \in {1, 3, 5}
  /\ (\E n \in DOMAIN f : f[n].heard.c = x.c) \/ y.c = Succ(x.c)

LEMMA ChangeSeen ==
  ASSUME NEW x, NEW y, NEW z, NEW f, NEW h, IsFlow(f), IsFlow(h),
         NEW w, w = h[0].said, NEW e, e = h[0].heard,
         Proper(x), Proper(y), Proper(z), Meets(x, y),
         OneWay(x, y, f, w), OneWay(y, x, h, f[0].said),
         Changes(x, w, e, z), MustHaveSeen(z, y, f)
  PROVE  StaysAt(x, z) /\ MustHaveSeen(x, y, f)
<1>1. 0 \in DOMAIN h /\ 0 \in DOMAIN f
  BY DEF IsFlow
<1>2. /\ Proper(w) /\ Proper(e) /\ AtOrBefore(e, f[0].said)
      /\ AtOrBefore(w, y) /\ AtOrBefore(e, w)
  BY <1>1 DEF OneWay
<1>3. CASE StaysAt(x, z)
  <2>1. x.c = z.c
    BY <1>3 DEF StaysAt, SameStand
  <2> QED
    BY <1>3, <2>1 DEF MustHaveSeen
<1>4. CASE StepsOn(x, w, e, z)
  <2>1. SameStand(e, x) /\ z.c = Succ(x.c)
    BY <1>4 DEF StepsOn
  <2>2. ASSUME NEW n \in DOMAIN f
        PROVE  f[n].heard.c # z.c
    <3>1. /\ SameStand(f[n].said, x) /\ AtOrBefore(f[n].heard, f[n].said)
          /\ Proper(f[n].heard)
      BY <1>2, <2>1, EchoedSaid DEF OneWay
    <3>2. AtOrBefore(f[n].heard, x)
      BY <3>1, SameStandSame
    <3> QED
      BY <2>1, <3>1, <3>2 DEF AtOrBefore, Proper, Succ
  <2>3. y.c # Succ(z.c)
    BY <2>1 DEF Meets, AtOrBefore, Proper, Succ
  <2> QED
    BY <2>2, <2>3 DEF MustHaveSeen
<1>5. CASE TakesUp(x, w, e, z) \/ Adopts(x, w, z)
  <2>1. z.c = 2
    BY <1>5 DEF TakesUp, Adopts
  <2> QED
    BY <2>1 DEF MustHaveSeen
<1> QED
  BY <1>3, <1>4, <1>5 DEF Changes

LEMMA ChangeSeenByOther ==
  ASSUME NEW x, NEW y, NEW z, NEW f, NEW h, IsFlow(f), IsFlow(h),
         NEW w, w = h[0].said, NEW e, e = h[0].heard,
         Proper(x), Proper(y), Proper(z), Meets(x, y),
         OneWay(x, y, f, w), OneWay(y, x, h, f[0].said),
         Changes(x, w, e, z), MustHaveSeen(y, z, h)
  PROVE  MustHaveSeen(y, x, h)
<1>1. 0 \in DOMAIN h
  BY DEF IsFlow
<1> SUFFICES ASSUME y.c \in {1, 3, 5}, z.c = Succ(y.c), x.c # Succ(y.c)
             PROVE  \E n \in DOMAIN h : h[n].heard.c = y.c
  BY DEF MustHaveSeen
<1>2. AtOrBefore(w, y) /\ Proper(w)
  BY <1>1 DEF OneWay
<1>3. ~ StaysAt(x, z)
  BY DEF StaysAt, SameStand
<1>4. ~ Adopts(x, w, z)
  BY <1>2 DEF Adopts, AtOrBefore, Succ
<1>5. SameStand(e, x) /\ z.c = Succ(x.c)
  BY <1>3, <1>4 DEF Changes, StepsOn, TakesUp, Succ
<1>6. x.c = y.c
  BY <1>5 DEF Succ, Proper
<1>7. h[0].heard.c = y.c
  BY <1>5, <1>6 DEF SameStand
<1> QED
  BY <1>1, <1>7
-----------------------------------------------------------------------------
(***************************************************************************)
(* The two processors, what they store of each other and the messages      *)
(* between them.                                                           *)
(***************************************************************************)
Own(i) == Mine(st[i])

Stored(s, i) == [said |-> Yours(s), heard |-> Echo(s), conf |-> s.config[i]]

Carried(m) == [said |-> Stand(m.prp, m.alll),
               heard |-> Stand(m.echoPrp, m.echoAll), conf |-> m.config]

Flow(i) ==
  [n \in 0 .. Len(chan[i][Other(i)]) |->
     IF n = 0 THEN Stored(st[Other(i)], i) ELSE Carried(chan[i][Other(i)][n])]

PairMessage(m) == /\ m.fdPart = Node /\ m.echoPart = Node /\ m.config \in Sets
                  /\ Sound(m.prp) /\ Sound(m.echoPrp)

(* One of the two has installed what both propose in phase 2. *)
Installing(x, y) == (x.c = 4 /\ y.c = 5) \/ (x.c = 5 /\ y.c = 4)

Coherent(i) ==
  /\ PairState(st[i]) /\ SeesItself(st[i])
  /\ chan[i][i] = <<>>
  /\ \A n \in 1..Len(chan[i][Other(i)]) : PairMessage(chan[i][Other(i)][n])
  /\ OneWay(Own(i), Own(Other(i)), Flow(i), Flow(Other(i))[0].said)
  /\ Meets(Own(i), Own(Other(i)))
  /\ Own(i).c = 5 => Conf(i) = Proposed(i)
  /\ Conf(i) = Conf(Other(i)) \/ Installing(Own(i), Own(Other(i)))
  /\ \A n \in DOMAIN Flow(i) :
       \/ Flow(i)[n].conf = Conf(i)
       \/ Flow(i)[n].said.c = 4 /\ Own(i).c = 5
  /\ MustHaveSeen(Own(i), Own(Other(i)), Flow(i)) => Other(i) \in st[i].allSeen

(* As long as both run. *)
PairInv == TypeOK /\ (up = Node => \A i \in Node : Coherent(i))

LEMMA FlowParts ==
  ASSUME N = 2, TypeOK, NEW i \in Node, NEW o, o = Other(i)
  PROVE  /\ o \in Node /\ o # i /\ Node = {i, o} /\ Other(o) = i
         /\ Len(chan[i][o]) \in Nat /\ DOMAIN Flow(i) = 0..Len(chan[i][o])
         /\ IsFlow(Flow(i)) /\ 0 \in DOMAIN Flow(i)
         /\ Flow(i)[0] = Stored(st[o], i)
         /\ st[i].id = i /\ st[o].id = o
         /\ st[i] \in LocalState /\ st[o] \in LocalState
<1>1. o \in Node /\ o # i /\ Node = {i, o} /\ Other(o) = i
  BY TwoProcessors
<1>2. Len(chan[i][o]) \in Nat
  BY <1>1 DEF TypeOK
<1>3. DOMAIN Flow(i) = 0..Len(chan[i][o])
  BY DEF Flow
<1>4. IsFlow(Flow(i)) /\ 0 \in DOMAIN Flow(i)
  BY <1>2, <1>3 DEF IsFlow
<1>5. Flow(i)[0] = Stored(st[o], i)
  BY <1>3, <1>4 DEF Flow
<1> QED
  BY <1>1, <1>2, <1>3, <1>4, <1>5 DEF TypeOK

LEMMA OwnProper ==
  ASSUME N = 2, TypeOK, NEW i \in Node, PairState(st[i])
  PROVE  Proper(Own(i))
BY PairParts DEF Own

LEMMA OwnFlowKept ==
  ASSUME N = 2, TypeOK, NEW i \in Node, NEW o, o = Other(i),
         st'[o] = st[o], chan'[i][o] = chan[i][o]
  PROVE  Flow(i)' = Flow(i)
<1>1. Flow(i)' = [n \in 0 .. Len(chan'[i][o]) |->
                    IF n = 0 THEN Stored(st'[o], i) ELSE Carried(chan'[i][o][n])]
  BY DEF Flow
<1>2. Flow(i) = [n \in 0 .. Len(chan[i][o]) |->
                   IF n = 0 THEN Stored(st[o], i) ELSE Carried(chan[i][o][n])]
  BY DEF Flow
<1> QED
  BY <1>1, <1>2

LEMMA OwnFlowSent ==
  ASSUME N = 2, TypeOK, NEW i \in Node, NEW o, o = Other(i),
         st'[o] = st[o], NEW m \in Message,
         chan'[i][o] = Append(chan[i][o], m)
  PROVE  LET L == Len(chan[i][o])
         IN  /\ DOMAIN Flow(i)' = 0..(L + 1)
             /\ \A n \in 0..L : Flow(i)'[n] = Flow(i)[n]
             /\ Flow(i)'[L + 1] = Carried(m)
<1> DEFINE L == Len(chan[i][o])
<1>1. chan[i][o] \in Seq(Message) /\ L \in Nat
  BY FlowParts DEF TypeOK
<1>2. /\ Len(chan'[i][o]) = L + 1 /\ chan'[i][o][L + 1] = m
      /\ \A n \in 1..L : chan'[i][o][n] = chan[i][o][n]
  BY <1>1
<1>3. Flow(i)' = [n \in 0 .. (L + 1) |->
                    IF n = 0 THEN Stored(st'[o], i) ELSE Carried(chan'[i][o][n])]
  BY <1>2 DEF Flow
<1>4. Flow(i) = [n \in 0 .. L |->
                   IF n = 0 THEN Stored(st[o], i) ELSE Carried(chan[i][o][n])]
  BY DEF Flow
<1> HIDE DEF L
<1>5. ASSUME NEW n \in 0..L
      PROVE  Flow(i)'[n] = Flow(i)[n]
  <2>1. CASE n = 0
    BY <1>1, <1>3, <1>4, <2>1
  <2>2. CASE n # 0
    <3>1. n \in 1..L /\ n \in 0..(L + 1)
      BY <1>1, <2>2
    <3> QED
      BY <1>2, <1>3, <1>4, <2>2, <3>1
  <2> QED
    BY <2>1, <2>2
<1>6. Flow(i)'[L + 1] = Carried(m)
  BY <1>1, <1>2, <1>3
<1> QED
  BY <1>3, <1>5, <1>6 DEF L

LEMMA OwnFlowReceived ==
  ASSUME N = 2, TypeOK, NEW i \in Node, NEW o, o = Other(i),
         chan[i][o] # <<>>, chan'[i][o] = Tail(chan[i][o]),
         Stored(st'[o], i) = Carried(Head(chan[i][o]))
  PROVE  LET L == Len(chan[i][o])
         IN  /\ L \in Nat /\ L # 0 /\ DOMAIN Flow(i) = 0..L
             /\ DOMAIN Flow(i)' = 0..(L - 1)
             /\ \A n \in 0..(L - 1) : Flow(i)'[n] = Flow(i)[n + 1]
<1> DEFINE L == Len(chan[i][o])
<1>1. chan[i][o] \in Seq(Message) /\ L \in Nat
  BY FlowParts DEF TypeOK
<1>2. /\ L # 0 /\ Len(chan'[i][o]) = L - 1
      /\ Head(chan[i][o]) = chan[i][o][1]
      /\ \A n \in 1..(L - 1) : chan'[i][o][n] = chan[i][o][n + 1]
  BY <1>1
<1>3. Flow(i)' = [n \in 0 .. (L - 1) |->
                    IF n = 0 THEN Stored(st'[o], i) ELSE Carried(chan'[i][o][n])]
  BY <1>2 DEF Flow
<1>4. Flow(i) = [n \in 0 .. L |->
                   IF n = 0 THEN Stored(st[o], i) ELSE Carried(chan[i][o][n])]
  BY DEF Flow
<1> HIDE DEF L
<1>5. ASSUME NEW n \in 0..(L - 1)
      PROVE  Flow(i)'[n] = Flow(i)[n + 1]
  <2>1. n + 1 \in 0..L /\ n + 1 # 0
    BY <1>1
  <2>2. Flow(i)[n + 1] = Carried(chan[i][o][n + 1])
    BY <1>4, <2>1
  <2>3. CASE n = 0
    BY <1>2, <1>3, <2>2, <2>3
  <2>4. CASE n # 0
    <3>1. n \in 1..(L - 1)
      BY <1>1, <2>4
    <3> QED
      BY <1>2, <1>3, <2>2, <2>4, <3>1
  <2> QED
    BY <2>3, <2>4
<1> QED
  BY <1>1, <1>2, <1>3, <1>4, <1>5 DEF L
-----------------------------------------------------------------------------
(* What a coherent pair tells a processor i, with the other o. *)
LEMMA PairFacts ==
  ASSUME N = 2, TypeOK, \A k \in Node : Coherent(k), NEW i \in Node,
         NEW o, o = Other(i)
  PROVE  /\ Proper(Own(i)) /\ Proper(Own(o))
         /\ IsFlow(Flow(i)) /\ IsFlow(Flow(o))
         /\ Flow(o)[0].said = Yours(st[i]) /\ Flow(o)[0].heard = Echo(st[i])
         /\ Flow(o)[0].conf = st[i].config[o]
         /\ Meets(Own(i), Own(o)) /\ Meets(Own(o), Own(i))
         /\ OneWay(Own(i), Own(o), Flow(i), Flow(o)[0].said)
         /\ OneWay(Own(o), Own(i), Flow(o), Flow(i)[0].said)
         /\ Proper(Yours(st[i])) /\ Proper(Echo(st[i]))
         /\ AtOrBefore(Echo(st[i]), Yours(st[i]))
         /\ AtOrBefore(Echo(st[i]), Own(i))
         /\ AtOrBefore(Yours(st[i]), Own(o))
         /\ Yours(st[i]).c = 2 /\ Own(o).c = 2 /\ Yours(st[i]).r # Own(o).r =>
              Own(i).c = 2 /\ Own(o).r <= Own(i).r
<1>1. /\ o \in Node /\ Other(o) = i /\ IsFlow(Flow(i))
  BY FlowParts
<1>2. /\ IsFlow(Flow(o)) /\ Flow(o)[0] = Stored(st[i], o)
      /\ 0 \in DOMAIN Flow(o)
  BY <1>1, FlowParts
<1>3. /\ Flow(o)[0].said = Yours(st[i]) /\ Flow(o)[0].heard = Echo(st[i])
      /\ Flow(o)[0].conf = st[i].config[o]
  BY <1>2 DEF Stored
<1>4. Coherent(i) /\ Coherent(o)
  BY <1>1
<1>5. Proper(Own(i)) /\ Proper(Own(o))
  BY <1>1, <1>4, OwnProper DEF Coherent
<1>6. /\ Meets(Own(i), Own(o)) /\ Meets(Own(o), Own(i))
      /\ OneWay(Own(i), Own(o), Flow(i), Flow(o)[0].said)
      /\ OneWay(Own(o), Own(i), Flow(o), Flow(i)[0].said)
  BY <1>1, <1>4 DEF Coherent
<1> QED
  BY <1>1, <1>2, <1>3, <1>5, <1>6 DEF OneWay

LEMMA KnowsNumbers ==
  ASSUME NEW x, NEW y, NEW w, NEW e,
         Proper(x), Proper(y), Proper(w), Proper(e), Meets(x, y),
         AtOrBefore(e, x), AtOrBefore(e, w), AtOrBefore(w, y),
         w.c = 2 /\ y.c = 2 /\ w.r # y.r => x.c = 2 /\ y.r <= x.r
  PROVE  /\ Knows(x, w, e)
         /\ w.c = Succ(x.c) => y.c = Succ(x.c)
<1> USE DEF Proper, AtOrBefore, Meets, Succ
<1>1. x.c = 2 /\ w.c = 3 => x.r = w.r
  OBVIOUS
<1>2. x.c = 3 /\ w.c = 2 => x.r = w.r
  OBVIOUS
<1>3. w.c = Succ(x.c) => y.c = Succ(x.c)
  OBVIOUS
<1> QED
  BY <1>1, <1>2, <1>3 DEF Knows

(* A coherent pair is ready for a pass of either. *)
LEMMA PairReady ==
  ASSUME N = 2, TypeOK, \A k \in Node : Coherent(k), NEW i \in Node
  PROVE  PassReady(st[i])
<1> DEFINE o == Other(i)
           s == st[i]
<1>1. /\ o \in Node /\ s.id = i /\ 0 \in DOMAIN Flow(o) /\ Coherent(i)
      /\ Other(o) = i /\ Coherent(o)
  BY FlowParts
<1>2. /\ Proper(Own(i)) /\ Proper(Own(o))
      /\ Flow(o)[0].said = Yours(s) /\ Flow(o)[0].conf = s.config[o]
      /\ Meets(Own(i), Own(o))
      /\ Proper(Yours(s)) /\ Proper(Echo(s))
      /\ AtOrBefore(Echo(s), Yours(s)) /\ AtOrBefore(Echo(s), Own(i))
      /\ AtOrBefore(Yours(s), Own(o))
      /\ Yours(s).c = 2 /\ Own(o).c = 2 /\ Yours(s).r # Own(o).r =>
              Own(i).c = 2 /\ Own(o).r <= Own(i).r
  BY PairFacts
<1>3. Own(i) = Mine(s)
  BY DEF Own
<1>4. /\ Knows(Own(i), Yours(s), Echo(s))
      /\ Yours(s).c = Succ(Own(i).c) => Own(o).c = Succ(Own(i).c)
  BY <1>2, KnowsNumbers
<1>5. Mine(s).c \in {1, 3, 5} /\ Yours(s).c = Succ(Mine(s).c) => o \in s.allSeen
  BY <1>1, <1>3, <1>4 DEF Coherent, MustHaveSeen
<1>6. Mine(s).c = 5 => s.config[i] = s.prp[i].set
  BY <1>1, <1>3 DEF Coherent, Conf, Proposed
<1>7. Mine(s).c <= 1 /\ Yours(s).c <= 1 => s.config[i] = s.config[o]
  <2> SUFFICES ASSUME Mine(s).c <= 1, Yours(s).c <= 1
               PROVE  s.config[i] = s.config[o]
    OBVIOUS
  <2>1. Yours(s).c # 4
    OBVIOUS
  <2>2. Flow(o)[0].conf = Conf(o)
    BY <1>1, <1>2, <2>1 DEF Coherent
  <2>3. Conf(i) = Conf(o)
    BY <1>1, <1>3 DEF Coherent, Installing
  <2> QED
    BY <1>2, <2>2, <2>3 DEF Conf
<1> QED
  BY <1>1, <1>3, <1>4, <1>5, <1>6, <1>7 DEF PassReady, Coherent
-----------------------------------------------------------------------------
(* What a pass, or a call of estab(), makes of the record s. *)
Outcome(s, u) ==
  /\ PairState(u) /\ u.id = s.id /\ SeesItself(u)
  /\ u.prp[Other(s.id)] = s.prp[Other(s.id)]
  /\ u.alll[Other(s.id)] <=> s.alll[Other(s.id)]
  /\ u.echoPrp = s.echoPrp /\ u.echoAll = s.echoAll
  /\ Changes(Mine(s), Yours(s), Echo(s), Mine(u))
  /\ u.config = [s.config EXCEPT ![s.id] = IF Mine(u).c = 5
                                           THEN u.prp[s.id].set
                                           ELSE s.config[s.id]]
  /\ StaysAt(Mine(s), Mine(u)) => s.allSeen \subseteq u.allSeen

LEMMA ConfigNumbers ==
  ASSUME NEW x, NEW y, NEW w, NEW e, NEW z,
         Proper(x), Proper(y), Proper(w), Proper(e), Proper(z), Meets(x, y),
         AtOrBefore(e, w), AtOrBefore(w, y), Changes(x, w, e, z)
  PROVE  /\ z.c = 5 => \/ x.c = 5 /\ x.r = z.r
                       \/ /\ x.c = 4 /\ x.r = z.r /\ SameStand(e, x)
                          /\ y.c = 4 \/ (y.c = 5 /\ y.r = z.r)
         /\ z.c # 5 /\ Installing(x, y) => Installing(z, y)
         /\ z.c # 5 /\ x.c = 5 => SameStand(e, x)
<1> USE DEF Proper, AtOrBefore, Meets, Succ, SameStand, Installing
<1>1. CASE StaysAt(x, z)
  BY <1>1 DEF StaysAt
<1>2. CASE StepsOn(x, w, e, z)
  BY <1>2 DEF StepsOn
<1>3. CASE TakesUp(x, w, e, z) \/ Adopts(x, w, z)
  BY <1>3 DEF TakesUp, Adopts
<1> QED
  BY <1>1, <1>2, <1>3 DEF Changes

(* The flows and the stands after the change of i. *)
LEMMA ChangeFlows ==
  ASSUME N = 2, TypeOK, \A k \in Node : Coherent(k), NEW i \in Node,
         NEW o, o = Other(i), NEW u, Outcome(st[i], u)
  PROVE  /\ OneWay(Mine(u), Own(o), Flow(i), Flow(o)[0].said)
         /\ OneWay(Own(o), Mine(u), Flow(o), Flow(i)[0].said)
         /\ Meets(Mine(u), Own(o)) /\ Meets(Own(o), Mine(u))
         /\ MustHaveSeen(Mine(u), Own(o), Flow(i)) => o \in u.allSeen
         /\ MustHaveSeen(Own(o), Mine(u), Flow(o)) => i \in st[o].allSeen
<1> DEFINE s == st[i]
           x == Own(i)
           y == Own(o)
           z == Mine(u)
           w == Yours(s)
           e == Echo(s)
           f == Flow(i)
           h == Flow(o)
<1>1. /\ o \in Node /\ s.id = i /\ Other(o) = i /\ x = Mine(s)
  BY FlowParts DEF Own
<1>2. /\ Proper(x) /\ Proper(y) /\ IsFlow(f) /\ IsFlow(h)
      /\ w = h[0].said /\ e = h[0].heard
      /\ Meets(x, y) /\ Proper(w) /\ Proper(e)
      /\ OneWay(x, y, f, w) /\ OneWay(y, x, h, f[0].said)
      /\ AtOrBefore(w, y) /\ AtOrBefore(e, w)
      /\ w.c = 2 /\ y.c = 2 /\ w.r # y.r => x.c = 2 /\ y.r <= x.r
  BY PairFacts
<1>3. Proper(z) /\ Changes(x, w, e, z)
  BY <1>1, PairParts DEF Outcome
<1>4. StaysAt(x, z) => s.allSeen \subseteq u.allSeen
  BY <1>1 DEF Outcome
<1>5. /\ MustHaveSeen(x, y, f) => o \in s.allSeen
      /\ MustHaveSeen(y, x, h) => i \in st[o].allSeen
  BY <1>1 DEF Coherent
<1> HIDE DEF s, x, y, z, w, e, f, h
<1>6. OneWay(z, y, f, w)
  BY <1>2, <1>3, ChangeOwnFlow
<1>7. OneWay(y, z, h, f[0].said)
  BY <1>2, <1>3, ChangeOtherFlow
<1>8. Meets(z, y) /\ Meets(y, z)
  BY <1>2, <1>3, ChangeMeets DEF Meets
<1>9. MustHaveSeen(z, y, f) => o \in u.allSeen
  BY <1>2, <1>3, <1>4, <1>5, ChangeSeen
<1>10. MustHaveSeen(y, z, h) => i \in st[o].allSeen
  BY <1>2, <1>3, <1>5, ChangeSeenByOther
<1> QED
  BY <1>2, <1>6, <1>7, <1>8, <1>9, <1>10 DEF s, x, y, z, f, h

(* The configurations after the change of i. *)
LEMMA ChangeConfig ==
  ASSUME N = 2, TypeOK, \A k \in Node : Coherent(k), NEW i \in Node,
         NEW o, o = Other(i), NEW u, Outcome(st[i], u)
  PROVE  /\ Mine(u).c = 5 => u.config[i] = u.prp[i].set
         /\ u.config[i] = Conf(o) \/ Installing(Mine(u), Own(o))
         /\ \A n \in DOMAIN Flow(i) :
              \/ Flow(i)[n].conf = u.config[i]
              \/ Flow(i)[n].said.c = 4 /\ Mine(u).c = 5
         /\ u.config[o] = st[i].config[o]
<1> DEFINE s == st[i]
           x == Own(i)
           y == Own(o)
           z == Mine(u)
           w == Yours(s)
           e == Echo(s)
           f == Flow(i)
           h == Flow(o)
<1>1. /\ o \in Node /\ o # i /\ s.id = i /\ Other(o) = i /\ x = Mine(s)
      /\ s \in LocalState
  BY FlowParts DEF Own
<1>2. /\ Proper(x) /\ Proper(y) /\ IsFlow(f) /\ IsFlow(h)
      /\ w = h[0].said /\ e = h[0].heard
      /\ Meets(x, y) /\ Proper(w) /\ Proper(e)
      /\ OneWay(x, y, f, w) /\ OneWay(y, x, h, f[0].said)
      /\ AtOrBefore(w, y) /\ AtOrBefore(e, w)
  BY PairFacts
<1>3. Proper(z) /\ Changes(x, w, e, z) /\ PairState(u)
  BY <1>1, PairParts DEF Outcome
<1>4. /\ u.config[i] = IF z.c = 5 THEN u.prp[i].set ELSE s.config[i]
      /\ u.config[o] = s.config[o]
  BY <1>1 DEF Outcome, LocalState
<1>5. /\ PairState(s) /\ PairState(st[o])
      /\ x.c = 5 => s.config[i] = s.prp[i].set
      /\ y.c = 5 => Conf(o) = st[o].prp[o].set
      /\ s.config[i] = Conf(o) \/ Installing(x, y)
      /\ \A n \in DOMAIN f : \/ f[n].conf = s.config[i]
                             \/ f[n].said.c = 4 /\ x.c = 5
  BY <1>1 DEF Coherent, Conf, Proposed
<1>6. /\ Sound(u.prp[i]) /\ Sound(s.prp[i]) /\ Sound(st[o].prp[o])
      /\ z.r = Rank(u.prp[i].set) /\ x.r = Rank(s.prp[i].set)
      /\ y.r = Rank(st[o].prp[o].set)
  <2>1. u.id = i /\ st[o].id = o
    BY <1>1, FlowParts DEF Outcome
  <2>2. z.r = Rank(u.prp[i].set)
    BY <1>3, <2>1, RecordStands
  <2>3. x.r = Rank(s.prp[i].set)
    BY <1>1, <1>5, RecordStands
  <2>4. y.r = Rank(st[o].prp[o].set)
    BY <1>5, <2>1, RecordStands DEF Own
  <2>5. Sound(u.prp[i]) /\ Sound(s.prp[i]) /\ Sound(st[o].prp[o])
    BY <1>1, <1>3, <1>5 DEF PairState
  <2> QED
    BY <2>2, <2>3, <2>4, <2>5
<1>7. /\ z.r = x.r => u.prp[i].set = s.prp[i].set
      /\ z.r = y.r => u.prp[i].set = st[o].prp[o].set
  <2>1. Rank(u.prp[i].set) = Rank(s.prp[i].set) => u.prp[i].set = s.prp[i].set
    BY <1>6, SameRank
  <2>2. Rank(u.prp[i].set) = Rank(st[o].prp[o].set)
          => u.prp[i].set = st[o].prp[o].set
    BY <1>6, SameRank
  <2> QED
    BY <1>6, <2>1, <2>2
<1>8. SameStand(e, x) => \A n \in DOMAIN f : f[n].said.c = x.c
  <2>1. AtOrBefore(e, f[0].said)
    <3>1. 0 \in DOMAIN h
      BY <1>2 DEF IsFlow
    <3> QED
      BY <1>2, <3>1 DEF OneWay
  <2>2. ASSUME NEW n \in DOMAIN f, SameStand(e, x)
        PROVE  f[n].said.c = x.c
    <3>1. SameStand(f[n].said, x)
      BY <1>2, <2>1, <2>2, EchoedSaid
    <3> QED
      BY <3>1 DEF SameStand
  <2> QED
    BY <2>2
<1> DEFINE ci == s.config[i]
           cu == u.config[i]
           co == Conf(o)
           pu == u.prp[i].set
           ps == s.prp[i].set
           po == st[o].prp[o].set
<1>9. /\ z.c = 5 => \/ x.c = 5 /\ x.r = z.r
                    \/ /\ x.c = 4 /\ x.r = z.r /\ SameStand(e, x)
                       /\ y.c = 4 \/ (y.c = 5 /\ y.r = z.r)
      /\ z.c # 5 /\ Installing(x, y) => Installing(z, y)
      /\ z.c # 5 /\ x.c = 5 => SameStand(e, x)
  BY <1>2, <1>3, ConfigNumbers
<1>10. /\ cu = IF z.c = 5 THEN pu ELSE ci
       /\ x.c = 5 => ci = ps
       /\ y.c = 5 => co = po
       /\ ci = co \/ Installing(x, y)
       /\ \A n \in DOMAIN f : f[n].conf = ci \/ (f[n].said.c = 4 /\ x.c = 5)
       /\ z.r = x.r => pu = ps
       /\ z.r = y.r => pu = po
  BY <1>4, <1>5, <1>7
<1> HIDE DEF x, y, z, w, e, f, h, ci, cu, co, pu, ps, po
<1>11. cu = co \/ Installing(z, y)
  <2>1. CASE z.c # 5
    BY <1>9, <1>10, <2>1
  <2>2. CASE z.c = 5 /\ x.c = 5
    <3>1. cu = ci
      BY <1>9, <1>10, <2>2
    <3> QED
      BY <1>10, <2>2, <3>1 DEF Installing
  <2>3. CASE z.c = 5 /\ x.c # 5
    <3>1. y.c = 4 \/ (y.c = 5 /\ y.r = z.r)
      BY <1>9, <2>3
    <3> QED
      BY <1>10, <2>3, <3>1 DEF Installing
  <2> QED
    BY <2>1, <2>2, <2>3
<1>12. ASSUME NEW n \in DOMAIN f
       PROVE  f[n].conf = cu \/ (f[n].said.c = 4 /\ z.c = 5)
  <2>1. CASE z.c # 5
    BY <1>8, <1>9, <1>10, <2>1
  <2>2. CASE z.c = 5 /\ x.c = 5
    BY <1>9, <1>10, <2>2
  <2>3. CASE z.c = 5 /\ x.c # 5
    BY <1>8, <1>9, <2>3
  <2> QED
    BY <2>1, <2>2, <2>3
<1>13. z.c = 5 => cu = pu
  BY <1>10
<1> QED
  BY <1>4, <1>11, <1>12, <1>13 DEF y, z, f, cu, co, pu
-----------------------------------------------------------------------------
(* Only the record of i changes. *)
Becomes(i, u) == st' = [st EXCEPT ![i] = u]

(* What is the same for i and o after a change of i alone. *)
LEMMA ChangeRest ==
  ASSUME N = 2, TypeOK, \A k \in Node : Coherent(k), NEW i \in Node,
         NEW o, o = Other(i), NEW u, Outcome(st[i], u),
         Becomes(i, u), chan'[o][i] = chan[o][i]
  PROVE  /\ u \in LocalState /\ u.id = i /\ st'[i] = u /\ st'[o] = st[o]
         /\ Own(i)' = Mine(u) /\ Own(o)' = Own(o)
         /\ Flow(o)' = Flow(o) /\ Flow(i)'[0] = Flow(i)[0]
         /\ Yours(u) = Yours(st[i])
         /\ Conf(i)' = u.config[i] /\ Conf(o)' = Conf(o)
         /\ Proposed(i)' = u.prp[i].set /\ Proposed(o)' = Proposed(o)
<1>1. /\ o \in Node /\ o # i /\ st[i].id = i /\ Other(o) = i
      /\ st[i] \in LocalState /\ Flow(i)[0] = Stored(st[o], i)
  BY FlowParts
<1>2. u.id = i /\ u \in LocalState
  BY <1>1 DEF Outcome, PairState
<1>3. u.config[o] = st[i].config[o]
  BY <1>1 DEF Outcome, LocalState
<1>4. st'[i] = u /\ st'[o] = st[o]
  BY <1>1 DEF TypeOK, Becomes
<1>5. Stored(u, o) = Stored(st[i], o) /\ Yours(u) = Yours(st[i])
  <2>1. u.alll[o] = st[i].alll[o]
    BY <1>1, <1>2 DEF Outcome, LocalState
  <2> QED
    BY <1>1, <1>2, <1>3, <2>1 DEF Outcome, Stored, Yours, Echo
<1>7. Flow(o)' = Flow(o)
  <2>1. Flow(o)' = [n \in 0 .. Len(chan'[o][i]) |->
                      IF n = 0 THEN Stored(st'[i], o) ELSE Carried(chan'[o][i][n])]
    BY <1>1 DEF Flow
  <2>2. Flow(o) = [n \in 0 .. Len(chan[o][i]) |->
                     IF n = 0 THEN Stored(st[i], o) ELSE Carried(chan[o][i][n])]
    BY <1>1 DEF Flow
  <2> QED
    BY <1>4, <1>5, <2>1, <2>2
<1>6. Flow(i)'[0] = Stored(st'[o], i)
  <2>1. Flow(i)' = [n \in 0 .. Len(chan'[i][o]) |->
                      IF n = 0 THEN Stored(st'[o], i)
                               ELSE Carried(chan'[i][o][n])]
    BY DEF Flow
  <2> QED
    BY <2>1
<1> QED
  BY <1>1, <1>2, <1>4, <1>5, <1>6, <1>7 DEF Conf, Proposed, Own
(* The pair stays coherent when i changes and sends nothing, or a message  *)
(* that tells its new stand and what it has heard.                         *)
SendsStand(i, u, m) ==
  /\ m \in Message /\ PairMessage(m)
  /\ Carried(m) = [said |-> Mine(u), heard |-> Yours(u), conf |-> u.config[i]]
  /\ AtOrBefore(Yours(u), Mine(u))
  /\ Mine(u).c \in {1, 3, 5} /\ Yours(u).c = Mine(u).c => Other(i) \in u.allSeen

LEMMA ChangeKeepsOther ==
  ASSUME N = 2, TypeOK, \A k \in Node : Coherent(k), NEW i \in Node,
         NEW o, o = Other(i), NEW u, Outcome(st[i], u),
         Becomes(i, u), chan'[o][i] = chan[o][i],
         chan'[o][o] = chan[o][o]
  PROVE  Coherent(o)'
<1>1. /\ o \in Node /\ o # i /\ Other(o) = i
  BY FlowParts
<1>2. /\ st'[o] = st[o] /\ Own(i)' = Mine(u) /\ Own(o)' = Own(o)
      /\ Flow(o)' = Flow(o) /\ Flow(i)'[0] = Flow(i)[0]
      /\ Conf(i)' = u.config[i] /\ Conf(o)' = Conf(o)
      /\ Proposed(o)' = Proposed(o)
  BY ChangeRest
<1>3. /\ OneWay(Own(o), Mine(u), Flow(o), Flow(i)[0].said)
      /\ Meets(Own(o), Mine(u))
      /\ MustHaveSeen(Own(o), Mine(u), Flow(o)) => i \in st[o].allSeen
  BY ChangeFlows
<1>4. Conf(o) = u.config[i] \/ Installing(Own(o), Mine(u))
  BY ChangeConfig DEF Installing
<1>5. Coherent(o)
  BY <1>1
<1>6. /\ PairState(st'[o]) /\ SeesItself(st'[o]) /\ chan'[o][o] = <<>>
      /\ \A n \in 1..Len(chan'[o][i]) : PairMessage(chan'[o][i][n])
      /\ Own(o).c = 5 => Conf(o) = Proposed(o)
      /\ \A n \in DOMAIN Flow(o) : \/ Flow(o)[n].conf = Conf(o)
                                   \/ Flow(o)[n].said.c = 4 /\ Own(o).c = 5
  BY <1>1, <1>2, <1>5 DEF Coherent
<1>7. Coherent(o)' <=>
        /\ PairState(st'[o]) /\ SeesItself(st'[o])
        /\ chan'[o][o] = <<>>
        /\ \A n \in 1..Len(chan'[o][i]) : PairMessage(chan'[o][i][n])
        /\ OneWay(Own(o)', Own(i)', Flow(o)', Flow(i)'[0].said)
        /\ Meets(Own(o)', Own(i)')
        /\ Own(o)'.c = 5 => Conf(o)' = Proposed(o)'
        /\ Conf(o)' = Conf(i)' \/ Installing(Own(o)', Own(i)')
        /\ \A n \in DOMAIN Flow(o)' :
             \/ Flow(o)'[n].conf = Conf(o)'
             \/ Flow(o)'[n].said.c = 4 /\ Own(o)'.c = 5
        /\ MustHaveSeen(Own(o)', Own(i)', Flow(o)') => i \in st'[o].allSeen
  BY <1>1 DEF Coherent
<1> QED
  BY <1>2, <1>3, <1>4, <1>6, <1>7

LEMMA ChangeKeepsOwn ==
  ASSUME N = 2, TypeOK, \A k \in Node : Coherent(k), NEW i \in Node,
         NEW o, o = Other(i), NEW u, Outcome(st[i], u),
         Becomes(i, u), chan'[o][i] = chan[o][i],
         chan'[i][i] = chan[i][i],
         \/ chan'[i][o] = chan[i][o]
         \/ \E m : SendsStand(i, u, m) /\ chan'[i][o] = Append(chan[i][o], m)
  PROVE  Coherent(i)'
<1> DEFINE y == Own(o)
           z == Mine(u)
           w == Yours(u)
           f == Flow(i)
           k == Flow(i)'
           L == Len(chan[i][o])
<1>1. /\ o \in Node /\ o # i /\ Other(o) = i /\ L \in Nat
      /\ DOMAIN f = 0..L /\ IsFlow(f) /\ chan[i][o] \in Seq(Message)
  BY FlowParts DEF TypeOK
<1>2. /\ u \in LocalState /\ u.id = i
      /\ st'[i] = u /\ st'[o] = st[o] /\ Own(i)' = z /\ Own(o)' = y
      /\ Flow(o)' = Flow(o) /\ Yours(u) = Yours(st[i])
      /\ Conf(i)' = u.config[i] /\ Conf(o)' = Conf(o)
      /\ Proposed(i)' = u.prp[i].set
  BY ChangeRest
<1>3. Flow(o)[0].said = w /\ Proper(w) /\ AtOrBefore(w, y)
  BY <1>2, PairFacts
<1>4. /\ OneWay(z, y, f, w) /\ Meets(z, y)
      /\ MustHaveSeen(z, y, f) => o \in u.allSeen
  BY <1>3, ChangeFlows
<1>5. /\ z.c = 5 => u.config[i] = u.prp[i].set
      /\ u.config[i] = Conf(o) \/ Installing(z, y)
      /\ \A n \in DOMAIN f : \/ f[n].conf = u.config[i]
                             \/ f[n].said.c = 4 /\ z.c = 5
  BY ChangeConfig
<1>6. PairState(u) /\ SeesItself(u) /\ Proper(z)
  BY PairParts DEF Outcome
<1>7. /\ chan[i][i] = <<>>
      /\ \A n \in 1..L : PairMessage(chan[i][o][n])
  BY DEF Coherent
<1>8. Coherent(i)' <=>
        /\ PairState(st'[i]) /\ SeesItself(st'[i])
        /\ chan'[i][i] = <<>>
        /\ \A n \in 1..Len(chan'[i][o]) : PairMessage(chan'[i][o][n])
        /\ OneWay(Own(i)', Own(o)', k, Flow(o)'[0].said)
        /\ Meets(Own(i)', Own(o)')
        /\ Own(i)'.c = 5 => Conf(i)' = Proposed(i)'
        /\ Conf(i)' = Conf(o)' \/ Installing(Own(i)', Own(o)')
        /\ \A n \in DOMAIN k : \/ k[n].conf = Conf(i)'
                               \/ k[n].said.c = 4 /\ Own(i)'.c = 5
        /\ MustHaveSeen(Own(i)', Own(o)', k) => o \in st'[i].allSeen
  BY DEF Coherent
<1>9. CASE chan'[i][o] = chan[i][o]
  <2>1. k = f
    BY <1>2, <1>9, OwnFlowKept
  <2> HIDE DEF f, k, z, y, w
  <2> QED
    BY <1>2, <1>3, <1>4, <1>5, <1>6, <1>7, <1>8, <1>9, <2>1
<1>10. CASE \E m : SendsStand(i, u, m) /\ chan'[i][o] = Append(chan[i][o], m)
  <2>1. PICK m : SendsStand(i, u, m) /\ chan'[i][o] = Append(chan[i][o], m)
    BY <1>10
  <2>2. /\ DOMAIN k = 0..(L + 1) /\ k[L + 1] = Carried(m)
        /\ \A n \in 0..L : k[n] = f[n]
    BY <1>2, <2>1, OwnFlowSent DEF SendsStand
  <2>3. /\ k[L + 1].said = z /\ k[L + 1].heard = w
        /\ k[L + 1].conf = u.config[i] /\ AtOrBefore(w, z)
        /\ z.c \in {1, 3, 5} /\ w.c = z.c => o \in u.allSeen
    BY <2>1, <2>2 DEF SendsStand
  <2>4. \A n \in 1..Len(chan'[i][o]) : PairMessage(chan'[i][o][n])
    <3>1. /\ Len(chan'[i][o]) = L + 1 /\ chan'[i][o][L + 1] = m
          /\ \A n \in 1..L : chan'[i][o][n] = chan[i][o][n]
      BY <1>1, <2>1 DEF SendsStand
    <3>2. \A n \in 1..(L + 1) : n \in 1..L \/ n = L + 1
      BY <1>1
    <3> QED
      BY <1>7, <2>1, <3>1, <3>2 DEF SendsStand
  <2> HIDE DEF L, f, k, z, y, w
  <2>5. \A n \in DOMAIN k : n \in 0..L \/ n = L + 1
    BY <1>1, <2>2
  <2>6. OneWay(z, y, k, w)
    <3>1. SameStand(k[L + 1].said, z) /\ SameStand(k[L + 1].heard, w)
      BY <2>3 DEF SameStand
    <3> QED
      BY <1>1, <1>3, <1>4, <1>6, <2>2, <2>3, <3>1, SendFlow DEF z
  <2>7. \A n \in DOMAIN k : \/ k[n].conf = u.config[i]
                            \/ k[n].said.c = 4 /\ z.c = 5
    BY <1>1, <1>5, <2>2, <2>3, <2>5
  <2>8. MustHaveSeen(z, y, k) => o \in u.allSeen
    BY <1>1, <1>4, <2>2, <2>3, <2>5 DEF MustHaveSeen
  <2> QED
    BY <1>2, <1>3, <1>4, <1>5, <1>6, <1>7, <1>8, <2>4, <2>6, <2>7, <2>8
<1> QED
  BY <1>9, <1>10
-----------------------------------------------------------------------------
(* What a message of i does to the record of the other. *)
LEMMA PairReceipt ==
  ASSUME N = 2, NEW s, PairState(s), SeesItself(s), NEW o, o = s.id,
         NEW i, i = Other(o), NEW m \in Message, PairMessage(m),
         NEW v, v = ReceiveMsg(s, i, m)
  PROVE  /\ PairState(v) /\ SeesItself(v) /\ v.id = o
         /\ Mine(v) = Mine(s) /\ Stored(v, i) = Carried(m)
         /\ v.allSeen = s.allSeen
         /\ v.config[o] = s.config[o] /\ v.prp[o] = s.prp[o]
<1>1. /\ o \in Node /\ i \in Node /\ i # o /\ s \in LocalState
  BY PairParts DEF PairState
<1>2. v \in LocalState
  BY <1>1, ReceiveMsgType
<1>3. /\ v.id = o /\ v.trusted = s.trusted /\ v.allSeen = s.allSeen
      /\ v.config = [s.config EXCEPT ![i] = m.config]
      /\ v.prp = [s.prp EXCEPT ![i] = m.prp]
      /\ v.alll = [s.alll EXCEPT ![i] = m.alll]
      /\ v.fdPart = [s.fdPart EXCEPT ![i] = m.fdPart]
      /\ v.echoPart = [s.echoPart EXCEPT ![i] = m.echoPart]
      /\ v.echoPrp = [s.echoPrp EXCEPT ![i] = m.echoPrp]
      /\ v.echoAll = [s.echoAll EXCEPT ![i] = m.echoAll]
  BY <1>1 DEF ReceiveMsg, LocalState
<1> HIDE DEF ReceiveMsg
<1>4. /\ v.config[i] = m.config /\ v.prp[i] = m.prp /\ v.alll[i] = m.alll
      /\ v.fdPart[i] = m.fdPart /\ v.echoPart[i] = m.echoPart
      /\ v.echoPrp[i] = m.echoPrp /\ v.echoAll[i] = m.echoAll
      /\ \A k \in Node \ {i} : /\ v.config[k] = s.config[k]
                               /\ v.prp[k] = s.prp[k] /\ v.alll[k] = s.alll[k]
                               /\ v.echoPrp[k] = s.echoPrp[k]
  BY <1>1, <1>3 DEF LocalState
<1>5. PairState(v)
  <2>1. \A k \in Node : /\ v.config[k] \in Sets
                        /\ Sound(v.prp[k]) /\ Sound(v.echoPrp[k])
    BY <1>4 DEF PairState, PairMessage
  <2> QED
    BY <1>2, <1>3, <1>4, <2>1 DEF PairState, PairMessage
<1>6. Mine(v) = Mine(s) /\ SeesItself(v)
  BY <1>1, <1>3, <1>4 DEF Mine, SeesItself
<1>7. Stored(v, i) = Carried(m)
  BY <1>3, <1>4 DEF Stored, Carried, Yours, Echo
<1> QED
  BY <1>1, <1>3, <1>4, <1>5, <1>6, <1>7

LEMMA ReceiptKeeps ==
  ASSUME N = 2, TypeOK, \A k \in Node : Coherent(k), NEW i \in Node,
         NEW o, o = Other(i), chan[i][o] # <<>>,
         NEW v, v = ReceiveMsg(st[o], i, Head(chan[i][o])), Becomes(o, v),
         chan'[i][o] = Tail(chan[i][o]), chan'[o][i] = chan[o][i],
         chan'[i][i] = chan[i][i], chan'[o][o] = chan[o][o]
  PROVE  Coherent(i)' /\ Coherent(o)'
<1> DEFINE x == Own(i)
           y == Own(o)
           f == Flow(i)
           h == Flow(o)
           k == Flow(i)'
           L == Len(chan[i][o])
           m == Head(chan[i][o])
<1>1. /\ o \in Node /\ o # i /\ Other(o) = i
      /\ chan[i][o] \in Seq(Message)
      /\ st[i].id = i /\ st[o].id = o
      /\ st \in [Node -> LocalState] /\ st[o] \in LocalState
      /\ Coherent(i) /\ Coherent(o)
  BY FlowParts DEF TypeOK
<1>2. /\ m \in Message /\ m = chan[i][o][1] /\ L \in Nat /\ L # 0
      /\ Len(chan'[i][o]) = L - 1
      /\ \A n \in 1..(L - 1) : chan'[i][o][n] = chan[i][o][n + 1]
  BY <1>1
<1>3. /\ PairState(st[i]) /\ SeesItself(st[i])
      /\ PairState(st[o]) /\ SeesItself(st[o])
      /\ chan[i][i] = <<>> /\ chan[o][o] = <<>>
      /\ \A n \in 1..L : PairMessage(chan[i][o][n])
      /\ \A n \in 1..Len(chan[o][i]) : PairMessage(chan[o][i][n])
      /\ x.c = 5 => Conf(i) = Proposed(i)
      /\ y.c = 5 => Conf(o) = Proposed(o)
      /\ Conf(i) = Conf(o) \/ Installing(x, y)
      /\ Conf(o) = Conf(i) \/ Installing(y, x)
      /\ \A n \in DOMAIN f : \/ f[n].conf = Conf(i)
                             \/ f[n].said.c = 4 /\ x.c = 5
      /\ \A n \in DOMAIN h : \/ h[n].conf = Conf(o)
                             \/ h[n].said.c = 4 /\ y.c = 5
      /\ MustHaveSeen(x, y, f) => o \in st[i].allSeen
      /\ MustHaveSeen(y, x, h) => i \in st[o].allSeen
  BY <1>1 DEF Coherent
<1>4. PairMessage(m)
  BY <1>2, <1>3
<1>5. /\ st'[o] = v /\ st'[i] = st[i]
      /\ PairState(v) /\ SeesItself(v)
      /\ Mine(v) = Mine(st[o]) /\ Stored(v, i) = Carried(m)
      /\ v.allSeen = st[o].allSeen
      /\ v.config[o] = st[o].config[o] /\ v.prp[o] = st[o].prp[o]
  <2>1. st'[o] = v /\ st'[i] = st[i]
    BY <1>1 DEF Becomes
  <2> QED
    BY <1>1, <1>2, <1>3, <1>4, <2>1, PairReceipt
<1>6. /\ Own(i)' = x /\ Own(o)' = y
      /\ Conf(i)' = Conf(i) /\ Conf(o)' = Conf(o)
      /\ Proposed(i)' = Proposed(i) /\ Proposed(o)' = Proposed(o)
  BY <1>5 DEF Own, Conf, Proposed
<1>7. Flow(o)' = h
  BY <1>1, <1>5, OwnFlowKept
<1>8. /\ DOMAIN f = 0..L /\ DOMAIN k = 0..(L - 1)
      /\ \A n \in 0..(L - 1) : k[n] = f[n + 1]
  BY <1>5, OwnFlowReceived
<1>9. \A n \in 1..Len(chan'[i][o]) : PairMessage(chan'[i][o][n])
  BY <1>2, <1>3
<1>10. /\ Proper(x) /\ Proper(y) /\ Meets(x, y) /\ Meets(y, x)
       /\ OneWay(x, y, f, h[0].said) /\ OneWay(y, x, h, f[0].said)
  BY PairFacts
<1>11. Coherent(i)' <=>
        /\ PairState(st'[i]) /\ SeesItself(st'[i])
        /\ chan'[i][i] = <<>>
        /\ \A n \in 1..Len(chan'[i][o]) : PairMessage(chan'[i][o][n])
        /\ OneWay(Own(i)', Own(o)', k, Flow(o)'[0].said)
        /\ Meets(Own(i)', Own(o)')
        /\ Own(i)'.c = 5 => Conf(i)' = Proposed(i)'
        /\ Conf(i)' = Conf(o)' \/ Installing(Own(i)', Own(o)')
        /\ \A n \in DOMAIN k : \/ k[n].conf = Conf(i)'
                               \/ k[n].said.c = 4 /\ Own(i)'.c = 5
        /\ MustHaveSeen(Own(i)', Own(o)', k) => o \in st'[i].allSeen
  BY DEF Coherent
<1>12. Coherent(o)' <=>
        /\ PairState(st'[o]) /\ SeesItself(st'[o])
        /\ chan'[o][o] = <<>>
        /\ \A n \in 1..Len(chan'[o][i]) : PairMessage(chan'[o][i][n])
        /\ OneWay(Own(o)', Own(i)', Flow(o)', k[0].said)
        /\ Meets(Own(o)', Own(i)')
        /\ Own(o)'.c = 5 => Conf(o)' = Proposed(o)'
        /\ Conf(o)' = Conf(i)' \/ Installing(Own(o)', Own(i)')
        /\ \A n \in DOMAIN Flow(o)' :
             \/ Flow(o)'[n].conf = Conf(o)'
             \/ Flow(o)'[n].said.c = 4 /\ Own(o)'.c = 5
        /\ MustHaveSeen(Own(o)', Own(i)', Flow(o)') => i \in st'[o].allSeen
  BY <1>1 DEF Coherent
<1> HIDE DEF x, y, f, h, k, L, m
<1>13. \A n \in DOMAIN k : n + 1 \in DOMAIN f /\ k[n] = f[n + 1]
  BY <1>2, <1>8
<1>14. OneWay(x, y, k, h[0].said)
  BY <1>2, <1>8, <1>10, ArrivalFlow
<1>15. OneWay(y, x, h, k[0].said)
  <2>1. OneWay(y, x, h, f[1].said)
    BY <1>2, <1>8, <1>10, ArrivalOtherFlow
  <2>2. k[0] = f[1]
    <3>1. 0 \in 0..(L - 1)
      BY <1>2
    <3>2. k[0] = f[0 + 1]
      BY <1>8, <3>1
    <3> QED
      BY <3>2
  <2> QED
    BY <2>1, <2>2
<1>16. MustHaveSeen(x, y, k) => MustHaveSeen(x, y, f)
  BY <1>13 DEF MustHaveSeen
<1>17. Coherent(i)'
  BY <1>3, <1>5, <1>6, <1>7, <1>9, <1>10, <1>11, <1>13, <1>14, <1>16
<1>18. Coherent(o)'
  BY <1>3, <1>5, <1>6, <1>7, <1>10, <1>12, <1>15
<1> QED
  BY <1>17, <1>18
-----------------------------------------------------------------------------
(* A pass and the message that it sends. *)
LEMMA PassOutcome ==
  ASSUME N = 2, NEW s, PassReady(s), NEW t \in BeforeTests(s),
         NEW u \in AfterTests(t), NEW i, i = s.id, NEW o, o = Other(i)
  PROVE  Outcome(s, u) /\ SendsStand(i, u, StateMsg(u, o))
<1>1. PairState(s) /\ i \in Node /\ o \in Node /\ o # i /\ s \in LocalState
  BY PairParts DEF PassReady, PairState
<1>2. /\ PairState(u) /\ u.id = i
      /\ u.prp[o] = s.prp[o] /\ (u.alll[o] <=> s.alll[o])
      /\ u.echoPrp = s.echoPrp /\ u.echoAll = s.echoAll
      /\ Changes(Mine(s), Yours(s), Echo(s), Mine(u))
      /\ AtOrBefore(Yours(s), Mine(u))
      /\ u.config = [s.config EXCEPT ![i] = IF Mine(u).c = 5
                                               THEN u.prp[i].set
                                               ELSE s.config[i]]
      /\ SeesItself(u)
      /\ Mine(u).c \in {1, 3, 5} /\ Yours(s).c = Mine(u).c => o \in u.allSeen
      /\ StaysAt(Mine(s), Mine(u)) => s.allSeen \subseteq u.allSeen
  BY PairPass
<1>3. Outcome(s, u)
  BY <1>2 DEF Outcome
<1>4. Yours(u) = Yours(s)
  <2>1. u.alll[o] = s.alll[o]
    BY <1>1, <1>2 DEF PairState, LocalState
  <2> QED
    BY <1>2, <2>1 DEF Yours
<1>5. FlagIsOwn(u)
  <2>1. \/ Yours(u).c = Mine(u).c
        \/ Mine(u).c = Succ(Yours(u).c)
    BY <1>2, <1>4 DEF AtOrBefore
  <2> QED
    BY <1>2, <2>1, FlagFromStands
<1> DEFINE m == StateMsg(u, o)
<1>6. u \in LocalState /\ FdPart(u) = Node
  BY <1>2, PairParts DEF PairState
<1>7. MyAlll(u, i) = u.alll[i]
  <2>1. MyAlll(u, i) <=> u.alll[i]
    BY <1>2, <1>5, PairDegrees
  <2>2. u.alll[i] \in BOOLEAN /\ MyAlll(u, i) \in BOOLEAN
    BY <1>1, <1>6 DEF LocalState, MyAlll
  <2> QED
    BY <2>1, <2>2
<1>8. /\ m.fdPart = Node /\ m.config = u.config[i] /\ m.prp = u.prp[i]
      /\ m.alll = u.alll[i] /\ m.echoPart = u.fdPart[o]
      /\ m.echoPrp = u.prp[o] /\ m.echoAll = u.alll[o]
  BY <1>1, <1>2, <1>6, <1>7 DEF StateMsg, FdPartOf
<1>9. m \in Message
  BY <1>1, <1>6, StateMsgType
<1> HIDE DEF m
<1>10. PairMessage(m)
  BY <1>1, <1>2, <1>8 DEF PairMessage, PairState
<1>11. Carried(m) = [said |-> Mine(u), heard |-> Yours(u), conf |-> u.config[i]]
  BY <1>2, <1>8 DEF Carried, Mine, Yours
<1> QED
  BY <1>2, <1>3, <1>4, <1>9, <1>10, <1>11 DEF SendsStand, m

(* A processor whose stand and readings are the same. *)
LEMMA StayOutcome ==
  ASSUME N = 2, NEW s, PassReady(s), NEW u, PairState(u), u.id = s.id,
         u.config = s.config, u.prp = s.prp, u.alll = s.alll,
         u.allSeen = s.allSeen, u.echoPrp = s.echoPrp, u.echoAll = s.echoAll
  PROVE  Outcome(s, u)
<1>1. /\ Mine(u) = Mine(s) /\ SeesItself(u)
      /\ Mine(s).c = 5 => s.config[s.id] = s.prp[s.id].set
  BY DEF Mine, SeesItself, PassReady
<1>2. s.config = [s.config EXCEPT ![s.id] = s.config[s.id]]
  BY DEF PassReady, PairState, LocalState
<1>3. StaysAt(Mine(s), Mine(u))
  BY <1>1 DEF StaysAt, SameStand
<1>4. u.config = [s.config EXCEPT ![s.id] = IF Mine(u).c = 5
                                            THEN u.prp[s.id].set
                                            ELSE s.config[s.id]]
  <2>1. (IF Mine(u).c = 5 THEN u.prp[s.id].set ELSE s.config[s.id])
          = s.config[s.id]
    BY <1>1
  <2> QED
    BY <1>2, <2>1
<1> QED
  BY <1>1, <1>3, <1>4 DEF Outcome, Changes

(* What allow_reco() says between two. *)
LEMMA PairAllows ==
  ASSUME N = 2, NEW s, PassReady(s), AllowReco(s)
  PROVE  /\ Mine(s).c = 1 /\ Yours(s).c = 1 /\ SameStand(Echo(s), Mine(s))
<1> DEFINE i == s.id
           o == Other(s.id)
<1>1. /\ PairState(s) /\ i \in Node /\ o \in Node /\ o # i /\ FdPart(s) = Node
      /\ s \in LocalState /\ s.trusted = Node
  BY PairParts DEF PassReady, PairState
<1>2. /\ s.prp[i] = DfltNtf /\ s.alll[i] /\ s.prp[o] = DfltNtf /\ s.alll[o]
      /\ EchoFun(s, o)
  BY <1>1 DEF AllowReco
<1>3. /\ Mine(s).c \in 0..5 /\ Yours(s).c \in 0..5
      /\ PhaseAt(Mine(s).c) = 0 /\ PhaseAt(Yours(s).c) = 0
      /\ Mine(s).c \in {1, 3, 5} /\ Yours(s).c \in {1, 3, 5}
  <2>1. s.prp[i].ph = 0 /\ s.prp[o].ph = 0
    BY <1>2 DEF DfltNtf
  <2> QED
    BY <1>1, <1>2, <2>1, RecordStands
<1>4. Mine(s).c = 1 /\ Yours(s).c = 1
  BY <1>3 DEF PhaseAt
<1>5. s.prp[i] = s.echoPrp[o] /\ MyAlll(s, i) = s.echoAll[o]
  BY <1>1, <1>2 DEF EchoFun, EchoNoAll, EchoPrpOf, EchoAllOf
<1>6. MyAlll(s, i)
  BY <1>2 DEF MyAlll
<1>7. s.echoAll[o] <=> s.alll[i]
  BY <1>2, <1>5, <1>6
<1> QED
  BY <1>1, <1>4, <1>5, <1>7, RecordStands
LEMMA PairEstab ==
  ASSUME N = 2, NEW s, PassReady(s), NEW S \in SUBSET Node,
         NEW u, u = Estab(s, S), u # s
  PROVE  Outcome(s, u) /\ AllowReco(s)
<1> DEFINE i == s.id
           o == Other(s.id)
           p == [ph |-> 1, set |-> S]
<1>1. AllowReco(s) /\ S # {}
  BY DEF Estab
<1>2. /\ PairState(s) /\ i \in Node /\ o \in Node /\ o # i
      /\ s \in LocalState /\ s.trusted = Node
  BY PairParts DEF PassReady, PairState
<1>3. u = [s EXCEPT !.prp[i] = p, !.alll[i] = FALSE, !.allSeen = {}]
  BY DEF Estab
<1>4. u \in LocalState
  BY <1>2, EstabType
<1> HIDE DEF Estab
<1>5. /\ u.id = i /\ u.trusted = s.trusted /\ u.config = s.config
      /\ u.fdPart = s.fdPart /\ u.echoPart = s.echoPart
      /\ u.echoPrp = s.echoPrp /\ u.echoAll = s.echoAll
      /\ u.prp = [s.prp EXCEPT ![i] = p]
      /\ u.alll = [s.alll EXCEPT ![i] = FALSE] /\ u.allSeen = {}
  BY <1>2, <1>3 DEF LocalState
<1>6. /\ u.prp[i] = p /\ u.prp[o] = s.prp[o]
      /\ ~ u.alll[i] /\ (u.alll[o] <=> s.alll[o])
  BY <1>2, <1>5 DEF LocalState
<1>7. Sound(p) /\ p.ph = 1
  BY <1>1 DEF Sound, Ntf, Sets
<1>8. PairState(u)
  <2>1. \A k \in Node : Sound(u.prp[k])
    BY <1>2, <1>5, <1>7 DEF PairState, LocalState
  <2> QED
    BY <1>2, <1>4, <1>5, <2>1 DEF PairState
<1>9. Mine(u).c = 2
  <2>1. /\ Mine(u).c \in 0..5 /\ PhaseAt(Mine(u).c) = 1
        /\ Mine(u).c \notin {1, 3, 5}
    <3>1. /\ Mine(u).c \in 0..5 /\ PhaseAt(Mine(u).c) = u.prp[u.id].ph
          /\ u.alll[u.id] <=> Mine(u).c \in {1, 3, 5}
      BY <1>8, RecordStands
    <3> QED
      BY <1>5, <1>6, <1>7, <3>1
  <2> QED
    BY <2>1 DEF PhaseAt
<1>10. Mine(s).c = 1 /\ Yours(s).c = 1 /\ SameStand(Echo(s), Mine(s))
  BY <1>1, PairAllows
<1>11. /\ Changes(Mine(s), Yours(s), Echo(s), Mine(u))
       /\ ~ StaysAt(Mine(s), Mine(u))
  BY <1>9, <1>10 DEF Changes, TakesUp, StaysAt, SameStand
<1>12. u.config = [s.config EXCEPT ![i] = IF Mine(u).c = 5 THEN u.prp[i].set
                                                        ELSE s.config[i]]
  <2>1. s.config = [s.config EXCEPT ![i] = s.config[i]]
    BY <1>2 DEF LocalState
  <2>2. (IF Mine(u).c = 5 THEN u.prp[i].set ELSE s.config[i]) = s.config[i]
    BY <1>9
  <2> QED
    BY <1>5, <2>1, <2>2
<1>13. SeesItself(u)
  BY <1>5, <1>6 DEF SeesItself
<1> QED
  BY <1>1, <1>5, <1>6, <1>8, <1>11, <1>12, <1>13 DEF Outcome

(* A change of i keeps the pair coherent. *)
LEMMA ChangeKeeps ==
  ASSUME N = 2, TypeOK, \A k \in Node : Coherent(k), NEW i \in Node,
         NEW o, o = Other(i), NEW u, Outcome(st[i], u), Becomes(i, u),
         chan'[o] = chan[o], chan'[i][i] = chan[i][i],
         \/ chan'[i][o] = chan[i][o]
         \/ \E m : SendsStand(i, u, m) /\ chan'[i][o] = Append(chan[i][o], m)
  PROVE  \A k \in Node : Coherent(k)'
<1>1. Coherent(i)'
  BY ChangeKeepsOwn
<1>2. Coherent(o)'
  BY ChangeKeepsOther
<1> QED
  BY <1>1, <1>2, TwoProcessors
-----------------------------------------------------------------------------
(***************************************************************************)
(* Passes, calls of estab() and tokens: every change that i makes itself   *)
(* has an outcome, and a pass sends it.                                    *)
(***************************************************************************)
PairChange(i) ==
  \E u : /\ Outcome(st[i], u) /\ Becomes(i, u)
         /\ chan'[Other(i)] = chan[Other(i)] /\ chan'[i][i] = chan[i][i]
         /\ \/ chan'[i][Other(i)] = chan[i][Other(i)]
            \/ \E m : /\ SendsStand(i, u, m)
                      /\ chan'[i][Other(i)] = Append(chan[i][Other(i)], m)

LEMMA PairChangeKeeps ==
  ASSUME N = 2, TypeOK, \A k \in Node : Coherent(k), NEW i \in Node,
         PairChange(i)
  PROVE  \A k \in Node : Coherent(k)'
<1>1. PICK u :
        /\ Outcome(st[i], u) /\ Becomes(i, u)
        /\ chan'[Other(i)] = chan[Other(i)] /\ chan'[i][i] = chan[i][i]
        /\ \/ chan'[i][Other(i)] = chan[i][Other(i)]
           \/ \E m : /\ SendsStand(i, u, m)
                     /\ chan'[i][Other(i)] = Append(chan[i][Other(i)], m)
  BY DEF PairChange
<1> QED
  BY <1>1, ChangeKeeps

LEMMA IterateChange ==
  ASSUME N = 2, TypeOK, up = Node, \A k \in Node : Coherent(k),
         NEW i \in Node, Iterate(i)
  PROVE  PairChange(i)
<1> DEFINE o == Other(i)
           s == st[i]
<1>1. /\ o \in Node /\ o # i /\ Node = {i, o} /\ s.id = i /\ PassReady(s)
      /\ \A j \in Node : chan[j] \in [Node -> Seq(Message)]
      /\ chan \in [Node -> [Node -> Seq(Message)]]
  BY FlowParts, PairReady DEF TypeOK
<1>2. PICK t \in BeforeTests(s) :
        \E u \in AfterTests(t) : st' = [st EXCEPT ![i] = u] /\ Send(u)
  BY DEF Iterate
<1>2a. PICK u \in AfterTests(t) : st' = [st EXCEPT ![i] = u] /\ Send(u)
  BY <1>2
<1>3. Outcome(s, u) /\ SendsStand(i, u, StateMsg(u, o))
  BY <1>1, <1>2, <1>2a, PassOutcome
<1>4. Targets(u) = {o}
  <2>1. PairState(u) /\ u.id = i
    BY <1>1, <1>3 DEF Outcome
  <2>2. u.config[i] # NotParticipant /\ u.trusted = Node
    BY <1>1, <2>1, NodeNotEmpty DEF PairState, Sets, Real
  <2> QED
    BY <1>1, <2>1, <2>2 DEF Targets
<1>5. chan' = [chan EXCEPT ![i] =
                 [j \in Node |-> IF j \in {o} THEN Append(chan[i][j], StateMsg(u, j))
                                              ELSE chan[i][j]]]
  BY <1>1, <1>2a, <1>3, <1>4 DEF Send, Outcome
<1>6. /\ chan'[o] = chan[o] /\ chan'[i][i] = chan[i][i]
      /\ chan'[i][o] = Append(chan[i][o], StateMsg(u, o))
  BY <1>1, <1>5
<1>7. Becomes(i, u)
  BY <1>2a DEF Becomes
<1> HIDE DEF o, s
<1>8. Outcome(st[i], u) /\ o = Other(i)
  BY <1>3 DEF s, o
<1>9. \E m : SendsStand(i, u, m) /\ chan'[i][o] = Append(chan[i][o], m)
  BY <1>3, <1>6
<1> QED
  BY <1>6, <1>7, <1>8, <1>9 DEF PairChange

LEMMA EstabChange ==
  ASSUME N = 2, TypeOK, \A k \in Node : Coherent(k),
         NEW i \in Node, NEW S \in Proposals, RequestEstab(i, S)
  PROVE  PairChange(i)
<1> DEFINE u == Estab(st[i], S)
<1>1. S \in SUBSET Node
  BY ProposalsAssumption
<1>2. st' = [st EXCEPT ![i] = u] /\ u # st[i] /\ chan' = chan
  BY DEF RequestEstab
<1>3. Outcome(st[i], u)
  BY <1>1, <1>2, PairReady, PairEstab
<1> HIDE DEF u
<1>4. Becomes(i, u)
  BY <1>2 DEF Becomes
<1> QED
  BY <1>2, <1>3, <1>4 DEF PairChange

LEMMA TokenChange ==
  ASSUME N = 2, TypeOK, \A k \in Node : Coherent(k),
         NEW i \in Node, NEW j \in Node, FDToken(i, j)
  PROVE  PairChange(i)
<1>1. /\ Node = {i, j} /\ i # j /\ st[i].id = i /\ st[i].trusted = Node
      /\ PairState(st[i]) /\ st[i] \in LocalState /\ PassReady(st[i])
  BY TwoProcessors, FlowParts, PairReady DEF FDToken, Coherent, PairState
<1> DEFINE known == IF st[i].trusted = {} THEN Node
                                          ELSE st[i].trusted \union {i, j}
           m == CapAt3(st[i].monitor[j] + 1)
           After(drop) == [st[i] EXCEPT !.trusted = known \ drop,
                                        !.monitor = [st[i].monitor EXCEPT
                                           ![j] = m, ![i] = CapAt3(m + 1)]]
<1>2. PICK drop \in SUBSET (known \ {i, j}) : st' = [st EXCEPT ![i] = After(drop)]
  BY DEF FDToken
<1>3. known \ drop = Node
  BY <1>1
<1> DEFINE u == After(drop)
<1>4. u \in LocalState
  <2>1. TypeOK'
    <3>1. Next
      BY DEF Next
    <3> QED
      BY <3>1, NextType
  <2>2. st'[i] = u
    BY <1>2 DEF TypeOK
  <2> QED
    BY <2>1, <2>2 DEF TypeOK
<1>5. /\ u.trusted = Node /\ u.id = i /\ u.config = st[i].config
      /\ u.prp = st[i].prp /\ u.alll = st[i].alll /\ u.allSeen = st[i].allSeen
      /\ u.fdPart = st[i].fdPart /\ u.echoPart = st[i].echoPart
      /\ u.echoPrp = st[i].echoPrp /\ u.echoAll = st[i].echoAll
  BY <1>1, <1>3 DEF LocalState
<1> HIDE DEF u
<1>6. PairState(u)
  BY <1>1, <1>4, <1>5 DEF PairState
<1>7. Outcome(st[i], u)
  BY <1>1, <1>5, <1>6, StayOutcome
<1>8. Becomes(i, u) /\ chan' = chan
  BY <1>2 DEF Becomes, u, FDToken
<1> QED
  BY <1>7, <1>8 DEF PairChange

LEMMA IdleKeepsPair ==
  ASSUME N = 2, TypeOK, \A k \in Node : Coherent(k), st' = st, chan' = chan
  PROVE  \A k \in Node : Coherent(k)'
<1>1. PICK i \in Node : TRUE
  BY DEF Node
<1>2. PassReady(st[i])
  BY PairReady
<1>3. Outcome(st[i], st[i])
  BY <1>2, StayOutcome DEF PassReady
<1>4. Becomes(i, st[i])
  BY DEF Becomes, TypeOK
<1> QED
  BY <1>3, <1>4, ChangeKeeps

LEMMA ReceiveKeepsPair ==
  ASSUME N = 2, TypeOK, \A k \in Node : Coherent(k),
         NEW j \in Node, NEW i \in Node, Receive(j, i)
  PROVE  \A k \in Node : Coherent(k)'
<1>1. chan[i][j] # <<>> /\ Coherent(i)
  BY DEF Receive
<1>2. j = Other(i) /\ j # i /\ Node = {i, j}
  BY <1>1, TwoProcessors DEF Coherent
<1>3. Becomes(j, ReceiveMsg(st[j], i, Head(chan[i][j])))
  BY DEF Receive, Becomes
<1>4. /\ chan'[i][j] = Tail(chan[i][j]) /\ chan'[j][i] = chan[j][i]
      /\ chan'[i][i] = chan[i][i] /\ chan'[j][j] = chan[j][j]
  BY <1>2 DEF Receive, TypeOK
<1> QED
  BY <1>1, <1>2, <1>3, <1>4, ReceiptKeeps

(* While both run, a step is a change of one, a receipt or a kill. *)
LEMMA PairSteps ==
  ASSUME N = 2, TypeOK, up = Node, \A k \in Node : Coherent(k), Next
  PROVE  \E i \in Node : \/ PairChange(i) /\ up' = up
                         \/ (\E j \in Node : Receive(i, j)) /\ up' = up
                         \/ Crash(i)
<1>1. PICK i \in Node :
        \/ Iterate(i)
        \/ IterateRaises(i)
        \/ RequestParticipate(i)
        \/ Crash(i)
        \/ \E S \in Proposals : RequestEstab(i, S)
        \/ \E j \in Node : Receive(i, j) \/ FDToken(i, j)
  BY DEF Next
<1>2. ~ IterateRaises(i)
  BY PairReady, PairTests DEF IterateRaises
<1>3. ~ RequestParticipate(i)
  <2>1. FdPart(st[i]) = Node
    BY PairParts DEF Coherent
  <2> QED
    BY <2>1 DEF RequestParticipate
<1>4. CASE Crash(i)
  BY <1>4
<1>5. CASE Iterate(i)
  BY <1>5, IterateChange DEF Iterate
<1>6. CASE \E S \in Proposals : RequestEstab(i, S)
  BY <1>6, EstabChange DEF RequestEstab
<1>7. CASE \E j \in Node : Receive(i, j)
  BY <1>7 DEF Receive
<1>8. CASE \E j \in Node : FDToken(i, j)
  BY <1>8, TokenChange DEF FDToken
<1> QED
  BY <1>1, <1>2, <1>3, <1>4, <1>5, <1>6, <1>7, <1>8

LEMMA NextPair ==
  ASSUME N = 2, PairInv, [Next]_vars
  PROVE  PairInv'
<1>1. TypeOK /\ TypeOK'
  BY NextType DEF PairInv
<1> SUFFICES ASSUME up' = Node
             PROVE  \A k \in Node : Coherent(k)'
  BY <1>1, TwoProcessors DEF PairInv
<1>2. CASE UNCHANGED vars
  BY <1>1, <1>2, IdleKeepsPair DEF PairInv, vars
<1>3. CASE Next
  <2>1. up = Node
    BY <1>1, <1>3 DEF TypeOK, Next, Crash, Iterate, IterateRaises,
                      RequestParticipate, RequestEstab, Receive, FDToken
  <2>2. \A k \in Node : Coherent(k)
    BY <2>1 DEF PairInv
  <2>3. PICK i \in Node : \/ PairChange(i) /\ up' = up
                          \/ (\E j \in Node : Receive(i, j)) /\ up' = up
                          \/ Crash(i)
    BY <1>1, <1>3, <2>1, <2>2, PairSteps
  <2>4. ~ Crash(i)
    BY DEF Crash
  <2> QED
    BY <1>1, <2>2, <2>3, <2>4, PairChangeKeeps, ReceiveKeepsPair
<1> QED
  BY <1>2, <1>3
-----------------------------------------------------------------------------
(* Two processors at rest, with nothing under way, are a pair. *)
LEMMA SteadyPair ==
  ASSUME N = 2, NEW i \in Node, NEW s, s = Steady(i, Node, Node)
  PROVE  /\ PairState(s) /\ SeesItself(s) /\ s.allSeen = Node /\ s.id = i
         /\ s.config[i] = Node /\ s.config[Other(i)] = Node
         /\ s.prp[i] = DfltNtf
         /\ Mine(s).c = 1 /\ Mine(s).r = -1 /\ Yours(s).c = 1 /\ Yours(s).r = -1
         /\ Echo(s).c = 1 /\ Echo(s).r = -1
<1> DEFINE o == Other(i)
<1>1. o \in Node /\ o # i /\ Node = {i, o}
  BY TwoProcessors
<1>2. /\ s \in LocalState /\ s.id = i /\ s.trusted = Node
      /\ \A k \in Node : /\ s.config[k] = Node /\ s.prp[k] = DfltNtf
                         /\ s.echoPrp[k] = DfltNtf
  BY SteadyValid
<1>3. /\ s.alll = [k \in Node |-> k \in Node] /\ s.allSeen = Node
      /\ s.fdPart = [k \in Node |-> IF k \in Node \ {i} THEN Node ELSE {}]
      /\ s.echoPart = [k \in Node |-> IF k \in Node \ {i} THEN Node ELSE {}]
      /\ s.echoAll = [k \in Node |-> k \in Node \ {i}]
  BY DEF Steady, FreshState
<1> HIDE DEF o
<1>4. /\ s.alll[i] = TRUE /\ s.alll[o] = TRUE /\ s.echoAll[o] = TRUE
      /\ s.fdPart[o] = Node /\ s.echoPart[o] = Node
  <2>1. /\ s.alll[i] = (i \in Node) /\ s.alll[o] = (o \in Node)
        /\ s.echoAll[o] = (o \in Node \ {i})
    BY <1>1, <1>3, Zenon
  <2>2. (i \in Node) = TRUE /\ (o \in Node) = TRUE /\ (o \in Node \ {i}) = TRUE
    BY <1>1
  <2>3. s.fdPart[o] = Node /\ s.echoPart[o] = Node
    BY <1>1, <1>3
  <2> QED
    BY <2>1, <2>2, <2>3
<1>5. Node \in Sets /\ Sound(DfltNtf) /\ DfltNtf.ph = 0 /\ DfltNtf.set = Bottom
  <2>1. DfltNtf.ph = 0 /\ DfltNtf.set = Bottom
    BY DEF DfltNtf
  <2>2. DfltNtf \in Ntf
    BY <1>1, <1>2 DEF LocalState
  <2> QED
    BY <1>1, <2>1, <2>2 DEF Sound, Sets
<1>6. PairState(s)
  BY <1>1, <1>2, <1>4, <1>5 DEF PairState, o
<1>7. SeesItself(s)
  BY <1>1, <1>2, <1>3, <1>4 DEF SeesItself
<1> DEFINE v == Stand(DfltNtf, TRUE)
<1>8. v.c = 2 * DfltNtf.ph + 1 /\ v.r = Rank(DfltNtf.set)
  BY DEF Stand
<1>9. /\ Mine(s) = v /\ Yours(s) = v /\ Echo(s) = v
  BY <1>1, <1>2, <1>4 DEF Mine, Yours, Echo, o
<1> HIDE DEF v
<1>10. v.c = 1 /\ v.r = -1
  BY <1>5, <1>8, RankOf
<1> QED
  BY <1>1, <1>2, <1>3, <1>6, <1>7, <1>9, <1>10 DEF o

LEMMA InitSteadyPair == N = 2 /\ InitSteady => PairInv
<1> SUFFICES ASSUME N = 2, InitSteady
             PROVE  PairInv
  OBVIOUS
<1>1. TypeOK
  BY InitType DEF Init
<1> SUFFICES ASSUME NEW i \in Node
             PROVE  Coherent(i)
  BY <1>1 DEF PairInv
<1> DEFINE o == Other(i)
<1>2. o \in Node /\ o # i /\ Other(o) = i
  BY TwoProcessors
<1>3. st[i] = Steady(i, Node, Node) /\ st[o] = Steady(o, Node, Node)
  BY <1>2 DEF InitSteady
<1>4. chan[i][i] = <<>> /\ Len(chan[i][o]) = 0 /\ Len(chan[o][i]) = 0
  BY <1>2 DEF InitSteady, AllRunning
<1> HIDE DEF o
<1>5. /\ PairState(st[i]) /\ SeesItself(st[i]) /\ st[i].allSeen = Node
      /\ Conf(i) = Node /\ Conf(o) = Node
      /\ Own(i).c = 1 /\ Own(i).r = -1 /\ Own(o).c = 1 /\ Own(o).r = -1
      /\ Yours(st[i]).c = 1 /\ Yours(st[i]).r = -1
      /\ Yours(st[o]).c = 1 /\ Yours(st[o]).r = -1
      /\ Echo(st[o]).c = 1 /\ Echo(st[o]).r = -1
      /\ st[o].config[i] = Node
  BY <1>2, <1>3, SteadyPair DEF Conf, Own
<1>6. DOMAIN Flow(i) = 0..0 /\ Flow(i)[0] = Stored(st[o], i)
  BY <1>4 DEF Flow, o
<1>7. /\ Flow(i)[0].said = Yours(st[o]) /\ Flow(i)[0].heard = Echo(st[o])
      /\ Flow(i)[0].conf = Node
  BY <1>5, <1>6 DEF Stored
<1>8. \A n \in DOMAIN Flow(i) : n = 0
  BY <1>6
<1>9. Flow(o)[0].said = Yours(st[i])
  BY <1>2, <1>4 DEF Flow, Stored
<1>10. OneWay(Own(i), Own(o), Flow(i), Flow(o)[0].said)
  BY <1>5, <1>7, <1>8, <1>9 DEF OneWay, Proper, AtOrBefore
<1>11. Meets(Own(i), Own(o))
  BY <1>5 DEF Meets, AtOrBefore
<1>12. MustHaveSeen(Own(i), Own(o), Flow(i)) => o \in st[i].allSeen
  BY <1>2, <1>5
<1>13. \A n \in 1..Len(chan[i][o]) : PairMessage(chan[i][o][n])
  BY <1>4
<1> QED
  BY <1>4, <1>5, <1>7, <1>8, <1>10, <1>11, <1>12, <1>13 DEF Coherent, o
-----------------------------------------------------------------------------
(***************************************************************************)
(* What a change does to the replacement: nothing, a proposal is taken up  *)
(* or exchanged, decided on, installed, or done with.                      *)
(***************************************************************************)
Waits(i) == Phase(i)' = Phase(i) /\ Proposed(i)' = Proposed(i) /\ Conf(i)' = Conf(i)

Negotiates(i) == /\ Phase(i) \in {0, 1} /\ Phase(i)' = 1
                 /\ Conf(i)' = Conf(i)

Decides(i) == /\ Phase(i) = 1 /\ Phase(i)' = 2
              /\ Proposed(i)' = Proposed(i) /\ Conf(i)' = Conf(i)

Installs(i, o) == /\ Phase(i) = 2 /\ Phase(i)' = 2
                  /\ Proposed(i)' = Proposed(i) /\ Conf(i)' = Proposed(i)
                  /\ Phase(o) = 2 /\ Proposed(o) = Proposed(i)

Finishes(i, o) == /\ Phase(i) = 2 /\ Phase(i)' = 0
                  /\ Conf(i)' = Conf(i) /\ Conf(i) = Proposed(i)
                  /\ Conf(o) = Conf(i)

(* The degrees in which a change does each of them. *)
LEMMA ChangeNumbers ==
  ASSUME NEW x, NEW y, NEW w, NEW e, NEW z,
         Proper(x), Proper(y), Proper(w), Proper(e), Proper(z), Meets(x, y),
         AtOrBefore(e, w), AtOrBefore(w, y), Changes(x, w, e, z)
  PROVE  \/ SameStand(x, z)
         \/ x.c <= 3 /\ z.c <= 3 /\ (z.c <= 1 => x.c <= 1)
         \/ x.c = 3 /\ z.c = 4 /\ z.r = x.r
         \/ x.c = 4 /\ z.c = 5 /\ z.r = x.r /\ y.c \in {4, 5} /\ y.r = x.r
         \/ x.c = 5 /\ z.c = 0 /\ y.c \in {5, 0}
<1> USE DEF Proper, Meets, AtOrBefore, Changes, StaysAt, StepsOn, TakesUp,
            Adopts, SameStand, Succ
<1>1. CASE x.c <= 2
  BY <1>1
<1>2. CASE x.c = 3
  BY <1>2
<1>3. CASE x.c = 4
  BY <1>3
<1>4. CASE x.c = 5
  BY <1>4
<1> QED
  BY <1>1, <1>2, <1>3, <1>4

LEMMA ChangeOwn ==
  ASSUME N = 2, TypeOK, \A k \in Node : Coherent(k), NEW i \in Node,
         NEW o, o = Other(i), PairChange(i)
  PROVE  /\ Waits(o)
         /\ \/ Waits(i) \/ Negotiates(i) \/ Decides(i) \/ Installs(i, o)
            \/ Finishes(i, o)
<1>1. /\ o \in Node /\ o # i /\ Node = {i, o} /\ st[i].id = i /\ st[o].id = o
      /\ st[i] \in LocalState /\ PairState(st[i]) /\ PairState(st[o])
  BY FlowParts DEF Coherent
<1>2. PICK u : /\ Outcome(st[i], u) /\ Becomes(i, u)
               /\ chan'[o] = chan[o]
  BY DEF PairChange
<1>3. /\ u.id = i /\ st'[i] = u /\ st'[o] = st[o]
      /\ Conf(i)' = u.config[i] /\ Conf(o)' = Conf(o)
      /\ Proposed(i)' = u.prp[i].set /\ Proposed(o)' = Proposed(o)
  BY <1>1, <1>2, ChangeRest
<1>4. Waits(o)
  BY <1>3 DEF Waits, Phase
<1>5. Phase(i)' = u.prp[i].ph
  BY <1>3 DEF Phase
<1> DEFINE x == Own(i)
           y == Own(o)
           z == Mine(u)
<1>6. /\ PairState(u)
      /\ Changes(x, Yours(st[i]), Echo(st[i]), z)
      /\ u.config = [st[i].config EXCEPT ![i] = IF z.c = 5
                                                  THEN u.prp[i].set
                                                  ELSE st[i].config[i]]
  BY <1>1, <1>2 DEF Outcome, Own
<1>7. u.config[i] = IF z.c = 5 THEN Proposed(i)' ELSE Conf(i)
  BY <1>1, <1>3, <1>6 DEF Conf, LocalState
<1>8. /\ Proper(x) /\ Proper(y) /\ Proper(z) /\ Meets(x, y)
      /\ Proper(Yours(st[i])) /\ Proper(Echo(st[i]))
      /\ AtOrBefore(Echo(st[i]), Yours(st[i])) /\ AtOrBefore(Yours(st[i]), y)
      /\ AtOrBefore(Echo(st[i]), x)
  <2>1. Proper(z)
    BY <1>6, PairParts
  <2> QED
    BY <2>1, PairFacts
<1>9. /\ x.c \in 0..5 /\ PhaseAt(x.c) = Phase(i) /\ x.r = Rank(Proposed(i))
      /\ y.c \in 0..5 /\ PhaseAt(y.c) = Phase(o) /\ y.r = Rank(Proposed(o))
      /\ z.c \in 0..5 /\ PhaseAt(z.c) = Phase(i)' /\ z.r = Rank(Proposed(i)')
  BY <1>1, <1>3, <1>5, <1>6, RecordStands DEF Own, Phase, Proposed
<1>10. /\ (x.r = z.r => Proposed(i)' = Proposed(i))
       /\ (x.r = y.r => Proposed(o) = Proposed(i))
  BY <1>1, <1>3, <1>6, <1>9, SameRank DEF PairState, Proposed
<1>11. /\ x.c = 5 => Conf(i) = Proposed(i)
       /\ Conf(i) = Conf(o) \/ Installing(x, y)
  BY <1>1 DEF Coherent
<1>12. \/ SameStand(x, z)
       \/ x.c <= 3 /\ z.c <= 3 /\ (z.c <= 1 => x.c <= 1)
       \/ x.c = 3 /\ z.c = 4 /\ z.r = x.r
       \/ x.c = 4 /\ z.c = 5 /\ z.r = x.r /\ y.c \in {4, 5} /\ y.r = x.r
       \/ x.c = 5 /\ z.c = 0 /\ y.c \in {5, 0}
  BY <1>6, <1>8, ChangeNumbers
<1> HIDE DEF x, y, z
<1>13. CASE SameStand(x, z)
  <2>1. x.c = z.c /\ x.r = z.r
    BY <1>13 DEF SameStand
  <2>2. Phase(i)' = Phase(i) /\ Proposed(i)' = Proposed(i)
    BY <1>9, <1>10, <2>1
  <2>3. Conf(i)' = Conf(i)
    BY <1>3, <1>7, <1>11, <2>1, <2>2
  <2> QED
    BY <1>4, <2>2, <2>3 DEF Waits
<1>14. CASE x.c <= 3 /\ z.c <= 3 /\ (z.c <= 1 => x.c <= 1)
  <2>1. Conf(i)' = Conf(i)
    BY <1>3, <1>7, <1>14
  <2>2. CASE z.c <= 1
    <3>1. x.r = -1 /\ z.r = -1
      BY <1>8, <1>14, <2>2 DEF Proper, x, z
    <3>2. Phase(i) = 0 /\ Phase(i)' = 0
      BY <1>9, <1>14, <2>2 DEF PhaseAt
    <3> QED
      BY <1>4, <1>10, <2>1, <3>1, <3>2 DEF Waits
  <2>3. CASE z.c > 1
    <3>1. Phase(i) \in {0, 1} /\ Phase(i)' = 1
      BY <1>9, <1>14, <2>3 DEF PhaseAt
    <3> QED
      BY <1>4, <2>1, <3>1 DEF Negotiates
  <2> QED
    BY <1>9, <2>2, <2>3
<1>15. CASE x.c = 3 /\ z.c = 4 /\ z.r = x.r
  <2>1. Phase(i) = 1 /\ Phase(i)' = 2
    BY <1>9, <1>15 DEF PhaseAt
  <2> QED
    BY <1>3, <1>4, <1>7, <1>10, <1>15, <2>1 DEF Decides
<1>16. CASE x.c = 4 /\ z.c = 5 /\ z.r = x.r /\ y.c \in {4, 5} /\ y.r = x.r
  <2>1. Phase(i) = 2 /\ Phase(i)' = 2 /\ Phase(o) = 2
    BY <1>9, <1>16 DEF PhaseAt
  <2>2. Proposed(i)' = Proposed(i) /\ Proposed(o) = Proposed(i)
    BY <1>10, <1>16
  <2>3. Conf(i)' = Proposed(i)
    BY <1>3, <1>7, <1>16, <2>2
  <2> QED
    BY <1>4, <2>1, <2>2, <2>3 DEF Installs
<1>17. CASE x.c = 5 /\ z.c = 0 /\ y.c \in {5, 0}
  <2>1. Phase(i) = 2 /\ Phase(i)' = 0
    BY <1>9, <1>17 DEF PhaseAt
  <2>2. Conf(i)' = Conf(i) /\ Conf(i) = Proposed(i)
    BY <1>3, <1>7, <1>11, <1>17
  <2>3. Conf(o) = Conf(i)
    BY <1>11, <1>17 DEF Installing
  <2> QED
    BY <1>4, <2>1, <2>2, <2>3 DEF Finishes
<1> QED
  BY <1>12, <1>13, <1>14, <1>15, <1>16, <1>17

(* A receipt does nothing to it. *)
LEMMA ReceiptOwn ==
  ASSUME N = 2, TypeOK, \A k \in Node : Coherent(k), NEW i \in Node,
         NEW j \in Node, Receive(i, j)
  PROVE  \A k \in Node : Waits(k)
<1>1. i # j /\ Node = {i, j}
  BY TwoProcessors DEF Receive, Coherent
<1>2. st'[i] = ReceiveMsg(st[i], j, Head(chan[j][i])) /\ st'[j] = st[j]
  BY <1>1 DEF Receive, TypeOK
<1>3. st[i] \in LocalState
  BY DEF TypeOK
<1>4. st'[i].prp[i] = st[i].prp[i] /\ st'[i].config[i] = st[i].config[i]
  BY <1>1, <1>2, <1>3 DEF ReceiveMsg, LocalState
<1> QED
  BY <1>1, <1>2, <1>4 DEF Waits, Phase, Proposed, Conf

Moves(i, o) == Negotiates(i) \/ Decides(i) \/ Installs(i, o) \/ Finishes(i, o)

(* While both run, a step does one of these to one of them, or kills it. *)
LEMMA StepOfReplacement ==
  ASSUME N = 2, PairInv, up = Node, [Next]_vars
  PROVE  \/ \A k \in Node : Waits(k)
         \/ \E i \in Node : Moves(i, Other(i)) /\ Waits(Other(i))
         \/ \E i \in Node : Crash(i)
<1>1. TypeOK /\ \A k \in Node : Coherent(k)
  BY DEF PairInv
<1>2. CASE UNCHANGED vars
  BY <1>2 DEF vars, Waits, Phase, Proposed, Conf
<1>3. CASE Next
  <2>1. PICK i \in Node : \/ PairChange(i) /\ up' = up
                          \/ (\E j \in Node : Receive(i, j)) /\ up' = up
                          \/ Crash(i)
    BY <1>1, <1>3, PairSteps
  <2>2. CASE PairChange(i)
    <3>1. /\ Waits(Other(i))
          /\ Waits(i) \/ Moves(i, Other(i))
      BY <1>1, <2>2, ChangeOwn DEF Moves
    <3>2. Node = {i, Other(i)}
      BY TwoProcessors
    <3> QED
      BY <3>1, <3>2
  <2>3. CASE \E j \in Node : Receive(i, j)
    BY <1>1, <2>3, ReceiptOwn
  <2> QED
    BY <2>1, <2>2, <2>3
<1> QED
  BY <1>2, <1>3

(* Of two processors at most one is another. *)
LEMMA PairOrAlone ==
  ASSUME N = 2, TypeOK, NEW i \in up, NEW j \in up, i # j
  PROVE  up = Node /\ j = Other(i)
<1>1. up \subseteq Node /\ i \in Node /\ j \in Node
  BY DEF TypeOK
<1>2. Node = {i, Other(i)}
  BY <1>1, TwoProcessors
<1> QED
  BY <1>1, <1>2

(* Who is in phase 2 has the proposal of everybody that has one. *)
LEMMA PairUnanimous ==
  ASSUME N = 2, PairInv
  PROVE  UnanimousInPhase2
<1> SUFFICES ASSUME NEW i \in up, NEW j \in up, i # j, Phase(i) = 2, Phase(j) # 0
             PROVE  Proposed(i) = Proposed(j)
  BY DEF UnanimousInPhase2
<1>1. /\ up = Node /\ j = Other(i) /\ i \in Node /\ j \in Node
      /\ TypeOK /\ \A k \in Node : Coherent(k)
  BY PairOrAlone DEF PairInv
<1>2. /\ PairState(st[i]) /\ PairState(st[j]) /\ st[i].id = i /\ st[j].id = j
  BY <1>1 DEF Coherent, TypeOK
<1>3. Proper(Own(i)) /\ Proper(Own(j)) /\ Meets(Own(i), Own(j))
  BY <1>1, PairFacts
<1>4. /\ Own(i).c \in 0..5 /\ PhaseAt(Own(i).c) = 2 /\ Own(i).r = Rank(Proposed(i))
      /\ Own(j).c \in 0..5 /\ PhaseAt(Own(j).c) # 0 /\ Own(j).r = Rank(Proposed(j))
  BY <1>1, <1>2, RecordStands DEF Own, Phase, Proposed
<1>5. Own(i).c \in {4, 5} /\ Own(j).c \in 2..5
  BY <1>4 DEF PhaseAt
<1>6. Own(i).r = Own(j).r
  BY <1>3, <1>5 DEF Proper, Meets, AtOrBefore, Succ
<1>7. Sound(st[i].prp[i]) /\ Sound(st[j].prp[j])
  BY <1>1, <1>2 DEF PairState
<1>8. Rank(Proposed(i)) = Rank(Proposed(j))
  BY <1>4, <1>6
<1> QED
  BY <1>7, <1>8, SameRank DEF Proposed

(***************************************************************************)
(* allow_reco() of one says that both are at rest; the other may have      *)
(* taken up a proposal since, but is not past phase 1.                     *)
(***************************************************************************)
LEMMA PairAllowed ==
  ASSUME N = 2, PairInv, Members(Node)
  PROVE  AllowedOnlyAtRest
<1> SUFFICES ASSUME NEW i \in up, AllowReco(st[i]), NEW j \in up
             PROVE  Phase(j) # 2 /\ Conf(j) = Conf(i)
  BY DEF AllowedOnlyAtRest
<1>1. TypeOK /\ i \in Node /\ j \in Node
  BY DEF PairInv, TypeOK
<1>2. CASE i = j
  <2>1. i \in st[i].trusted
    BY <1>1 DEF Members
  <2>2. st[i].prp[i] = DfltNtf
    BY <2>1 DEF AllowReco
  <2> QED
    BY <1>2, <2>2 DEF Phase, DfltNtf
<1>3. CASE i # j
  <2>1. up = Node /\ j = Other(i) /\ \A k \in Node : Coherent(k)
    BY <1>1, <1>3, PairOrAlone DEF PairInv
  <2>2. /\ PairState(st[j]) /\ st[i].id = i /\ st[j].id = j
        /\ Conf(i) = Conf(j) \/ Installing(Own(i), Own(j))
    BY <1>1, <2>1 DEF Coherent, TypeOK
  <2>3. Own(i).c = 1 /\ Yours(st[i]).c = 1
    BY <1>1, <2>1, PairReady, PairAllows DEF Own
  <2>4. Conf(i) = Conf(j)
    BY <2>2, <2>3 DEF Installing
  <2>5. /\ AtOrBefore(Yours(st[i]), Own(j)) /\ Proper(Own(j))
        /\ PhaseAt(Own(j).c) = Phase(j)
    BY <1>1, <2>1, <2>2, PairFacts, RecordStands DEF Own, Phase
  <2>6. Own(j).c \in {1, 2}
    BY <2>3, <2>5 DEF AtOrBefore, Succ
  <2> QED
    BY <2>4, <2>5, <2>6 DEF PhaseAt
<1> QED
  BY <1>2, <1>3

(***************************************************************************)
(* Two processors never decide on different proposals, however often and   *)
(* when RecMA proposes, however late messages and echoes arrive, also when *)
(* one is killed in between.                                               *)
(***************************************************************************)
THEOREM PairDecidesOnce == N = 2 => (SpecSteady => []UnanimousInPhase2)
<1> SUFFICES ASSUME N = 2
             PROVE  SpecSteady => []UnanimousInPhase2
  OBVIOUS
<1>1. InitSteady => PairInv
  BY InitSteadyPair
<1>2. PairInv /\ [Next]_vars => PairInv'
  BY NextPair
<1>3. PairInv => UnanimousInPhase2
  BY PairUnanimous
<1> QED
  BY <1>1, <1>2, <1>3, PTL DEF SpecSteady

(***************************************************************************)
(* allow_reco() looks only at the records of its own processor.  Of two    *)
(* processors it lets none propose while the other is in phase 2 or has    *)
(* another configuration.                                                  *)
(***************************************************************************)
THEOREM PairAllowsAtRest == N = 2 => (SpecSteady => []AllowedOnlyAtRest)
<1> SUFFICES ASSUME N = 2
             PROVE  SpecSteady => []AllowedOnlyAtRest
  OBVIOUS
<1>1. InitSteady => PairInv /\ Members(Node)
  BY InitSteadyPair, InitSteadyMembers
<1>2. PairInv /\ Members(Node) /\ [Next]_vars => PairInv' /\ Members(Node)'
  BY NextPair, NextMembers
<1>3. PairInv /\ Members(Node) => AllowedOnlyAtRest
  BY PairAllowed
<1> QED
  BY <1>1, <1>2, <1>3, PTL DEF SpecSteady
-----------------------------------------------------------------------------
(* A killed processor has no configuration afterwards. *)
LEMMA KilledHasNone ==
  ASSUME N = 2, PairInv, up = Node, NEW k \in Node, Crash(k), NEW i \in Node,
         Phase(i) = 2, Conf(i)' # Conf(i)
  PROVE  Conf(i)' # Proposed(i)
<1>1. i = k
  BY DEF Crash, PairInv, TypeOK, Conf
<1>2. Conf(i)' = NotParticipant
  BY <1>1 DEF Crash, PairInv, TypeOK, Conf, FreshState
<1>3. st[i].id = i /\ Sound(st[i].prp[i])
  BY DEF PairInv, Coherent, PairState, TypeOK
<1>4. Proposed(i) \in SUBSET Node
  BY <1>3 DEF Sound, Sets, Proposed, Phase
<1> QED
  BY <1>2, <1>4, SpecialAssumption

(* Both are in phase 2 with the proposal when one of them installs it. *)
LEMMA PairInstalls ==
  ASSUME N = 2, PairInv, [Next]_vars, NEW i \in up, Conf(i)' # Conf(i),
         st[i].prp[i] = [ph |-> 2, set |-> Conf(i)'], NEW j \in up
  PROVE  st[j].prp[j] = [ph |-> 2, set |-> Conf(i)']
<1>1. i \in Node /\ j \in Node
  BY DEF PairInv, TypeOK
<1>2. Phase(i) = 2 /\ Proposed(i) = Conf(i)'
  BY DEF Phase, Proposed
<1> SUFFICES ASSUME i # j
             PROVE  st[j].prp[j] = [ph |-> 2, set |-> Conf(i)']
  OBVIOUS
<1>3. up = Node /\ j = Other(i)
  BY PairOrAlone DEF PairInv
<1>4. ~ \E k \in Node : Crash(k)
  BY <1>1, <1>2, <1>3, KilledHasNone
<1>5. ~ \A k \in Node : Waits(k)
  BY <1>1 DEF Waits
<1>6. PICK k \in Node : Moves(k, Other(k)) /\ Waits(Other(k))
  BY <1>3, <1>4, <1>5, StepOfReplacement
<1>7. k = i
  <2>1. i = k \/ i = Other(k)
    BY <1>1, TwoProcessors
  <2> QED
    BY <1>6, <2>1 DEF Waits
<1>8. Installs(i, j)
  BY <1>3, <1>6, <1>7 DEF Moves, Negotiates, Decides, Finishes
<1>9. st[j].prp[j] \in Ntf
  BY <1>1 DEF PairInv, TypeOK, LocalState
<1> QED
  BY <1>2, <1>8, <1>9 DEF Installs, Phase, Proposed, Ntf

(***************************************************************************)
(* Of two processors none installs a proposal before the other is in phase *)
(* 2 with the same one: with any number of messages under way, where the   *)
(* run of three needs messages that arrive before the next pass.           *)
(***************************************************************************)
THEOREM PairInstallsTogether == N = 2 => (SpecSteady => InstallAgreement)
<1> SUFFICES ASSUME N = 2
             PROVE  SpecSteady => InstallAgreement
  OBVIOUS
<1>1. InitSteady => PairInv
  BY InitSteadyPair
<1>2. PairInv /\ [Next]_vars => PairInv'
  BY NextPair
<1> DEFINE Agree == \A i \in up :
       LET S == Conf(i)'
       IN  S # Conf(i) /\ st[i].prp[i] = [ph |-> 2, set |-> S] =>
             \A j \in up : \/ st[j].prp[j] = [ph |-> 2, set |-> S]
                           \/ Conf(j) = S
<1>3. PairInv /\ [Next]_vars => [Agree]_vars
  BY PairInstalls
<1> QED
  BY <1>1, <1>2, <1>3, PTL DEF SpecSteady, InstallAgreement
-----------------------------------------------------------------------------
(* Nobody is killed. *)
LEMMA BothStayUp ==
  ASSUME TypeOK, Mortal = {}, up = Node, [Next]_vars
  PROVE  up' = Node /\ ~ \E k \in Node : Crash(k)
<1>1. ~ \E k \in Node : Crash(k)
  BY DEF Crash
<1>2. CASE UNCHANGED vars
  BY <1>1, <1>2 DEF vars
<1>3. CASE Next
  BY <1>1, <1>3 DEF Next, Iterate, IterateRaises, RequestParticipate,
                    RequestEstab, Receive, FDToken
<1> QED
  BY <1>1, <1>2, <1>3

(* What changes a configuration or ends a proposal is its installation. *)
LEMMA PairOnlyInstalls ==
  ASSUME N = 2, Mortal = {}, PairInv, up = Node, [Next]_vars, NEW i \in up,
         Conf(i)' # Conf(i) \/ (Phase(i) # 0 /\ Phase(i)' = 0)
  PROVE  st[i].prp[i] = [ph |-> 2, set |-> Conf(i)']
<1>1. i \in Node /\ st[i].prp[i] \in Ntf
  BY DEF PairInv, TypeOK, LocalState
<1>2. ~ \E k \in Node : Crash(k)
  BY BothStayUp DEF PairInv
<1>3. ~ Waits(i)
  BY DEF Waits
<1>4. PICK k \in Node : Moves(k, Other(k)) /\ Waits(Other(k))
  BY <1>1, <1>2, <1>3, StepOfReplacement
<1>5. k = i
  <2>1. i = k \/ i = Other(k)
    BY <1>1, TwoProcessors
  <2> QED
    BY <1>3, <1>4, <2>1
<1>6. Installs(i, Other(i)) \/ Finishes(i, Other(i))
  BY <1>4, <1>5 DEF Moves, Negotiates, Decides
<1>7. Phase(i) = 2 /\ Proposed(i) = Conf(i)'
  BY <1>6 DEF Installs, Finishes
<1> QED
  BY <1>1, <1>7 DEF Phase, Proposed, Ntf

(***************************************************************************)
(* Two processors that rest and are not killed change their configuration  *)
(* and give up a proposal only by installing one, with any number of       *)
(* messages under way: no staleness test raises a false alarm.             *)
(***************************************************************************)
THEOREM PairNeverResets ==
  N = 2 /\ Mortal = {} => (SpecSteady => OnlyProposalsChangeConfig)
<1> SUFFICES ASSUME N = 2, Mortal = {}
             PROVE  SpecSteady => OnlyProposalsChangeConfig
  OBVIOUS
<1>1. InitSteady => PairInv /\ up = Node
  BY InitSteadyPair DEF InitSteady, AllRunning
<1>2. PairInv /\ up = Node /\ [Next]_vars => PairInv' /\ (up = Node)'
  <2>1. PairInv => TypeOK
    BY DEF PairInv
  <2> QED
    BY <2>1, NextPair, BothStayUp
<1> DEFINE Only == \A i \in up :
        (/\ Installed(i)
         /\ Conf(i)' # Conf(i) \/ (Phase(i) # 0 /\ Phase(i)' = 0))
        => st[i].prp[i] = [ph |-> 2, set |-> Conf(i)']
<1>3. PairInv /\ up = Node /\ [Next]_vars => [Only]_vars
  BY PairOnlyInstalls
<1> QED
  BY <1>1, <1>2, <1>3, PTL DEF SpecSteady, OnlyProposalsChangeConfig
-----------------------------------------------------------------------------
(***************************************************************************)
(* Every proposal in a record or under way was made by RecMA.              *)
(***************************************************************************)
Made(p) == p.set \in {Bottom} \union Proposals

MadeState(s) == \A k \in Node : Made(s.prp[k])

MadeChan == \A i, j \in Node : \A n \in 1..Len(chan[i][j]) :
               Made(chan[i][j][n].prp)

AllMade == (\A k \in Node : MadeState(st[k])) /\ MadeChan

LEMMA DfltMade == Made(DfltNtf)
BY DEF Made, DfltNtf

(* max_ntf makes none up. *)
LEMMA Line23Made ==
  ASSUME N = 2, NEW s, PairState(s), MadeState(s)
  PROVE  MadeState(Line23(s))
<1> DEFINE i == s.id
           o == Other(i)
           A == s.prp[i].set
           B == s.prp[o].set
           F == {s.prp[k].set : k \in FdPart(s)}
           p == [ph |-> IF JoinsPhaseOne(s) THEN 1 ELSE s.prp[i].ph,
                 set |-> MaxLex(F)]
<1>1. /\ i \in Node /\ o \in Node /\ Node = {i, o} /\ FdPart(s) = Node
      /\ s \in LocalState
  BY PairParts DEF PairState
<1>2. F = {A, B}
  BY <1>1
<1>3. A \in {Bottom} \union SUBSET Node /\ B \in {Bottom} \union SUBSET Node
  BY <1>1 DEF LocalState, Ntf
<1>4. Made(s.prp[i]) /\ Made(s.prp[o])
  BY <1>1 DEF MadeState
<1> HIDE DEF i, o, F
<1>5. MaxLex(F) \in {A, B}
  <2> HIDE DEF A, B
  <2> QED
    BY <1>2, <1>3, MaxOfTwo
<1>6. Made(p)
  BY <1>4, <1>5 DEF Made
<1> HIDE DEF p
<1>7. Line23(s).prp = [s.prp EXCEPT ![i] = p] \/ Line23(s) = s
  BY <1>1 DEF Line23, LocalState, p, i, F
<1>8. s.prp \in [Node -> Ntf]
  BY <1>1 DEF LocalState
<1> QED
  BY <1>1, <1>6, <1>7, <1>8 DEF MadeState

LEMMA BeforeTestsMade ==
  ASSUME N = 2, NEW s, PairState(s), MadeState(s), NEW t \in BeforeTests(s)
  PROVE  MadeState(t)
<1>1. s \in LocalState /\ Line22(s) = s
  BY PairLine22 DEF PairState
<1>2. MadeState(Line23(s)) /\ Line23(s) \in LocalState
  BY <1>1, Line23Made, Line23Type
<1>3. ASSUME NEW u \in LocalState, MadeState(u)
      PROVE  MadeState(Line25(u)) /\ MadeState(Line26(u))
  BY <1>3 DEF Line25, Line26, MadeState, LocalState
<1> QED
  BY <1>1, <1>2, <1>3, Line25Type DEF BeforeTests

LEMMA IncrementMade ==
  ASSUME NEW s \in LocalState, MadeState(s)
  PROVE  MadeState(Increment(s))
<1>1. s.id \in Node /\ s.prp \in [Node -> Ntf] /\ Made(s.prp[s.id])
  BY DEF LocalState, MadeState
<1> DEFINE Moved(p) == [s EXCEPT !.prp[s.id] = p, !.alll[s.id] = FALSE,
                                  !.allSeen = {}]
<1>2. ASSUME NEW p, Made(p)
      PROVE  MadeState(Moved(p))
  <2>1. Moved(p).prp = [s.prp EXCEPT ![s.id] = p]
    BY DEF LocalState
  <2>2. \A k \in Node : Moved(p).prp[k] = IF k = s.id THEN p ELSE s.prp[k]
    BY <2>1, <1>1
  <2> QED
    BY <1>2, <2>1, <2>2 DEF MadeState
<1> DEFINE next == [ph |-> 2, set |-> s.prp[s.id].set]
<1>3. CASE s.prp[s.id].ph = 1
  <2>1. Made(next)
    BY <1>1 DEF Made
  <2>2. Increment(s) = Moved(next)
    BY <1>3 DEF Increment
  <2> QED
    BY <1>2, <2>1, <2>2
<1>4. CASE s.prp[s.id].ph = 2
  <2>1. Increment(s) = Moved(DfltNtf)
    BY <1>4 DEF Increment
  <2> QED
    BY <1>2, <2>1, DfltMade
<1>5. CASE s.prp[s.id].ph \notin {1, 2}
  <2>1. Increment(s) = [s EXCEPT !.allSeen = {}]
    BY <1>5 DEF Increment
  <2> QED
    BY <2>1 DEF MadeState, LocalState
<1> QED
  BY <1>3, <1>4, <1>5

LEMMA ConfigSetMade ==
  ASSUME NEW s \in LocalState, NEW c
  PROVE  MadeState(ConfigSet(s, c))
BY DfltMade DEF ConfigSet, MadeState, LocalState

LEMMA AfterTestsMade ==
  ASSUME NEW s \in LocalState, MadeState(s), NEW t \in AfterTests(s)
  PROVE  MadeState(t)
<1>1. Line24(s) \in LocalState /\ MadeState(Line24(s))
  BY Line24Type, ConfigSetMade DEF Line24
<1>2. ASSUME NEW u \in LocalState, MadeState(u)
      PROVE  MadeState(BruteForce(u))
  <2> DEFINE u1 == IF ConfigConflict(u) THEN ConfigSet(u, Bottom) ELSE u
  <2>1. u1 \in LocalState /\ MadeState(u1)
    BY <1>2, ConfigSetType, ConfigSetMade DEF Config
  <2> HIDE DEF u1
  <2>2. MadeState(ConfigSet(u1, u1.trusted))
    BY <2>1, ConfigSetMade
  <2> QED
    BY <2>1, <2>2 DEF BruteForce, ResetConflict, u1
<1>3. ASSUME NEW u \in LocalState, MadeState(u)
      PROVE  MadeState(Delicate(u))
  <2>1. MadeState(Install(u))
    BY <1>3 DEF Install, MadeState, LocalState
  <2> QED
    BY <1>3, <2>1, InstallType, IncrementMade DEF Delicate
<1> QED
  BY <1>1, <1>2, <1>3 DEF AfterTests, Lines27to32

(* A pass sends its own proposal. *)
LEMMA SendMade ==
  ASSUME TypeOK, MadeChan, NEW s \in LocalState, MadeState(s), Send(s)
  PROVE  MadeChan'
<1>1. s.id \in Node /\ chan \in [Node -> [Node -> Seq(Message)]]
  BY DEF TypeOK, LocalState
<1>2. \A i, j \in Node : chan'[i][j] = IF i = s.id /\ j \in Targets(s)
                                       THEN Append(chan[i][j], StateMsg(s, j))
                                       ELSE chan[i][j]
  BY <1>1 DEF Send
<1>3. ASSUME NEW i \in Node, NEW j \in Node, NEW n \in 1..Len(chan'[i][j])
      PROVE  Made(chan'[i][j][n].prp)
  <2>1. CASE i = s.id /\ j \in Targets(s)
    <3>1. chan'[i][j] = Append(chan[i][j], StateMsg(s, j))
      BY <2>1, <1>2
    <3>2. chan[i][j] \in Seq(Message) /\ StateMsg(s, j) \in Message
      BY <1>1, StateMsgType
    <3>3. Made(StateMsg(s, j).prp)
      BY <1>1 DEF StateMsg, MadeState
    <3>4. CASE n = Len(chan[i][j]) + 1
      BY <3>1, <3>2, <3>3, <3>4
    <3>5. CASE n \in 1..Len(chan[i][j])
      BY <3>1, <3>2, <3>5 DEF MadeChan
    <3> QED
      BY <3>1, <3>2, <3>4, <3>5
  <2>2. CASE ~ (i = s.id /\ j \in Targets(s))
    BY <2>2, <1>2 DEF MadeChan
  <2> QED
    BY <2>1, <2>2
<1> QED
  BY <1>3 DEF MadeChan

LEMMA StUpdateMade ==
  ASSUME TypeOK, NEW i \in Node, NEW s, MadeState(s),
         \A k \in Node : MadeState(st[k]), st' = [st EXCEPT ![i] = s]
  PROVE  \A k \in Node : MadeState(st'[k])
BY DEF TypeOK

LEMMA ReceiveMade ==
  ASSUME TypeOK, AllMade, NEW i \in Node, NEW j \in Node, Receive(i, j)
  PROVE  (\A k \in Node : MadeState(st'[k])) /\ MadeChan'
<1>1. chan[j][i] \in Seq(Message) /\ chan[j][i] # <<>> /\ st[i] \in LocalState
  BY DEF Receive, TypeOK
<1>2. 1 \in 1..Len(chan[j][i]) /\ Head(chan[j][i]) = chan[j][i][1]
  BY <1>1
<1>3. Made(Head(chan[j][i]).prp) /\ Head(chan[j][i]) \in Message
  BY <1>1, <1>2 DEF AllMade, MadeChan
<1>4. MadeState(ReceiveMsg(st[i], j, Head(chan[j][i])))
  BY <1>1, <1>3 DEF ReceiveMsg, MadeState, LocalState, AllMade
<1>5. \A k, l \in Node : chan'[k][l] = IF k = j /\ l = i
                                       THEN Tail(chan[k][l]) ELSE chan[k][l]
  BY DEF Receive, TypeOK
<1>6. \A n \in 1..Len(Tail(chan[j][i])) :
         /\ n + 1 \in 1..Len(chan[j][i])
         /\ Tail(chan[j][i])[n] = chan[j][i][n + 1]
  BY <1>1
<1>7. ASSUME NEW k \in Node, NEW l \in Node, NEW n \in 1..Len(chan'[k][l])
      PROVE  Made(chan'[k][l][n].prp)
  <2>1. CASE k = j /\ l = i
    <3>1. chan'[k][l] = Tail(chan[j][i])
      BY <1>5, <2>1
    <3>2. Made(chan[j][i][n + 1].prp) /\ chan'[k][l][n] = chan[j][i][n + 1]
      BY <1>6, <3>1 DEF AllMade, MadeChan
    <3> QED
      BY <3>2
  <2>2. CASE ~ (k = j /\ l = i)
    BY <1>5, <2>2 DEF AllMade, MadeChan
  <2> QED
    BY <2>1, <2>2
<1>8. MadeChan'
  BY <1>7 DEF MadeChan
<1> QED
  BY <1>4, <1>8, StUpdateMade DEF Receive, AllMade

(* Every step of two processors that both run. *)
LEMMA NextMade ==
  ASSUME N = 2, Mortal = {}, PairInv, up = Node, AllMade, [Next]_vars
  PROVE  AllMade'
<1>1. TypeOK /\ ~ \E k \in Node : Crash(k)
  BY BothStayUp DEF PairInv
<1>2. ASSUME NEW i \in Node
      PROVE  st[i] \in LocalState /\ PairState(st[i]) /\ MadeState(st[i])
  BY DEF PairInv, TypeOK, Coherent, AllMade
<1>3. MadeChan /\ \A k \in Node : MadeState(st[k])
  BY DEF AllMade
<1> SUFFICES (\A k \in Node : MadeState(st'[k])) /\ MadeChan'
  BY DEF AllMade, MadeState
<1>4. ASSUME NEW i \in Node, Iterate(i)
      PROVE  (\A k \in Node : MadeState(st'[k])) /\ MadeChan'
  <2>1. PICK t \in BeforeTests(st[i]) :
          \E s \in AfterTests(t) : st' = [st EXCEPT ![i] = s] /\ Send(s)
    BY <1>4 DEF Iterate
  <2>2. PICK s \in AfterTests(t) : st' = [st EXCEPT ![i] = s] /\ Send(s)
    BY <2>1
  <2>3. t \in LocalState /\ MadeState(t)
    BY <1>2, <2>1, BeforeTestsType, BeforeTestsMade
  <2>4. s \in LocalState /\ MadeState(s)
    BY <2>2, <2>3, AfterTestsType, AfterTestsMade
  <2> QED
    BY <1>1, <1>3, <2>2, <2>4, SendMade, StUpdateMade
<1>5. ASSUME NEW i \in Node, IterateRaises(i)
      PROVE  (\A k \in Node : MadeState(st'[k])) /\ MadeChan'
  <2>1. PICK t \in BeforeTests(st[i]) : st' = [st EXCEPT ![i] = t]
    BY <1>5 DEF IterateRaises
  <2>2. MadeState(t) /\ UNCHANGED chan
    BY <1>2, <1>5, <2>1, BeforeTestsMade DEF IterateRaises
  <2> QED
    BY <1>1, <1>3, <2>1, <2>2, StUpdateMade DEF MadeChan
<1>6. ASSUME NEW i \in Node, RequestParticipate(i)
      PROVE  (\A k \in Node : MadeState(st'[k])) /\ MadeChan'
  <2>1. MadeState(Participate(st[i]))
    BY <1>2 DEF Participate, MadeState, LocalState
  <2> QED
    BY <1>1, <1>3, <1>6, <2>1, StUpdateMade DEF RequestParticipate, MadeChan
<1>7. ASSUME NEW i \in Node, NEW S \in Proposals, RequestEstab(i, S)
      PROVE  (\A k \in Node : MadeState(st'[k])) /\ MadeChan'
  <2>1. Made([ph |-> 1, set |-> S])
    BY DEF Made
  <2>2. MadeState(Estab(st[i], S))
    BY <1>2, <2>1 DEF Estab, MadeState, LocalState
  <2> QED
    BY <1>1, <1>3, <1>7, <2>2, StUpdateMade DEF RequestEstab, MadeChan
<1>8. ASSUME NEW i \in Node, NEW j \in Node, FDToken(i, j)
      PROVE  (\A k \in Node : MadeState(st'[k])) /\ MadeChan'
  <2>1. PICK T, M : st' = [st EXCEPT ![i] = [st[i] EXCEPT !.trusted = T,
                                                          !.monitor = M]]
    BY <1>8 DEF FDToken
  <2>2. MadeState([st[i] EXCEPT !.trusted = T, !.monitor = M])
    BY <1>2 DEF MadeState, LocalState
  <2> QED
    BY <1>1, <1>3, <1>8, <2>1, <2>2, StUpdateMade DEF FDToken, MadeChan
<1>9. CASE UNCHANGED vars
  BY <1>3, <1>9 DEF vars, MadeChan
<1> QED
  BY <1>1, <1>4, <1>5, <1>6, <1>7, <1>8, <1>9, ReceiveMade DEF Next

LEMMA InitMade == InitSteady => AllMade
<1> SUFFICES ASSUME InitSteady PROVE AllMade
  OBVIOUS
<1>1. \A k \in Node : MadeState(st[k])
  <2>1. \A k \in Node : st[k] = Steady(k, Node, Node)
    BY DEF InitSteady
  <2> QED
    BY <2>1, SteadyValid, DfltMade DEF MadeState
<1>2. MadeChan
  BY DEF InitSteady, AllRunning, MadeChan
<1> QED
  BY <1>1, <1>2 DEF AllMade
-----------------------------------------------------------------------------
(***************************************************************************)
(* The refinement.  Which processor in phase 2 Agreed chooses makes no     *)
(* difference.                                                             *)
(***************************************************************************)
LEMMA AgreedIs ==
  ASSUME UnanimousInPhase2, up = Node
  PROVE  /\ \A i \in Node : Phase(i) = 2 => Agreed = Proposed(i)
         /\ (\A i \in Node : Phase(i) # 2) => Agreed = Bottom
<1>1. ASSUME NEW i \in Node, Phase(i) = 2
      PROVE  Agreed = Proposed(i)
  <2> DEFINE c == CHOOSE k \in up : Phase(k) = 2
  <2>1. c \in up /\ Phase(c) = 2 /\ Agreed = Proposed(c)
    BY <1>1 DEF Agreed
  <2> QED
    BY <1>1, <2>1 DEF UnanimousInPhase2
<1> QED
  BY <1>1 DEF Agreed

LEMMA PairGiven ==
  ASSUME N = 2, PairInv, up = Node, NEW i \in Node
  PROVE  Given(i) = Conf(i)
<1>1. st[i].config[i] \in Sets
  BY DEF PairInv, Coherent, PairState
<1> QED
  BY <1>1, SpecialAssumption DEF Sets, Given, Installed, Conf

(* What a state of two processors means to the abstract specification. *)
LEMMA PairMeaning ==
  (N = 2 /\ PairInv /\ up = Node) =>
     /\ \A i \in Node : Phase(i) = 2 => Agreed = Proposed(i)
     /\ (\A i \in Node : Phase(i) # 2) => Agreed = Bottom
     /\ \A i \in Node : Given(i) = Conf(i)
BY PairUnanimous, AgreedIs, PairGiven

LEMMA PairMeaningNext ==
  (N = 2 /\ PairInv' /\ (up = Node)') =>
     /\ \A i \in Node : Phase(i)' = 2 => Agreed' = Proposed(i)'
     /\ (\A i \in Node : Phase(i)' # 2) => Agreed' = Bottom
     /\ \A i \in Node : Given(i)' = Conf(i)'
<1>1. CASE N = 2
  <2>1. PairInv /\ up = Node =>
          /\ \A i \in Node : Phase(i) = 2 => Agreed = Proposed(i)
          /\ (\A i \in Node : Phase(i) # 2) => Agreed = Bottom
          /\ \A i \in Node : Given(i) = Conf(i)
    BY <1>1, PairMeaning
  <2>2. (PairInv /\ up = Node =>
          /\ \A i \in Node : Phase(i) = 2 => Agreed = Proposed(i)
          /\ (\A i \in Node : Phase(i) # 2) => Agreed = Bottom
          /\ \A i \in Node : Given(i) = Conf(i))'
    BY <2>1, PTL
  <2> QED
    BY <2>2
<1> QED
  BY <1>1

(***************************************************************************)
(* Only what decides on a proposal, installs it, or ends the replacement   *)
(* as the last one is a step of the abstract specification.                *)
(***************************************************************************)
LEMMA PairStepReplaces ==
  ASSUME N = 2, Mortal = {}, PairInv, up = Node, AllMade, [Next]_vars,
         PairInv', (up = Node)', AllMade'
  PROVE  [R!Next]_<<[i \in Node |-> Given(i)], Agreed>>
<1> DEFINE cfg == [i \in Node |-> Given(i)]
<1>1. /\ \A i \in Node : Phase(i) = 2 => Agreed = Proposed(i)
      /\ (\A i \in Node : Phase(i) # 2) => Agreed = Bottom
      /\ cfg = [i \in Node |-> Conf(i)]
  BY PairMeaning
<1>2. /\ \A i \in Node : Phase(i)' = 2 => Agreed' = Proposed(i)'
      /\ (\A i \in Node : Phase(i)' # 2) => Agreed' = Bottom
      /\ cfg' = [i \in Node |-> Conf(i)']
  BY PairMeaningNext
<1>3. ASSUME NEW i \in Node, Phase(i) = 2
      PROVE  Proposed(i) # Bottom
  <2>1. st[i].id = i /\ Sound(st[i].prp[i])
    BY DEF PairInv, Coherent, PairState, TypeOK
  <2> QED
    BY <1>3, <2>1, SpecialAssumption DEF Sound, Sets, Proposed, Phase
<1>4. ASSUME NEW i \in Node, Phase(i)' = 2
      PROVE  Proposed(i)' \in Proposals
  <2>1. /\ st'[i].prp[i].set \in {Bottom} \union Proposals
        /\ st'[i].id = i /\ Sound(st'[i].prp[i])
    BY DEF PairInv, Coherent, PairState, TypeOK, AllMade, MadeState, Made
  <2> QED
    BY <1>4, <2>1, SpecialAssumption DEF Sound, Sets, Proposed, Phase
<1> HIDE DEF cfg
<1>5. CASE \A k \in Node : Waits(k)
  <2>1. cfg' = cfg
    BY <1>1, <1>2, <1>5 DEF Waits
  <2>2. Agreed' = Agreed
    <3>1. CASE \A k \in Node : Phase(k) # 2
      BY <1>1, <1>2, <1>5, <3>1 DEF Waits
    <3>2. ASSUME NEW k \in Node, Phase(k) = 2
          PROVE  Agreed' = Agreed
      BY <1>1, <1>2, <1>5, <3>2 DEF Waits
    <3> QED
      BY <3>1, <3>2
  <2> QED
    BY <2>1, <2>2 DEF cfg
<1>6. ASSUME NEW i \in Node, NEW o, o = Other(i), Moves(i, o), Waits(o)
      PROVE  [R!Next]_<<cfg, Agreed>>
  <2>1. o \in Node /\ o # i /\ Node = {i, o}
    BY <1>6, TwoProcessors
  <2>2. CASE Negotiates(i)
    <3>1. cfg' = cfg
      BY <1>1, <1>2, <1>6, <2>1, <2>2 DEF Waits, Negotiates
    <3>2. Agreed' = Agreed
      BY <1>1, <1>2, <1>6, <2>1, <2>2 DEF Waits, Negotiates
    <3> QED
      BY <3>1, <3>2
  <2>3. CASE Decides(i)
    <3>1. cfg' = cfg
      BY <1>1, <1>2, <1>6, <2>1, <2>3 DEF Waits, Decides
    <3>2. CASE Phase(o) = 2
      <4>1. Agreed' = Agreed
        BY <1>1, <1>2, <1>6, <2>1, <3>2 DEF Waits
      <4> QED
        BY <3>1, <4>1
    <3>3. CASE Phase(o) # 2
      <4>1. Agreed = Bottom
        BY <1>1, <2>1, <2>3, <3>3 DEF Decides
      <4>2. Agreed' \in Proposals
        BY <1>2, <1>4, <2>1, <2>3 DEF Decides
      <4> QED
        BY <3>1, <4>1, <4>2 DEF R!Next, R!Agree, cfg
    <3> QED
      BY <3>2, <3>3
  <2>4. CASE Installs(i, o)
    <3>1. Agreed = Proposed(i) /\ Agreed' = Agreed /\ Agreed # Bottom
      BY <1>1, <1>2, <1>3, <2>1, <2>4 DEF Installs
    <3>2. cfg' = [cfg EXCEPT ![i] = Agreed]
      BY <1>1, <1>2, <1>6, <2>1, <2>4, <3>1 DEF Installs, Waits
    <3> QED
      BY <3>1, <3>2 DEF R!Next, R!Install, cfg
  <2>5. CASE Finishes(i, o)
    <3>1. Agreed = Proposed(i) /\ Agreed # Bottom
      BY <1>1, <1>3, <2>1, <2>5 DEF Finishes
    <3>2. cfg' = cfg
      BY <1>1, <1>2, <1>6, <2>1, <2>5 DEF Waits, Finishes
    <3>3. CASE Phase(o) = 2
      <4>1. Agreed' = Agreed
        BY <1>1, <1>2, <1>6, <2>1, <3>3 DEF Waits
      <4> QED
        BY <3>2, <4>1
    <3>4. CASE Phase(o) # 2
      <4>1. Agreed' = Bottom
        BY <1>2, <1>6, <2>1, <2>5, <3>4 DEF Waits, Finishes
      <4>2. \A q \in Node : cfg'[q] = Agreed
        BY <1>1, <2>1, <2>5, <3>1, <3>2 DEF Finishes
      <4>3. cfg' = [cfg EXCEPT ![i] = Agreed]
        BY <1>1, <2>1, <2>5, <3>1, <3>2 DEF Finishes
      <4> QED
        BY <3>1, <4>1, <4>2, <4>3 DEF R!Next, R!Install, cfg
    <3> QED
      BY <3>3, <3>4
  <2> QED
    BY <1>6, <2>2, <2>3, <2>4, <2>5 DEF Moves
<1>7. ~ \E k \in Node : Crash(k)
  BY BothStayUp DEF PairInv
<1> QED
  BY <1>5, <1>6, <1>7, StepOfReplacement DEF cfg

LEMMA PairStartReplaces ==
  ASSUME N = 2, InitSteady
  PROVE  R!Init
<1>1. PairInv /\ up = Node
  BY InitSteadyPair DEF InitSteady, AllRunning
<1>2. \A i \in Node : Conf(i) = Node /\ Phase(i) = 0
  BY SteadyValid DEF InitSteady, Conf, Phase, DfltNtf
<1>3. Agreed = Bottom /\ \A i \in Node : Given(i) = Node
  BY <1>1, <1>2, PairMeaning
<1> QED
  BY <1>3 DEF R!Init

(***************************************************************************)
(* The records of two processors, their messages and their echoes behave   *)
(* like one replacement at a time, for any proposals and any number of     *)
(* messages under way: the refinement of Replacement.tla from rest.        *)
(***************************************************************************)
THEOREM PairReplaces ==
  N = 2 /\ Mortal = {} => (SpecSteady => ReplacesOneAtATime)
<1> SUFFICES ASSUME N = 2, Mortal = {}
             PROVE  SpecSteady => ReplacesOneAtATime
  OBVIOUS
<1> DEFINE Inv == PairInv /\ up = Node /\ AllMade
<1>1. InitSteady => Inv /\ R!Init
  BY InitSteadyPair, InitMade, PairStartReplaces DEF InitSteady, AllRunning
<1>2. Inv /\ [Next]_vars => Inv'
  <2>1. PairInv => TypeOK
    BY DEF PairInv
  <2> QED
    BY <2>1, NextPair, BothStayUp, NextMade
<1>3. Inv /\ Inv' /\ [Next]_vars
      => [R!Next]_<<[i \in Node |-> Given(i)], Agreed>>
  BY PairStepReplaces
<1> QED
  BY <1>1, <1>2, <1>3, PTL DEF SpecSteady, ReplacesOneAtATime, R!Spec

(***************************************************************************)
(* What TLC checks of two processors that are never wrongly suspected,     *)
(* from boot, where nobody proposes yet, as from rest: a configuration     *)
(* changes only to what somebody proposed, and no staleness test, no       *)
(* conflict and no reset takes one away.                                   *)
(***************************************************************************)
THEOREM HealthyPairReplaces ==
  N = 2 /\ Mortal = {} /\ MaxSuspect = 0
  => (Spec => OnlyProposalsChangeConfig /\ ReplacesOneAtATime)
<1> SUFFICES ASSUME N = 2, Mortal = {}, MaxSuspect = 0
             PROVE  Spec => OnlyProposalsChangeConfig /\ ReplacesOneAtATime
  OBVIOUS
<1>1. SpecSteady => OnlyProposalsChangeConfig
  BY PairNeverResets
<1>2. SpecSteady => ReplacesOneAtATime
  BY PairReplaces
<1>3. InitBoot /\ [][Next]_vars => OnlyProposalsChangeConfig
  BY BootNeverResets
<1>4. InitBoot /\ [][Next]_vars => ReplacesOneAtATime
  BY BootReplaces
<1> QED
  BY <1>1, <1>2, <1>3, <1>4, PTL DEF Spec, Init, SpecSteady
=============================================================================
