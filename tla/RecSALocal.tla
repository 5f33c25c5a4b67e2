----------------------------- MODULE RecSALocal -----------------------------
(***************************************************************************)
(* The Reconfiguration Stability Assurance module of ONE processor         *)
(* (modules/recsa/module.py), as operators on the record that holds the    *)
(* processor's variables.  The module declares no variable: RecSA.tla      *)
(* composes N of these records with the network and the failure detector.  *)
(*                                                                         *)
(* A configuration and a proposal are sets of identifiers.  The Python     *)
(* code keeps them as lists or sets and compares them as sets, except in   *)
(* staleness test 4, where two lists of participants are compared; both    *)
(* are read off a set of small integers, which CPython iterates in one     *)
(* order for identifiers below 8, so equality of sets is what is compared. *)
(* A reading that was never received is the empty set, as the getters do.  *)
(* Staleness test 2 also looks for the empty list; no message or loop pass *)
(* ever stores one, and an empty set does not compare equal to it.         *)
(***************************************************************************)
EXTENDS Integers

CONSTANTS
  N,              \* number_of_nodes: processors are 0 .. N-1
  NotParticipant, \* the string 'NOT_PARTICIPANT' ("#" in the docstrings)
  Bottom          \* the string 'BOTTOM'

Node == 0 .. N-1

ASSUME NAssumption == N \in Nat \ {0}
ASSUME SpecialAssumption ==
  /\ NotParticipant # Bottom
  /\ \A S \in SUBSET Node : S # NotParticipant /\ S # Bottom

Config == {NotParticipant, Bottom} \union SUBSET Node

(* A notification: the phase of the replacement and the proposed set. *)
Ntf == [ph : 0..2, set : {Bottom} \union SUBSET Node]
DfltNtf == [ph |-> 0, set |-> Bottom]

(***************************************************************************)
(* The variables of the processor.  trusted and monitor belong to its      *)
(* failure detector, which RecSA reads through the resolver; the others    *)
(* are the attributes of the same (or a similar) name.                     *)
(***************************************************************************)
LocalState ==
  [id : Node,
   trusted : SUBSET Node,             \* FDModule.fd_set
   monitor : [Node -> 0..3],          \* FDModule.monitor
   config : [Node -> Config],
   prp : [Node -> Ntf],
   alll : [Node -> BOOLEAN],
   allSeen : SUBSET Node,
   fd : [Node -> SUBSET Node],
   fdPart : [Node -> SUBSET Node],
   echoPart : [Node -> SUBSET Node],
   echoPrp : [Node -> Ntf],
   echoAll : [Node -> BOOLEAN]]

(* What send_state puts into a message. *)
Message ==
  [fd : SUBSET Node, fdPart : SUBSET Node, config : Config, prp : Ntf,
   alll : BOOLEAN, echoPart : SUBSET Node, echoPrp : Ntf, echoAll : BOOLEAN]

(* The state built by __init__, before the failure detector has reported. *)
FreshState(i) ==
  [id |-> i, trusted |-> {}, monitor |-> [k \in Node |-> 0],
   config |-> [k \in Node |-> NotParticipant],
   prp |-> [k \in Node |-> DfltNtf],
   alll |-> [k \in Node |-> FALSE], allSeen |-> {},
   fd |-> [k \in Node |-> {}], fdPart |-> [k \in Node |-> {}],
   echoPart |-> [k \in Node |-> {}], echoPrp |-> [k \in Node |-> DfltNtf],
   echoAll |-> [k \in Node |-> FALSE]]
-----------------------------------------------------------------------------
(* Getters. *)

(* Mutant: processors that are no longer trusted count, too. *)
FdPartUntrusted(s) == {k \in Node : s.config[k] # NotParticipant}

(* The trusted processors that are participants (fd_part of the owner). *)
FdPart(s) == {k \in s.trusted : s.config[k] # NotParticipant}

FdOf(s, j) == IF j = s.id THEN s.trusted ELSE s.fd[j]
FdPartOf(s, j) == IF j = s.id THEN FdPart(s) ELSE s.fdPart[j]
EchoPartOf(s, j) == IF j = s.id THEN FdPart(s) ELSE s.echoPart[j]
EchoPrpOf(s, j) == IF j = s.id THEN s.prp[j] ELSE s.echoPrp[j]
EchoAllOf(s, j) == IF j = s.id THEN s.alll[j] ELSE s.echoAll[j]
-----------------------------------------------------------------------------
(* Macros. *)

MyAlll(s, k) ==
  \/ s.alll[k]
  \/ /\ k = s.id
     /\ \E l \in s.allSeen : s.prp[l].ph = (s.prp[k].ph + 1) % 3

Degree(s, k) == 2 * s.prp[k].ph + (IF MyAlll(s, k) THEN 1 ELSE 0)

CorrDeg(s, j, k) == (Degree(s, j) - Degree(s, k)) % 6 \in {0, 1, 5}

EchoNoAll(s, k) == /\ FdPart(s) = EchoPartOf(s, k)
                   /\ s.prp[s.id] = EchoPrpOf(s, k)

OneAhead(s, k) == (Degree(s, k) - Degree(s, s.id)) % 6 \in {0, 1}

EchoFun(s, k) == /\ EchoNoAll(s, k)
                 /\ MyAlll(s, s.id) = EchoAllOf(s, k)
                 /\ OneAhead(s, k)

AllSeenFun(s) == /\ s.alll[s.id]
                 /\ FdPart(s) \subseteq s.allSeen \union {s.id}

(* The distinct real configurations held by trusted processors. *)
RealConfigs(s) == {s.config[k] : k \in s.trusted} \ {NotParticipant, Bottom}
ConfigConflict(s) == \E c, d \in RealConfigs(s) : c # d

NoNtfArrived(s) == \A k \in FdPart(s) : s.prp[k].ph = 0

(* Mutant: does not wait for the failure detectors to agree. *)
FdsStabilizedAtOnce(s) == s.trusted # {}

(* Only what receive_msg stored counts here, even for the owner's reading. *)
FdsStabilized(s) == \A j \in s.trusted : s.fd[j] = s.trusted

ConfigSet(s, val) ==
  [s EXCEPT !.config = [k \in Node |-> val],
            !.prp = [k \in Node |-> DfltNtf]]

(***************************************************************************)
(* max_lex folds a comparison of sorted lists over the participants'       *)
(* proposals.  The sorted lists of two distinct sets first differ at the   *)
(* smallest member d of their symmetric difference: the owner of d is the  *)
(* smaller one unless the other list ends there.                           *)
(***************************************************************************)
Below(A, B) ==
  \E d \in A \ B :
     /\ \A e \in (A \ B) \union (B \ A) : d <= e
     /\ \E b \in B : b > d
EndsInside(A, B) ==
  \E d \in B \ A :
     /\ \A e \in (A \ B) \union (B \ A) : d <= e
     /\ \A a \in A : a <= d
LexLeq(A, B) == A = B \/ Below(A, B) \/ EndsInside(A, B)

(* The order is total, so exactly one member of real is maximal, and the   *)
(* union of a set that has one member is that member.                      *)
MaxLex(F) ==
  LET real == F \ {Bottom}
  IN  IF real = {} THEN Bottom
                   ELSE UNION {m \in real : \A x \in real : LexLeq(x, m)}
-----------------------------------------------------------------------------
(* Staleness tests. *)

StaleInfoType1(s) == \E k \in Node : s.prp[k].ph = 0 /\ s.prp[k].set # Bottom

(* Mutant: looks only at the owner's configuration. *)
StaleInfoType2OwnOnly(s) == s.config[s.id] = Bottom

(* Mutant: looks only at what was received. *)
StaleInfoType2Received(s) == \E k \in Node \ {s.id} : s.config[k] = Bottom

StaleInfoType2(s) == \E k \in Node : s.config[k] = Bottom

(* Mutant: proposals may not even compete. *)
StaleInfoType3AnyPhase(s) ==
  LET ahead == {k \in FdPart(s) : s.prp[k].ph = (s.prp[s.id].ph + 1) % 3}
      proposals == {s.prp[k].set : k \in FdPart(s)} \ {Bottom}
  IN  \/ \E k \in FdPart(s) : ~ CorrDeg(s, s.id, k)
      \/ ~ (ahead \subseteq s.allSeen)
      \/ \E a, b \in proposals : a # b

StaleInfoType3(s) ==
  LET ahead == {k \in FdPart(s) : s.prp[k].ph = (s.prp[s.id].ph + 1) % 3}
      proposals == {s.prp[k].set : k \in FdPart(s)} \ {Bottom}
  IN  \/ \E k \in FdPart(s) : ~ CorrDeg(s, s.id, k)
      \/ ~ (ahead \subseteq s.allSeen)
      \/ /\ \E k \in FdPart(s) : s.prp[k].ph = 2
         /\ \E a, b \in proposals : a # b

(***************************************************************************)
(* Test 4 evaluates `k in config[i]` for every participant k.  When        *)
(* config[i] is one of the two strings, Python raises TypeError and the    *)
(* thread of the main loop ends.                                           *)
(***************************************************************************)
StaleInfoType4Raises(s) ==
  FdPart(s) # {} /\ s.config[s.id] \in {NotParticipant, Bottom}

StaleInfoType4(s) ==
  /\ FdPart(s) # {}
  /\ \A k \in FdPart(s) : /\ FdOf(s, k) = s.trusted
                          /\ FdPartOf(s, k) = FdPart(s)
  /\ s.config[s.id] \notin {NotParticipant, Bottom}
  /\ FdPart(s) \intersect s.config[s.id] = {}

(* Mutant: one stable processor that is no participant is enough. *)
OneNonParticipantWithStableMonitor(s) ==
  \E k \in s.trusted : s.monitor[k] = 3 /\ s.config[k] = NotParticipant

NoParticipantsAndStableMonitors(s) ==
  /\ s.trusted # {}
  /\ \A k \in s.trusted : s.monitor[k] = 3 /\ s.config[k] = NotParticipant
-----------------------------------------------------------------------------
(* The lines of the main loop, each a function of the record before it.    *)

(* Forget the processors outside part and restart their monitors. *)
Forget(s, part) ==
  LET forget == {k \in Node \ part :
                   s.config[k] # NotParticipant \/ s.prp[k] # DfltNtf}
  IN  [s EXCEPT
         !.config = [k \in Node |-> IF k \in forget THEN NotParticipant
                                                    ELSE s.config[k]],
         !.prp = [k \in Node |-> IF k \in forget THEN DfltNtf ELSE s.prp[k]],
         !.monitor = [k \in Node |-> IF k \in forget THEN 0
                                                     ELSE s.monitor[k]]]

Line22(s) == Forget(s, FdPart(s))

(* mod_max: does the owner move up to phase 1?  If so it empties allSeen. *)
JoinsPhaseOne(s) ==
  LET phs == {s.prp[k].ph : k \in FdPart(s)}
  IN  1 \in phs /\ 2 \notin phs /\ s.prp[s.id].ph # 1

(* max_ntf: adopt the maximal notification when nobody is further ahead. *)
Line23(s) ==
  IF \A k \in FdPart(s) : OneAhead(s, k)
  THEN [s EXCEPT
          !.prp[s.id] = [ph |-> IF JoinsPhaseOne(s) THEN 1
                                                    ELSE s.prp[s.id].ph,
                         set |-> MaxLex({s.prp[k].set : k \in FdPart(s)})],
          !.allSeen = IF JoinsPhaseOne(s) THEN {} ELSE s.allSeen]
  ELSE s

Line25(s) ==
  [s EXCEPT !.alll[s.id] = \A k \in FdPart(s) : EchoNoAll(s, k)]

Line26(s) ==
  [s EXCEPT !.allSeen = s.allSeen \union {k \in FdPart(s) : s.alll[k]}]

(***************************************************************************)
(* The record when the staleness tests run.  It is the only member of a    *)
(* set so that each line is evaluated once; the same below.                *)
(***************************************************************************)
BeforeTests(s) ==
  {Line26(c) : c \in {Line25(b) : b \in {Line23(a) : a \in {Line22(s)}}}}

StaleBeforeType4(s) ==
  StaleInfoType1(s) \/ StaleInfoType2(s) \/ StaleInfoType3(s)

(* Line 24 runs after lines 25 and 26 in the code. *)
Raises(s) == ~ StaleBeforeType4(s) /\ StaleInfoType4Raises(s)

Line24(s) ==
  IF \/ StaleBeforeType4(s)
     \/ StaleInfoType4(s)
     \/ NoParticipantsAndStableMonitors(s)
  THEN ConfigSet(s, Bottom)
  ELSE s

(* Mutant: a conflict is left alone. *)
ConflictLeftAlone(s) == s

ResetConflict(s) ==
  IF ConfigConflict(s) THEN ConfigSet(s, Bottom) ELSE s

(* Brute-force stabilization, when no notification is in sight. *)
BruteForce(s) ==
  LET s1 == ResetConflict(s)
  IN  IF s1.config[s1.id] = Bottom /\ FdsStabilized(s1)
      THEN ConfigSet(s1, s1.trusted)
      ELSE s1

(* Mutant: installs without waiting for the echoes. *)
InstallAtOnce(s) ==
  IF s.prp[s.id].ph = 2 THEN [s EXCEPT !.config[s.id] = s.prp[s.id].set] ELSE s

(* Install the proposal in phase 2, once every participant echoed it. *)
Install(s) ==
  IF s.prp[s.id].ph = 2 /\ s.alll[s.id]
  THEN [s EXCEPT !.config[s.id] = s.prp[s.id].set]
  ELSE s

(* Mutant: phase 2 is followed by phase 3. *)
IncrementNoWrap(s) ==
  LET p == s.prp[s.id]
  IN  IF p.ph = 0 THEN [s EXCEPT !.allSeen = {}]
                  ELSE [s EXCEPT !.prp[s.id].ph = p.ph + 1,
                                 !.alll[s.id] = FALSE, !.allSeen = {}]

(* Mutant: phase 0 keeps the proposal. *)
IncrementKeepsSet(s) ==
  LET p == s.prp[s.id]
  IN  IF p.ph = 0 THEN [s EXCEPT !.allSeen = {}]
                  ELSE [s EXCEPT !.prp[s.id].ph = (p.ph + 1) % 3,
                                 !.alll[s.id] = FALSE, !.allSeen = {}]

(* increment(): the next phase of the replacement. *)
Increment(s) ==
  LET p == s.prp[s.id]
  IN  CASE p.ph = 1 -> [s EXCEPT !.prp[s.id] = [ph |-> 2, set |-> p.set],
                                 !.alll[s.id] = FALSE, !.allSeen = {}]
        [] p.ph = 2 -> [s EXCEPT !.prp[s.id] = DfltNtf,
                                 !.alll[s.id] = FALSE, !.allSeen = {}]
        [] OTHER -> [s EXCEPT !.allSeen = {}]

(* Mutant: moves on without waiting for the echo of all. *)
DelicateUnechoed(s) ==
  LET s1 == Install(s) IN IF AllSeenFun(s1) THEN Increment(s1) ELSE s1

(* Delicate replacement: install, then move on when all have moved on. *)
Delicate(s) ==
  LET s1 == Install(s)
  IN  IF AllSeenFun(s1) /\ \A k \in FdPart(s1) : EchoFun(s1, k)
      THEN Increment(s1)
      ELSE s1

Lines27to32(s) == IF NoNtfArrived(s) THEN BruteForce(s) ELSE Delicate(s)

(* The rest of the pass, when test 4 does not raise. *)
AfterTests(s) == {Lines27to32(t) : t \in {Line24(s)}}

(* Mutant: echoes its own notification instead of that of the receiver. *)
StateMsgEchoesItself(s, j) ==
  [fd |-> s.trusted, fdPart |-> FdPart(s), config |-> s.config[s.id],
   prp |-> s.prp[s.id], alll |-> MyAlll(s, s.id),
   echoPart |-> FdPartOf(s, j), echoPrp |-> s.prp[s.id],
   echoAll |-> s.alll[s.id]]

(* send_state(j). *)
StateMsg(s, j) ==
  [fd |-> s.trusted, fdPart |-> FdPart(s), config |-> s.config[s.id],
   prp |-> s.prp[s.id], alll |-> MyAlll(s, s.id),
   echoPart |-> FdPartOf(s, j), echoPrp |-> s.prp[j], echoAll |-> s.alll[j]]

(* receive_msg(msg) from j; it first refreshes the owner's stored reading. *)
ReceiveMsg(s, j, m) ==
  [s EXCEPT !.fd = [s.fd EXCEPT ![s.id] = s.trusted, ![j] = m.fd],
            !.fdPart[j] = m.fdPart, !.config[j] = m.config,
            !.prp[j] = m.prp, !.alll[j] = m.alll,
            !.echoPart[j] = m.echoPart, !.echoPrp[j] = m.echoPrp,
            !.echoAll[j] = m.echoAll]
-----------------------------------------------------------------------------
(* Interface functions, called by RecMA and by the Joining mechanism.      *)

(* Mutant: the last line of allow_reco() is missing. *)
AllowRecoWithoutStability(s) ==
  LET others == s.trusted \ {s.id}
  IN  /\ ~ ConfigConflict(s)
      /\ AllSeenFun(s)
      /\ \A k \in FdPart(s) : EchoFun(s, k)
      /\ others # {} /\ \A j \in others : s.id \in s.fd[j]
      /\ \A j \in others : s.fdPart[j] \union s.echoPart[j] = FdPart(s)

AllowReco(s) ==
  LET others == s.trusted \ {s.id}
  IN  /\ ~ ConfigConflict(s)
      /\ AllSeenFun(s)
      /\ \A k \in FdPart(s) : EchoFun(s, k)
      /\ others # {} /\ \A j \in others : s.id \in s.fd[j]
      /\ \A j \in others : s.fdPart[j] \union s.echoPart[j] = FdPart(s)
      /\ \A j \in s.trusted : /\ s.config[j] # Bottom
                              /\ s.prp[j] = DfltNtf
                              /\ s.alll[j]

(* Evaluated only when AllowReco holds, hence when no config is Bottom. *)
ChsConfig(s) ==
  LET conf == UNION {s.config[j] : j \in FdPart(s)}
  IN  IF conf = {} THEN Bottom ELSE conf

(* Mutant: the present configuration may be proposed again. *)
EstabSame(s, set) ==
  IF AllowReco(s) /\ set # {}
  THEN [s EXCEPT !.prp[s.id] = [ph |-> 1, set |-> set],
                 !.alll[s.id] = FALSE, !.allSeen = {}]
  ELSE s

Estab(s, set) ==
  IF AllowReco(s) /\ set \notin {{}, s.config[s.id]}
  THEN [s EXCEPT !.prp[s.id] = [ph |-> 1, set |-> set],
                 !.alll[s.id] = FALSE, !.allSeen = {}]
  ELSE s

Participate(s) ==
  IF AllowReco(s) THEN [s EXCEPT !.config[s.id] = ChsConfig(s)] ELSE s
=============================================================================
