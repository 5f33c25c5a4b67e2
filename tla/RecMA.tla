-------------------------------- MODULE RecMA --------------------------------
(***************************************************************************)
(* The Reconfiguration Management modules (modules/recma/module.py) of N   *)
(* processors on top of their RecSA modules: they watch the configuration  *)
(* and ask RecSA to replace it when too few of its members are trusted.    *)
(*                                                                         *)
(* A pass of the RecMA loop is two steps, since it reads the configuration *)
(* (line 94) before it asks again whether a replacement is allowed (line   *)
(* 106): RecSA may run and receive in between.  Flags travel in the same   *)
(* ZeroMQ queues as RecSA's messages; as the two are stored in different   *)
(* variables, they have channels of their own here.                        *)
(***************************************************************************)
EXTENDS RecSA

VARIABLES
  needReconf,  \* needReconf[i][j]
  noMaj,       \* noMaj[i][j]
  prevConfig,  \* prev_config; the empty list of the start is the empty set
  curConfig,   \* cur_config inside a pass, NotParticipant outside of it
  mail         \* mail[i][j]: flags sent by i and not yet received by j

flags == <<needReconf, noMaj>>
manager == <<flags, prevConfig, curConfig, mail>>
mvars == <<vars, manager>>

Flags == [noMaj : BOOLEAN, needReconf : BOOLEAN]

ManagerTypeOK ==
  /\ needReconf \in [Node -> [Node -> BOOLEAN]]
  /\ noMaj \in [Node -> [Node -> BOOLEAN]]
  /\ prevConfig \in [Node -> Config]
  /\ curConfig \in [Node -> Config]
  /\ mail \in [Node -> [Node -> Seq(Flags)]]

NoFlags == [j \in Node |-> FALSE]

ManagerInit ==
  /\ needReconf = [i \in Node |-> NoFlags]
  /\ noMaj = [i \in Node |-> NoFlags]
  /\ prevConfig = [i \in Node |-> {}]
  /\ curConfig = [i \in Node |-> NotParticipant]
  /\ mail = [i \in Node |-> [j \in Node |-> <<>>]]
-----------------------------------------------------------------------------
(* get_config() *)
GetConfig(s) == IF AllowReco(s) THEN ChsConfig(s) ELSE s.config[s.id]

(* How many members of configuration c are trusted.  A configuration that  *)
(* was read as the string 'BOTTOM' has six "members", none of them trusted. *)
Trusted(s, c) == IF c = Bottom THEN {} ELSE c \intersect s.trusted
Size(c) == IF c = Bottom THEN 6 ELSE Cardinality(c)

NoMajority(s, c) == Cardinality(Trusted(s, c)) < (Size(c) \div 2) + 1

(* Mutant: half of the members must be missing. *)
EvalConfigHalf(s, c) == 2 * Cardinality(Trusted(s, c)) < Size(c)

(* eval_config(): a quarter of the members or a quorum is missing. *)
EvalConfig(s, c) ==
  LET n == Cardinality(Trusted(s, c))
  IN  4 * n < 3 * Size(c) \/ 2 * n < N + 1

(* core(): the participants that all participants trust, as far as s knows. *)
Core(s) == {k \in FdPart(s) : \A j \in FdPart(s) : k \in FdPartOf(s, j)}

(* Mutant: the dictionary is built anew from the trusted processors. *)
FlushedAnew(s, f) == [j \in s.trusted |-> FALSE]

(* flush_flags() on one dictionary. *)
Flushed(s, f) == [j \in Node |-> IF j \in s.trusted THEN FALSE ELSE f[j]]

(* Lines 7 to 10 of the loop; who is no participant does nothing. *)
Look(i) ==
  /\ i \in up /\ curConfig[i] = NotParticipant
  /\ i \in FdPart(st[i])
  /\ \E c \in {GetConfig(st[i])} :
       LET Reset(f) == IF prevConfig[i] \in {c, Bottom} THEN f
                                                       ELSE Flushed(st[i], f)
       IN  /\ curConfig' = [curConfig EXCEPT ![i] = c]
           /\ needReconf' = [needReconf EXCEPT
                               ![i] = [Reset(@) EXCEPT ![i] = FALSE]]
           /\ noMaj' = [noMaj EXCEPT ![i] = [Reset(@) EXCEPT ![i] = FALSE]]
  /\ UNCHANGED <<vars, prevConfig, mail>>

(* Lines 14 to 18: is a replacement asked for? *)
AsksForMajority(s, lost) ==
  lost[s.id] /\ Cardinality(Core(s)) > 1 /\ \E k \in Core(s) : lost[k]

AsksForQuality(s, c, need) ==
  /\ need[s.id]
  /\ Cardinality({j \in Trusted(s, c) : need[j]}) > Size(c) \div 2

(* Lines 11 to 19 and, in any case, 20. *)
Evaluate(i) ==
  LET s == st[i]
      c == curConfig[i]
      lost == [noMaj[i] EXCEPT ![i] = NoMajority(s, c)]
      need == IF AsksForMajority(s, lost)
              THEN needReconf[i]
              ELSE [needReconf[i] EXCEPT ![i] = EvalConfig(s, c)]
      asks == AsksForMajority(s, lost) \/ AsksForQuality(s, c, need)
  IN  /\ prevConfig' = [prevConfig EXCEPT ![i] = c]
      /\ noMaj' = [noMaj EXCEPT ![i] = IF asks THEN Flushed(s, lost) ELSE lost]
      /\ needReconf' = [needReconf EXCEPT
                          ![i] = IF asks THEN Flushed(s, need) ELSE need]
      /\ st' = [st EXCEPT ![i] = IF asks THEN Estab(s, FdPart(s)) ELSE s]

SendFlags(i) ==
  mail' = [mail EXCEPT ![i] =
    [j \in Node |-> IF j \in (FdPart(st[i]) \ {i}) \intersect up
                    THEN Append(mail[i][j], [noMaj |-> noMaj'[i][i],
                                             needReconf |-> needReconf'[i][i]])
                    ELSE mail[i][j]]]

(* Bound: a pass goes on when the flags of the last one have arrived. *)
Decide(i) ==
  /\ i \in up /\ curConfig[i] # NotParticipant
  /\ \A j \in Node : mail[i][j] = <<>>
  /\ IF AllowReco(st[i]) THEN Evaluate(i)
                         ELSE UNCHANGED <<st, flags, prevConfig>>
  /\ SendFlags(i)
  /\ curConfig' = [curConfig EXCEPT ![i] = NotParticipant]
  /\ UNCHANGED <<up, loop, chan, estabs, suspects>>

ReceiveFlags(i, j) ==
  /\ i \in up /\ mail[j][i] # <<>>
  /\ noMaj' = [noMaj EXCEPT ![i][j] = Head(mail[j][i]).noMaj]
  /\ needReconf' = [needReconf EXCEPT ![i][j] = Head(mail[j][i]).needReconf]
  /\ mail' = [mail EXCEPT ![j][i] = Tail(mail[j][i])]
  /\ UNCHANGED <<vars, prevConfig, curConfig>>

(* The process of RecSA's Crash takes its RecMA with it. *)
CrashAll(i) ==
  /\ Crash(i)
  /\ needReconf' = [needReconf EXCEPT ![i] = NoFlags]
  /\ noMaj' = [noMaj EXCEPT ![i] = NoFlags]
  /\ prevConfig' = [prevConfig EXCEPT ![i] = {}]
  /\ curConfig' = [curConfig EXCEPT ![i] = NotParticipant]
  /\ mail' = [j \in Node |-> [mail[j] EXCEPT ![i] = <<>>]]

RecSAStep(i) ==
  /\ Iterate(i) \/ \E j \in Node : Receive(i, j) \/ FDToken(i, j)
  /\ UNCHANGED manager

ManagerNext ==
  \E i \in Node :
    \/ RecSAStep(i) \/ Look(i) \/ Decide(i) \/ CrashAll(i)
    \/ \E j \in Node : ReceiveFlags(i, j)

ManagerFairness ==
  \A i \in Node :
    /\ SF_mvars(Iterate(i) /\ UNCHANGED manager)
    /\ WF_mvars(Look(i)) /\ WF_mvars(Decide(i))
    /\ \A j \in Node :
         /\ WF_mvars(Receive(i, j) /\ UNCHANGED manager)
         /\ WF_mvars(TokenArrives(i, j) /\ UNCHANGED manager)
         /\ WF_mvars(ReceiveFlags(i, j))

(***************************************************************************)
(* The processors rest in the configuration of all of them, or in one that *)
(* leaves the first one out: then a single death costs it its majority.    *)
(***************************************************************************)
ManagedInit ==
  /\ AllRunning(0, 0) /\ ManagerInit
  /\ \E C \in {Node, Node \ {0}} : st = [i \in Node |-> Steady(i, Node, C)]

ManagedSpec == ManagedInit /\ [][ManagerNext]_mvars /\ ManagerFairness
-----------------------------------------------------------------------------
(***************************************************************************)
(* A replacement begins only where a member of the configuration is dead:  *)
(* what RecMA has from before an installation, the configuration it read   *)
(* and the flags of the others, starts no second one.  It may still call   *)
(* estab(); with one death the set it passes is that of the survivors, and *)
(* estab() refuses the configuration that is installed.  A stale reading   *)
(* next to another death or a wrong suspicion is not covered.              *)
(***************************************************************************)
OnlyTheDeadAreReplaced ==
  [][\A i \in up : Phase(i) = 0 /\ Phase(i)' = 1 => ~ (Conf(i) \subseteq up)]_mvars

(***************************************************************************)
(* Once the failure detectors suspect who is dead, the configuration loses *)
(* its dead members, and all processors have the same one in the end:      *)
(* RecMA notices, RecSA replaces, and RecMA rests again.                   *)
(***************************************************************************)
ConfigIsAlive ==
  DeadSuspected =>
    <>[](\A i, j \in up : Conf(i) \subseteq up /\ Conf(i) = Conf(j))
=============================================================================
