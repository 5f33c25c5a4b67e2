------------------------------- MODULE Joining -------------------------------
(***************************************************************************)
(* The Joining mechanism (modules/joining_mechanism/module.py) on top of   *)
(* RecSA.  It puts requests and answers into the ZeroMQ queues that RecSA  *)
(* uses; one thread of each process takes the messages out and ends with   *)
(* an exception.  A pass of its loop is cut after the configuration was    *)
(* read and the passes in it were counted.  The failure detectors have     *)
(* stabilized, everybody is trusted: no token comes and nobody is killed.  *)
(***************************************************************************)
EXTENDS MCRecSA

CONSTANTS
  Join,    \* the data of a request
  Pass,    \* the data of an answer, which always lets the other pass
  Groups   \* bound: the sets of participants and of members at the start

ASSUME GroupsAssumption == Groups \subseteq SUBSET Node
ASSUME KindsAssumption ==
  Join # Pass /\ Join \notin Message /\ Pass \notin Message

VARIABLES
  passs,    \* passs[i]: whether j let i pass, for the j in its domain; the
            \* attribute state has the same domain
  curConf,  \* what the loop of i has read: no members when it begins anew
  enough,   \* the loops that have counted passes of more than half of it
  joining,  \* the processors whose joining thread has not ended
  hearing   \* the processors whose ZeroMQ receiver thread has not ended

mechanism == <<passs, curConf, enough, joining, hearing>>
jvars == <<vars, mechanism>>

JoiningTypeOK ==
  /\ \A i \in Node : /\ DOMAIN passs[i] \subseteq Node
                     /\ \A j \in DOMAIN passs[i] : passs[i][j] \in BOOLEAN
  /\ curConf \in [Node -> SUBSET Node]
  /\ enough \subseteq {i \in Node : curConf[i] # {}}
  /\ joining \subseteq Node /\ hearing \subseteq Node
  /\ \A i, j \in Node : chan[i][j] \in Seq({Join, Pass} \union Message)

(* Mutant: the processor does not ask itself and has no own entry. *)
FlushedToOthers(i) == [j \in st[i].trusted \ {i} |-> FALSE]

(* flush_arrays() *)
Flushed(i) == [j \in st[i].trusted |-> FALSE]

Outsider(i) == i \in up \intersect joining /\ i \notin FdPart(st[i])

Post(i, J, data) ==
  chan' = [chan EXCEPT ![i] = [j \in Node |->
             IF j \in (J \intersect up) \ {i} THEN Append(chan[i][j], data)
                                              ELSE chan[i][j]]]
-----------------------------------------------------------------------------
(* A pass in which no replacement is allowed has nobody to ask. *)
Flush(i) ==
  /\ Outsider(i) /\ curConf[i] = {}
  /\ ~ AllowReco(st[i])
  /\ passs' = [passs EXCEPT ![i] = Flushed(i)]
  /\ UNCHANGED <<vars, curConf, enough, joining, hearing>>

MajorityPass(i, cur) ==
  2 * Cardinality({j \in cur \intersect st[i].trusted : passs[i][j]})
    > Cardinality(cur)

(* get_config() is chs_config() now; if passs lacks one of its trusted     *)
(* members, KeyError ends the thread.                                      *)
ReadConf(i) ==
  /\ Outsider(i) /\ curConf[i] = {}
  /\ UnderWay <= MaxBacklog
  /\ AllowReco(st[i]) /\ ChsConfig(st[i]) # Bottom
  /\ LET cur == ChsConfig(st[i])
     IN  IF cur \intersect st[i].trusted \subseteq DOMAIN passs[i]
         THEN /\ curConf' = [curConf EXCEPT ![i] = cur]
              /\ enough' = IF MajorityPass(i, cur) THEN enough \union {i}
                                                  ELSE enough
              /\ joining' = joining
         ELSE /\ joining' = joining \ {i}
              /\ UNCHANGED <<curConf, enough>>
  /\ UNCHANGED <<vars, passs, hearing>>

(* Mutant: takes the configuration in which the passes were counted. *)
AdmittedAsRead(i) ==
  IF i \in enough /\ AllowReco(st[i])
  THEN [st[i] EXCEPT !.config[i] = curConf[i]] ELSE st[i]

(* participate() is called after enough passes were counted. *)
AdmittedNow(i) == IF i \in enough THEN Participate(st[i]) ELSE st[i]

(* participate(), or flush, or neither; then the requests, if allowed. *)
ActOnConf(i) ==
  /\ i \in up \intersect joining /\ curConf[i] # {}
  /\ \E s \in {AdmittedNow(i)} :
       /\ st' = [st EXCEPT ![i] = s]
       /\ IF AllowReco(s) THEN Post(i, curConf[i], Join) ELSE chan' = chan
  /\ passs' = [passs EXCEPT ![i] = IF AllowReco(st[i]) THEN passs[i]
                                                       ELSE Flushed(i)]
  /\ curConf' = [curConf EXCEPT ![i] = {}]
  /\ enough' = enough \ {i}
  /\ UNCHANGED <<up, loop, estabs, suspects, joining, hearing>>
-----------------------------------------------------------------------------
Arrives(i, j, data) ==
  /\ i \in up \intersect hearing
  /\ chan[j][i] # <<>> /\ Head(chan[j][i]) = data

Taken(i, j) == [chan EXCEPT ![j] = [chan[j] EXCEPT ![i] = Tail(chan[j][i])]]

GetConfig(s) == IF AllowReco(s) THEN ChsConfig(s) ELSE s.config[s.id]

Stranger(i, j) == j \in st[i].trusted /\ j \notin FdPart(st[i])

(* `self.id in get_config()` of a string, or state[self.id] is missing. *)
RequestRaises(i) ==
  \/ GetConfig(st[i]) \in {NotParticipant, Bottom}
  \/ /\ AllowReco(st[i]) /\ i \in GetConfig(st[i])
     /\ i \notin DOMAIN passs[i]

(* Mutant: only participants are answered. *)
AnswersParticipants(i, j) ==
  /\ j \in FdPart(st[i]) /\ ~ RequestRaises(i)
  /\ AllowReco(st[i]) /\ i \in GetConfig(st[i])

Answers(i, j) ==
  /\ Stranger(i, j) /\ ~ RequestRaises(i)
  /\ AllowReco(st[i]) /\ i \in GetConfig(st[i])

(* receive_join_request(): a trusted non-participant gets its answer. *)
ReceiveJoin(i, j) ==
  /\ Arrives(i, j, Join)
  /\ hearing' = IF Stranger(i, j) /\ RequestRaises(i) THEN hearing \ {i}
                                                      ELSE hearing
  /\ chan' = [Taken(i, j) EXCEPT ![i][j] =
                IF Answers(i, j) /\ j \in up THEN Append(@, Pass) ELSE @]
  /\ UNCHANGED <<st, up, loop, estabs, suspects, passs, curConf, enough,
                 joining>>

(* Mutant: keeps the whole answer instead of its entry "pass". *)
FiledWhole(i, j) ==
  [k \in DOMAIN passs[i] \union {j} |-> IF k = j THEN Pass ELSE passs[i][k]]

Filed(i, j) ==
  [k \in DOMAIN passs[i] \union {j} |-> k = j \/ passs[i][k]]

(* receive_response() *)
ReceivePass(i, j) ==
  /\ Arrives(i, j, Pass)
  /\ passs' = [passs EXCEPT ![i] = Filed(i, j)]
  /\ chan' = Taken(i, j)
  /\ UNCHANGED <<st, up, loop, estabs, suspects, curConf, enough, joining,
                 hearing>>

ReceiveState(i, j) ==
  /\ i \in hearing /\ chan[j][i] # <<>> /\ Head(chan[j][i]) \notin {Join, Pass}
  /\ Receive(i, j)
  /\ UNCHANGED mechanism

JoinPass(i) == Flush(i) \/ ReadConf(i) \/ ActOnConf(i)

Deliver(i, j) ==
  \/ ReceiveState(i, j) \/ ReceivePass(i, j)
  \/ ReceiveJoin(i, j)

RecSAPass(i) == (Iterate(i) \/ IterateRaises(i)) /\ UNCHANGED mechanism

(* RecMA proposes its participants, whatever makes it do so. *)
RecMAProposes(i) ==
  /\ i \in FdPart(st[i])
  /\ RequestEstab(i, FdPart(st[i]))
  /\ UNCHANGED mechanism

JoiningNext ==
  \/ \E i \in Node : JoinPass(i) \/ RecSAPass(i) \/ RecMAProposes(i)
  \/ \E i, j \in Node : Deliver(i, j)

(***************************************************************************)
(* As in RecSA.tla; the joining loop waits for room, too, when it asks.    *)
(* Whatever is under way is delivered before a pass begins (MaxBacklog is  *)
(* 0 in the run), so that one condition serves all the channels.           *)
(***************************************************************************)
JoiningFairness ==
  /\ \A i \in Node : SF_jvars(RecSAPass(i)) /\ SF_jvars(JoinPass(i))
  /\ WF_jvars(\E i, j \in Node : Deliver(i, j))

(***************************************************************************)
(* The participants P rest in configuration C without the others, and know *)
(* them as processors that are none and know what P do.  Those of P that   *)
(* are not in C have joined before.                                        *)
(***************************************************************************)
WithoutOthers(i, P, C) ==
  [Steady(i, P, C) EXCEPT
     !.trusted = Node,
     !.monitor = [k \in Node |-> 3],
     !.alll = [k \in Node |-> TRUE],
     !.fd = [k \in Node |-> Node],
     !.fdPart = [k \in Node |-> P],
     !.echoPart = [k \in Node |-> P],
     !.echoAll = [k \in Node |-> TRUE]]

(* Each loop begins with a flush. *)
InitMechanism ==
  /\ passs = [i \in Node |-> Flushed(i)]
  /\ curConf = [i \in Node |-> {}]
  /\ enough = {}
  /\ joining = Node /\ hearing = Node

InitJoining ==
  /\ \E P \in Groups, C \in Groups :
       /\ C # {} /\ C \subseteq P
       /\ st = [i \in Node |-> WithoutOthers(i, P, C)]
  /\ AllRunning(0, MaxSuspect)
  /\ InitMechanism

SpecJoining == InitJoining /\ [][JoiningNext]_jvars /\ JoiningFairness
-----------------------------------------------------------------------------
(***************************************************************************)
(* Requests go only to processors that hold a set of members and their own *)
(* entry, also while others join and a replacement is under way: no        *)
(* request ends the receiver thread of a member, on which RecSA depends.   *)
(* Of a member that restarts or is suspected this module says nothing.     *)
(***************************************************************************)
ServersHear == hearing = Node

(***************************************************************************)
(* A processor that joins takes the configuration that every participant   *)
(* has, although the passes it has were given earlier and participate()    *)
(* does not look at them again; and no replacement is in its last phase.   *)
(* It needs proposals that are the proposer's participants: a single       *)
(* member that proposed somebody else would go through all phases without  *)
(* asking anybody, while another one is about to join.                     *)
(***************************************************************************)
JoinsPresent ==
  [][\A i \in up : (Conf(i) = NotParticipant /\ Installed(i)' /\ ActOnConf(i))
        => \A j \in up \ {i} :
             Conf(j) # NotParticipant => Conf(j) = Conf(i)' /\ Phase(j) # 2]_jvars

(***************************************************************************)
(* A processor that asks is let in: it does not stay outside while a       *)
(* replacement, and so its admission, is allowed everywhere.               *)
(***************************************************************************)
Admitted ==
  []<>(\A i \in up : Outsider(i) => \E j \in up : ~ AllowReco(st[j]))
=============================================================================
