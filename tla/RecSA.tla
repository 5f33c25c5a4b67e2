-------------------------------- MODULE RecSA --------------------------------
(***************************************************************************)
(* N processors that run the RecSA main loop, the messages between them    *)
(* and what the failure detector and RecMA do to them.                     *)
(*                                                                         *)
(* One pass of the loop is one step, and so is one receive_msg and one     *)
(* call of an interface function: threads of one process interleave        *)
(* between these units.  RecSAThreads.tla lets them in anywhere.           *)
(***************************************************************************)
EXTENDS RecSALocal, Sequences, FiniteSets, Functions

CONSTANTS
  Proposals,      \* the sets RecMA may pass to estab()
  Mortal,         \* the processors that may be killed
  MaxEstab,       \* bound: calls of estab() that change the state
  MaxSuspect,     \* bound: wrong suspicions by the failure detectors
  MaxBacklog      \* bound: messages under way when a pass sends its own

ASSUME ProposalsAssumption == Proposals \subseteq SUBSET Node
ASSUME BoundsAssumption == {MaxEstab, MaxSuspect, MaxBacklog} \subseteq Nat

VARIABLES
  st,       \* st[i]: the variables of processor i
  up,       \* the processors whose process runs
  loop,     \* the processors whose RecSA thread has not ended
  chan,     \* chan[i][j]: messages sent by i and not yet received by j
  estabs,   \* counts effective estab() calls, up to MaxEstab
  suspects  \* counts wrong suspicions, up to MaxSuspect

vars == <<st, up, loop, chan, estabs, suspects>>

TypeOK ==
  /\ st \in [Node -> LocalState]
  /\ \A i \in Node : st[i].id = i
  /\ up \subseteq Node
  /\ loop \subseteq Node
  /\ chan \in [Node -> [Node -> Seq(Message)]]
  /\ estabs \in 0..MaxEstab
  /\ suspects \in 0..MaxSuspect
-----------------------------------------------------------------------------
(***************************************************************************)
(* The rest of a state in which every processor runs and nothing is sent,  *)
(* with e calls of estab() and f wrong suspicions used up.                 *)
(***************************************************************************)
AllRunning(e, f) ==
  /\ up = Node
  /\ loop = Node
  /\ chan = [i \in Node |-> [j \in Node |-> <<>>]]
  /\ estabs = e
  /\ suspects = f

(* Every process has just reported RUNNING, and RecMA has no proposal yet. *)
InitBoot == /\ AllRunning(MaxEstab, 0)
            /\ st = [i \in Node |-> FreshState(i)]

(***************************************************************************)
(* The state in which a system of participants P with configuration C      *)
(* rests; run Healthy2 shows that the system gets there.  What a processor *)
(* stores for itself as an echo is never written.                          *)
(***************************************************************************)
Steady(i, P, C) ==
  [FreshState(i) EXCEPT
     !.trusted = P,
     !.monitor = [k \in Node |-> IF k \in P THEN 3 ELSE 0],
     !.config = [k \in Node |-> IF k \in P THEN C ELSE NotParticipant],
     !.alll = [k \in Node |-> k \in P],
     !.allSeen = P,
     !.fd = [k \in Node |-> IF k \in P THEN P ELSE {}],
     !.fdPart = [k \in Node |-> IF k \in P \ {i} THEN P ELSE {}],
     !.echoPart = [k \in Node |-> IF k \in P \ {i} THEN P ELSE {}],
     !.echoAll = [k \in Node |-> k \in P \ {i}]]

InitSteady == /\ AllRunning(0, 0)
              /\ st = [i \in Node |-> Steady(i, Node, Node)]

Init == InitBoot \/ InitSteady
-----------------------------------------------------------------------------
(* send_state() to every trusted processor; nothing from non-participants. *)
Targets(s) == IF s.config[s.id] = NotParticipant
              THEN {} ELSE (s.trusted \ {s.id}) \intersect up

UnderWay ==
  FoldFunction(+, 0, [e \in Node \X Node |-> Len(chan[e[1]][e[2]])])

Send(s) ==
  chan' = [chan EXCEPT ![s.id] =
             [j \in Node |-> IF j \in Targets(s)
                             THEN Append(chan[s.id][j], StateMsg(s, j))
                             ELSE chan[s.id][j]]]

(* One pass of the loop. *)
Iterate(i) ==
  /\ i \in up \intersect loop
  /\ UnderWay <= MaxBacklog
  /\ \E t \in BeforeTests(st[i]) :
       /\ ~ Raises(t)
       /\ \E s \in AfterTests(t) : /\ st' = [st EXCEPT ![i] = s]
                                  /\ Send(s)
  /\ UNCHANGED <<up, loop, estabs, suspects>>

(* A pass that ends in the TypeError of staleness test 4. *)
IterateRaises(i) ==
  /\ i \in up \intersect loop
  /\ \E t \in BeforeTests(st[i]) : /\ Raises(t)
                                  /\ st' = [st EXCEPT ![i] = t]
  /\ loop' = loop \ {i}
  /\ UNCHANGED <<up, chan, estabs, suspects>>

Receive(i, j) ==
  /\ i \in up
  /\ chan[j][i] # <<>>
  /\ st' = [st EXCEPT ![i] = ReceiveMsg(st[i], j, Head(chan[j][i]))]
  /\ chan' = [chan EXCEPT ![j] = [chan[j] EXCEPT ![i] = Tail(chan[j][i])]]
  /\ UNCHANGED <<up, loop, estabs, suspects>>

(* RecMA asks for a replacement; only calls with an effect are counted. *)
RequestEstab(i, S) ==
  /\ i \in up
  /\ estabs < MaxEstab
  /\ Estab(st[i], S) # st[i]
  /\ st' = [st EXCEPT ![i] = Estab(st[i], S)]
  /\ estabs' = estabs + 1
  /\ UNCHANGED <<up, loop, chan, suspects>>

(* The Joining mechanism of a processor that is no participant. *)
RequestParticipate(i) ==
  /\ i \in up
  /\ i \notin FdPart(st[i])
  /\ st' = [st EXCEPT ![i] = Participate(st[i])]
  /\ UNCHANGED <<up, loop, chan, estabs, suspects>>

(***************************************************************************)
(* The failure detector of i handles a token of j (FD.tla counts beats).   *)
(* The first token makes every processor trusted.  Afterwards a processor  *)
(* is dropped when its beat counter reaches the threshold, which happens   *)
(* to killed processors, and wrongly up to MaxSuspect times.               *)
(***************************************************************************)
CapAt3(n) == IF n < 3 THEN n ELSE 3

(* Mutant: the owner's own beat is not set to 0. *)
FDTokenDropsOwner(i, j) ==
  /\ {i, j} \subseteq up /\ i # j
  /\ LET s == st[i]
         known == IF s.trusted = {} THEN Node ELSE s.trusted \union {j}
         m == CapAt3(s.monitor[j] + 1)
     IN  \E drop \in SUBSET (known \ {j}) :
           /\ suspects' = suspects + Cardinality(drop \intersect up)
           /\ suspects' <= MaxSuspect
           /\ st' = [st EXCEPT ![i] =
                [s EXCEPT !.trusted = known \ drop,
                          !.monitor = [s.monitor EXCEPT
                                         ![j] = m, ![i] = CapAt3(m + 1)]]]
  /\ UNCHANGED <<up, loop, chan, estabs>>

FDToken(i, j) ==
  /\ {i, j} \subseteq up /\ i # j
  /\ LET s == st[i]
         known == IF s.trusted = {} THEN Node ELSE s.trusted \union {i, j}
         m == CapAt3(s.monitor[j] + 1)
     IN  \E drop \in SUBSET (known \ {i, j}) :
           /\ suspects' = suspects + Cardinality(drop \intersect up)
           /\ suspects' <= MaxSuspect
           /\ st' = [st EXCEPT ![i] =
                [s EXCEPT !.trusted = known \ drop,
                          !.monitor = [s.monitor EXCEPT
                                         ![j] = m, ![i] = CapAt3(m + 1)]]]
  /\ UNCHANGED <<up, loop, chan, estabs>>

(* The process is killed: its memory is gone, and so is what was sent to it. *)
Crash(i) ==
  /\ i \in up \intersect Mortal
  /\ up' = up \ {i}
  /\ st' = [st EXCEPT ![i] = FreshState(i)]
  /\ chan' = [j \in Node |-> [chan[j] EXCEPT ![i] = <<>>]]
  /\ UNCHANGED <<loop, estabs, suspects>>

Next ==
  \E i \in Node :
    \/ Iterate(i)
    \/ IterateRaises(i)
    \/ RequestParticipate(i)
    \/ Crash(i)
    \/ \E S \in Proposals : RequestEstab(i, S)
    \/ \E j \in Node : Receive(i, j) \/ FDToken(i, j)

(***************************************************************************)
(* The loop sleeps a second and runs again, whatever the network does.     *)
(* Here a pass also waits for room under MaxBacklog, which others use up   *)
(* at times, hence strong fairness.  ZeroMQ delivers what was sent to a    *)
(* running process, and the tokens of running processes keep circulating.  *)
(* That a token has anybody suspected is never taken for granted, not even *)
(* of the dead: the throttle may stop the detector before (FD.tla).        *)
(***************************************************************************)
TokenArrives(i, j) == FDToken(i, j) /\ st[i].trusted \subseteq st'[i].trusted

Fairness ==
  \A i \in Node :
    /\ SF_vars(Iterate(i)) /\ WF_vars(IterateRaises(i))
    /\ \A j \in Node : WF_vars(Receive(i, j)) /\ WF_vars(TokenArrives(i, j))

Spec == Init /\ [][Next]_vars /\ Fairness
-----------------------------------------------------------------------------
Phase(i) == st[i].prp[i].ph
Proposed(i) == st[i].prp[i].set
Conf(i) == st[i].config[i]

Valid(p) == p.ph = 0 <=> p.set = Bottom

(***************************************************************************)
(* No notification that a processor holds, stores, echoes or has under way *)
(* mixes phase 0 with a proposal or another phase with none, although      *)
(* max_ntf computes the phase and the set of a notification separately:    *)
(* staleness test 1 never fires by the program's own doing.                *)
(***************************************************************************)
NtfValid ==
  \A i, j \in Node :
    /\ Valid(st[i].prp[j]) /\ Valid(st[i].echoPrp[j])
    /\ \A n \in 1..Len(chan[i][j]) : /\ Valid(chan[i][j][n].prp)
                                     /\ Valid(chan[i][j][n].echoPrp)

(***************************************************************************)
(* The thread of the main loop outlives everything that happens to it: no  *)
(* order of messages and resets leaves a processor that has no             *)
(* configuration with a participant it trusts, where test 4 raises.        *)
(***************************************************************************)
LoopsRun == up \subseteq loop

(***************************************************************************)
(* However many proposals compete, once a processor has reached phase 2    *)
(* every processor with a proposal has the same one: max_ntf has converged *)
(* before anybody leaves phase 1.                                          *)
(***************************************************************************)
UnanimousInPhase2 ==
  \A i, j \in up : Phase(i) = 2 /\ Phase(j) # 0 => Proposed(i) = Proposed(j)

(***************************************************************************)
(* allow_reco() looks only at what its own processor has stored, and yet   *)
(* it never allows a replacement while one is being installed elsewhere or *)
(* while somebody has another configuration.                               *)
(***************************************************************************)
AllowedOnlyAtRest ==
  \A i \in up : AllowReco(st[i]) =>
     \A j \in up : Phase(j) # 2 /\ Conf(j) = Conf(i)

(***************************************************************************)
(* A delicate replacement installs its proposal at one processor only when *)
(* every other one is about to install it or has done so already.  With    *)
(* three processors this needs messages that arrive before the next pass   *)
(* (MaxBacklog = 0): staleness test 3 may make a processor reset itself    *)
(* during a replacement, and with older messages the others do not notice  *)
(* before they install.                                                    *)
(***************************************************************************)
InstallAgreement ==
  [][\A i \in up :
       LET S == Conf(i)'
       IN  S # Conf(i) /\ st[i].prp[i] = [ph |-> 2, set |-> S] =>
             \A j \in up : \/ st[j].prp[j] = [ph |-> 2, set |-> S]
                           \/ Conf(j) = S]_vars

Installed(i) == Conf(i) \notin {NotParticipant, Bottom}

(***************************************************************************)
(* While nothing fails, a processor that has a configuration changes it    *)
(* and gives up a proposal only by the installation of that proposal in    *)
(* phase 2, never by the brute-force reset: the staleness tests raise no   *)
(* false alarm during a replacement, and the resets of boot end with the   *)
(* first configuration, they do not chase each other.                      *)
(***************************************************************************)
OnlyProposalsChangeConfig ==
  [][\A i \in up :
        (/\ Installed(i)
         /\ Conf(i)' # Conf(i) \/ (Phase(i) # 0 /\ Phase(i)' = 0))
        => st[i].prp[i] = [ph |-> 2, set |-> Conf(i)']]_vars

AtRest ==
  /\ \A i, j \in up : Conf(i) = Conf(j)
  /\ \A i \in up : Installed(i) /\ Phase(i) = 0

(***************************************************************************)
(* A system at rest keeps its configuration although a failure detector    *)
(* may drop a running processor for a while and messages from before are   *)
(* under way.                                                              *)
(***************************************************************************)
RestIsKept ==
  [][AtRest /\ up = Node =>
       \A i \in up \intersect up' : Conf(i)' = Conf(i)]_vars

(***************************************************************************)
(* The premise of what happens after a kill, in this module and in those   *)
(* that extend it: the detectors of those that run drop the dead for good. *)
(* The property DeadSuspected of FD.tla says when they do.                 *)
(***************************************************************************)
DeadSuspected == <>[](\A i \in up \intersect loop : st[i].trusted \subseteq up)

(***************************************************************************)
(* In the end every running processor has the same configuration and no    *)
(* replacement or reset is left.                                           *)
(***************************************************************************)
Settles == <>[]AtRest
-----------------------------------------------------------------------------
(***************************************************************************)
(* The refinement: a proposal is agreed on from the moment a processor     *)
(* takes it into phase 2 until no processor is in phase 2.                 *)
(***************************************************************************)
Agreed ==
  IF \E i \in up : Phase(i) = 2
  THEN Proposed(CHOOSE i \in up : Phase(i) = 2)
  ELSE Bottom

(* Before its first configuration a processor counts as having that of all. *)
Given(i) == IF Installed(i) THEN Conf(i) ELSE Node

R == INSTANCE Replacement WITH
       Processor <- Node, Candidates <- Proposals, Initial <- Node,
       None <- Bottom, config <- [i \in Node |-> Given(i)], agreed <- Agreed

(***************************************************************************)
(* With healthy processors the N records, their messages and their echoes  *)
(* behave like one replacement at a time.                                  *)
(***************************************************************************)
ReplacesOneAtATime == R!Spec
=============================================================================
