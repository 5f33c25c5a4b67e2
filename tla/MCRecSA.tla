------------------------------- MODULE MCRecSA -------------------------------
(***************************************************************************)
(* Instances of RecSA for TLC: the states from which the module is         *)
(* expected to work.  The counters of a state say which faults may follow. *)
(***************************************************************************)
EXTENDS RecSA

(* The failure detectors have stabilized and nobody is a participant: the  *)
(* "special state" of no_participants_and_stable_fd_monitors().            *)
NoParticipants(i) ==
  [FreshState(i) EXCEPT !.trusted = Node, !.monitor = [k \in Node |-> 3]]

(***************************************************************************)
(* The last processor was killed and started again while the others rest,  *)
(* before their failure detectors noticed: they trust it and hold its old  *)
(* state.                                                                  *)
(***************************************************************************)
Restarted == N - 1
InitRestart ==
  /\ AllRunning(MaxEstab, MaxSuspect)
  /\ st = [i \in Node |-> IF i = Restarted THEN FreshState(i)
                                           ELSE Steady(i, Node, Node)]

(* A fault of each kind: a replacement, a wrong suspicion, a boot and a     *)
(* restart, in each of which the processors in Mortal may be killed.       *)
InitFaults ==
  \/ InitRestart
  \/ /\ AllRunning(0, MaxSuspect)
     /\ st = [i \in Node |-> Steady(i, Node, Node)]
  \/ /\ AllRunning(MaxEstab, 0)
     /\ st = [i \in Node |-> Steady(i, Node, Node)]
  \/ /\ AllRunning(MaxEstab, MaxSuspect)
     /\ st = [i \in Node |-> NoParticipants(i)]

(***************************************************************************)
(* A transient fault has set the configuration and the notification of     *)
(* each processor to some value, and all flags to one; the others have     *)
(* since received them.  A configuration that is NotParticipant is left    *)
(* out: it ends the loop (run RestartDies3).                               *)
(***************************************************************************)
CorruptNtf == {DfltNtf, [ph |-> 0, set |-> {0}],
               [ph |-> 2, set |-> Bottom]} \union [ph : {2}, set : {{0}, {1}}]
Corrupt == [config : {Bottom, {0}, Node}, prp : CorruptNtf]
InitCorrupt ==
  /\ AllRunning(MaxEstab, MaxSuspect)
  /\ \E c \in [Node -> Corrupt], seen \in {{}, Node} :
       st = [i \in Node |->
               [Steady(i, Node, Node) EXCEPT
                  !.config = [k \in Node |-> c[k].config],
                  !.prp = [k \in Node |-> c[k].prp],
                  !.alll = [k \in Node |-> k \in seen],
                  !.allSeen = seen]]

SpecSteady == InitSteady /\ [][Next]_vars /\ Fairness
SpecRestart == InitRestart /\ [][Next]_vars /\ Fairness
SpecFaults == InitFaults /\ [][Next]_vars /\ Fairness

(***************************************************************************)
(* Whatever a dying, a restarted or a suspected processor sends, it does   *)
(* not take down the main loop of a processor that keeps its memory.       *)
(***************************************************************************)
SurvivorsRun == Node \ {Restarted} \subseteq loop

(***************************************************************************)
(* A replacement whose partner dies ends, a boot ends, and a processor     *)
(* that restarts next to a resting system either ends its own loop or      *)
(* resets the members: once the dead are suspected, all processors whose   *)
(* loops run come to one configuration, and no replacement is left.        *)
(***************************************************************************)
RunningSettle ==
  DeadSuspected =>
    <>[](\A i, j \in up \intersect loop :
           Conf(i) = Conf(j) /\ Installed(i) /\ Phase(i) = 0)
=============================================================================
