---------------------------- MODULE RecSAThreads ----------------------------
(***************************************************************************)
(* The threads of a process that runs RecSA.  The main loop, receive_msg   *)
(* in the ZeroMQ thread, the failure detector's thread and estab() in that *)
(* of RecMA share the variables without a lock.  Where RecSA.tla takes a   *)
(* pass of the loop for one step, this module cuts it wherever the code    *)
(* acts on what it has read before, and estab() between its test and its   *)
(* assignments; the other threads come in at each cut.                     *)
(***************************************************************************)
EXTENDS MCRecSA

VARIABLES
  pc,      \* where the main loop of each processor is
  seen,    \* the participants that line 22 has read
  found,   \* what max_ntf() is about to return; in mod_max() only its set
  echoed,  \* all_no_all of line 25
  asked    \* the set that estab() was allowed to propose

threads == <<pc, seen, found, echoed, asked>>
tvars == <<vars, threads>>

Label == {"line22", "forget", "mod_max", "line23", "line25", "line26",
          "line27", "config_set", "increment", "line33"}

ThreadsTypeOK ==
  /\ TypeOK
  /\ pc \in [Node -> Label]
  /\ seen \in [Node -> SUBSET Node]
  /\ found \in [Node -> Ntf]
  /\ echoed \in [Node -> BOOLEAN]
  /\ asked \in [Node -> {Bottom} \union Proposals]

(* Each loop is about to begin a pass, and RecMA is outside estab(). *)
InitThreads ==
  /\ pc = [i \in Node |-> "line22"]
  /\ seen = [i \in Node |-> {}]
  /\ found = [i \in Node |-> DfltNtf]
  /\ echoed = [i \in Node |-> FALSE]
  /\ asked = [i \in Node |-> Bottom]

At(i, l) == i \in up \intersect loop /\ pc[i] = l
Goto(i, l) == pc' = [pc EXCEPT ![i] = l]
Write(i, s) == st' = [st EXCEPT ![i] = s]
-----------------------------------------------------------------------------
(* Line 22 reads the participants once. *)
ReadPart(i) ==
  /\ At(i, "line22") /\ UnderWay <= MaxBacklog
  /\ seen' = [seen EXCEPT ![i] = FdPart(st[i])]
  /\ Goto(i, "forget")
  /\ UNCHANGED <<vars, found, echoed, asked>>

(***************************************************************************)
(* It forgets the others, whoever is a participant by now.  Then max_ntf() *)
(* either returns the processor's own notification or has max_lex_set.     *)
(***************************************************************************)
ForgetOthers(i) ==
  /\ At(i, "forget")
  /\ \E s \in {Forget(st[i], seen[i])} :
       /\ Write(i, s)
       /\ \/ /\ \A k \in FdPart(s) : OneAhead(s, k)
             /\ found' = [found EXCEPT ![i] =
                  [ph |-> 0, set |-> MaxLex({s.prp[k].set : k \in FdPart(s)})]]
             /\ Goto(i, "mod_max")
          \/ /\ \E k \in FdPart(s) : ~ OneAhead(s, k)
             /\ found' = [found EXCEPT ![i] = s.prp[i]]
             /\ Goto(i, "line23")
  /\ seen' = [seen EXCEPT ![i] = {}]
  /\ UNCHANGED <<up, loop, chan, estabs, suspects, echoed, asked>>

(* mod_max() looks at the notifications again. *)
ModMax(i) ==
  /\ At(i, "mod_max")
  /\ LET s == st[i]
         joins == JoinsPhaseOne(s)
     IN  /\ Write(i, [s EXCEPT !.allSeen = IF joins THEN {} ELSE s.allSeen])
         /\ found' = [found EXCEPT ![i] =
              [found[i] EXCEPT !.ph = IF joins THEN 1 ELSE s.prp[i].ph]]
  /\ Goto(i, "line23")
  /\ UNCHANGED <<up, loop, chan, estabs, suspects, seen, echoed, asked>>

(* What max_ntf() has returned is assigned. *)
AssignMax(i) ==
  /\ At(i, "line23")
  /\ Write(i, [st[i] EXCEPT !.prp[i] = found[i]])
  /\ found' = [found EXCEPT ![i] = DfltNtf]
  /\ Goto(i, "line25")
  /\ UNCHANGED <<up, loop, chan, estabs, suspects, seen, echoed, asked>>

(* Line 25 before its assignment. *)
LookAtEchoes(i) ==
  /\ At(i, "line25")
  /\ echoed' = [echoed EXCEPT
                  ![i] = \A k \in FdPart(st[i]) : EchoNoAll(st[i], k)]
  /\ Goto(i, "line26")
  /\ UNCHANGED <<vars, seen, found, asked>>

(* The assignment of line 25, line 26 and the staleness tests of line 24,  *)
(* the last of which may end the loop.                                     *)
TestStaleness(i) ==
  /\ At(i, "line26")
  /\ \E t \in {Line26([st[i] EXCEPT !.alll[i] = echoed[i]])} :
        \/ /\ ~ Raises(t)
           /\ Write(i, Line24(t))
           /\ Goto(i, "line27") /\ loop' = loop
        \/ /\ Raises(t)
           /\ Write(i, t)
           /\ Goto(i, "line22") /\ loop' = loop \ {i}
  /\ echoed' = [echoed EXCEPT ![i] = FALSE]
  /\ UNCHANGED <<up, chan, estabs, suspects, seen, found, asked>>

(***************************************************************************)
(* Lines 27 to 32 up to the call of config_set(get_fd_j()), which reads    *)
(* the trusted processors again, or of increment().                        *)
(***************************************************************************)
Decide(i) ==
  /\ At(i, "line27")
  /\ \/ /\ NoNtfArrived(st[i])
        /\ \E s \in {ResetConflict(st[i])} :
             /\ Write(i, s)
             /\ Goto(i, IF s.config[i] = Bottom /\ FdsStabilized(s)
                        THEN "config_set" ELSE "line33")
     \/ /\ ~ NoNtfArrived(st[i])
        /\ \E s \in {Install(st[i])} :
             /\ Write(i, s)
             /\ Goto(i, IF AllSeenFun(s) /\ \A k \in FdPart(s) : EchoFun(s, k)
                        THEN "increment" ELSE "line33")
  /\ UNCHANGED <<up, loop, chan, estabs, suspects, seen, found, echoed, asked>>

InstallTrusted(i) ==
  /\ At(i, "config_set")
  /\ Write(i, ConfigSet(st[i], st[i].trusted))
  /\ Goto(i, "line33")
  /\ UNCHANGED <<up, loop, chan, estabs, suspects, seen, found, echoed, asked>>

NextPhase(i) ==
  /\ At(i, "increment")
  /\ Write(i, Increment(st[i]))
  /\ Goto(i, "line33")
  /\ UNCHANGED <<up, loop, chan, estabs, suspects, seen, found, echoed, asked>>

SendStates(i) ==
  /\ At(i, "line33")
  /\ Send(st[i])
  /\ Goto(i, "line22")
  /\ UNCHANGED <<st, up, loop, estabs, suspects, seen, found, echoed, asked>>
-----------------------------------------------------------------------------
(* estab(S) of RecMA's thread: its test, and later its assignments. *)
Ask(i, S) ==
  /\ i \in up /\ asked[i] = Bottom
  /\ estabs < MaxEstab
  /\ AllowReco(st[i]) /\ S \notin {{}, st[i].config[i]}
  /\ asked' = [asked EXCEPT ![i] = S]
  /\ estabs' = estabs + 1
  /\ UNCHANGED <<st, up, loop, chan, suspects, pc, seen, found, echoed>>

Propose(i) ==
  /\ i \in up /\ asked[i] # Bottom
  /\ Write(i, [st[i] EXCEPT !.prp[i] = [ph |-> 1, set |-> asked[i]],
                            !.alll[i] = FALSE, !.allSeen = {}])
  /\ asked' = [asked EXCEPT ![i] = Bottom]
  /\ UNCHANGED <<up, loop, chan, estabs, suspects, pc, seen, found, echoed>>

(* A message or a token is handled in one step, at any cut of a pass. *)
Handle(i, j) == (Receive(i, j) \/ FDToken(i, j)) /\ UNCHANGED threads

Inside(i) ==
  \/ ForgetOthers(i) \/ ModMax(i) \/ AssignMax(i) \/ LookAtEchoes(i)
  \/ TestStaleness(i) \/ Decide(i) \/ InstallTrusted(i) \/ NextPhase(i)
  \/ SendStates(i)

NextThreads ==
  \E i \in Node :
    \/ ReadPart(i) \/ Inside(i) \/ Propose(i)
    \/ \E S \in Proposals : Ask(i, S)
    \/ \E j \in Node : Handle(i, j)

(***************************************************************************)
(* Threads run on, the network delivers and tokens circulate.  The first   *)
(* step of a pass waits for room under MaxBacklog (strong fairness).       *)
(***************************************************************************)
FairThreads ==
  \A i \in Node :
    /\ SF_tvars(ReadPart(i)) /\ WF_tvars(Inside(i)) /\ WF_tvars(Propose(i))
    /\ \A j \in Node \ {i} : /\ WF_tvars(Receive(i, j) /\ UNCHANGED threads)
                             /\ WF_tvars(FDToken(i, j) /\ UNCHANGED threads)

InitAll == (Init \/ InitCorrupt) /\ InitThreads

SpecThreads == InitAll /\ [][NextThreads]_tvars /\ FairThreads
-----------------------------------------------------------------------------
(* No step of another thread comes in the middle of a pass. *)
Uncut == \A i \in Node : (st'[i] # st[i] /\ pc'[i] = pc[i]) => pc[i] = "line22"

(***************************************************************************)
(* Whatever a transient fault or the races of the threads have left - the  *)
(* string BOTTOM or an unconfirmed set installed, an echo of what was not, *)
(* a conflict - it is repaired: if from some time on passes are no longer  *)
(* interrupted (a pass takes milliseconds, the pause before the next one a *)
(* second) the system comes to rest with one configuration.                *)
(***************************************************************************)
RacesHeal == <>[][Uncut]_tvars => Settles
=============================================================================
