--------------------------------- MODULE FD ---------------------------------
(***************************************************************************)
(* The (N, THETA) failure detectors of N processors (modules/fd/module.py) *)
(* from the start of their processes (main.py and the barrier in           *)
(* resolve/resolver.py), with the throttle that stops their loops while a  *)
(* ZeroMQ queue is full (communication/zeromq).  Two processors pass       *)
(* tokens to and fro over the links of UdpLink.tla, which loses none       *)
(* between running processes and may repeat some.                          *)
(***************************************************************************)
EXTENDS Integers

CONSTANTS
  N,              \* number_of_nodes
  BeatThreshold,  \* BEAT_THRESHOLD
  MaxQueue,       \* MAX_QUEUE_SIZE
  MaxWaiting,     \* bound: messages counted in one queue
  Mortal,         \* the processors that may be killed
  Busy,           \* bound: the processors whose other modules send messages
  MaxEvents       \* bound: restarts, monitor resets, repeated tokens and
                  \* receiver threads that end

Node == 0 .. N-1

ASSUME NAssumption == N \in Nat \ {0}
ASSUME ThresholdAssumption == BeatThreshold \in Nat /\ BeatThreshold > 1
ASSUME BoundsAssumption == {MaxQueue, MaxWaiting, MaxEvents} \subseteq Nat

(* Producers do not stop at the throttle's limit. *)
ASSUME QueueAssumption == MaxWaiting > MaxQueue + 1

VARIABLES
  up,       \* the processors whose process runs
  setup,    \* those whose main thread has yet to report READY
  status,   \* system_status of each resolver
  polled,   \* how many processors its barrier found ready in this round
  begun,    \* those whose detector has sent its first tokens
  tokens,   \* tokens[i][j]: tokens sent by i and not yet handled by j
  beat,     \* beat[i][j], counted up to BeatThreshold and no further
  monitor,  \* monitor[i][j]
  trusted,  \* fd_set of each detector
  queue,    \* queue[i][j]: ZeroMQ messages of i waiting to be sent to j
  request,  \* request[i][j]: the message of i to j that awaits its answer
  deaf,     \* the processors whose ZeroMQ receiver thread has ended
  events    \* counts events, up to MaxEvents

boot == <<setup, status, polled>>
detector == <<beat, monitor, trusted>>
zeromq == <<queue, request, deaf>>
vars == <<up, boot, begun, tokens, detector, zeromq, events>>

Status == {"BOOTING", "READY", "RUNNING"}
Request == {"none", "sent", "lost"}

TypeOK ==
  /\ up \subseteq Node
  /\ setup \subseteq Node
  /\ status \in [Node -> Status]
  /\ polled \in [Node -> 0..N]
  /\ begun \subseteq up
  /\ tokens \in [Node -> [Node -> Nat]]
  /\ beat \in [Node -> [Node -> Nat]]
  /\ monitor \in [Node -> [Node -> 0..3]]
  /\ trusted \in [Node -> SUBSET Node]
  /\ queue \in [Node -> [Node -> Nat]]
  /\ request \in [Node -> [Node -> Request]]
  /\ deaf \subseteq Node
  /\ events \in 0..MaxEvents

Zeros == [j \in Node |-> 0]
NoRequest == [j \in Node |-> "none"]

Init ==
  /\ up = Node /\ begun = {}
  /\ setup = Node
  /\ status = [i \in Node |-> "BOOTING"]
  /\ polled = Zeros
  /\ tokens = [i \in Node |-> Zeros]
  /\ beat = [i \in Node |-> Zeros]
  /\ monitor = [i \in Node |-> Zeros]
  /\ trusted = [i \in Node |-> {}]
  /\ queue = [i \in Node |-> Zeros]
  /\ request = [i \in Node |-> NoRequest]
  /\ deaf = {}
  /\ events = 0
-----------------------------------------------------------------------------
(* The main thread has set up all senders and receivers. *)
CommReady(i) ==
  /\ i \in up \intersect setup
  /\ setup' = setup \ {i}
  /\ status' = [status EXCEPT ![i] = "READY"]
  /\ UNCHANGED <<up, polled, begun, tokens, detector, zeromq, events>>

(* Mutant: i takes itself for ready. *)
IsReadyOthers(i, k) == k = i \/ (k \in up /\ status[k] # "BOOTING")

(* Mutant: any answer counts. *)
IsReadyUp(i, k) == k \in up

(* Mutant: a processor that runs is not waiting in the barrier any more. *)
IsReadyNow(i, k) == k \in up /\ status[k] = "READY"

(* What the GET request of i to k finds; a dead process does not answer. *)
IsReady(i, k) == k \in up /\ status[k] # "BOOTING"

(***************************************************************************)
(* wait_for_other_nodes() asks one processor after the other, itself       *)
(* included, and starts again when one is not ready.  Its thread ends with *)
(* the status RUNNING; with one processor it ends at once, without.        *)
(***************************************************************************)
Poll(i) ==
  /\ i \in up /\ polled[i] < N /\ N > 1
  /\ polled' = [polled EXCEPT ![i] =
                   IF IsReady(i, polled[i]) THEN polled[i] + 1 ELSE 0]
  /\ status' = [status EXCEPT ![i] =
                   IF polled'[i] = N THEN "RUNNING" ELSE status[i]]
  /\ UNCHANGED <<up, setup, begun, tokens, detector, zeromq, events>>
-----------------------------------------------------------------------------
(* Mutant: the first tokens go to trusted processors only. *)
BeginWithTrusted(i) ==
  /\ i \in up \ begun /\ status[i] = "RUNNING"
  /\ begun' = begun \union {i}
  /\ tokens' = [tokens EXCEPT ![i] =
       [j \in Node |-> IF j \notin trusted[i] THEN tokens[i][j]
                                             ELSE tokens[i][j] + 1]]
  /\ UNCHANGED <<up, boot, detector, zeromq, events>>

(* The first pass of the loop sends a token to everybody else. *)
Begin(i) ==
  /\ i \in up \ begun /\ status[i] = "RUNNING"
  /\ begun' = begun \union {i}
  /\ tokens' = [tokens EXCEPT ![i] =
       [j \in Node |-> IF j = i THEN tokens[i][j] ELSE tokens[i][j] + 1]]
  /\ UNCHANGED <<up, boot, detector, zeromq, events>>

(* queues_are_full(). *)
Throttled(i) == \E j \in Node : queue[i][j] > MaxQueue

CapAt(n, cap) == IF n < cap THEN n ELSE cap

(* Mutant: the beats of the others are not counted. *)
UponTokenNoBeats(i, j) ==
  LET m == CapAt(monitor[i][j] + 1, 3)
  IN  /\ beat' = [beat EXCEPT ![i] = [beat[i] EXCEPT ![j] = 0]]
      /\ monitor' = [monitor EXCEPT
           ![i] = [monitor[i] EXCEPT ![j] = m, ![i] = CapAt(m + 1, 3)]]
      /\ trusted' = [trusted EXCEPT ![i] =
           {i, j} \union {k \in Node : beat[i][k] < BeatThreshold}]

(* Mutant: a suspected processor gets a new chance with its beat. *)
UponTokenForgives(i, j) ==
  LET late == Node \ {i, j}
      m == CapAt(monitor[i][j] + 1, 3)
  IN  /\ beat' = [beat EXCEPT ![i] =
           [k \in Node |-> IF k \in late /\ beat[i][k] < BeatThreshold
                           THEN beat[i][k] + 1 ELSE 0]]
      /\ monitor' = [monitor EXCEPT
           ![i] = [monitor[i] EXCEPT ![j] = m, ![i] = CapAt(m + 1, 3)]]
      /\ trusted' = [trusted EXCEPT ![i] =
           {i, j} \union {k \in late : beat'[i][k] < BeatThreshold}]

(* Mutant: only the processor's own monitor counts up. *)
UponTokenOwnMonitor(i, j) ==
  LET late == Node \ {i, j}
      m == CapAt(monitor[i][i] + 1, 3)
  IN  /\ beat' = [beat EXCEPT ![i] =
           [k \in Node |-> IF k \in late
                           THEN CapAt(beat[i][k] + 1, BeatThreshold) ELSE 0]]
      /\ monitor' = [monitor EXCEPT ![i] = [monitor[i] EXCEPT ![i] = m]]
      /\ trusted' = [trusted EXCEPT ![i] =
           {i, j} \union {k \in late : beat[i][k] + 1 < BeatThreshold}]

(* Mutant: the monitors count past 3. *)
UponTokenPast3(i, j) ==
  LET late == Node \ {i, j}
      m == CapAt(monitor[i][j] + 1, 3)
  IN  /\ beat' = [beat EXCEPT ![i] =
           [k \in Node |-> IF k \in late
                           THEN CapAt(beat[i][k] + 1, BeatThreshold) ELSE 0]]
      /\ monitor' = [monitor EXCEPT
           ![i] = [monitor[i] EXCEPT ![j] = m, ![i] = m + 1]]
      /\ trusted' = [trusted EXCEPT ![i] =
           {i, j} \union {k \in late : beat[i][k] + 1 < BeatThreshold}]

(* upon_token_from_pj(j) *)
UponToken(i, j) ==
  LET late == Node \ {i, j}
      m == CapAt(monitor[i][j] + 1, 3)
  IN  /\ beat' = [beat EXCEPT ![i] =
           [k \in Node |-> IF k \in late
                           THEN CapAt(beat[i][k] + 1, BeatThreshold) ELSE 0]]
      /\ monitor' = [monitor EXCEPT
           ![i] = [monitor[i] EXCEPT ![j] = m, ![i] = CapAt(m + 1, 3)]]
      /\ trusted' = [trusted EXCEPT ![i] =
           {i, j} \union {k \in late : beat[i][k] + 1 < BeatThreshold}]

(* Mutant: the token is sent back before j is trusted for it. *)
HandleSendsFirst(i, j) ==
  /\ i \in begun /\ i # j
  /\ ~ Throttled(i)
  /\ tokens[j][i] > 0
  /\ UponToken(i, j)
  /\ tokens' = [tokens EXCEPT
       ![j] = [tokens[j] EXCEPT ![i] = tokens[j][i] - 1],
       ![i] = [tokens[i] EXCEPT ![j] = IF j \in trusted[i] THEN tokens[i][j] + 1
                                                         ELSE tokens[i][j]]]
  /\ UNCHANGED <<up, boot, begun, zeromq, events>>

(* A pass of the loop that finds a token of j, which it sends back. *)
Handle(i, j) ==
  /\ i \in begun /\ i # j
  /\ ~ Throttled(i)
  /\ tokens[j][i] > 0
  /\ UponToken(i, j)
  /\ tokens' = [tokens EXCEPT
       ![j] = [tokens[j] EXCEPT ![i] = tokens[j][i] - 1],
       ![i] = [tokens[i] EXCEPT ![j] = tokens[i][j] + 1]]
  /\ UNCHANGED <<up, boot, begun, zeromq, events>>

Event == events < MaxEvents /\ events' = events + 1

(* RecSA calls reset_monitor(j). *)
ResetMonitor(i, j) ==
  /\ i \in up /\ Event
  /\ monitor' = [monitor EXCEPT ![i] = [monitor[i] EXCEPT ![j] = 0]]
  /\ UNCHANGED <<up, boot, begun, tokens, beat, trusted, zeromq>>

(* The link delivers a token twice. *)
Repeat(i, j) ==
  /\ tokens[i][j] > 0 /\ Event
  /\ tokens' = [tokens EXCEPT ![i] = [tokens[i] EXCEPT ![j] = tokens[i][j] + 1]]
  /\ UNCHANGED <<up, boot, begun, detector, zeromq>>

(***************************************************************************)
(* The loops of RecSA and RecMA put a message for every trusted processor  *)
(* into its queue, however many wait there.  Bound: a queue counts up to   *)
(* MaxWaiting, which is over the limit of the throttle, and no further.    *)
(***************************************************************************)
Application(i) ==
  /\ i \in up \intersect Busy
  /\ queue' = [queue EXCEPT ![i] =
       [j \in Node |-> IF j \in trusted[i] \ {i}
                       THEN CapAt(queue[i][j] + 1, MaxWaiting)
                       ELSE queue[i][j]]]
  /\ UNCHANGED <<up, boot, begun, tokens, detector, request, deaf, events>>

(* A ZeroMQ sender takes its next message once the last was answered. *)
SendRequest(i, j) ==
  /\ i \in up
  /\ queue[i][j] > 0 /\ request[i][j] = "none"
  /\ queue' = [queue EXCEPT ![i] = [queue[i] EXCEPT ![j] = queue[i][j] - 1]]
  /\ request' = [request EXCEPT ![i] = [request[i] EXCEPT ![j] = "sent"]]
  /\ UNCHANGED <<up, boot, begun, tokens, detector, deaf, events>>

(* The receiver thread of j dispatches the message and answers. *)
Acknowledge(i, j) ==
  /\ {i, j} \subseteq up /\ j \notin deaf
  /\ request[i][j] = "sent"
  /\ request' = [request EXCEPT ![i] = [request[i] EXCEPT ![j] = "none"]]
  /\ UNCHANGED <<up, boot, begun, tokens, detector, queue, deaf, events>>

(***************************************************************************)
(* A message that had reached a process dies with it; one that had not is  *)
(* kept by the sender's socket for the next process.                       *)
(***************************************************************************)
LoseRequest(i, j) ==
  /\ j \notin up
  /\ request[i][j] = "sent"
  /\ request' = [request EXCEPT ![i] = [request[i] EXCEPT ![j] = "lost"]]
  /\ UNCHANGED <<up, boot, begun, tokens, detector, queue, deaf, events>>

(* A module raises an exception inside dispatch_msg. *)
ReceiverEnds(j) ==
  /\ j \in up \ deaf /\ Event
  /\ \E i \in up : request[i][j] = "sent"
  /\ deaf' = deaf \union {j}
  /\ UNCHANGED <<up, boot, begun, tokens, detector, queue, request>>
-----------------------------------------------------------------------------
(* A process is killed and loses its memory, or is started again. *)
Crash(i) ==
  /\ i \in up \intersect Mortal
  /\ up' = up \ {i}
  /\ setup' = setup \union {i}
  /\ status' = [status EXCEPT ![i] = "BOOTING"]
  /\ polled' = [polled EXCEPT ![i] = 0]
  /\ begun' = begun \ {i}
  /\ beat' = [beat EXCEPT ![i] = Zeros]
  /\ monitor' = [monitor EXCEPT ![i] = Zeros]
  /\ trusted' = [trusted EXCEPT ![i] = {}]
  /\ queue' = [queue EXCEPT ![i] = Zeros]
  /\ request' = [request EXCEPT ![i] = NoRequest]
  /\ deaf' = deaf \ {i}
  /\ UNCHANGED <<tokens, events>>

Restart(i) ==
  /\ i \in Node \ up /\ Event
  /\ up' = up \union {i}
  /\ UNCHANGED <<boot, begun, tokens, detector, zeromq>>

(* What a killed process had sent or received may be lost with it; what is *)
(* still in the sender of a running one waits for the restart.             *)
LoseToken(i, j) ==
  /\ ~ ({i, j} \subseteq up)
  /\ tokens[i][j] > 0
  /\ tokens' = [tokens EXCEPT ![i] = [tokens[i] EXCEPT ![j] = tokens[i][j] - 1]]
  /\ UNCHANGED <<up, boot, begun, detector, zeromq, events>>

Next ==
  \E i \in Node :
    \/ CommReady(i) \/ Poll(i) \/ Begin(i) \/ Application(i)
    \/ ReceiverEnds(i) \/ Crash(i) \/ Restart(i)
    \/ \E j \in Node : \/ Handle(i, j) \/ ResetMonitor(i, j) \/ Repeat(i, j)
                       \/ SendRequest(i, j) \/ Acknowledge(i, j)
                       \/ LoseRequest(i, j) \/ LoseToken(i, j)

(* Threads run on, and the links deliver while both their ends live. *)
Fairness ==
  \A i \in Node :
    /\ WF_vars(CommReady(i)) /\ WF_vars(Poll(i)) /\ WF_vars(Begin(i))
    /\ \A j \in Node \ {i} :
         /\ WF_vars(Handle(i, j))
         /\ WF_vars(SendRequest(i, j)) /\ WF_vars(Acknowledge(i, j))

Spec == Init /\ [][Next]_vars /\ Fairness

(***************************************************************************)
(* All have exchanged tokens for a while, and each detector has just       *)
(* handled one of the next processor.  Or else the last one was killed,    *)
(* has lost its tokens, and has passed the barrier anew.                   *)
(***************************************************************************)
Succ(i) == (i + 1) % N

InitAfter(Restarted) ==
  /\ up = Node /\ begun = Node \ Restarted
  /\ setup = {}
  /\ status = [i \in Node |-> "RUNNING"]
  /\ polled = [i \in Node |-> N]
  /\ tokens = [i \in Node |-> [j \in Node |->
       IF {i, j} \intersect Restarted # {} \/ i \in {j, Succ(j)} THEN 0
       ELSE IF j = Succ(i) THEN 2 ELSE 1]]
  /\ beat = [i \in Node |-> [j \in Node |->
       IF i \in Restarted THEN 0
       ELSE IF j \in Restarted THEN BeatThreshold
       ELSE IF j \in {i, Succ(i)} THEN 0 ELSE 1]]
  /\ monitor = [i \in Node |-> [j \in Node |-> IF i \in Restarted THEN 0 ELSE 3]]
  /\ trusted = [i \in Node |-> IF i \in Restarted THEN {} ELSE Node \ Restarted]
  /\ queue = [i \in Node |-> Zeros]
  /\ request = [i \in Node |-> NoRequest]
  /\ deaf = {}
  /\ events = 0

InitRunning == \E Restarted \in {{}, {N - 1}} : InitAfter(Restarted)

SpecRunning == InitRunning /\ [][Next]_vars /\ Fairness
-----------------------------------------------------------------------------
(***************************************************************************)
(* Two detectors that have begun never run out of tokens to exchange,      *)
(* whatever is lost when processes die: otherwise each would suspect the   *)
(* other for ever once the rest of the system goes on.                     *)
(***************************************************************************)
TokensCirculate ==
  \A i, j \in begun : i # j => tokens[i][j] + tokens[j][i] > 0

(***************************************************************************)
(* A detector comes to trust a processor again only by a token of that     *)
(* processor; the first token of anybody makes everybody trusted.  This is *)
(* what the action FDToken of RecSA.tla takes for granted.                 *)
(***************************************************************************)
TrustByOwnToken ==
  [][\A i, k \in Node : k \in trusted[i]' \ trusted[i] =>
        \/ trusted[i] = {} /\ trusted[i]' = Node
        \/ k = i
        \/ tokens[k][i]' < tokens[k][i]]_vars

(***************************************************************************)
(* Two processors that run do not suspect each other for good, whatever    *)
(* was lost and whoever died before.  The throttle must let both detectors *)
(* go on: where a message died with its receiver its queue stays full.     *)
(***************************************************************************)
TrustedAgain ==
  \A i \in Node : \A j \in Node \ {i} :
     []<>({i, j} \subseteq begun /\ ~ Throttled(i) /\ ~ Throttled(j)
            => j \in trusted[i])

(***************************************************************************)
(* Nobody runs before everybody is ready: a processor that was not killed  *)
(* since has its receivers and senders when the first tokens reach it.     *)
(***************************************************************************)
BarrierHolds ==
  \A i \in Node : status[i] = "RUNNING" =>
     \A j \in Node \ Mortal : status[j] # "BOOTING"

(***************************************************************************)
(* Two threads write the status of a process without a lock, and yet it    *)
(* never goes back: the main thread does not write READY over RUNNING.     *)
(***************************************************************************)
StatusForward ==
  [][\A i \in up \intersect up' :
       /\ status[i] = "RUNNING" => status[i]' = "RUNNING"
       /\ status[i] = "READY" => status[i]' # "BOOTING"]_vars

(***************************************************************************)
(* Processes that stay up pass the barrier in the end, each at its own     *)
(* time and however often they were killed and started before: those that  *)
(* run already still answer the ones that boot.                            *)
(***************************************************************************)
RunsInTheEnd == <>[](up = Node) => <>[](begun = Node)

(***************************************************************************)
(* The monitor counters that RecSA waits for become stable again, whenever *)
(* RecSA has set some of them back between two tokens, and after kills and *)
(* restarts: a detector counts its own monitor up with that of another.    *)
(***************************************************************************)
MonitorsStabilize ==
  \A i \in Node : \A j \in Node \ {i} :
     <>[]({i, j} \subseteq begun /\ ~ Throttled(i) /\ ~ Throttled(j))
       => <>[](monitor[i][i] = 3 /\ monitor[i][j] = 3)

(***************************************************************************)
(* "Checks responsiveness and liveness of processor j" (module.py:85): a   *)
(* processor that stays dead is suspected for good by those that run, once *)
(* all of them have passed the barrier.  The throttle must not stop any of *)
(* their detectors for good: a detector that waits for the queue to the    *)
(* dead one to drain trusts it for ever.                                   *)
(***************************************************************************)
DeadSuspected ==
  (\A k \in Node \ Mortal : <>[](k \in begun /\ ~ Throttled(k))) =>
    \A j \in Mortal : \A i \in Node \ Mortal :
       <>[](j \notin up) => <>[](j \notin trusted[i])
=============================================================================
