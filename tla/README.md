# Verification of self-stabilizing reconfiguration in TLA+

The program under `src/` is a group of processors that keep a *configuration*
(a set of processors that serve as quorum system) and replace it while they
run. It is written to be self-stabilizing: whatever values a transient fault
leaves in the variables, the processors shall come back to one configuration.
This directory holds TLA+ modules translated from that code, the TLC runs that
check them on small instances, and theorems that TLAPS checks for every
instance. `PROJECT.json` maps each definition to the lines it models.

    tlc -config Healthy2.cfg MCRecSA      # any run, see the table below
    tlapm RecSAProofs.tla                 # any proof module

## 1. The system

### Components

| Component | State | Operations | Hard about it |
|---|---|---|---|
| **RecSA** `modules/recsa/module.py` | per known processor: configuration, notification (phase, set), `alll`, stored readings of the failure detector, echoes; `all_seen` | main loop (lines 22 to 33 of the algorithm), `receive_msg`, `estab`, `participate`, `allow_reco`, `get_config` | decides on what was received last; phases mod 3 and degrees mod 6; resets that answer resets; an exception ends the loop |
| **RecMA** `modules/recma/module.py` | `no_maj`, `need_reconf`, previous configuration, flags received | loop that asks `estab()` for a new configuration when a majority is lost or a prediction function says so | reads RecSA's state several times in one decision |
| **Joining mechanism** `modules/joining_mechanism/module.py` | `passs`, `state`, `fd` | loop that asks the members to let a processor in, `receive_msg` | `self.id in config` when the configuration is a string; missing keys |
| **Failure detector** `modules/fd/module.py` | `beat`, `monitor`, `fd_set`, a queue of tokens | loop that handles a token and sends one back, `reset_monitor`, `stable_monitor` | a token is sent only for a token; the loop waits for the throttle |
| **UDP token link** `communication/udp/` | message counter, last message sent, last token received, timer threads; last counter seen by the receiver | sender loop, timer threads, receiver loop | loss, duplication, reordering, timers that fire late, a receiver that restarts |
| **ZeroMQ channel** `communication/zeromq/` | a queue per sender, the REQ socket | sender loop, receiver loop, throttle | a request without an answer blocks the sender for good; full queues stop other modules |
| **ABD register** `modules/abd/module.py` | label, status, info, number of acknowledgements | `read`, `write`, `communicate`, `receive_msg` | acknowledgements carry no operation; waits without timeout |
| **Resolver** `resolve/resolver.py` | system status, modules, senders | start-up barrier, routing of messages and calls, `refresh` for a new processor | processors that die during start-up; arrays that are lengthened one by one |
| **API, start-up, join script** `api/`, `main.py`, `scripts/join.py` | none of their own | views, `/kill`, `/publish_node`, `/abd/read`, `/abd/write` | a threaded server calls the modules concurrently |
| byzantine switch, host file, metrics, tests | | | not part of the algorithms |

### How they interact

Each processor is one process with a thread per module loop, one per ZeroMQ
receiver and sender, one per UDP sender and receiver, and timer threads. The
modules share no lock. They call each other through the resolver: RecSA reads
the trusted set and the monitors of the failure detector (`fd_get_trusted`,
`fd_stable_monitor`) and resets monitors (`fd_reset_monitor`); RecMA and the
Joining mechanism read and change RecSA (`recsa_get_config`,
`recsa_allow_reco`, `recsa_estab`, `recsa_participate`). Between processors
RecSA, RecMA, the Joining mechanism and ABD send over ZeroMQ (reliable, in
order, blocking), and the failure detector over the UDP token link. The
failure detector looks at the ZeroMQ queues before each pass (`throttle()`).

### What makes each part correct

* RecSA: one proposal at a time reaches phase 2, it is installed everywhere or
  nowhere, healthy processors are not reset, every replacement and every reset
  ends, the loop outlives every message, and from corrupt variables the
  processors return to one configuration.
* RecMA proposes only when a majority is lost or a reconfiguration is wanted,
  and never during a replacement.
* Joining: who asks is let in, takes the configuration that all have, and no
  request ends the receiver thread of a member.
* Failure detector: tokens never run out, running processors are trusted again
  and again, dead ones are suspected for good, and monitors become stable - as
  long as the throttle lets the detectors go on.
* Start-up: nobody runs before all are ready, and all run in the end.
* Link: the sender moves on only when its message was accepted, and every
  payload arrives.
* Register: a read returns at least what was written before it, and operations
  return.

`PROJECT.json` lists, under `hazards`, the places in the code where this can go
wrong in ways a unit test would hardly reach, each with the properties that
cover it or the reason why none does yet.

## 2. The modules

| Module | Models | State and actions |
|---|---|---|
| `RecSALocal` | one processor's RecSA as operators on a record | the fields are the attributes of `RecSAModule` (plus `trusted` and `monitor`, which it reads from its failure detector). `Line22` ... `Line26`, `Line24`, `BruteForce`, `Delicate` are the lines of the loop in the order in which the code runs them: 22, 23, 25, 26, 24, 27 to 32 |
| `RecSA` | N such records, the messages between them, and what the other modules do to them | `Iterate` is a whole pass of `run()` with the messages it sends at its end, `IterateRaises` a pass that ends in the `TypeError` of staleness test 4; `Receive` is `receive_msg`; `RequestEstab`, `RequestParticipate` are the interface functions; `FDToken` is the effect of a token on trust and monitors; `Crash` is `/kill` |
| `Replacement` | the abstract specification of RecSA without faults | a configuration per processor and the proposal that is agreed on |
| `RecMA` | N RecMA modules on top of `RecSA` | `Look` and `Decide` are a pass of the loop cut between the reading of the configuration and the second `allow_reco()`; `SendFlags`, `ReceiveFlags` are `send_state` and `receive_msg`; `CrashAll` is `/kill` |
| `MCRecSA` | the start states of the runs | steady, restarted, faulty and corrupt states |
| `RecSAThreads` | the threads of a process that runs RecSA | `ReadPart` ... `SendStates` are a pass of `run()` cut wherever it acts on what it read before (the constants of `Label` name the places); `Ask`, `Propose` are `estab()` cut between its test and its assignments; `Handle` is a message or a token at any cut |
| `Joining` | N Joining mechanisms on top of `RecSA`, whose queues they share | `Flush`, `ReadConf`, `ActOnConf` are a pass of the loop cut after the passes were counted; `ReceiveJoin`, `ReceivePass` are `receive_msg`, with the exceptions that end the receiver thread or the loop; `RecMAProposes` is the call of `estab()` that `RecMA` makes, with its participants |
| `RecSAProofs` | theorems about `RecSA` for any number of processors | types and notifications; the loops, a system at rest, a boot |
| `RecSAPairProofs` | theorems about `RecSA` for two processors | why they agree on one replacement at a time |
| `RecMAProofs`, `JoiningProofs`, `RecSAThreadsProofs` | theorems about the modules they are named after | all three build on the lemmas of `RecSAProofs` |
| `UdpLink`, `UdpLinkProofs` | one UDP token link and its theorems | `Start`, `RecvToken`, `SendNext` are the sender's loop cut at its waits, `TimerReturns`, `TimerExpires`, `TimerResends` the timer threads cut at theirs, `RecvData` the receiver; the network is a set of datagrams from which each may be taken, kept or lost |
| `FD`, `FDProofs` | N processes from their start: the barrier, the failure detectors and the tokens between them, the ZeroMQ channels that throttle them | `CommReady` is the end of `setup_communication()`, `Poll` one request of `wait_for_other_nodes()`; `Begin`, `Handle` are passes of the detector's loop; `Application`, `SendRequest`, `Acknowledge` the way of a ZeroMQ message; `LoseRequest`, `ReceiverEnds`, `Crash`, `Restart`, `LoseToken`, `Repeat` the faults |
| `ABD`, `ABDProofs` | the register | an operation is `Start...`, `Confirm...`, `Finish...` cut at the waits of `communicate()`; `Receive` is `receive_msg` |

Definitions that a comment calls a mutant are not part of any specification.
Each is a plausible mistake in the definition it is named after; put in its
place it must break the property listed for it in `PROJECT.json`.

### What is abstracted

* In `RecSA` a pass of the loop, a `receive_msg` and a call of an interface
  function are single steps. In the code the threads have no lock;
  `RecSAThreads` cuts the pass and `estab()`. There, too, a macro of the code
  (`degree`, `echo_no_all`, a staleness test) and `receive_msg` are one step.
* RecMA's loop is cut once: what follows the second `allow_reco()` in a pass is
  one step, so RecSA does not move between the decision and `estab()`, which
  asks `allow_reco()` a third time. Its flags have a channel of their own, since
  RecSA's messages are stored in other variables.
* In `Healthy2`, `Delicate3` and `Faults3` RecMA is the caller of `estab()` with
  any set of `Proposals`, which allows more than `RecMA` does; `Manage3` is the
  composition, where proposals come from RecMA alone. In `Joining` RecMA
  proposes the participants, as the code does, for whatever reason.
* Configurations and proposals are sets. The code keeps lists and sets and
  compares them as sets, except in staleness test 4 (explained in
  `RecSALocal`). `jsonpickle` keeps tuples, lists and sets apart, so a received
  notification compares equal to the one that was sent.
* `max_lex` compares sorted lists; `LexLeq` is that order written on sets.
* `RecSA` takes the failure detector at its interface: a token makes its sender
  trusted, counts monitors, and may drop a third processor - rightly if that
  one is dead, wrongly at most `MaxSuspect` times. That trust is regained only
  by a token of one's own is a property of `FD` (`TrustByOwnToken`, proved).
* In `RecSA` the Joining mechanism may call `participate()` at any time, with
  or without passes (`RequestParticipate`); `Joining` calls it as the code does.
  No failure detector moves and nobody dies in `Joining`, so its array `passs`
  has an entry for everybody (see section 3 for what happens otherwise).
* `FD` counts the messages of all modules to one processor as one queue, and
  leaves out what they say. The modules put them there whatever the queue holds;
  beyond the limit of the throttle and the bound `MaxWaiting` they are not
  counted any more, and beats are not counted beyond their threshold. A ZeroMQ request that its receiver's process has
  taken dies with that process; one that has not left the sender's socket waits
  for the next process (`LoseRequest`, from how ZeroMQ reconnects).
* A message in UDP is its counter; a ZeroMQ message in the queue is a number.

## 3. The runs

Bounds are constants of the modules and end in the guards of the actions that
count them: `MaxEstab`, `MaxSuspect`, `MaxBacklog` (messages under way when a
pass sends its own), `MaxPayloads`, `MaxRestarts`, `MaxEvents`, `MaxWrites`,
`MaxReads`, `MaxRunning`. `MaxWaiting` ends the counting of what waits in a
queue, `Busy` names the processors whose modules send, and `Groups` the sets
from which the start of a `Join3` takes its participants and members.

| Run | Instance | Checked |
|---|---|---|
| `Healthy2` | 2 processors, boot or rest, 3 calls of `estab()` with any of `{0}`, `{1}`, `{0,1}`, up to 5 messages under way | `TypeOK`, `NtfValid`, `LoopsRun`, `OnlyProposalsChangeConfig`, `ReplacesOneAtATime` (refinement of `Replacement`), `Settles` |
| `Delicate3` | 3 processors, 2 calls of `estab()` with two different sets; messages arrive before the next pass | `UnanimousInPhase2`, `AllowedOnlyAtRest`, `InstallAgreement`, `Settles` |
| `Faults3` | 3 processors and four starts: a replacement, a wrong suspicion, a boot, a restart; processor 2 may be killed at any time | `SurvivorsRun`, `RestIsKept`, `RunningSettle` |
| `Threads2` | 2 processors whose threads interleave, one call of `estab()`, from boot, rest and 450 combinations of corrupt values | `ThreadsTypeOK`, `LoopsRun`, `RacesHeal` |
| `Join3` | 3 processors: `{0}` rests, or `{0,1}` does in its own configuration or in that of `{0}`, and the others ask to join; RecMA proposes once | `JoiningTypeOK`, `ServersHear`, `JoinsPresent`, `Admitted` |
| `Manage3` | 3 processors with RecMA, in the configuration `{0,1,2}` or `{1,2}`; processor 2 may be killed at any time | `ManagerTypeOK`, `OnlyTheDeadAreReplaced`, `ConfigIsAlive` |
| `Link` | 2 payloads, 1 restart of the receiver, any loss, duplication and order | `TypeOK`, `AcceptedBeforeNext`, `FirstInOrder`, `Delivered` |
| `FDPair` | 2 processes from their start, one with messages of its other modules, the other killed and restarted; up to 4 restarts, repeated tokens, monitor resets and receiver threads that end | `TypeOK`, `TokensCirculate`, `BarrierHolds`, `TrustedAgain`, `StatusForward`, `RunsInTheEnd`, `MonitorsStabilize` |
| `FDThree` | 3 processes that exchange tokens (`InitRunning`), or of which the last has just passed the barrier anew, beat threshold 2; one with messages of its other modules, the last may be killed | `TrustByOwnToken`, `DeadSuspected` |
| `Register` | 4 processors, 2 writes and 3 reads of three readers, one at a time; the writer and a reader may be killed | `TypeOK`, `ReadsLatest`, `OperationsReturn` |
| `RestartDies3` | a processor that restarts before the others notice | violates `LoopsRun` |
| `ABDLate5` | 5 healthy processors, 2 writes and a read, one at a time | violates `ReadsLatest` |

### Why these bounds

* Two processors are enough for everything that concerns a notification and its
  echo, and allow messages that are several passes old (`MaxBacklog = 3`). The
  third processor brings what two cannot have: a participant that has heard of
  one neighbour and not of the other, competing proposals of which neither is
  one's own, a proposal that leaves a processor out, a fault next to two
  healthy processors.
* With three processors `MaxBacklog` is 0: a pass starts when the messages of
  the last one have been received, in any order. That is what a run of the
  program looks like, where a pass sleeps a second and a message takes
  milliseconds, but the code does not enforce it. With `MaxBacklog = 1`
  `InstallAgreement` fails, by the false alarm described below: a processor
  resets itself in phase 2 and the others install before they hear of it. `UnanimousInPhase2` and `AllowedOnlyAtRest` were not violated in
  the 2.5 million states that a search with `MaxBacklog = 1` saw before it was
  stopped.
* `Threads2` multiplies every state by the places of two loops, so it has two
  processors, one proposal, and passes that begin when all messages have
  arrived; what arrives in the middle of a pass is what the other sends
  meanwhile. The corrupt values are the combinations of configurations,
  notifications, `alll` and `all_seen` in `InitCorrupt`. With one more message
  (`MaxBacklog = 1`) two corrupt processors may reset each other for ever: each
  takes the other's old `BOTTOM` for a new reset. With three processors and one
  wrong suspicion the 4.4 million states from rest were searched once: no loop
  ended and the system at rest kept its configuration; a run of that size is
  too long to repeat.
* `Join3`: three processors give a joiner next to two participants, and a member
  next to two joiners that are strangers to each other. Its start is a state of
  a transient fault (see below why). While somebody is outside, `allow_reco()`
  of those that have taken in another one is false, as the echo of the outsider
  is old; so a replacement comes in the middle of a joining only where the
  participants are more than the members from the start. That is the start with
  participants `{0,1}` and configuration `{0}`: RecMA proposes `{0,1}` while the
  third processor has its passes counted. Identifiers matter only to `max_lex`,
  which has nothing to choose from with one proposal, so other sets of the same
  sizes would add nothing.
* `Register`: with four processors an operation waits for all three others, so
  kills block operations and nothing else (see below for five). Processor 3
  reads and dies, 0 writes, reads and dies, 1 reads.
* Phases and degrees are finite by the code, so two or three replacements go
  through every phase and start again. Three `estab()` calls let two compete and
  a third follow.
* `FD`: the threshold of 30 beats is replaced by 2; nothing depends on it but
  how long a suspicion takes. `MaxQueue = 1` and `MaxWaiting = 3` let a queue go
  over the limit by more than one message, as the modules do not look at it, and
  come back under it. Four events let a processor restart twice and
  a token be repeated, or a receiver thread end, around it. `FDThree` starts
  behind the barrier, which `FDPair` covers: otherwise three detectors with
  messages are too many states.
* `Manage3` has two starts because they take the two ways to a proposal: in
  `{0,1,2}` a death leaves a majority, and a majority of the members must want a
  replacement (lines 127 to 136); in `{1,2}` it does not, and the lost majority
  is enough (lines 120 to 122). Each replacement lets the other processor's
  RecMA act on the configuration it read before, and ask again; `estab()` then
  refuses the set, as it is installed, which is what the mutant of
  `OnlyTheDeadAreReplaced` takes away. There are no wrong suspicions
  (`MaxSuspect = 0`; with one the search was stopped after seven million
  states), so the run says nothing of a stale reading next to a second change of
  trust. Flags of a pass arrive before the next pass decides, which bounds the
  queues of flags.
* `Link`: two payloads and the message without payload that opens the link give
  an old, a present and a next message.

### Fairness

* RecSA: `SF(Iterate)`: the loop sleeps a second and runs again whatever
  happens. It is strong fairness because the bound on the backlog may disable a
  pass for a while, which the code never does. `WF(Receive)`: ZeroMQ delivers to
  a running process. `WF(TokenArrives)`: tokens of running processors go on
  circulating (`TokensCirculate` and `TrustedAgain` of `FD`), and whoever sent
  one is trusted. Nothing obliges a token to have the dead dropped: a full queue
  to a dead processor may stop a detector before it has counted enough beats. What
  must happen after a kill therefore has the premise `DeadSuspected` of `RecSA`:
  `RunningSettle` and `ConfigIsAlive` say what follows once everybody that runs
  has dropped the dead. Under that premise the fairness is what the code gives: who
  drops a processor is not throttled when it does, and sends it no message any
  more, so the queue to the dead one does not stop the detector later. The restart
  in `Faults3` takes for granted that no ZeroMQ message died with the old process;
  one that did blocks its sender for good.
* Link: the loop and the timer threads run on (weak fairness), and of the many
  copies of the present message and its token some arrive (strong fairness).
  Nothing is assumed of older messages.
* RecMA: the loop runs on and its messages are delivered (weak fairness).
* FD: main threads and barriers run on, and so does a detector that has a token
  and is not throttled, a sender that has a message and no answer to wait for, and
  a receiver that lives (weak fairness throughout; a loop that is throttled again
  and again need not find the moment in between). What the processes that live are
  promised is stated as premises: that the others stay up (`RunsInTheEnd`), and
  that the detectors are not throttled (`TrustedAgain`, `MonitorsStabilize`,
  `DeadSuspected`).
* Threads: each thread runs on (weak fairness), and a pass begins although the
  bound on the backlog may disable it for a while (strong). `RacesHeal` has a
  premise of its own: from some time on no step of another thread comes in the
  middle of a pass. A pass takes milliseconds and pauses for a second, so that
  is what the scheduler does nearly always, but nothing forces it, and without
  the premise a message in the middle of every pass keeps the system from
  settling.
* Joining: both loops run on (strong fairness, as for `RecSA`) and whatever is
  under way is delivered.
* ABD: the waits poll and messages arrive.
* Nothing is assumed about the faults: kills, losses, suspicions and calls of
  `estab()` happen or not.

### What the runs that find a violation show

* `RestartDies3`. `k in self.get_config_j(self.id)` is evaluated with the string
  `'NOT_PARTICIPANT'` as soon as a participant is trusted, and raises
  `TypeError` in the thread of the main loop. Every processor that restarts or
  joins a running system meets it.
* `ABDLate5`. A processor does not answer itself, and `communicate()` waits for
  (n + 1) / 2 messages of any kind: requests of others and acknowledgements of
  earlier operations count, too. With five healthy processors, two writes
  return before all have answered; what comes late ends the wait of a read, which
  returns -1. With three or four processors an operation waits for all others,
  nothing comes late, and `ReadsLatest` holds in `Register`; a single kill
  blocks all operations, which is why `OperationsReturn` has the premise that
  all run.

### What else was met

These have no run of their own; each was seen with the modules as they are, and
some explain why a run does not check more.

* *A false alarm.* `Delicate3` does not check `OnlyProposalsChangeConfig`, which
  fails there with three healthy processors and one `estab()`: a processor moves
  to the next degree, and then to another one, before a neighbour has heard of
  the first. The neighbour's stored degree is two behind, staleness test 3
  (line 404) reports a fault and resets the processor. The system settles again
  (`Settles` holds), perhaps without the replacement.
* *Races.* In `RecSAThreads` `NtfValid` fails: a message between `max_lex` and
  `mod_max` (line 289) makes up a notification of phase 1 without a set. The
  late write of line 25 resets a replacement, and a token between
  `fds_stabilized()` and `config_set()` (line 343) installs a set that nobody
  has confirmed; before the first token `fds_stabilized()` is true of nobody at
  all. That is why `Threads2` does not check the safety properties of
  `Healthy2`: what the code can promise is that it repairs them (`RacesHeal`).
* *Joining.* A processor that really joins a running system ends as in
  `RestartDies3` before it can ask, and even with its loop alive it would not
  get the leave of its own `allow_reco()`, which compares echoes it does not
  get. The mechanism is reached from states of a transient fault only, in which
  the joiner knows already what the others know (`WithoutOthers`); `Join3`
  starts there. With a wrong suspicion around a flush the look-up of line 67 does
  not find its member and the loop ends with `KeyError`; with the stable detectors
  of `Joining` it cannot, and no property is stated about it. A member that
  restarts while it is asked, the other way to a receiver that ends, is not in
  the module either. A member on its own that proposed a set without its
  participants would pass through all phases without asking anybody while another
  one joins, and `JoinsPresent` would fail; RecMA does not propose such a set.
  The passes may be counted for one configuration and another one
  adopted, after a replacement in between; `JoinsPresent` says that it is the
  one that all have nevertheless. A processor that joins during a replacement
  may make the others reset again and again (`RunningSettle` fails in the
  composition).
* *Start-up.* A processor that dies for good before all have passed `BOOTING`
  leaves the others waiting, and a system of one never runs: its barrier returns
  without setting `RUNNING` (`resolver.py:53` to `55`).
* *Throttle.* That a dead processor is suspected is not true of the code
  unconditionally: without the premise of `DeadSuspected` TLC finds a detector
  that waits in `throttle()` until no ZeroMQ queue is full, while the queue to
  the dead processor stays full, and so stops before it has counted enough
  beats. The modules go on sending, as that detector goes on trusting. The same
  happens for good where a request died with its receiver or its receiver
  thread. Hence the premises about the throttle, also that of `TrustedAgain`.
* *Overlap.* With two operations at a time and three processors a read that
  overlaps a write returns -1: the answer of processor 0 is left out of the
  maximum (`abd/module.py:59`).
* *Timers.* A timer thread of the UDP sender calls itself for each re-sending
  (`udp/sender.py:150`), so Python's recursion limit ends it after some thousand
  seconds of silence; `UdpLink` lets it run on.

## 4. What is proved

TLAPS checks these for every number of processors, every set of proposals,
every bound, and every number of faults, as far as a premise does not say
otherwise.

| Theorem | States |
|---|---|
| `RecSAProofs!TypeCorrect` | `Spec => []TypeOK` |
| `RecSAProofs!NotificationsValid` | `Spec => []NtfValid` |
| `RecSAProofs!LoopsOutlive` | `MaxSuspect = 0 => (Spec => []LoopsRun)` |
| `RecSAProofs!ParticipantsOutlive` | `SpecSteady => []LoopsRun` |
| `RecSAProofs!SurvivorsOutlive` | `SpecFaults => []SurvivorsRun` |
| `RecSAProofs!RestLasts` | `MaxEstab = 0 => (SpecSteady => RestIsKept)` |
| `RecSAProofs!BootNeverResets` | `MaxSuspect = 0 /\ Mortal = {} => (InitBoot /\ [][Next]_vars => OnlyProposalsChangeConfig)` |
| `RecSAProofs!BootReplaces` | the same for `ReplacesOneAtATime` |
| `RecSAPairProofs!PairDecidesOnce` | `N = 2 => (SpecSteady => []UnanimousInPhase2)` |
| `RecSAPairProofs!PairAllowsAtRest` | `N = 2 => (SpecSteady => []AllowedOnlyAtRest)` |
| `RecSAPairProofs!PairInstallsTogether` | `N = 2 => (SpecSteady => InstallAgreement)` |
| `RecSAPairProofs!PairNeverResets` | `N = 2 /\ Mortal = {} => (SpecSteady => OnlyProposalsChangeConfig)` |
| `RecSAPairProofs!PairReplaces` | `N = 2 /\ Mortal = {} => (SpecSteady => ReplacesOneAtATime)`, the refinement of `Replacement` |
| `RecSAPairProofs!HealthyPairReplaces` | both, with `MaxSuspect = 0` under `Spec`, that is also from boot |
| `RecSAThreadsProofs!ThreadsTypeCorrect` | `N > 1 => (SpecThreads => []ThreadsTypeOK)` |
| `RecSAThreadsProofs!ThreadsOutlive` | `N > 1 => (SpecParticipants => []LoopsRun)` |
| `RecMAProofs!ManagerTypes` | `ManagedSpec => [](TypeOK /\ ManagerTypeOK)` |
| `RecMAProofs!HealthyIsLeftAlone` | `N >= 3 /\ MaxSuspect = 0 => (ManagedSpec => [](up = Node => AtRest))` |
| `JoiningProofs!JoiningTypeCorrect` | `SpecJoining => []JoiningTypeOK` |
| `JoiningProofs!ServersListen` | `MaxEstab = 0 => (SpecJoining => []ServersHear)` |
| `UdpLinkProofs!LinkTypes` | `Spec => []TypeOK` |
| `UdpLinkProofs!LinkAccepts`, `LinkInOrder` | `Spec => []AcceptedBeforeNext`, `Spec => []FirstInOrder` |
| `FDProofs!DetectorTypes` | `Spec => []TypeOK` |
| `FDProofs!ExchangeGoesOn` | `Spec => []TokensCirculate` |
| `FDProofs!TrustNeedsToken` | `Spec => TrustByOwnToken` |
| `FDProofs!NobodyRunsEarly` | `Spec => []BarrierHolds` |
| `FDProofs!StatusNeverGoesBack` | `Spec => StatusForward` |
| `ABDProofs!LabelsExist` | `Spec => []TypeOK` |
| `ABDProofs!RegisterIsAtomic` | `N <= 4 /\ MaxRunning <= 1 => (Spec => ReadsLatest)` |

Assumptions: `NAssumption` (there is a processor), `SpecialAssumption` (the two
special values are different and are no sets of processors),
`KindsAssumption` (requests and answers of the Joining mechanism are different,
and no states), `GroupsAssumption`, `QueueAssumption` (the modules send beyond the
limit of the throttle), `ProposalsAssumption`, `BoundsAssumption`, `CapAssumption`,
`ThresholdAssumption`, `ReadersAssumption`; TLC evaluates them in the runs.

RecSA:

* `TypeCorrect` is inductive as it stands; each line of the loop has a lemma on
  one record, and the theorem puts them together, one step per action. What has
  to be shown is that phases stay in 0..2, that `max_lex` returns a set of
  processors or `BOTTOM` (it is a union over the maximal members, hence a subset
  of the processors), and that `chs_config()` never spells a configuration out
  of the letters of `'BOTTOM'`.
* `NotificationsValid` needs `TypeOK`, the same property of every message under
  way, and a lemma on line 23: if nobody is more than one degree ahead of the
  owner, then a proposal in sight means that the owner joins phase 1 or is in a
  phase above 0 already.
* `LoopsOutlive`: staleness test 4 raises where a processor without a
  configuration knows a participant with a real one. There are two invariants,
  one for each start. During a boot, `LoopInv` adds to `TypeOK` and `NtfValid`
  that whoever runs is trusted by whoever trusts anybody (`Healthy`), that
  whoever was heard, or will be, is a participant (`Heard`: the others send
  nothing), and that a real configuration, stored or under way, means that all
  that run have joined (`Spread`). The step that matters is the first
  installation: it needs `fds_stabilized()`, hence a message of every other
  processor. `NtfValid` is needed because an installed set must be a real one.
  A kill takes a processor out of all of this and keeps it. From rest,
  `Members(M)` says that each of `M` that runs has a configuration and trusts
  itself, and that none sends messages to itself; this is inductive whatever
  is suspected, which gives `ParticipantsOutlive`, and with all but the
  restarted processor as `M` `SurvivorsOutlive`. The premise of `LoopsOutlive`
  is about boots alone: a running processor that is suspected there is left out
  of the first configuration, and is then what test 4 raises for. In
  `RestartDies3` the processor without a configuration is there from the start.
* `RestLasts`: the invariant `RestInv` adds to `Members(Node)` that every stored
  configuration is that of all or none at all, that there is no proposal, and
  that messages say nothing else (`Resting`, `Says`). Then no staleness test
  fires and nothing conflicts, so a pass can only forget. It holds for any
  suspicions, kills and old messages; with proposals or a restart `RestIsKept`
  is left to `Faults3`.
* `BootNeverResets`, `BootReplaces`: in a boot each processor goes through
  `BOTTOM`, sends that, and whoever receives one resets in turn. `BootInv` adds to the invariant of
  `LoopsOutlive` that nobody has a proposal, and that whoever has the
  configuration of all has heard from everybody and trusts everybody (`Booted`).
  A late `BOTTOM` then does no harm: the pass that resets its processor finds
  `fds_stabilized()` true and installs the same configuration again before it
  ends (`BootPass`). For `Replacement` such a boot is all stutters: `InitBoot`
  leaves no calls of `estab()`, so replacements are a matter of `PairReplaces`.
  Both premises are about the first installation: a processor that is suspected
  or dead then is left out of it, and the others may differ.

Two processors (`RecSAPairProofs`):

* The invariant. A notification and its `alll` put their owner on a circle of
  six degrees, as `degree()` computes, and `Stand` adds the rank of the proposal
  in the order of `max_lex`. What the other processor has stored of it, followed
  by the messages under way in their order, is its `Flow`. `PairInv` says, for
  each direction, that a flow is a short history: each of its stands is at or just
  before every later one and the present one, and the same holds of the echoes
  in it and the other's stand (`OneWay`); the two stands meet, in the sense that
  one is at or just before the other (`Meets`); configurations differ only while
  one has installed and the other is about to (`Installing`); a processor in the
  sixth degree has installed its proposal; and whoever must have been seen is in
  `all_seen` (`MustHaveSeen`). It is about whole queues and not about one
  message, because the code lets any number of passes send before one is
  received, and the echo alone makes that safe: a processor moves on when the
  other has echoed its present stand, hence has received all it sent before.
* Why it says so much. `UnanimousInPhase2` compares the present proposals of the
  two and says nothing of what each stores and is still to receive, by which it
  decides. Degrees return after six steps, so an old echo must be shown not to
  be taken for one of the present stand; and staleness test 3 resets whoever
  stores a phase above its own of somebody that is not in its `all_seen`, hence
  `MustHaveSeen`.
* The steps. Lemmas for each line show that no staleness test fires, nothing
  conflicts, and that a pass leaves its owner where it was, takes it one degree
  on, or to a larger proposal of phase 1 (`Outcome`, `Changes`); `PairChange`
  says it of any step. In the terms of the replacement each step then waits,
  negotiates, decides, installs or finishes (`PairSteps`), and this gives the
  three safety properties, `PairNeverResets` and, with the proposals all being
  RecMA's (`AllMade`), the refinement: `Agreed` is the common proposal as long
  as somebody is in phase 2 (`PairMeaning`), and only the last to finish clears
  it.
* Premises. `SpecSteady` starts from rest and allows any number of proposals and
  of messages under way; boots are in `BootReplaces`. Of two processors none is
  wrongly suspected in this model: whose token is handled is trusted, and there
  is no third one to drop. `PairInv` speaks of the time before a kill; the
  survivor satisfies the first three properties on its own, but it may reset
  itself, so `PairNeverResets` and `PairReplaces` say that nobody dies. Three
  processors are another matter, see below.

Threads:

* `ThreadsTypeCorrect`: the invariant gives the types of what a cut pass carries
  and of what its lines write; a lemma for each line takes the value from the
  earlier cut as any value of its type. `N > 1` because `InitCorrupt` has
  processor 1 in a configuration.
* `ThreadsOutlive`: `Attending` says that each processor that runs has a
  configuration, trusts itself and has put itself among the participants it read
  before it forgets the others. `SpecParticipants` starts from rest and from the
  corrupt values; suspicions are as frequent as the bound allows. From boot the
  theorem has no proof: with three processors a processor that trusts nobody yet
  may receive a `BOTTOM` in the middle of a pass, and `fds_stabilized()` is true
  of nobody, so that it installs the empty configuration before it heard anybody,
  and `Spread` and `Healthy` fail. Nine million states of such boots showed no
  loop that ends; with two processors `Threads2` checks all.

RecMA:

* `ManagerTypes`: the types of `RecSA` carry over, as each action of `RecMA` is
  one of `RecSA` or leaves it alone; what is new is that `flush_flags` drops no
  flag that the loop looks up.
* `HealthyIsLeftAlone`: while nobody has died, everybody trusts everybody, has
  the same configuration and hears of nothing else (`CalmWith`), so what a pass
  read is that configuration, too, in whichever step it was read. It is one with
  a quorum (`Quorums`), for which neither `no_maj` nor `eval_config()` comes out
  true, and what the flags of others say is then never asked. The premise on `N`
  is needed: of two processors the single member of `{1}` is no quorum
  (`recma/module.py:55`).

Joining:

* `JoiningTypeCorrect`: `JoinInv` says that everybody is trusted, so that every
  array has an entry for everybody. It needs nothing about configurations, and
  holds whatever is proposed.
* `ServersListen`: `JoinRest(P)` says that the members `P` have configuration `P`
  and are known to have it by everybody, that nobody knows another one, that a
  loop counts passes of `P` or of nothing, and that a request under way is for a
  member (`Fitting`). It holds for any configuration and any participants at the
  start, as `Groups` is any set of sets. The premise `MaxEstab = 0` excludes
  replacements; with one, TLC checks three processors (`Join3`).

Link, failure detector, register:

* The link: the inductive invariant says that every message a thread can still
  send is at most the present one (`Bounded`) and that every token under way is
  for an accepted message (`Accepted`). A token that is not old is then for the
  present message, which was accepted.
* `DetectorTypes`: of its bounds only that of the monitors is one of the code (3,
  in two places that write it); beats, tokens and queues are natural numbers.
  It also says that who handles tokens runs.
* `ExchangeGoesOn`: `TokensCirculate` together with `TypeOK` is inductive. A
  handled token is sent back in the same step, tokens are lost only where an end
  is dead, and a detector that begins sends one to everybody.
* `TrustNeedsToken`: the invariant `Remembers` says what the beats tell about
  trust: before the first token all beats are 0, and afterwards a processor that
  is not trusted has reached the threshold. Beats only grow until the owner of
  the beat sends a token, so nobody else's token brings trust back.
* `NobodyRunsEarly`: whom a barrier has found ready in its round, and who cannot
  be killed, has left `BOOTING`; the status never returns to it.
  `StatusNeverGoesBack`: whoever has found itself ready, as everybody asks itself
  too, has written `READY` already.
* `LabelsExist`: a label grows only in `write()`, and the maximum over the
  answers is that of labels that exist.
* `RegisterIsAtomic`: acknowledgements carry no number, so the invariant
  `ReadInv` has to show that each counted one is an answer to the present
  operation. At most one message is under way between two processors (`Links`);
  the acknowledgements counted and the processors that still owe something are
  together at most the others (`Counted`), and an operation on up to four
  processors needs all of those. Hence a finished write is stored by everybody
  who is alive (`WritePhase`, `Stored`), and a finished read has an answer of
  everybody who is (`ReadPhase`). A read in which somebody dies may go on to its
  confirmation with an old label, but that one never ends (`ConfirmPhase`). With
  five processors `Counted` is of no use, see `ABDLate5`.

Only model-checked, and why:

* everything about liveness (`Settles`, `RunningSettle`, `RacesHeal`, `Admitted`,
  `Delivered`, `TrustedAgain`, `RunsInTheEnd`, `MonitorsStabilize`,
  `DeadSuspected`, `OperationsReturn`, `ConfigIsAlive`): TLAPS does not reason
  about fairness and `ENABLED`;
* the agreement of three or more processors: `UnanimousInPhase2`,
  `AllowedOnlyAtRest` and `InstallAgreement` in `Delicate3`. `InstallAgreement`,
  `OnlyProposalsChangeConfig` and the refinement of `Replacement` are false of
  three processors and old messages, because of the false alarm described above:
  with two, a processor waits for the only echo there is, with three a
  neighbour's copy may fall two degrees behind. An invariant for the first two
  properties would have to hold through the resets that follow;
* `OnlyTheDeadAreReplaced` after a death; before one, `HealthyIsLeftAlone` says
  that nothing is replaced;
* `RestIsKept` with proposals or a restart, `ServersHear` during a
  replacement, `JoinsPresent`, and `LoopsRun` of cut threads from boot.

## 5. What is not modelled, and the plan

Not modelled:

* A processor that is added to a running system (`refresh()`, `/publish_node`,
  `scripts/join.py`). `refresh()` lengthens `beat` and not `monitor`
  (`resolver.py:210`), so in every order of events the first token of the new
  processor ends the failure detectors of all others with `IndexError` before
  they send it back, and the new one never trusts anybody: there is no behaviour
  after that line to check. What a joining processor would do then is in
  `Joining`.
* A sender of the UDP link that restarts (`udp/sender.py:41`): its counter 0 is
  not told from that of its former life, so a message may be acknowledged that
  was not delivered.
  `LoseToken` of `FD` loses tokens only next to a dead process; a token lost in
  this way between two running ones is not modelled.
* Several API threads in one processor's `ABD` module (`abd/module.py:85`): the
  overlap of two processors breaks the register already, see above.
* Thread switches inside a macro, as the one that makes `my_alll()` iterate over
  a set that grows (`recsa/module.py:184`).
* `get_config_app`, which only tests call; `reset()` of the failure detector and
  `broadcast()`, which nobody calls.
* The byzantine switch (it makes senders wait, and nothing else looks at it),
  host file and configuration (text files), metrics (they observe), views of the
  API, the tests, which were read as a source of intent and test single macros on
  hand-made states.

What is left of the plan are proofs: the agreement of three processors or more
where messages arrive before the next pass, joining during a replacement, and a
boot with cut threads.
