--------------------------------- MODULE ABD ---------------------------------
(***************************************************************************)
(* The shared register of modules/abd/module.py: processor 0 writes, every *)
(* processor reads, both through communicate().  The value of the register *)
(* and its label are the same number.                                      *)
(*                                                                         *)
(* A processor runs one operation at a time.  Its steps are the code       *)
(* between two waits in communicate(), and receive_msg(); ZeroMQ keeps the *)
(* messages from one processor to another in order.                        *)
(***************************************************************************)
EXTENDS Integers, Sequences, FiniteSets

CONSTANTS
  N,            \* number_of_nodes
  Mortal,       \* the processors that may be killed
  Readers,      \* bound: the processors whose API is asked to read
  MaxWrites,    \* bound: write operations
  MaxReads,     \* bound: read operations
  MaxRunning    \* bound: operations that run at the same time

Node == 0 .. N-1

ASSUME NAssumption == N \in Nat \ {0}
ASSUME ReadersAssumption == Readers \subseteq Node
ASSUME BoundsAssumption == {MaxWrites, MaxReads, MaxRunning} \subseteq Nat

BOT == -1

VARIABLES
  label,     \* label[i]
  status,    \* status[i]: the processors marked ACKED
  info,      \* info[i][j]
  acks,      \* no_acks
  op,        \* the operation that each processor's API thread is in
  chan,      \* chan[i][j]: messages sent by i and not yet received by j
  up,        \* the processors whose process runs
  written,   \* history: the highest label whose write has returned
  floor,     \* history: the value of written when the last read started
  writes, reads   \* count operations, up to their bounds

processor == <<label, status, info, acks, op>>
history == <<written, floor, writes, reads>>
vars == <<processor, chan, up, history>>

(* The labels that exist: no read or answer makes up one. *)
Label == BOT..writes
Kind == {"WRITE", "WRITE_ACK", "READ_REQUEST", "READ_REQUEST_ACK",
         "READ_CONFIRM", "READ_CONFIRM_ACK"}
Message == [type : Kind, label : Label]

TypeOK ==
  /\ label \in [Node -> Label]
  /\ status \in [Node -> SUBSET Node]
  /\ info \in [Node -> [Node -> Label]]
  /\ acks \in [Node -> Nat]
  /\ op \in [Node -> {"idle", "write", "read", "confirm"}]
  /\ chan \in [Node -> [Node -> Seq(Message)]]
  /\ up \subseteq Node
  /\ written \in Label /\ floor \in [Node -> Label]
  /\ writes \in 0..MaxWrites /\ reads \in 0..MaxReads

Init ==
  /\ label = [i \in Node |-> 0]
  /\ status = [i \in Node |-> {}]
  /\ info = [i \in Node |-> [j \in Node |-> BOT]]
  /\ acks = [i \in Node |-> 0]
  /\ op = [i \in Node |-> "idle"]
  /\ chan = [i \in Node |-> [j \in Node |-> <<>>]]
  /\ up = Node
  /\ written = 0 /\ floor = [i \in Node |-> 0]
  /\ writes = 0 /\ reads = 0
-----------------------------------------------------------------------------
Larger(a, b) == IF a >= b THEN a ELSE b

Msg(type, l) == [type |-> type, label |-> l]

(* communicate(msg) up to its wait; what is sent to oneself is dropped.    *)
Communicate(i, phase, msg) ==
  /\ op' = [op EXCEPT ![i] = phase]
  /\ acks' = [acks EXCEPT ![i] = 0]
  /\ status' = [status EXCEPT ![i] = {}]
  /\ info' = [info EXCEPT ![i] = [j \in Node |-> BOT]]
  /\ chan' = [chan EXCEPT ![i] =
       [j \in Node |-> IF j \in up \ {i} THEN Append(chan[i][j], msg)
                                         ELSE chan[i][j]]]

(* Mutant: half of the processors are enough. *)
HalfIsEnough(i) == 2 * acks[i] >= N - 1

(* The wait is over: `while no_acks < (n + 1) / 2`. *)
Enough(i) == 2 * acks[i] >= N + 1

MayStart(i) ==
  /\ i \in up /\ op[i] = "idle"
  /\ Cardinality({j \in Node : op[j] # "idle"}) < MaxRunning

(* write(): only processor 0 gets here (abd_write of the resolver). *)
StartWrite ==
  /\ MayStart(0) /\ writes < MaxWrites
  /\ writes' = writes + 1
  /\ label' = [label EXCEPT ![0] = label[0] + 1]
  /\ Communicate(0, "write", Msg("WRITE", label[0] + 1))
  /\ UNCHANGED <<up, written, floor, reads>>

FinishWrite ==
  /\ 0 \in up /\ op[0] = "write" /\ Enough(0)
  /\ op' = [op EXCEPT ![0] = "idle"]
  /\ written' = Larger(written, label[0])
  /\ UNCHANGED <<label, status, info, acks, chan, up, floor, writes, reads>>

(* read(): ask for labels, *)
StartRead(i) ==
  /\ MayStart(i) /\ reads < MaxReads
  /\ reads' = reads + 1
  /\ floor' = [floor EXCEPT ![i] = written]
  /\ Communicate(i, "read", Msg("READ_REQUEST", BOT))
  /\ UNCHANGED <<label, up, written, writes>>

(* take the highest of info[1], info[2], ... and tell it to the others, *)
HighestInfo(i) ==
  LET known == {info[i][j] : j \in Node \ {0}} \union {-1}
  IN  {l \in known : \A k \in known : k <= l}

ConfirmRead(i) ==
  /\ i \in up /\ op[i] = "read" /\ Enough(i)
  /\ \E l \in HighestInfo(i) :
       /\ label' = [label EXCEPT ![i] = l]
       /\ Communicate(i, "confirm", Msg("READ_CONFIRM", l))
  /\ UNCHANGED <<up, history>>

(* and return the label. *)
FinishRead(i) ==
  /\ i \in up /\ op[i] = "confirm" /\ Enough(i)
  /\ op' = [op EXCEPT ![i] = "idle"]
  /\ UNCHANGED <<label, status, info, acks, chan, up, history>>

(***************************************************************************)
(* receive_msg(msg): answer a request, and while an operation waits count  *)
(* the message, whatever it is.                                            *)
(***************************************************************************)
(* Mutant: a confirmation is not acknowledged. *)
AnswerNoConfirm(m, own) ==
  CASE m.type = "WRITE" -> <<Msg("WRITE_ACK", BOT)>>
    [] m.type = "READ_REQUEST" -> <<Msg("READ_REQUEST_ACK", own)>>
    [] OTHER -> <<>>

(* Mutant: the answer is one label ahead. *)
AnswerAhead(m, own) ==
  CASE m.type = "WRITE" -> <<Msg("WRITE_ACK", BOT)>>
    [] m.type = "READ_REQUEST" -> <<Msg("READ_REQUEST_ACK", own + 1)>>
    [] m.type = "READ_CONFIRM" -> <<Msg("READ_CONFIRM_ACK", BOT)>>
    [] OTHER -> <<>>

Answer(m, own) ==
  CASE m.type = "WRITE" -> <<Msg("WRITE_ACK", BOT)>>
    [] m.type = "READ_REQUEST" -> <<Msg("READ_REQUEST_ACK", own)>>
    [] m.type = "READ_CONFIRM" -> <<Msg("READ_CONFIRM_ACK", BOT)>>
    [] OTHER -> <<>>

Receive(i, j) ==
  /\ i \in up /\ i # j
  /\ chan[j][i] # <<>>
  /\ LET m == Head(chan[j][i])
         first == /\ op[i] # "idle" /\ m.type = "READ_REQUEST_ACK"
                  /\ j \notin status[i]
     IN  /\ label' = IF m.type \in {"WRITE", "READ_CONFIRM"}
                     THEN [label EXCEPT ![i] = Larger(m.label, label[i])]
                     ELSE label
         /\ chan' = [chan EXCEPT
              ![j] = [chan[j] EXCEPT ![i] = Tail(chan[j][i])],
              ![i] = [chan[i] EXCEPT ![j] =
                        IF j \in up THEN chan[i][j] \o Answer(m, label[i])
                                    ELSE chan[i][j]]]
         /\ status' = IF first THEN [status EXCEPT ![i] = status[i] \union {j}]
                               ELSE status
         /\ info' = IF first
                    THEN [info EXCEPT ![i] = [info[i] EXCEPT ![j] = m.label]]
                    ELSE info
  /\ acks' = IF op[i] # "idle" THEN [acks EXCEPT ![i] = acks[i] + 1] ELSE acks
  /\ UNCHANGED <<op, up, history>>

Crash(i) ==
  /\ i \in up \intersect Mortal
  /\ up' = up \ {i}
  /\ op' = [op EXCEPT ![i] = "idle"]
  /\ chan' = [j \in Node |-> [chan[j] EXCEPT ![i] = <<>>]]
  /\ UNCHANGED <<label, status, info, acks, history>>

Next ==
  \/ StartWrite \/ FinishWrite
  \/ \E i \in Readers : StartRead(i) \/ ConfirmRead(i) \/ FinishRead(i)
  \/ \E i \in Node : Crash(i) \/ \E j \in Node : Receive(i, j)

(* The waits poll once a second and messages arrive. *)
Fairness ==
  /\ WF_vars(FinishWrite)
  /\ \A i \in Readers : WF_vars(ConfirmRead(i)) /\ WF_vars(FinishRead(i))
  /\ \A i, j \in Node : WF_vars(Receive(i, j))

Spec == Init /\ [][Next]_vars /\ Fairness
-----------------------------------------------------------------------------
(***************************************************************************)
(* The register is atomic towards finished writes: a read that starts      *)
(* after a write has returned returns at least the label of that write.    *)
(***************************************************************************)
ReadsLatest ==
  [][\A i \in Readers : op[i] = "confirm" /\ op[i]' = "idle" /\ i \in up'
        => label[i] >= floor[i]]_vars

(* Every operation returns while all processors run. *)
OperationsReturn ==
  [](up = Node) => \A i \in Node : (op[i] # "idle" ~> op[i] = "idle")
=============================================================================
