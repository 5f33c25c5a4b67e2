------------------------------ MODULE ABDProofs ------------------------------
(***************************************************************************)
(* No label is made up: whatever is stored, answered or under way is at    *)
(* most the number of writes that have begun, for any number of processors *)
(* and of operations at the same time.  And where an operation waits for   *)
(* all others, as with four processors or fewer, operations that do not    *)
(* overlap make an atomic register.                                        *)
(***************************************************************************)
EXTENDS ABD, SequenceTheorems, FiniteSetTheorems, TLAPS

LEMMA InitType == Init => TypeOK
<1> SUFFICES ASSUME Init PROVE TypeOK
  OBVIOUS
<1>1. 0 \in Label /\ BOT \in Label
  BY DEF Init, Label, BOT
<1>2. chan \in [Node -> [Node -> Seq(Message)]]
  <2>1. <<>> \in Seq(Message)
    OBVIOUS
  <2> QED BY <2>1 DEF Init
<1> QED BY <1>1, <1>2, BoundsAssumption DEF Init, TypeOK

(* When another write begins, what was a label or a message still is one. *)
LEMMA MoreLabels ==
  ASSUME TypeOK, writes' \in 0..MaxWrites, writes' >= writes
  PROVE  /\ Label \subseteq Label'
         /\ [Node -> Label] \subseteq [Node -> Label']
         /\ [Node -> [Node -> Label]] \subseteq [Node -> [Node -> Label']]
         /\ [Node -> [Node -> Seq(Message)]]
              \subseteq [Node -> [Node -> Seq(Message')]]
<1>1. Label \subseteq Label'
  BY BoundsAssumption DEF Label, BOT, TypeOK
<1>2. Message \subseteq Message'
  BY <1>1 DEF Message, Kind
<1>3. Seq(Message) \subseteq Seq(Message')
  BY <1>2
<1>4. [Node -> Label] \subseteq [Node -> Label']
  BY <1>1
<1>5. [Node -> [Node -> Label]] \subseteq [Node -> [Node -> Label']]
  BY <1>4
<1>6. [Node -> Seq(Message)] \subseteq [Node -> Seq(Message')]
  BY <1>3
<1> QED BY <1>1, <1>4, <1>5, <1>6

(* What communicate() does keeps the types it touches. *)
LEMMA CommunicateType ==
  ASSUME TypeOK, NEW i \in Node,
         NEW phase \in {"idle", "write", "read", "confirm"}, NEW msg,
         msg \in Message', writes' \in 0..MaxWrites, writes' >= writes,
         Communicate(i, phase, msg)
  PROVE  /\ op' \in [Node -> {"idle", "write", "read", "confirm"}]
         /\ acks' \in [Node -> Nat]
         /\ status' \in [Node -> SUBSET Node]
         /\ info' \in [Node -> [Node -> Label']]
         /\ chan' \in [Node -> [Node -> Seq(Message')]]
<1>1. op' \in [Node -> {"idle", "write", "read", "confirm"}]
  BY DEF Communicate, TypeOK
<1>2. acks' \in [Node -> Nat] /\ status' \in [Node -> SUBSET Node]
  BY DEF Communicate, TypeOK
<1>3. info' \in [Node -> [Node -> Label']]
  <2>1. BOT \in Label'
    BY BoundsAssumption DEF Label, BOT
  <2>2. info \in [Node -> [Node -> Label']]
    BY MoreLabels DEF TypeOK
  <2> QED BY <2>1, <2>2 DEF Communicate
<1>4. chan' \in [Node -> [Node -> Seq(Message')]]
  <2>1. chan \in [Node -> [Node -> Seq(Message')]]
    BY MoreLabels DEF TypeOK
  <2>2. \A j \in Node : Append(chan[i][j], msg) \in Seq(Message')
    BY <2>1
  <2>3. [j \in Node |-> IF j \in up \ {i} THEN Append(chan[i][j], msg)
                                          ELSE chan[i][j]]
          \in [Node -> Seq(Message')]
    BY <2>1, <2>2
  <2> QED BY <2>1, <2>3 DEF Communicate
<1> QED BY <1>1, <1>2, <1>3, <1>4

LEMMA StartWriteType ==
  ASSUME TypeOK, StartWrite
  PROVE  TypeOK'
<1>1. 0 \in Node
  BY NAssumption DEF Node
<1>2. writes' \in 0..MaxWrites /\ writes' = writes + 1 /\ writes' >= writes
  BY BoundsAssumption DEF StartWrite, TypeOK
<1>3. label[0] + 1 \in Label'
  BY <1>1, <1>2, BoundsAssumption DEF TypeOK, Label, BOT
<1>4. Msg("WRITE", label[0] + 1) \in Message'
  BY <1>3 DEF Msg, Message, Kind
<1>5. Communicate(0, "write", Msg("WRITE", label[0] + 1))
  BY DEF StartWrite
<1>6. /\ op' \in [Node -> {"idle", "write", "read", "confirm"}]
      /\ acks' \in [Node -> Nat]
      /\ status' \in [Node -> SUBSET Node]
      /\ info' \in [Node -> [Node -> Label']]
      /\ chan' \in [Node -> [Node -> Seq(Message')]]
  BY <1>1, <1>2, <1>4, <1>5, CommunicateType
<1>7. label' \in [Node -> Label']
  <2>1. label \in [Node -> Label']
    BY <1>2, MoreLabels DEF TypeOK
  <2> QED BY <2>1, <1>3 DEF StartWrite
<1>8. written' \in Label' /\ floor' \in [Node -> Label']
  BY <1>2, MoreLabels DEF StartWrite, TypeOK
<1>9. up' \subseteq Node /\ reads' \in 0..MaxReads
  BY DEF StartWrite, TypeOK
<1> QED BY <1>2, <1>6, <1>7, <1>8, <1>9 DEF TypeOK

(* Steps that begin no write: the labels stay what they are. *)
LEMMA SameLabels ==
  ASSUME TypeOK, UNCHANGED writes
  PROVE  /\ Label' = Label /\ Message' = Message
         /\ writes' \in 0..MaxWrites /\ writes' >= writes
BY BoundsAssumption DEF TypeOK, Label, Message

LEMMA FinishWriteType ==
  ASSUME TypeOK, FinishWrite
  PROVE  TypeOK'
<1>1. 0 \in Node
  BY NAssumption DEF Node
<1>2. UNCHANGED writes
  BY DEF FinishWrite
<1>3. written' \in Label
  BY <1>1 DEF FinishWrite, TypeOK, Larger
<1>4. op' \in [Node -> {"idle", "write", "read", "confirm"}]
  BY DEF FinishWrite, TypeOK
<1> QED BY <1>2, <1>3, <1>4, SameLabels DEF FinishWrite, TypeOK

LEMMA StartReadType ==
  ASSUME TypeOK, NEW i \in Node, StartRead(i)
  PROVE  TypeOK'
<1>1. UNCHANGED writes
  BY DEF StartRead
<1>2. Msg("READ_REQUEST", BOT) \in Message'
  BY BoundsAssumption DEF Msg, Message, Kind, Label, BOT, TypeOK, StartRead
<1>3. /\ op' \in [Node -> {"idle", "write", "read", "confirm"}]
      /\ acks' \in [Node -> Nat]
      /\ status' \in [Node -> SUBSET Node]
      /\ info' \in [Node -> [Node -> Label']]
      /\ chan' \in [Node -> [Node -> Seq(Message')]]
  <2>1. Communicate(i, "read", Msg("READ_REQUEST", BOT))
    BY DEF StartRead
  <2> QED BY <1>1, <1>2, <2>1, SameLabels, CommunicateType
<1>4. floor' \in [Node -> Label] /\ reads' \in 0..MaxReads
  BY BoundsAssumption DEF StartRead, TypeOK
<1>5. UNCHANGED <<label, up, written>>
  BY DEF StartRead
<1> QED BY <1>1, <1>3, <1>4, <1>5, SameLabels DEF TypeOK

LEMMA ConfirmReadType ==
  ASSUME TypeOK, NEW i \in Node, ConfirmRead(i)
  PROVE  TypeOK'
<1>1. UNCHANGED <<up, written, floor, writes, reads>>
  BY DEF ConfirmRead, history
<1>2. PICK l \in HighestInfo(i) :
        /\ label' = [label EXCEPT ![i] = l]
        /\ Communicate(i, "confirm", Msg("READ_CONFIRM", l))
  BY DEF ConfirmRead
<1>3. l \in Label
  BY BoundsAssumption DEF HighestInfo, TypeOK, Label, BOT
<1>4. label' \in [Node -> Label]
  BY <1>2, <1>3 DEF TypeOK
<1>5. Msg("READ_CONFIRM", l) \in Message'
  BY <1>1, <1>3, SameLabels DEF Msg, Message, Kind
<1>6. /\ op' \in [Node -> {"idle", "write", "read", "confirm"}]
      /\ acks' \in [Node -> Nat]
      /\ status' \in [Node -> SUBSET Node]
      /\ info' \in [Node -> [Node -> Label']]
      /\ chan' \in [Node -> [Node -> Seq(Message')]]
  BY <1>1, <1>2, <1>5, SameLabels, CommunicateType
<1> QED BY <1>1, <1>4, <1>6, SameLabels DEF TypeOK

LEMMA FinishReadType ==
  ASSUME TypeOK, NEW i \in Node, FinishRead(i)
  PROVE  TypeOK'
<1>1. op' \in [Node -> {"idle", "write", "read", "confirm"}]
  BY DEF FinishRead, TypeOK
<1>2. UNCHANGED <<label, status, info, acks, chan, up, history, writes>>
  BY DEF FinishRead, history
<1> QED BY <1>1, <1>2, SameLabels DEF TypeOK, history

(* An answer carries the label of the processor that gives it, or none. *)
LEMMA AnswerType ==
  ASSUME TypeOK, NEW m \in Message, NEW own \in Label
  PROVE  Answer(m, own) \in Seq(Message)
<1>1. BOT \in Label
  BY BoundsAssumption DEF TypeOK, Label, BOT
<1>2. /\ Msg("WRITE_ACK", BOT) \in Message
      /\ Msg("READ_REQUEST_ACK", own) \in Message
      /\ Msg("READ_CONFIRM_ACK", BOT) \in Message
  BY <1>1 DEF Msg, Message, Kind
<1> QED BY <1>2 DEF Answer

LEMMA ReceiveType ==
  ASSUME TypeOK, NEW i \in Node, NEW j \in Node, Receive(i, j)
  PROVE  TypeOK'
<1> DEFINE m == Head(chan[j][i])
<1>1. m \in Message /\ m.label \in Label /\ label[i] \in Label
  <2>1. chan[j][i] \in Seq(Message) /\ chan[j][i] # <<>>
    BY DEF Receive, TypeOK
  <2>2. m \in Message
    BY <2>1
  <2>3. m.label \in Label
    <3> HIDE DEF m
    <3> QED BY <2>2 DEF Message
  <2> QED BY <2>2, <2>3 DEF TypeOK
<1>2. UNCHANGED <<op, up, written, floor, writes, reads>>
  BY DEF Receive, history
<1>3. label' \in [Node -> Label]
  BY <1>1 DEF Receive, TypeOK, Larger
<1>4. status' \in [Node -> SUBSET Node]
  BY DEF Receive, TypeOK
<1>5. info' \in [Node -> [Node -> Label]]
  BY <1>1 DEF Receive, TypeOK
<1>6. acks' \in [Node -> Nat]
  BY DEF Receive, TypeOK
<1>7. chan' \in [Node -> [Node -> Seq(Message)]]
  <2>1. Answer(m, label[i]) \in Seq(Message)
    BY <1>1, AnswerType
  <2>2. /\ i # j /\ chan[j][i] \in Seq(Message) /\ chan[i][j] \in Seq(Message)
        /\ chan[j][i] # <<>>
    BY DEF Receive, TypeOK
  <2>3. /\ Tail(chan[j][i]) \in Seq(Message)
        /\ chan[i][j] \o Answer(m, label[i]) \in Seq(Message)
    BY <2>1, <2>2
  <2> DEFINE answered == IF j \in up THEN chan[i][j] \o Answer(m, label[i])
                                     ELSE chan[i][j]
  <2>4. answered \in Seq(Message)
    BY <2>2, <2>3
  <2>5. chan' = [chan EXCEPT
              ![j] = [chan[j] EXCEPT ![i] = Tail(chan[j][i])],
              ![i] = [chan[i] EXCEPT ![j] = answered]]
    BY DEF Receive
  <2>6. /\ [chan[j] EXCEPT ![i] = Tail(chan[j][i])] \in [Node -> Seq(Message)]
        /\ [chan[i] EXCEPT ![j] = answered] \in [Node -> Seq(Message)]
    <3> HIDE DEF answered
    <3> QED BY <2>3, <2>4 DEF TypeOK
  <2> HIDE DEF answered
  <2> QED BY <2>5, <2>6 DEF TypeOK
<1> QED BY <1>2, <1>3, <1>4, <1>5, <1>6, <1>7, SameLabels DEF TypeOK

LEMMA CrashType ==
  ASSUME TypeOK, NEW i \in Node, Crash(i)
  PROVE  TypeOK'
<1>1. UNCHANGED <<label, status, info, acks, written, floor, writes, reads>>
  BY DEF Crash, history
<1>2. op' \in [Node -> {"idle", "write", "read", "confirm"}] /\ up' \subseteq Node
  BY DEF Crash, TypeOK
<1>3. chan' \in [Node -> [Node -> Seq(Message)]]
  <2>1. \A j \in Node : [chan[j] EXCEPT ![i] = <<>>] \in [Node -> Seq(Message)]
    BY DEF TypeOK
  <2> QED BY <2>1 DEF Crash
<1> QED BY <1>1, <1>2, <1>3, SameLabels DEF TypeOK

LEMMA NextType ==
  ASSUME TypeOK, [Next]_vars
  PROVE  TypeOK'
<1>1. CASE StartWrite
  BY <1>1, StartWriteType
<1>2. CASE FinishWrite
  BY <1>2, FinishWriteType
<1>3. CASE \E i \in Readers : StartRead(i) \/ ConfirmRead(i) \/ FinishRead(i)
  BY <1>3, ReadersAssumption, StartReadType, ConfirmReadType, FinishReadType
<1>4. CASE \E i \in Node : Crash(i)
  BY <1>4, CrashType
<1>5. CASE \E i, j \in Node : Receive(i, j)
  BY <1>5, ReceiveType
<1>6. CASE UNCHANGED vars
  BY <1>6, SameLabels DEF vars, processor, history, TypeOK
<1> QED BY <1>1, <1>2, <1>3, <1>4, <1>5, <1>6 DEF Next

(***************************************************************************)
(* Every label that a processor stores, reads, answers or has under way is *)
(* BOT or belongs to a write that has begun.                               *)
(***************************************************************************)
THEOREM LabelsExist == Spec => []TypeOK
<1>1. Init => TypeOK
  BY InitType
<1>2. TypeOK /\ [Next]_vars => TypeOK'
  BY NextType
<1> QED BY <1>1, <1>2, PTL DEF Spec
-----------------------------------------------------------------------------
(***************************************************************************)
(* ReadsLatest, for one operation at a time on at most four processors.    *)
(* More than half of N, counted among the N-1 others, is then all of them: *)
(* nothing of a phase is left over for the next one.  With five, a late    *)
(* answer is counted in the next phase, and ReadsLatest fails.             *)
(***************************************************************************)
Running(i) == op[i] # "idle"

Quiet(i, j) == chan[i][j] = <<>> /\ chan[j][i] = <<>>

(* Whom a message of this phase, or of a dead processor, still binds to i. *)
Busy(i) == {j \in Node \ {i} : \/ chan[j][i] # <<>>
                               \/ j \in up /\ chan[i][j] # <<>>}

OneRuns ==
  /\ \A i \in Node : Running(i) => i \in up
  /\ \A i, j \in Node : Running(i) /\ Running(j) => i = j

Requests == {"WRITE", "READ_REQUEST", "READ_CONFIRM"}

(* One message between two processors; between live ones, of who runs. *)
Links ==
  /\ \A i, j \in Node : i # j => Len(chan[i][j]) <= 1
  /\ \A i, j \in up : i # j =>
       /\ chan[i][j] = <<>> \/ chan[j][i] = <<>>
       /\ ~Running(i) /\ ~Running(j) => Quiet(i, j)
       /\ Running(i) /\ chan[j][i] # <<>>
            => Head(chan[j][i]).type \notin Requests

(* An answer is counted once. *)
Counted ==
  \A i \in Node : Running(i) => acks[i] + Cardinality(Busy(i)) <= N - 1

(* Who is alive knows what was written. *)
Stored ==
  /\ \A j \in up : op[j] # "confirm" => label[j] >= written
  /\ 0 \in up /\ op[0] # "write" => written = writes
  /\ op[0] = "write" => label[0] = writes
  /\ \A i \in Node : op[i] \in {"read", "confirm"} => floor[i] = written

WritePhase ==
  op[0] = "write" => \A j \in up \ {0} :
    IF chan[0][j] = <<>> THEN label[j] >= writes
    ELSE Head(chan[0][j]) = Msg("WRITE", writes)

ReadPhase ==
  \A i \in Node : op[i] = "read" => \A j \in up \ {i} :
    /\ chan[i][j] # <<>> => /\ Head(chan[i][j]).type = "READ_REQUEST"
                            /\ j \notin status[i]
    /\ chan[j][i] # <<>> => /\ Head(chan[j][i]).type = "READ_REQUEST_ACK"
                            /\ Head(chan[j][i]).label >= written
                            /\ j \notin status[i]
    /\ Quiet(i, j) => info[i][j] >= written

(* A confirmation that began while a processor was dead never ends. *)
ConfirmPhase ==
  \A i \in Node : op[i] = "confirm" =>
    \/ label[i] >= written
    \/ acks[i] + Cardinality(Busy(i)) < N - 1

ReadInv ==
  /\ OneRuns /\ Links /\ Counted
  /\ Stored /\ WritePhase /\ ReadPhase /\ ConfirmPhase

LEMMA NodeFinite ==
  /\ IsFiniteSet(Node) /\ Cardinality(Node) = N
  /\ \A i \in Node : /\ IsFiniteSet(Node \ {i})
                     /\ Cardinality(Node \ {i}) = N - 1
<1>1. IsFiniteSet(Node) /\ Cardinality(Node) = N
  BY FS_Interval, NAssumption DEF Node
<1> QED BY <1>1, FS_RemoveElement

LEMMA BusyBounded ==
  ASSUME NEW i \in Node
  PROVE  /\ IsFiniteSet(Busy(i))
         /\ Cardinality(Busy(i)) \in Nat
         /\ Cardinality(Busy(i)) <= N - 1
<1>1. Busy(i) \subseteq Node \ {i}
  BY DEF Busy
<1> QED BY <1>1, NodeFinite, FS_Subset, FS_CardinalityType

(* A step that leaves fewer messages about leaves fewer processors busy. *)
LEMMA FewerBusy ==
  ASSUME NEW i \in Node, Busy(i)' \subseteq Busy(i)
  PROVE  /\ Cardinality(Busy(i)') \in Nat
         /\ Cardinality(Busy(i)') <= Cardinality(Busy(i))
BY BusyBounded, FS_Subset, FS_CardinalityType

LEMMA OneLessBusy ==
  ASSUME NEW i \in Node, NEW j \in Busy(i), Busy(i)' \subseteq Busy(i) \ {j}
  PROVE  /\ Cardinality(Busy(i)') \in Nat
         /\ Cardinality(Busy(i)') + 1 <= Cardinality(Busy(i))
<1>1. /\ IsFiniteSet(Busy(i) \ {j})
      /\ Cardinality(Busy(i) \ {j}) = Cardinality(Busy(i)) - 1
  BY BusyBounded, FS_RemoveElement
<1> QED BY <1>1, BusyBounded, FS_Subset, FS_CardinalityType

(* The end of a wait: on four processors, more than half is all. *)
LEMMA EnoughIsAll ==
  ASSUME N <= 4, TypeOK, Counted, NEW i \in Node, Running(i), Enough(i)
  PROVE  /\ N >= 3 /\ acks[i] = N - 1
         /\ Busy(i) = {}
         /\ acks[i] + Cardinality(Busy(i)) = N - 1
         /\ \A j \in up \ {i} : Quiet(i, j)
<1>1. acks[i] \in Nat /\ acks[i] + Cardinality(Busy(i)) <= N - 1
  BY DEF Counted, TypeOK
<1>2. Cardinality(Busy(i)) = 0 /\ acks[i] = N - 1 /\ N >= 3
  BY <1>1, BusyBounded, NAssumption DEF Enough
<1>3. Busy(i) = {}
  BY <1>2, BusyBounded, FS_EmptySet
<1>4. \A j \in up \ {i} : Quiet(i, j)
  BY <1>3 DEF Busy, Quiet, TypeOK
<1> QED BY <1>1, <1>2, <1>3, <1>4

LEMMA ShortSequence ==
  ASSUME NEW S, NEW s \in Seq(S), s # <<>>, Len(s) <= 1
  PROVE  Tail(s) = <<>> /\ Head(s) \in S
OBVIOUS

LEMMA FirstMessage ==
  ASSUME NEW m
  PROVE  /\ Append(<<>>, m) = <<m>> /\ Len(<<m>>) = 1
         /\ Head(<<m>>) = m /\ <<m>> # <<>>
OBVIOUS

(* communicate() starts a phase when nothing is under way between live     *)
(* processors and no other operation runs.                                 *)
LEMMA PhaseBegins ==
  ASSUME TypeOK, Links, NEW i \in up, NEW phase, NEW msg,
         phase \in {"write", "read", "confirm"}, msg.type \in Requests,
         \A k \in Node \ {i} : ~Running(k),
         \A a, b \in up : a # b => Quiet(a, b),
         Communicate(i, phase, msg), UNCHANGED up
  PROVE  /\ OneRuns' /\ Links' /\ Counted'
         /\ op'[i] = phase
         /\ \A k \in Node \ {i} : op'[k] = op[k] /\ op'[k] = "idle"
         /\ \A j \in up \ {i} : /\ chan'[i][j] = <<msg>>
                                /\ chan'[j][i] = <<>>
         /\ status'[i] = {} /\ acks'[i] = 0
<1>1. i \in Node
  BY DEF TypeOK
<1>2. \A a, b \in Node :
        chan'[a][b] = IF a = i /\ b \in up \ {i} THEN Append(chan[a][b], msg)
                                                 ELSE chan[a][b]
  BY <1>1 DEF Communicate, TypeOK
<1>3. \A j \in up \ {i} : chan[i][j] = <<>> /\ chan[j][i] = <<>>
  BY DEF Quiet
<1>4. \A j \in up \ {i} : /\ chan'[i][j] = <<msg>>
                          /\ chan'[j][i] = <<>>
  <2> TAKE j \in up \ {i}
  <2>1. i \in Node /\ j \in Node /\ j # i
    BY <1>1 DEF TypeOK
  <2> QED BY <1>2, <1>3, <2>1, FirstMessage
<1>5. /\ op'[i] = phase
      /\ \A k \in Node \ {i} : op'[k] = op[k] /\ op'[k] = "idle"
  BY <1>1 DEF Communicate, Running, TypeOK
<1>6. status'[i] = {} /\ acks'[i] = 0
  BY <1>1 DEF Communicate, TypeOK
<1>7. OneRuns'
  BY <1>1, <1>5 DEF OneRuns, Running
<1>8. Links'
  <2>1. \A a, b \in Node : a # b => Len(chan'[a][b]) <= 1
    <3> TAKE a, b \in Node
    <3>1. CASE a = i /\ b \in up \ {i}
      <4>1. chan'[a][b] = <<msg>>
        BY <1>4, <3>1
      <4> QED BY <4>1, FirstMessage
    <3>2. CASE ~(a = i /\ b \in up \ {i})
      BY <1>2, <3>2 DEF Links
    <3> QED BY <3>1, <3>2
  <2>2. ASSUME NEW a \in up, NEW b \in up, a # b
        PROVE  /\ chan'[a][b] = <<>> \/ chan'[b][a] = <<>>
               /\ op'[a] = "idle" /\ op'[b] = "idle"
                    => chan'[a][b] = <<>> /\ chan'[b][a] = <<>>
               /\ op'[a] # "idle" => chan'[b][a] = <<>>
    <3>1. chan[a][b] = <<>> /\ chan[b][a] = <<>> /\ a \in Node /\ b \in Node
      BY <2>2 DEF Quiet, TypeOK
    <3> QED BY <1>2, <1>4, <1>5, <2>2, <3>1
  <2> QED BY <2>1, <2>2 DEF Links, Quiet, Running
<1>9. Counted'
  <2>1. Busy(i)' \subseteq Node \ {i}
    BY DEF Busy
  <2>2. Cardinality(Busy(i)') \in Nat /\ Cardinality(Busy(i)') <= N - 1
    BY <1>1, <2>1, NodeFinite, FS_Subset, FS_CardinalityType
  <2> QED BY <1>1, <1>5, <1>6, <2>2, NAssumption DEF Counted, Running
<1> QED BY <1>4, <1>5, <1>6, <1>7, <1>8, <1>9

(* With room for one operation, one begins when none runs. *)
LEMMA NoneRuns ==
  ASSUME MaxRunning <= 1, TypeOK, Links, NEW i \in Node, MayStart(i)
  PROVE  /\ \A k \in Node : ~Running(k)
         /\ \A a, b \in up : a # b => Quiet(a, b)
<1> DEFINE R == {j \in Node : op[j] # "idle"}
<1>1. Cardinality(R) < 1
  BY BoundsAssumption, NodeFinite, FS_Subset, FS_CardinalityType DEF MayStart
<1>2. R = {}
  <2>1. IsFiniteSet(R)
    BY NodeFinite, FS_Subset
  <2>2. Cardinality(R) = 0
    BY <1>1, <2>1, FS_CardinalityType
  <2> QED BY <2>1, <2>2, FS_EmptySet
<1> QED BY <1>2 DEF Running, Links, TypeOK

LEMMA StartWriteReads ==
  ASSUME MaxRunning <= 1, TypeOK, ReadInv, StartWrite
  PROVE  ReadInv'
<1>1. 0 \in up /\ 0 \in Node /\ UNCHANGED <<up, written, floor>>
  BY NAssumption DEF StartWrite, MayStart, Node
<1>2. /\ \A k \in Node : op[k] = "idle"
      /\ \A a, b \in up : a # b => Quiet(a, b)
  BY <1>1, NoneRuns DEF StartWrite, ReadInv, Running
<1> DEFINE msg == Msg("WRITE", label[0] + 1)
<1>3. msg.type \in Requests
  BY DEF Msg, Requests
<1>4. Communicate(0, "write", msg)
  BY DEF StartWrite
<1>5. /\ OneRuns' /\ Links' /\ Counted'
      /\ op'[0] = "write"
      /\ \A k \in Node \ {0} : op'[k] = "idle"
      /\ \A j \in up \ {0} : chan'[0][j] = <<msg>>
  <2> HIDE DEF msg
  <2> QED BY <1>1, <1>2, <1>3, <1>4, PhaseBegins DEF ReadInv, Running
<1>6. label[0] = writes
  <2>1. label[0] \in Label /\ label[0] >= written /\ written = writes
    BY <1>1, <1>2 DEF ReadInv, Stored, TypeOK
  <2> QED BY <2>1, BoundsAssumption DEF TypeOK, Label, BOT
<1>7. writes' = writes + 1 /\ label' = [label EXCEPT ![0] = writes + 1]
  BY <1>6 DEF StartWrite
<1>8. Stored'
  <2>1. \A j \in up : label'[j] >= label[j]
    BY <1>6, <1>7, BoundsAssumption DEF TypeOK, Label, BOT
  <2>2. \A j \in up : label[j] >= written
    BY <1>2 DEF ReadInv, Stored, TypeOK
  <2>3. \A j \in up : label'[j] >= written
    <3>1. \A j \in up : label[j] \in Int /\ label'[j] \in Int
      BY <1>1, <1>7, BoundsAssumption DEF TypeOK, Label, BOT
    <3>2. written \in Int
      BY BoundsAssumption DEF TypeOK, Label, BOT
    <3> QED BY <2>1, <2>2, <3>1, <3>2
  <2>4. label'[0] = writes'
    BY <1>1, <1>7 DEF TypeOK
  <2> QED BY <1>1, <1>5, <2>3, <2>4 DEF Stored
<1>9. WritePhase'
  <2>1. msg = Msg("WRITE", writes')
    BY <1>6, <1>7
  <2>2. \A j \in up \ {0} : chan'[0][j] # <<>> /\ Head(chan'[0][j]) = msg
    BY <1>5
  <2> HIDE DEF msg
  <2> QED BY <1>1, <2>1, <2>2 DEF WritePhase, Msg
<1>10. ReadPhase' /\ ConfirmPhase'
  BY <1>5 DEF ReadPhase, ConfirmPhase
<1> QED BY <1>5, <1>8, <1>9, <1>10 DEF ReadInv

LEMMA StartReadReads ==
  ASSUME MaxRunning <= 1, TypeOK, ReadInv, NEW i \in Node, StartRead(i)
  PROVE  ReadInv'
<1>1. i \in up /\ UNCHANGED <<up, written, label, writes>>
  BY DEF StartRead, MayStart
<1>2. /\ \A k \in Node : op[k] = "idle"
      /\ \A a, b \in up : a # b => Quiet(a, b)
  BY NoneRuns DEF StartRead, ReadInv, Running
<1> DEFINE msg == Msg("READ_REQUEST", BOT)
<1>3. msg.type = "READ_REQUEST" /\ msg.type \in Requests
  BY DEF Msg, Requests
<1>4. Communicate(i, "read", msg)
  BY DEF StartRead
<1> HIDE DEF msg
<1>5. /\ OneRuns' /\ Links' /\ Counted'
      /\ op'[i] = "read"
      /\ \A k \in Node \ {i} : op'[k] = "idle"
      /\ \A j \in up \ {i} : chan'[i][j] = <<msg>> /\ chan'[j][i] = <<>>
      /\ status'[i] = {}
  BY <1>1, <1>2, <1>3, <1>4, PhaseBegins DEF ReadInv, Running
<1>6. Stored'
  <2>1. \A k \in Node : op'[k] \in {"read", "confirm"} => floor'[k] = written
    BY <1>5 DEF StartRead, TypeOK
  <2>2. op'[0] # "write"
    BY <1>5, NAssumption DEF Node
  <2>3. 0 \in up => written = writes
    BY <1>2 DEF ReadInv, Stored, TypeOK
  <2>4. \A j \in up : label[j] >= written
    BY <1>2 DEF ReadInv, Stored, TypeOK
  <2> QED BY <1>1, <2>1, <2>2, <2>3, <2>4 DEF Stored
<1>7. ReadPhase'
  <2>1. \A k \in Node : op'[k] = "read" => k = i
    BY <1>5
  <2>2. \A j \in up \ {i} : chan'[i][j] # <<>> /\ Head(chan'[i][j]) = msg
    BY <1>5
  <2> QED BY <1>1, <1>3, <1>5, <2>1, <2>2 DEF ReadPhase, Quiet
<1>8. WritePhase' /\ ConfirmPhase'
  BY <1>5, NAssumption DEF WritePhase, ConfirmPhase, Node
<1> QED BY <1>5, <1>6, <1>7, <1>8 DEF ReadInv

(* An operation ends when all have answered: then nobody runs one. *)
LEMMA PhaseEnds ==
  ASSUME N <= 4, TypeOK, OneRuns, Links, Counted, NEW i \in Node, Running(i),
         Enough(i)
  PROVE  /\ \A a, b \in up : a # b => Quiet(a, b)
         /\ \A k \in Node \ {i} : ~Running(k)
         /\ op' = [op EXCEPT ![i] = "idle"] /\ UNCHANGED <<chan, up, acks>>
              => /\ OneRuns' /\ Links' /\ Counted'
                 /\ \A k \in Node : op'[k] = "idle"
<1>1. \A k \in Node \ {i} : ~Running(k)
  BY DEF OneRuns
<1>2. \A a, b \in up : a # b => Quiet(a, b)
  <2> SUFFICES ASSUME NEW a \in up, NEW b \in up, a # b
               PROVE  Quiet(a, b)
    OBVIOUS
  <2>1. a \in Node /\ b \in Node
    BY DEF TypeOK
  <2>2. CASE a = i
    BY <2>2, EnoughIsAll
  <2>3. CASE b = i
    BY <2>3, EnoughIsAll DEF Quiet
  <2>4. CASE a # i /\ b # i
    BY <1>1, <2>1, <2>4 DEF Links
  <2> QED BY <2>2, <2>3, <2>4
<1>3. ASSUME op' = [op EXCEPT ![i] = "idle"], UNCHANGED <<chan, up, acks>>
      PROVE  /\ OneRuns' /\ Links' /\ Counted'
             /\ \A k \in Node : op'[k] = "idle"
  <2>1. \A k \in Node : op'[k] = "idle"
    BY <1>1, <1>3 DEF Running, TypeOK
  <2>2. up' = up /\ up \subseteq Node /\ chan' = chan
    BY <1>3 DEF TypeOK
  <2>3. Links'
    BY <1>2, <2>1, <2>2 DEF Links, Running, Quiet
  <2> QED BY <2>1, <2>3 DEF OneRuns, Counted, Running
<1> QED BY <1>1, <1>2, <1>3

LEMMA FinishWriteReads ==
  ASSUME N <= 4, TypeOK, ReadInv, FinishWrite
  PROVE  ReadInv'
<1>1. /\ 0 \in Node /\ 0 \in up /\ op[0] = "write" /\ Running(0) /\ Enough(0)
      /\ UNCHANGED <<label, up, chan, acks, writes, floor>>
      /\ op' = [op EXCEPT ![0] = "idle"]
  BY NAssumption DEF FinishWrite, Node, Running
<1>2. /\ OneRuns' /\ Links' /\ Counted'
      /\ \A k \in Node : op'[k] = "idle"
  BY <1>1, PhaseEnds DEF ReadInv
<1>3. \A j \in up : label[j] >= writes
  <2>1. \A j \in up \ {0} : Quiet(0, j)
    BY <1>1, EnoughIsAll DEF ReadInv
  <2>2. \A j \in up \ {0} : label[j] >= writes
    BY <1>1, <2>1 DEF ReadInv, WritePhase, Quiet
  <2>3. label[0] >= writes
    BY <1>1, BoundsAssumption DEF ReadInv, Stored, TypeOK
  <2> QED BY <2>2, <2>3
<1>4. written' = writes
  <2>1. label[0] = writes /\ written \in Label
    BY <1>1 DEF ReadInv, Stored, TypeOK
  <2> QED BY <2>1, BoundsAssumption
        DEF FinishWrite, Larger, TypeOK, Label, BOT
<1>5. Stored'
  BY <1>1, <1>2, <1>3, <1>4 DEF Stored
<1>6. WritePhase' /\ ReadPhase' /\ ConfirmPhase'
  BY <1>1, <1>2 DEF WritePhase, ReadPhase, ConfirmPhase
<1> QED BY <1>2, <1>5, <1>6 DEF ReadInv

LEMMA FinishReadReads ==
  ASSUME N <= 4, TypeOK, ReadInv, NEW i \in Node, FinishRead(i)
  PROVE  ReadInv' /\ label[i] >= floor[i]
<1>1. /\ i \in up /\ op[i] = "confirm" /\ Running(i) /\ Enough(i)
      /\ UNCHANGED <<label, up, chan, acks, writes, floor, written>>
      /\ op' = [op EXCEPT ![i] = "idle"]
  BY DEF FinishRead, Running, history
<1>2. /\ OneRuns' /\ Links' /\ Counted'
      /\ \A k \in Node : op'[k] = "idle"
  BY <1>1, PhaseEnds DEF ReadInv
<1>3. label[i] >= written /\ floor[i] = written
  <2>1. acks[i] + Cardinality(Busy(i)) = N - 1
    BY <1>1, EnoughIsAll DEF ReadInv
  <2> QED BY <1>1, <2>1, BusyBounded, NAssumption
        DEF ReadInv, ConfirmPhase, Stored
<1>4. Stored'
  <2>1. \A j \in up : label[j] >= written
    <3>1. \A j \in up \ {i} : op[j] # "confirm"
      BY <1>1 DEF ReadInv, OneRuns, Running, TypeOK
    <3> QED BY <1>3, <3>1 DEF ReadInv, Stored
  <2>2. 0 \in up => op[0] # "write"
    BY <1>1 DEF ReadInv, OneRuns, Running, TypeOK
  <2>3. 0 \in up => written = writes
    BY <2>2 DEF ReadInv, Stored
  <2>4. 0 \in Node
    BY NAssumption DEF Node
  <2> QED BY <1>1, <1>2, <2>1, <2>3, <2>4 DEF Stored
<1>5. WritePhase' /\ ReadPhase' /\ ConfirmPhase'
  BY <1>2, NAssumption DEF WritePhase, ReadPhase, ConfirmPhase, Node
<1> QED BY <1>2, <1>3, <1>4, <1>5 DEF ReadInv

(* The label to confirm is the highest that anyone but the writer gave. *)
LEMMA HighestIsHigh ==
  ASSUME TypeOK, NEW i \in Node, NEW l \in HighestInfo(i),
         NEW j \in Node \ {0}
  PROVE  l >= info[i][j] /\ l \in Label
<1> DEFINE known == {info[i][k] : k \in Node \ {0}} \union {-1}
<1>1. info[i][j] \in known
  OBVIOUS
<1>2. l \in known /\ \A k \in known : k <= l
  BY DEF HighestInfo
<1>3. \A k \in known : k \in Label
  BY BoundsAssumption DEF TypeOK, Label, BOT
<1> HIDE DEF known
<1> QED BY <1>1, <1>2, <1>3, BoundsAssumption DEF Label, BOT, TypeOK

LEMMA ConfirmReadReads ==
  ASSUME N <= 4, TypeOK, ReadInv, NEW i \in Node, ConfirmRead(i)
  PROVE  ReadInv'
<1>1. /\ i \in up /\ op[i] = "read" /\ Running(i) /\ Enough(i)
      /\ UNCHANGED <<up, written, floor, writes>>
  BY DEF ConfirmRead, Running, history
<1>2. PICK l \in HighestInfo(i) :
        /\ label' = [label EXCEPT ![i] = l]
        /\ Communicate(i, "confirm", Msg("READ_CONFIRM", l))
  BY DEF ConfirmRead
<1> DEFINE msg == Msg("READ_CONFIRM", l)
<1>3. msg.type \in Requests
  BY DEF Msg, Requests
<1>4. /\ \A a, b \in up : a # b => Quiet(a, b)
      /\ \A k \in Node \ {i} : ~Running(k)
  BY <1>1, PhaseEnds DEF ReadInv
<1>5. /\ OneRuns' /\ Links' /\ Counted'
      /\ op'[i] = "confirm"
      /\ \A k \in Node \ {i} : op'[k] = op[k] /\ op'[k] = "idle"
      /\ acks'[i] = 0
  <2>1. Communicate(i, "confirm", msg)
    BY <1>2
  <2> HIDE DEF msg
  <2> QED BY <1>1, <1>3, <1>4, <2>1, PhaseBegins DEF ReadInv
<1>6. 0 \in Node
  BY NAssumption DEF Node
<1>7. Stored'
  <2>1. \A j \in up : op'[j] # "confirm" => label'[j] >= written
    BY <1>2, <1>5 DEF ReadInv, Stored, TypeOK
  <2>2. 0 \in up => written = writes
    BY <1>1, <1>5, <1>6 DEF ReadInv, Stored
  <2>3. op'[0] # "write"
    BY <1>5, <1>6
  <2>4. \A k \in Node : op'[k] \in {"read", "confirm"} => floor'[k] = written'
    BY <1>1, <1>5 DEF ReadInv, Stored
  <2> QED BY <1>1, <2>1, <2>2, <2>3, <2>4 DEF Stored
<1>8. ConfirmPhase'
  <2>1. N >= 3 /\ Busy(i) = {} /\ \A j \in up \ {i} : Quiet(i, j)
    BY <1>1, EnoughIsAll DEF ReadInv
  <2>2. PICK d \in Node : d # 0 /\ d # i
    <3>1. {0, 1, 2} \subseteq Node
      BY <2>1, NAssumption DEF Node
    <3> QED BY <3>1
  <2>3. CASE d \in up
    <3>1. info[i][d] >= written
      BY <1>1, <2>1, <2>2, <2>3 DEF ReadInv, ReadPhase
    <3>2. l >= info[i][d] /\ l \in Label /\ info[i][d] \in Label
      BY <2>2, HighestIsHigh DEF TypeOK
    <3>3. label'[i] >= written'
      <4>1. label'[i] = l /\ written' = written
        BY <1>1, <1>2 DEF TypeOK
      <4>2. l \in Int /\ info[i][d] \in Int /\ written \in Int
        BY <3>2, BoundsAssumption DEF TypeOK, Label, BOT
      <4> QED BY <3>1, <3>2, <4>1, <4>2
    <3> QED BY <1>5, <3>3 DEF ConfirmPhase
  <2>4. CASE d \notin up
    <3>1. Busy(i)' \subseteq (Node \ {i}) \ {d}
      <4>1. \A j \in Node \ {i} : chan'[j][i] = chan[j][i]
        BY <1>2 DEF Communicate, TypeOK
      <4>2. chan[d][i] = <<>>
        BY <2>1, <2>2 DEF Busy
      <4> QED BY <1>1, <2>2, <2>4, <4>1, <4>2 DEF Busy
    <3>2. /\ IsFiniteSet((Node \ {i}) \ {d})
          /\ Cardinality((Node \ {i}) \ {d}) = N - 2
      <4>1. d \in Node \ {i}
        BY <2>2
      <4>2. /\ IsFiniteSet((Node \ {i}) \ {d})
            /\ Cardinality((Node \ {i}) \ {d}) = Cardinality(Node \ {i}) - 1
        BY <4>1, NodeFinite, FS_RemoveElement
      <4> QED BY <4>2, NodeFinite, NAssumption
    <3>3. Cardinality(Busy(i)') \in Nat /\ Cardinality(Busy(i)') <= N - 2
      BY <3>1, <3>2, FS_Subset, FS_CardinalityType
    <3>4. acks'[i] + Cardinality(Busy(i)') < N - 1
      BY <1>5, <3>3, NAssumption
    <3> QED BY <1>5, <3>4 DEF ConfirmPhase
  <2> QED BY <2>3, <2>4
<1>9. WritePhase' /\ ReadPhase'
  BY <1>5, <1>6 DEF WritePhase, ReadPhase
<1> QED BY <1>5, <1>7, <1>8, <1>9 DEF ReadInv

(* No answer is answered. *)
LEMMA AnswerShape ==
  ASSUME TypeOK, NEW m \in Message, NEW own
  PROVE  /\ Len(Answer(m, own)) <= 1
         /\ Answer(m, own) # <<>> =>
              /\ m.type \in Requests
              /\ Head(Answer(m, own)).type \notin Requests
         /\ m.type = "READ_REQUEST" =>
              /\ Answer(m, own) # <<>>
              /\ Head(Answer(m, own)) = Msg("READ_REQUEST_ACK", own)
<1>1. Answer(m, own) \in {<<>>, <<Msg("WRITE_ACK", BOT)>>,
                          <<Msg("READ_REQUEST_ACK", own)>>,
                          <<Msg("READ_CONFIRM_ACK", BOT)>>}
  BY DEF Answer
<1>2. /\ Len(<<Msg("WRITE_ACK", BOT)>>) <= 1
      /\ Len(<<Msg("READ_REQUEST_ACK", own)>>) <= 1
      /\ Len(<<Msg("READ_CONFIRM_ACK", BOT)>>) <= 1
      /\ Len(<<>>) <= 1
  OBVIOUS
<1>3. /\ Head(<<Msg("WRITE_ACK", BOT)>>).type \notin Requests
      /\ Head(<<Msg("READ_REQUEST_ACK", own)>>).type \notin Requests
      /\ Head(<<Msg("READ_CONFIRM_ACK", BOT)>>).type \notin Requests
  BY FirstMessage DEF Msg, Requests
<1>4. Answer(m, own) # <<>> => m.type \in Requests
  BY DEF Answer, Requests
<1>5. m.type = "READ_REQUEST"
        => Answer(m, own) = <<Msg("READ_REQUEST_ACK", own)>>
  BY DEF Answer
<1> HIDE DEF Answer
<1>6. Len(Answer(m, own)) <= 1
  BY <1>1, <1>2
<1>7. Answer(m, own) # <<>> => Head(Answer(m, own)).type \notin Requests
  BY <1>1, <1>3
<1> QED BY <1>4, <1>5, <1>6, <1>7, FirstMessage

(* What a receipt changes. *)
LEMMA ReceiptEffect ==
  ASSUME TypeOK, Links, NEW i \in Node, NEW j \in Node, Receive(i, j),
         NEW m, m = Head(chan[j][i])
  PROVE  /\ i \in up /\ i # j /\ chan[j][i] # <<>> /\ m \in Message
         /\ UNCHANGED <<op, up, written, floor, writes>>
         /\ chan'[j][i] = <<>>
         /\ j \in up => chan[i][j] = <<>> /\ chan'[i][j] = Answer(m, label[i])
         /\ j \notin up => chan'[i][j] = chan[i][j]
         /\ \A a, b \in Node : ~(a = i /\ b = j) /\ ~(a = j /\ b = i)
              => chan'[a][b] = chan[a][b]
         /\ \A k \in Node : label'[k] >= label[k]
         /\ m.type \in {"WRITE", "READ_CONFIRM"} => label'[i] >= m.label
         /\ \A k \in Node \ {i} : /\ label'[k] = label[k]
                                  /\ status'[k] = status[k]
                                  /\ info'[k] = info[k]
                                  /\ acks'[k] = acks[k]
         /\ acks'[i] = IF Running(i) THEN acks[i] + 1 ELSE acks[i]
         /\ status'[i] \subseteq status[i] \union {j}
         /\ \A k \in Node \ {j} : info'[i][k] = info[i][k]
         /\ /\ Running(i) /\ m.type = "READ_REQUEST_ACK" /\ j \notin status[i]
            => info'[i][j] = m.label
<1>1. /\ i \in up /\ i # j /\ chan[j][i] # <<>>
      /\ UNCHANGED <<op, up, written, floor, writes>>
  BY DEF Receive, history
<1>2. m \in Message /\ Tail(chan[j][i]) = <<>>
  <2>1. chan[j][i] \in Seq(Message) /\ Len(chan[j][i]) <= 1
    BY <1>1 DEF Links, TypeOK
  <2> QED BY <1>1, <2>1, ShortSequence
<1>3. j \in up => chan[i][j] = <<>>
  BY <1>1 DEF Links
<1> DEFINE answered == IF j \in up THEN chan[i][j] \o Answer(m, label[i])
                                   ELSE chan[i][j]
<1>4. /\ chan'[j][i] = <<>> /\ chan'[i][j] = answered
      /\ \A a, b \in Node : ~(a = i /\ b = j) /\ ~(a = j /\ b = i)
           => chan'[a][b] = chan[a][b]
  <2>1. chan' = [chan EXCEPT
              ![j] = [chan[j] EXCEPT ![i] = <<>>],
              ![i] = [chan[i] EXCEPT ![j] = answered]]
    BY <1>2 DEF Receive
  <2> HIDE DEF answered
  <2> QED BY <1>1, <2>1 DEF TypeOK
<1>5. j \in up => chan'[i][j] = Answer(m, label[i])
  <2>1. Answer(m, label[i]) \in Seq(Message)
    BY <1>2, AnswerType DEF TypeOK
  <2>2. <<>> \o Answer(m, label[i]) = Answer(m, label[i])
    <3> HIDE DEF Answer
    <3> QED BY <2>1
  <2> QED BY <1>3, <1>4, <2>2
<1>6. m.label \in Int /\ \A k \in Node : label[k] \in Int
  <2>1. m.label \in Label
    BY <1>2 DEF Message
  <2>2. Label \subseteq Int
    BY BoundsAssumption DEF TypeOK, Label, BOT
  <2> QED BY <2>1, <2>2 DEF TypeOK
<1>7. /\ \A k \in Node : label'[k] >= label[k]
      /\ \A k \in Node \ {i} : label'[k] = label[k]
      /\ m.type \in {"WRITE", "READ_CONFIRM"} => label'[i] >= m.label
  <2>1. label' = IF m.type \in {"WRITE", "READ_CONFIRM"}
                 THEN [label EXCEPT ![i] = Larger(m.label, label[i])]
                 ELSE label
    BY DEF Receive
  <2>2. Larger(m.label, label[i]) >= m.label
          /\ Larger(m.label, label[i]) >= label[i]
    BY <1>6 DEF Larger
  <2> QED BY <1>6, <2>1, <2>2 DEF TypeOK
<1>8. /\ \A k \in Node \ {i} : acks'[k] = acks[k]
      /\ acks'[i] = IF Running(i) THEN acks[i] + 1 ELSE acks[i]
  BY DEF Receive, Running, TypeOK
<1> DEFINE first == Running(i) /\ m.type = "READ_REQUEST_ACK" /\ j \notin status[i]
<1>9. /\ status' = IF first THEN [status EXCEPT ![i] = status[i] \union {j}]
                            ELSE status
      /\ info' = IF first
                 THEN [info EXCEPT ![i] = [info[i] EXCEPT ![j] = m.label]]
                 ELSE info
  BY DEF Receive, Running
<1>10. /\ \A k \in Node \ {i} : status'[k] = status[k] /\ info'[k] = info[k]
       /\ status'[i] \subseteq status[i] \union {j}
       /\ \A k \in Node \ {j} : info'[i][k] = info[i][k]
       /\ first => info'[i][j] = m.label
  <2> HIDE DEF first
  <2> QED BY <1>9 DEF TypeOK
<1> QED BY <1>1, <1>2, <1>3, <1>4, <1>5, <1>7, <1>8, <1>10

(* A receipt counts one more answer and leaves one processor less busy. *)
LEMMA ReceiptCounts ==
  ASSUME TypeOK, OneRuns, Links, NEW i \in Node, NEW j \in Node, Receive(i, j),
         NEW k \in Node, Running(k)
  PROVE  /\ acks'[k] \in Nat /\ Cardinality(Busy(k)') \in Nat
         /\ acks'[k] + Cardinality(Busy(k)') <= acks[k] + Cardinality(Busy(k))
<1> DEFINE m == Head(chan[j][i])
<1>1. /\ i \in up /\ i # j /\ chan[j][i] # <<>> /\ m \in Message
      /\ up' = up
      /\ chan'[j][i] = <<>>
      /\ j \in up => chan'[i][j] = Answer(m, label[i])
      /\ j \notin up => chan'[i][j] = chan[i][j]
      /\ \A a, b \in Node : ~(a = i /\ b = j) /\ ~(a = j /\ b = i)
           => chan'[a][b] = chan[a][b]
      /\ \A x \in Node \ {i} : acks'[x] = acks[x]
      /\ acks'[i] = IF Running(i) THEN acks[i] + 1 ELSE acks[i]
  BY ReceiptEffect
<1>2. acks[k] \in Nat /\ Cardinality(Busy(k)) \in Nat
  BY BusyBounded DEF TypeOK
<1>3. CASE k = i
  <2>1. j \in Busy(i)
    BY <1>1 DEF Busy
  <2>2. j \notin Busy(i)'
    <3>1. j \in up => m.type \notin Requests
      BY <1>1, <1>3 DEF Links
    <3>2. j \in up => chan'[i][j] = <<>>
      BY <1>1, <3>1, AnswerShape
    <3> QED BY <1>1, <3>2 DEF Busy
  <2>3. Busy(i)' \subseteq Busy(i) \ {j}
    BY <1>1, <2>2 DEF Busy
  <2>4. /\ Cardinality(Busy(i)') \in Nat
        /\ Cardinality(Busy(i)') + 1 <= Cardinality(Busy(i))
    BY <2>1, <2>3, OneLessBusy
  <2>5. acks'[i] = acks[i] + 1
    BY <1>1, <1>3
  <2> QED BY <1>2, <1>3, <2>4, <2>5
<1>4. CASE k # i
  <2>1. Busy(k)' \subseteq Busy(k)
    BY <1>1, <1>4 DEF Busy
  <2>2. acks'[k] = acks[k]
    BY <1>1, <1>4
  <2> QED BY <1>2, <2>1, <2>2, FewerBusy
<1> QED BY <1>3, <1>4

LEMMA ReceiveReads ==
  ASSUME N <= 4, TypeOK, ReadInv, NEW i \in Node, NEW j \in Node, Receive(i, j)
  PROVE  ReadInv'
<1> DEFINE m == Head(chan[j][i])
<1>1. /\ i \in up /\ i # j /\ chan[j][i] # <<>> /\ m \in Message
      /\ UNCHANGED <<op, up, written, floor, writes>>
      /\ chan'[j][i] = <<>>
      /\ j \in up => chan[i][j] = <<>> /\ chan'[i][j] = Answer(m, label[i])
      /\ j \notin up => chan'[i][j] = chan[i][j]
      /\ \A a, b \in Node : ~(a = i /\ b = j) /\ ~(a = j /\ b = i)
           => chan'[a][b] = chan[a][b]
      /\ \A k \in Node : label'[k] >= label[k]
      /\ m.type \in {"WRITE", "READ_CONFIRM"} => label'[i] >= m.label
      /\ \A k \in Node \ {i} : /\ label'[k] = label[k]
                               /\ status'[k] = status[k]
                               /\ info'[k] = info[k]
      /\ status'[i] \subseteq status[i] \union {j}
      /\ \A k \in Node \ {j} : info'[i][k] = info[i][k]
      /\ /\ Running(i) /\ m.type = "READ_REQUEST_ACK" /\ j \notin status[i]
         => info'[i][j] = m.label
  BY ReceiptEffect DEF ReadInv
<1>2. /\ Len(Answer(m, label[i])) <= 1
      /\ Answer(m, label[i]) # <<>> =>
           /\ m.type \in Requests
           /\ Head(Answer(m, label[i])).type \notin Requests
      /\ m.type = "READ_REQUEST" =>
           /\ Answer(m, label[i]) # <<>>
           /\ Head(Answer(m, label[i])) = Msg("READ_REQUEST_ACK", label[i])
  BY <1>1, AnswerShape
<1>3. \A k \in Node : label[k] \in Int /\ label'[k] \in Int
  <2>1. TypeOK'
    BY ReceiveType
  <2>2. Label \subseteq Int
    BY BoundsAssumption DEF TypeOK, Label, BOT
  <2>3. Label' \subseteq Int
    BY <2>1, BoundsAssumption DEF TypeOK, Label, BOT
  <2> QED BY <2>1, <2>2, <2>3 DEF TypeOK
<1>4. up \subseteq Node /\ written \in Int /\ writes \in Int /\ 0 \in Node
  BY BoundsAssumption, NAssumption DEF TypeOK, Label, BOT, Node
<1> HIDE DEF m
<1>5. OneRuns'
  BY <1>1 DEF ReadInv, OneRuns, Running
<1>6. Links'
  <2>1. \A a, b \in Node : a # b => Len(chan'[a][b]) <= 1
    <3>1. Len(<<>>) <= 1
      OBVIOUS
    <3> QED BY <1>1, <1>2, <3>1 DEF ReadInv, Links
  <2>2. ASSUME NEW a \in up, NEW b \in up, a # b
        PROVE  /\ chan'[a][b] = <<>> \/ chan'[b][a] = <<>>
               /\ ~Running(a) /\ ~Running(b)
                    => chan'[a][b] = <<>> /\ chan'[b][a] = <<>>
               /\ Running(a) /\ chan'[b][a] # <<>>
                    => Head(chan'[b][a]).type \notin Requests
    <3>1. a \in Node /\ b \in Node
      BY <1>4
    <3>2. CASE a = i /\ b = j
      <4>1. Running(i) \/ Running(j)
        BY <1>1, <2>2, <3>2 DEF ReadInv, Links, Quiet
      <4> QED BY <1>1, <2>2, <3>2, <4>1
    <3>3. CASE a = j /\ b = i
      <4>1. Running(i) \/ Running(j)
        BY <1>1, <2>2, <3>3 DEF ReadInv, Links, Quiet
      <4> QED BY <1>1, <1>2, <2>2, <3>3, <4>1
    <3>4. CASE ~(a = i /\ b = j) /\ ~(a = j /\ b = i)
      <4>1. chan'[a][b] = chan[a][b] /\ chan'[b][a] = chan[b][a]
        BY <1>1, <3>1, <3>4
      <4> QED BY <2>2, <4>1 DEF ReadInv, Links, Quiet
    <3> QED BY <3>2, <3>3, <3>4
  <2> QED BY <1>1, <2>1, <2>2 DEF Links, Running, Quiet
<1>7. ASSUME NEW k \in Node, Running(k)
      PROVE  /\ acks[k] \in Nat /\ Cardinality(Busy(k)) \in Nat
             /\ acks'[k] \in Nat /\ Cardinality(Busy(k)') \in Nat
             /\ acks'[k] + Cardinality(Busy(k)')
                  <= acks[k] + Cardinality(Busy(k))
  BY <1>7, ReceiptCounts, BusyBounded DEF ReadInv, TypeOK
<1>8. Counted'
  BY <1>1, <1>7, NAssumption DEF ReadInv, Counted, Running
<1>9. Stored'
  <2>1. \A x \in up : op[x] # "confirm" => label'[x] >= written
    BY <1>1, <1>3, <1>4 DEF ReadInv, Stored
  <2>2. op[0] = "write" => label'[0] = writes
    <3>1. label'[0] \in Label /\ label[0] \in Label
      BY <1>1, <1>4, ReceiveType DEF TypeOK, Label
    <3>2. label'[0] <= writes
      BY <1>4, <3>1 DEF Label, BOT
    <3> QED BY <1>1, <1>3, <1>4, <3>2 DEF ReadInv, Stored
  <2> QED BY <1>1, <2>1, <2>2 DEF ReadInv, Stored
<1>10. WritePhase'
  <2> SUFFICES ASSUME op[0] = "write", NEW x \in up, x # 0
               PROVE  IF chan'[0][x] = <<>> THEN label'[x] >= writes
                      ELSE Head(chan'[0][x]) = Msg("WRITE", writes)
    BY <1>1 DEF WritePhase, Msg
  <2>1. x \in Node /\ Running(0) /\ 0 \in up
    BY <1>4 DEF ReadInv, OneRuns, Running
  <2>2. IF chan[0][x] = <<>> THEN label[x] >= writes
        ELSE Head(chan[0][x]) = Msg("WRITE", writes)
    BY DEF ReadInv, WritePhase
  <2>3. CASE i = x /\ j = 0
    <3>1. m = Msg("WRITE", writes)
      BY <1>1, <2>2, <2>3 DEF m
    <3> QED BY <1>1, <2>3, <3>1 DEF Msg
  <2>4. CASE i = 0 /\ j = x
    <3>1. m.type \notin Requests
      BY <1>1, <2>1, <2>4 DEF ReadInv, Links, m
    <3>2. chan'[0][x] = <<>> /\ chan[0][x] = <<>>
      BY <1>1, <1>2, <2>4, <3>1
    <3>3. label'[x] = label[x]
      BY <1>1, <2>1, <2>4
    <3> QED BY <2>2, <3>2, <3>3
  <2>5. CASE ~(i = x /\ j = 0) /\ ~(i = 0 /\ j = x)
    <3>1. chan'[0][x] = chan[0][x]
      BY <1>1, <1>4, <2>1, <2>5
    <3> QED BY <1>1, <1>3, <1>4, <2>1, <2>2, <3>1
  <2> QED BY <2>3, <2>4, <2>5
<1>11. ReadPhase'
  <2> SUFFICES ASSUME NEW k \in Node, op[k] = "read", NEW x \in up, x # k
               PROVE  /\ chan'[k][x] # <<>> =>
                           /\ Head(chan'[k][x]).type = "READ_REQUEST"
                           /\ x \notin status'[k]
                      /\ chan'[x][k] # <<>> =>
                           /\ Head(chan'[x][k]).type = "READ_REQUEST_ACK"
                           /\ Head(chan'[x][k]).label >= written
                           /\ x \notin status'[k]
                      /\ chan'[k][x] = <<>> /\ chan'[x][k] = <<>>
                           => info'[k][x] >= written
    BY <1>1 DEF ReadPhase, Quiet
  <2>1. x \in Node /\ Running(k) /\ k \in up
    BY <1>4 DEF ReadInv, OneRuns, Running
  <2>2. /\ chan[k][x] # <<>> => /\ Head(chan[k][x]).type = "READ_REQUEST"
                                /\ x \notin status[k]
        /\ chan[x][k] # <<>> => /\ Head(chan[x][k]).type = "READ_REQUEST_ACK"
                                /\ Head(chan[x][k]).label >= written
                                /\ x \notin status[k]
        /\ Quiet(k, x) => info[k][x] >= written
    BY DEF ReadInv, ReadPhase
  <2>3. CASE k = i /\ x = j
    <3>1. /\ m.type = "READ_REQUEST_ACK" /\ m.label >= written
          /\ j \notin status[i]
      BY <1>1, <2>2, <2>3 DEF m
    <3>2. chan'[i][j] = <<>> /\ chan'[j][i] = <<>>
      <4>1. m.type \notin Requests
        BY <3>1 DEF Requests
      <4> QED BY <1>1, <1>2, <2>3, <4>1
    <3>3. info'[i][j] = m.label
      BY <1>1, <2>1, <2>3, <3>1
    <3> QED BY <2>3, <3>1, <3>2, <3>3
  <2>4. CASE k = j /\ x = i
    <3>1. m.type = "READ_REQUEST"
      BY <1>1, <2>2, <2>4 DEF m
    <3>2. label[i] >= written
      <4>1. op[i] # "confirm"
        BY <1>1, <2>1, <2>4 DEF ReadInv, OneRuns, Running
      <4> QED BY <1>1, <4>1 DEF ReadInv, Stored
    <3>3. /\ chan'[j][i] = <<>> /\ chan'[i][j] # <<>>
          /\ Head(chan'[i][j]) = Msg("READ_REQUEST_ACK", label[i])
      BY <1>1, <1>2, <2>1, <2>4, <3>1
    <3>4. i \notin status'[j]
      BY <1>1, <2>2, <2>4
    <3> QED BY <2>4, <3>2, <3>3, <3>4 DEF Msg
  <2>5. CASE ~(k = i /\ x = j) /\ ~(k = j /\ x = i)
    <3>1. chan'[k][x] = chan[k][x] /\ chan'[x][k] = chan[x][k]
      BY <1>1, <2>1, <2>5
    <3>2. /\ x \notin status[k] => x \notin status'[k]
          /\ info'[k][x] = info[k][x]
      BY <1>1, <2>1, <2>5
    <3> QED BY <2>2, <3>1, <3>2 DEF Quiet
  <2> QED BY <2>3, <2>4, <2>5
<1>12. ConfirmPhase'
  <2> SUFFICES ASSUME NEW k \in Node, op[k] = "confirm"
               PROVE  \/ label'[k] >= written
                      \/ acks'[k] + Cardinality(Busy(k)') < N - 1
    BY <1>1 DEF ConfirmPhase
  <2>1. CASE label[k] >= written
    BY <1>1, <1>3, <1>4, <2>1
  <2>2. CASE acks[k] + Cardinality(Busy(k)) < N - 1
    BY <1>7, <2>2, NAssumption DEF Running
  <2> QED BY <2>1, <2>2 DEF ReadInv, ConfirmPhase
<1> QED BY <1>5, <1>6, <1>8, <1>9, <1>10, <1>11, <1>12 DEF ReadInv

LEMMA CrashReads ==
  ASSUME TypeOK, ReadInv, NEW i \in Node, Crash(i)
  PROVE  ReadInv'
<1>1. /\ UNCHANGED <<label, status, info, acks, written, floor, writes>>
      /\ i \in up /\ up' = up \ {i} /\ up \subseteq Node
      /\ op'[i] = "idle" /\ \A k \in Node \ {i} : op'[k] = op[k]
      /\ \A a, b \in Node : chan'[a][b] = IF b = i THEN <<>> ELSE chan[a][b]
  BY DEF Crash, history, TypeOK
<1>2. OneRuns'
  BY <1>1 DEF ReadInv, OneRuns, Running
<1>3. Links'
  <2>1. \A a, b \in Node : a # b => Len(chan'[a][b]) <= 1
    <3>1. Len(<<>>) <= 1
      OBVIOUS
    <3> QED BY <1>1, <3>1 DEF ReadInv, Links
  <2>2. \A a, b \in up' : /\ a \in up /\ b \in up /\ a # i /\ b # i
                          /\ a \in Node /\ b \in Node
                          /\ chan'[a][b] = chan[a][b]
                          /\ op'[a] = op[a]
    BY <1>1
  <2> QED BY <2>1, <2>2 DEF ReadInv, Links, Running, Quiet
<1>4. \A k \in Node : op'[k] # "idle" =>
        /\ k # i /\ op'[k] = op[k] /\ Running(k)
        /\ Busy(k)' \subseteq Busy(k)
  BY <1>1 DEF Busy, Running
<1>5. \A k \in Node : op'[k] # "idle" =>
        /\ Cardinality(Busy(k)') \in Nat /\ Cardinality(Busy(k)) \in Nat
        /\ Cardinality(Busy(k)') <= Cardinality(Busy(k))
        /\ acks'[k] = acks[k] /\ acks[k] \in Nat
  BY <1>1, <1>4, FewerBusy, BusyBounded DEF TypeOK
<1>6. Counted'
  BY <1>4, <1>5, NAssumption DEF ReadInv, Counted, Running
<1>7. Stored'
  BY <1>1, NAssumption DEF ReadInv, Stored, Node
<1>8. WritePhase'
  <2> SUFFICES ASSUME op'[0] = "write", NEW x \in up', x # 0
               PROVE  IF chan'[0][x] = <<>> THEN label[x] >= writes
                      ELSE Head(chan'[0][x]) = Msg("WRITE", writes)
    BY <1>1 DEF WritePhase, Msg
  <2>1. op[0] = "write" /\ x \in up \ {0} /\ chan'[0][x] = chan[0][x]
    BY <1>1, NAssumption DEF Node
  <2> QED BY <2>1 DEF ReadInv, WritePhase
<1>9. ReadPhase'
  <2> SUFFICES ASSUME NEW k \in Node, op'[k] = "read", NEW x \in up', x # k
               PROVE  /\ chan'[k][x] # <<>> =>
                           /\ Head(chan'[k][x]).type = "READ_REQUEST"
                           /\ x \notin status[k]
                      /\ chan'[x][k] # <<>> =>
                           /\ Head(chan'[x][k]).type = "READ_REQUEST_ACK"
                           /\ Head(chan'[x][k]).label >= written
                           /\ x \notin status[k]
                      /\ chan'[k][x] = <<>> /\ chan'[x][k] = <<>>
                           => info[k][x] >= written
    BY <1>1 DEF ReadPhase, Quiet
  <2>1. /\ op[k] = "read" /\ x \in up \ {k}
        /\ chan'[k][x] = chan[k][x] /\ chan'[x][k] = chan[x][k]
    BY <1>1
  <2> QED BY <2>1 DEF ReadInv, ReadPhase, Quiet
<1>10. ConfirmPhase'
  <2> SUFFICES ASSUME NEW k \in Node, op'[k] = "confirm"
               PROVE  \/ label[k] >= written
                      \/ acks'[k] + Cardinality(Busy(k)') < N - 1
    BY <1>1 DEF ConfirmPhase
  <2>1. op[k] = "confirm"
    BY <1>4
  <2>2. \/ label[k] >= written
        \/ acks[k] + Cardinality(Busy(k)) < N - 1
    BY <2>1 DEF ReadInv, ConfirmPhase
  <2> QED BY <1>5, <2>2, NAssumption
<1> QED BY <1>2, <1>3, <1>6, <1>7, <1>8, <1>9, <1>10 DEF ReadInv

LEMMA InitReads == Init => ReadInv
<1> SUFFICES ASSUME Init PROVE ReadInv
  OBVIOUS
<1>1. 0 \in Node /\ Len(<<>>) <= 1
  BY NAssumption DEF Node
<1>2. OneRuns /\ Counted /\ WritePhase /\ ReadPhase /\ ConfirmPhase /\ Stored
  BY <1>1 DEF Init, OneRuns, Counted, WritePhase, ReadPhase, ConfirmPhase,
     Stored, Running
<1>3. Links
  BY <1>1 DEF Init, Links, Running, Quiet
<1> QED BY <1>2, <1>3 DEF ReadInv

LEMMA NextReads ==
  ASSUME N <= 4, MaxRunning <= 1, TypeOK, ReadInv, [Next]_vars
  PROVE  ReadInv'
<1>1. CASE StartWrite
  BY <1>1, StartWriteReads
<1>2. CASE FinishWrite
  BY <1>2, FinishWriteReads
<1>3. CASE \E i \in Readers : StartRead(i) \/ ConfirmRead(i) \/ FinishRead(i)
  BY <1>3, ReadersAssumption, StartReadReads, ConfirmReadReads, FinishReadReads
<1>4. CASE \E i \in Node : Crash(i)
  BY <1>4, CrashReads
<1>5. CASE \E i, j \in Node : Receive(i, j)
  BY <1>5, ReceiveReads
<1>6. CASE UNCHANGED vars
  BY <1>6 DEF vars, processor, history, ReadInv, OneRuns, Links, Counted,
     Stored, WritePhase, ReadPhase, ConfirmPhase, Running, Quiet, Busy, Msg
<1> QED BY <1>1, <1>2, <1>3, <1>4, <1>5, <1>6 DEF Next

(* Only the return of a read takes a live processor from confirming to idle. *)
LEMMA ReturnsLatest ==
  ASSUME N <= 4, MaxRunning <= 1, TypeOK, ReadInv, [Next]_vars
  PROVE  \A i \in Readers : op[i] = "confirm" /\ op[i]' = "idle" /\ i \in up'
           => label[i] >= floor[i]
<1> SUFFICES ASSUME NEW i \in Readers, op[i] = "confirm", op'[i] = "idle",
                    i \in up'
             PROVE  label[i] >= floor[i]
  OBVIOUS
<1>1. i \in Node
  BY ReadersAssumption
<1>2. CASE StartWrite \/ FinishWrite
  BY <1>1, <1>2 DEF StartWrite, FinishWrite, MayStart, Communicate, TypeOK
<1>3. ASSUME NEW k \in Readers, StartRead(k) \/ ConfirmRead(k)
      PROVE  FALSE
  BY <1>1, <1>3 DEF StartRead, ConfirmRead, MayStart, Communicate, TypeOK
<1>4. ASSUME NEW k \in Readers, FinishRead(k)
      PROVE  label[i] >= floor[i]
  <2>1. k = i
    BY <1>1, <1>4 DEF FinishRead, TypeOK
  <2> QED BY <1>1, <1>4, <2>1, FinishReadReads
<1>5. ASSUME NEW k \in Node, Crash(k)
      PROVE  FALSE
  BY <1>1, <1>5 DEF Crash, TypeOK
<1>6. ASSUME NEW k \in Node, NEW j \in Node, Receive(k, j)
      PROVE  FALSE
  BY <1>6 DEF Receive
<1>7. CASE UNCHANGED vars
  BY <1>7 DEF vars, processor
<1> QED BY <1>2, <1>3, <1>4, <1>5, <1>6, <1>7 DEF Next

(***************************************************************************)
(* On at most four processors, with one operation at a time, a read that   *)
(* starts after a write has returned returns its label or a later one,     *)
(* whichever processors are killed and whenever.                           *)
(***************************************************************************)
THEOREM RegisterIsAtomic ==
  N <= 4 /\ MaxRunning <= 1 => (Spec => ReadsLatest)
<1> SUFFICES ASSUME N <= 4, MaxRunning <= 1 PROVE Spec => ReadsLatest
  OBVIOUS
<1>1. Init => TypeOK /\ ReadInv
  BY InitType, InitReads
<1>2. TypeOK /\ ReadInv /\ [Next]_vars => (TypeOK /\ ReadInv)'
  BY NextType, NextReads
<1>3. TypeOK /\ ReadInv /\ [Next]_vars =>
        [\A i \in Readers : op[i] = "confirm" /\ op[i]' = "idle" /\ i \in up'
           => label[i] >= floor[i]]_vars
  BY ReturnsLatest
<1> QED BY <1>1, <1>2, <1>3, PTL DEF Spec, ReadsLatest
=============================================================================
