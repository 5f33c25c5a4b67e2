------------------------------- MODULE UdpLink -------------------------------
(***************************************************************************)
(* One link of the failure detectors' communication: the sender of one     *)
(* processor (communication/udp/sender.py), the receiver of another        *)
(* (communication/udp/receiver.py) and UDP between them, which may lose,   *)
(* duplicate and reorder datagrams.  The sender sends a message with a     *)
(* counter and sends the next one when that counter has come back; a timer *)
(* thread per message sends it again until then.                           *)
(*                                                                         *)
(* The first message has counter 0 and no payload, the k-th payload put    *)
(* into the queue has counter k; a message is therefore its counter.       *)
(***************************************************************************)
EXTENDS Integers

CONSTANTS
  Cap,          \* the parameter cap of the sender, MAXINT unless given
  MaxPayloads,  \* bound: payloads put into the queue
  MaxRestarts   \* bound: restarts of the receiving process

ASSUME CapAssumption == Cap \in Nat /\ Cap > 1
ASSUME BoundsAssumption == MaxPayloads \in Nat /\ MaxRestarts \in Nat

VARIABLES
  queued,     \* the number of payloads in msg_queue
  counter,    \* msg_counter
  lastSent,   \* the counter of last_sent_msg
  lastRecv,   \* last_recv_msg_counter
  pc,         \* the main loop: before start, in recv(), or waiting for work
  watched,    \* messages whose timer threads compare counters
  expired,    \* messages whose timer threads are about to send again
  data,       \* messages under way to the receiver
  tokens,     \* counters under way to the sender
  last,       \* msg_counters[sender] of the receiver
  got,        \* history: the messages the receiver has accepted
  restarts    \* counts restarts, up to MaxRestarts

sender == <<queued, counter, lastSent, lastRecv, pc, watched, expired>>
receiver == <<last, got, restarts>>
vars == <<sender, data, tokens, receiver>>

Counter == 0..MaxPayloads

TypeOK ==
  /\ queued \in Counter
  /\ counter \in Counter
  /\ lastSent \in {-1} \union Counter
  /\ lastRecv \in {-1} \union Counter
  /\ pc \in {"start", "recv", "next"}
  /\ watched \subseteq Counter
  /\ expired \subseteq Counter
  /\ data \subseteq Counter
  /\ tokens \subseteq Counter
  /\ last \in {-1} \union Counter
  /\ got \subseteq Counter
  /\ restarts \in 0..MaxRestarts

Init ==
  /\ queued = 0 /\ counter = 0 /\ lastSent = -1 /\ lastRecv = -1
  /\ pc = "start"
  /\ watched = {} /\ expired = {}
  /\ data = {} /\ tokens = {}
  /\ last = -1 /\ got = {} /\ restarts = 0
-----------------------------------------------------------------------------
(* The sender. *)

(* The module above puts a payload into the queue, at any time. *)
Enqueue ==
  /\ counter + queued < MaxPayloads
  /\ queued' = queued + 1
  /\ UNCHANGED <<counter, lastSent, lastRecv, pc, watched, expired,
                 data, tokens, receiver>>

(* send(msg): send the message and start its timer thread. *)
Transmit(c) ==
  /\ data' = data \union {c}
  /\ lastSent' = c
  /\ watched' = watched \union {c}

(* check_ready() holds at last. *)
Start ==
  /\ pc = "start"
  /\ Transmit(counter)
  /\ pc' = "recv"
  /\ UNCHANGED <<queued, counter, lastRecv, expired, tokens, receiver>>

(* A datagram that is received may have been duplicated on the way. *)
Take(c, net) == {net, net \ {c}}

(* Mutant: the token of the message before will do. *)
RecvTokenEarly(c) ==
  /\ pc = "recv"
  /\ c \in tokens
  /\ tokens' \in Take(c, tokens)
  /\ lastRecv' = c
  /\ IF c >= counter - 1
     THEN pc' = "next" /\ UNCHANGED <<lastSent, watched, data>>
     ELSE Transmit(lastSent) /\ UNCHANGED pc
  /\ UNCHANGED <<queued, counter, expired, receiver>>

RecvToken(c) ==
  /\ pc = "recv"
  /\ c \in tokens
  /\ tokens' \in Take(c, tokens)
  /\ lastRecv' = c
  /\ IF c >= counter
     THEN pc' = "next" /\ UNCHANGED <<lastSent, watched, data>>
     ELSE Transmit(lastSent) /\ UNCHANGED pc
  /\ UNCHANGED <<queued, counter, expired, receiver>>

(* Mutant: two payloads are taken for one message. *)
SendNextSkips ==
  /\ pc = "next"
  /\ queued > 0
  /\ queued' = 0
  /\ counter' = counter + queued
  /\ Transmit(counter')
  /\ pc' = "recv"
  /\ UNCHANGED <<lastRecv, expired, tokens, receiver>>

(* Mutant: the counter goes up but the payload stays in the queue. *)
SendNextKeeps ==
  /\ pc = "next"
  /\ queued > 0
  /\ counter' = counter + (1 % Cap)
  /\ Transmit(counter')
  /\ pc' = "recv"
  /\ UNCHANGED <<queued, lastRecv, expired, tokens, receiver>>

(* In Python `counter += 1 % cap` adds the remainder of 1. *)
SendNext ==
  /\ pc = "next"
  /\ queued > 0
  /\ queued' = queued - 1
  /\ counter' = counter + (1 % Cap)
  /\ Transmit(counter')
  /\ pc' = "recv"
  /\ UNCHANGED <<lastRecv, expired, tokens, receiver>>

(***************************************************************************)
(* The timer threads.  A message that is sent again for an old token gets  *)
(* one more thread each time: a member of watched or expired stands for    *)
(* one or more threads, and one of them may leave the others behind.       *)
(* A thread that has slept out FD_TIMEOUT sends without looking again.     *)
(***************************************************************************)
TimerReturns(c) ==
  /\ c \in watched
  /\ lastRecv >= c
  /\ watched' = watched \ {c}
  /\ UNCHANGED <<queued, counter, lastSent, lastRecv, pc, expired,
                 data, tokens, receiver>>

(* Mutant: a timer thread gives up once another message was sent. *)
TimerExpiresForLast(c) ==
  /\ c \in watched
  /\ lastRecv < c - 1
  /\ expired' = expired \union {c}
  /\ watched' \in {watched, watched \ {c}}
  /\ UNCHANGED <<queued, counter, lastSent, lastRecv, pc, data, tokens,
                 receiver>>

TimerExpires(c) ==
  /\ c \in watched
  /\ lastRecv < c
  /\ expired' = expired \union {c}
  /\ watched' \in {watched, watched \ {c}}
  /\ UNCHANGED <<queued, counter, lastSent, lastRecv, pc, data, tokens,
                 receiver>>

TimerResends(c) ==
  /\ c \in expired
  /\ Transmit(c)
  /\ expired' \in {expired, expired \ {c}}
  /\ UNCHANGED <<queued, counter, lastRecv, pc, tokens, receiver>>
-----------------------------------------------------------------------------
(* The receiver. *)

(* The token goes back in any case; the payload is passed on if its counter *)
(* is not the last one seen. *)
RecvData(c) ==
  /\ c \in data
  /\ data' \in Take(c, data)
  /\ tokens' = tokens \union {c}
  /\ last' = c
  /\ got' = IF c # last THEN got \union {c} ELSE got
  /\ UNCHANGED <<sender, restarts>>

(* The receiving process is killed and started again. *)
RestartReceiver ==
  /\ restarts < MaxRestarts
  /\ restarts' = restarts + 1
  /\ last' = -1
  /\ UNCHANGED <<sender, data, tokens, got>>

(* The network. *)
LoseData(c) == /\ c \in data
               /\ data' = data \ {c}
               /\ UNCHANGED <<sender, tokens, receiver>>
LoseToken(c) == /\ c \in tokens
                /\ tokens' = tokens \ {c}
                /\ UNCHANGED <<sender, data, receiver>>

Next ==
  \/ Enqueue \/ Start \/ SendNext \/ RestartReceiver
  \/ \E c \in Counter :
       \/ RecvToken(c) \/ RecvData(c) \/ LoseData(c) \/ LoseToken(c)
       \/ TimerReturns(c) \/ TimerExpires(c) \/ TimerResends(c)

(***************************************************************************)
(* Threads run on, and of the many copies of the present message and of    *)
(* its token that are sent one arrives (strong fairness).  Nothing is      *)
(* assumed of older ones.                                                  *)
(***************************************************************************)
Fairness ==
  /\ WF_vars(Start) /\ WF_vars(SendNext)
  /\ SF_vars(RecvToken(counter)) /\ SF_vars(RecvData(counter))
  /\ WF_vars(TimerExpires(counter)) /\ WF_vars(TimerResends(counter))

Spec == Init /\ [][Next]_vars /\ Fairness
-----------------------------------------------------------------------------
(***************************************************************************)
(* Whatever the network loses, repeats and delays, and whichever message a *)
(* late timer thread sends: when the sender moves on to a message, the     *)
(* receiver has accepted all of the earlier ones (line 84 of the sender).  *)
(***************************************************************************)
AcceptedBeforeNext == \A c \in Counter : c < counter => c \in got

(***************************************************************************)
(* Messages are accepted for the first time in the order in which their    *)
(* payloads were queued, although old ones may be accepted again.          *)
(***************************************************************************)
FirstInOrder == \A c \in got : \A b \in Counter : b < c => b \in got

(* Every payload is accepted in the end: the timer threads and the loop    *)
(* never leave the link without a message that is sent again.              *)
Delivered ==
  \A k \in Counter : k > 0 => (counter + queued >= k ~> k \in got)
=============================================================================
