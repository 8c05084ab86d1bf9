----------------------------- MODULE PerfectLink -----------------------------
(***************************************************************************)
(* The messages of one process to another over perfect-link.cpp: the       *)
(* sender's Peer object with its thread, the receiver's delivered set, and *)
(* between them the unreliable datagrams of fair-loss-link.cpp.            *)
(*                                                                         *)
(* Peers share nothing, so each ordered pair of processes is an instance   *)
(* of this module.  The two threads of the sender interleave: the main one *)
(* sends messages and receives acknowledgements, the peer's retransmits.   *)
(***************************************************************************)
EXTENDS Integers, Sequences

CONSTANTS
  MaxSends,     \* bound: how many messages are sent
  MaxQueued,    \* bound: how much the queue holds; the code's has no limit
  MaxDuplicates \* bound: how often the network hands over a datagram again

ASSUME BoundsAssumption ==
  /\ MaxSends \in Nat
  /\ MaxQueued \in Nat
  /\ MaxDuplicates \in Nat

Num == 0 .. MaxSends - 1

\* A message is its sequence number here, and the most significant bit of
\* link_seq_num, which tells an acknowledgement from the message.
Syn(n) == [is_syn |-> TRUE, num |-> n]
Ack(n) == [is_syn |-> FALSE, num |-> n]
Packet == [is_syn : BOOLEAN, num : Num]

VARIABLES
  next_seq_num,  \* of the sender's Peer
  incoming,      \* the queue through which the main thread feeds the peer's
  unsent,        \* the message the main thread pushed to incoming and has not
                 \* given to the network yet: none or one
  thread,        \* the peer's thread: "polling", or "waiting" on incoming
  scheduled,     \* messages in the thread's retransmission queue
  due,           \* those whose retry time has passed, in the order of it
  acknowledged,  \* the thread's set of acknowledged numbers
  network,       \* datagrams under way
  duplicates,    \* how many it has handed over and kept a copy of
  delivered,     \* the receiver's set of numbers delivered
  upcalls,       \* upcalls[n]: how often the receiver's observer got n
  crashed,       \* the processes whose main thread has got the signal to stop
  exited         \* the sender's process is gone, with its peer thread

mainVars   == << next_seq_num, unsent >>
threadVars == << thread, scheduled, due, acknowledged >>
netVars    == << network, duplicates >>
recvVars   == << delivered, upcalls >>
stopVars   == << crashed, exited >>
vars == << mainVars, incoming, threadVars, netVars, recvVars, stopVars >>

SenderUp == "sender" \notin crashed
ReceiverUp == "receiver" \notin crashed

Init ==
  /\ next_seq_num = 0
  /\ incoming = << >>
  /\ unsent = {}
  /\ thread = "polling"
  /\ scheduled = {}
  /\ due = << >>
  /\ acknowledged = {}
  /\ network = {}
  /\ duplicates = 0
  /\ delivered = {}
  /\ upcalls = [n \in Num |-> 0]
  /\ crashed = {}
  /\ exited = FALSE

-----------------------------------------------------------------------------
(***************************************************************************)
(* The sender's main thread.                                               *)
(***************************************************************************)

\* Slip: the sequence number is used again.
SameNumber == next_seq_num

\* next_seq_num after a send.
NextNumber == next_seq_num + 1

\* send, up to the push that makes the message known to the peer's thread ...
SendPush ==
  /\ SenderUp
  /\ unsent = {}
  /\ next_seq_num < MaxSends
  /\ Len(incoming) < MaxQueued
  /\ next_seq_num' = NextNumber
  /\ incoming' = Append(incoming, Syn(next_seq_num))
  /\ unsent' = {next_seq_num}
  /\ UNCHANGED << threadVars, netVars, recvVars, stopVars >>

\* ... and from there: the thread may be retransmitting it already.
SendFirst ==
  /\ SenderUp
  /\ unsent # {}
  /\ network' = network \cup { Syn(n) : n \in unsent }
  /\ unsent' = {}
  /\ UNCHANGED << next_seq_num, incoming, threadVars, duplicates, recvVars, stopVars >>

\* Receiving pkt takes it from the network or leaves a duplicate there; the
\* receiver puts its answers to the rest.
Take(pkt, answers) ==
  /\ pkt \in network
  /\ \/ /\ network' = (network \ {pkt}) \cup answers
        /\ UNCHANGED duplicates
     \/ /\ duplicates < MaxDuplicates
        /\ network' = network \cup answers
        /\ duplicates' = duplicates + 1

\* deliver, for an acknowledgement.
ReceiveAck(n) ==
  /\ SenderUp
  /\ unsent = {}
  /\ Len(incoming) < MaxQueued
  /\ Take(Ack(n), {})
  /\ incoming' = Append(incoming, Ack(n))
  /\ UNCHANGED << mainVars, threadVars, recvVars, stopVars >>

-----------------------------------------------------------------------------
(***************************************************************************)
(* The sender's peer thread.  The handler of the signal does not stop it:  *)
(* it goes on until exit has ended the process.                            *)
(***************************************************************************)

\* Slip: a message is sent again once and not pushed back.
PushNothing(queue, n) == queue

\* retry_queue.push of a message taken from it.
PushBack(queue, n) == queue \cup {n}

\* handle_timeout for the top of the retransmission queue: forget it if it is
\* acknowledged, or else send it again and wait twice as long.
handle_timeout ==
  LET n == Head(due)
  IN  /\ due' = Tail(due)
      /\ IF n \in acknowledged
         THEN /\ acknowledged' = acknowledged \ {n}
              /\ scheduled' = scheduled \ {n}
              /\ UNCHANGED network
         ELSE /\ network' = network \cup {Syn(n)}
              /\ scheduled' = PushBack(scheduled \ {n}, n)
              /\ UNCHANGED acknowledged

\* try_pop finds a retry time passed and does not look at the queue.
Retry ==
  /\ ~ exited
  /\ thread = "polling"
  /\ due # << >>
  /\ handle_timeout
  /\ UNCHANGED << mainVars, incoming, thread, duplicates, recvVars, stopVars >>

\* try_pop finds none passed and waits: until the next one, or half a second.
Wait ==
  /\ ~ exited
  /\ thread = "polling"
  /\ due = << >>
  /\ thread' = "waiting"
  /\ UNCHANGED << mainVars, incoming, scheduled, due, acknowledged, netVars,
                  recvVars, stopVars >>

\* There is, or comes, something in the queue, even if the time is over too.
Pop ==
  LET pkt == Head(incoming)
  IN  /\ ~ exited
      /\ thread = "waiting"
      /\ incoming # << >>
      /\ thread' = "polling"
      /\ incoming' = Tail(incoming)
      /\ scheduled' = IF pkt.is_syn THEN scheduled \cup {pkt.num} ELSE scheduled
      /\ acknowledged' =
           IF pkt.is_syn THEN acknowledged ELSE acknowledged \cup {pkt.num}
      /\ UNCHANGED << mainVars, due, netVars, recvVars, stopVars >>

\* The time is over and nothing came.
WaitTimesOut ==
  /\ ~ exited
  /\ thread = "waiting"
  /\ incoming = << >>
  /\ thread' = "polling"
  /\ \/ /\ scheduled = {}
        /\ UNCHANGED << scheduled, due, acknowledged, network >>
     \/ /\ due # << >>
        /\ handle_timeout
  /\ UNCHANGED << mainVars, incoming, duplicates, recvVars, stopVars >>

\* Time passes: the retry time of n is reached.
Expire(n) ==
  /\ ~ exited
  /\ n \in scheduled
  /\ \A i \in DOMAIN due : due[i] # n
  /\ due' = Append(due, n)
  /\ UNCHANGED << mainVars, incoming, thread, scheduled, acknowledged, netVars,
                  recvVars, stopVars >>

-----------------------------------------------------------------------------
(***************************************************************************)
(* The receiver's main thread, the network, and crashes.                   *)
(***************************************************************************)

\* Slips: the number is not inserted into the delivered set; a copy that is not
\* handed over is not acknowledged.
NotRecorded(n) == delivered
AckOnce(n) == { Ack(k) : k \in {n} \ delivered }

\* The delivered set after insert(seq_num), and what deliver sends back.
Recorded(n) == delivered \cup {n}
AckAlways(n) == { Ack(n) }

\* deliver, for a message: hand it over if it is new, acknowledge it anyhow.
ReceiveSyn(n) ==
  /\ ReceiverUp
  /\ Take(Syn(n), AckAlways(n))
  /\ IF n \in delivered
     THEN UNCHANGED recvVars
     ELSE /\ delivered' = Recorded(n)
          /\ upcalls' = [upcalls EXCEPT ![n] = @ + 1]
  /\ UNCHANGED << mainVars, incoming, threadVars, stopVars >>

\* Datagrams get lost.
Lose(pkt) ==
  /\ pkt \in network
  /\ network' = network \ {pkt}
  /\ UNCHANGED << mainVars, incoming, threadVars, duplicates, recvVars, stopVars >>

\* SIGTERM or SIGINT: the handler runs on the main thread, wherever that is, and
\* does not return to it ...
Crash(end) ==
  /\ end \notin crashed
  /\ crashed' = crashed \cup {end}
  /\ UNCHANGED << mainVars, incoming, threadVars, netVars, recvVars, exited >>

\* ... and its exit ends the other threads too.
Exit ==
  /\ ~ SenderUp
  /\ ~ exited
  /\ exited' = TRUE
  /\ UNCHANGED << mainVars, incoming, threadVars, netVars, recvVars, crashed >>

PeerThread == Retry \/ Wait \/ Pop \/ WaitTimesOut

Next ==
  \/ SendPush \/ SendFirst
  \/ PeerThread
  \/ \E n \in Num : ReceiveAck(n) \/ Expire(n) \/ ReceiveSyn(n)
  \/ \E pkt \in network : Lose(pkt)
  \/ \E end \in {"sender", "receiver"} : Crash(end)
  \/ Exit

Spec == Init /\ [][Next]_vars

\* The threads of a running process run, time passes, and of the copies of a
\* datagram sent over and over again some get through: that is what makes the
\* link a fair-loss one.  Retry times double, so retransmissions do not take up
\* all the time of the thread: again and again it gets to wait for the queue.
Fairness ==
  /\ WF_vars(SendFirst)
  /\ WF_vars(PeerThread)
  /\ WF_vars(Exit)
  /\ \A n \in Num : WF_vars(Expire(n)) /\ SF_vars(ReceiveSyn(n)) /\ SF_vars(ReceiveAck(n))
  /\ []<>(thread = "waiting" \/ exited)

FairSpec == Spec /\ Fairness

-----------------------------------------------------------------------------
(***************************************************************************)
(* Properties.                                                             *)
(***************************************************************************)
Elements(s) == { s[i] : i \in DOMAIN s }

TypeOK ==
  /\ next_seq_num \in 0 .. MaxSends
  /\ incoming \in Seq(Packet)
  /\ unsent \subseteq Num
  /\ thread \in {"polling", "waiting"}
  /\ scheduled \subseteq Num
  /\ due \in Seq(scheduled)
  /\ acknowledged \subseteq Num
  /\ network \subseteq Packet
  /\ duplicates \in 0 .. MaxDuplicates
  /\ delivered \subseteq Num
  /\ upcalls \in [Num -> Nat]
  /\ crashed \subseteq {"sender", "receiver"}
  /\ exited \in BOOLEAN

\* A message that was sent is delivered or the thread still has it, or will
\* find it in its queue, and so goes on sending it: no interleaving of the two
\* threads, and no datagram lost or duplicated, makes the link forget it.
NotForgotten ==
  \A n \in 0 .. next_seq_num - 1 :
    n \in delivered \cup scheduled \/ Syn(n) \in Elements(incoming)

\* Wherever an acknowledgement has got, what it acknowledges was delivered.
AckedWasDelivered ==
  \A n \in Num :
    (Ack(n) \in network \cup Elements(incoming) \/ n \in acknowledged) => n \in delivered

\* Nothing is under way, queued, scheduled or delivered that was not sent.
OnlySent ==
  /\ unsent \cup scheduled \cup delivered \subseteq 0 .. next_seq_num - 1
  /\ \A n \in Num :
       Syn(n) \in network \cup Elements(incoming) => n < next_seq_num

\* A message is at one place of the retransmission queue.
DueOnce == \A i, j \in DOMAIN due : due[i] = due[j] => i = j

\* The delivered set is what keeps the observer from getting a message twice.
UpcallOncePerDelivery ==
  \A n \in Num : upcalls[n] = IF n \in delivered THEN 1 ELSE 0

\* Why no interleaving breaks the above: the inductive invariant.
IInv ==
  /\ TypeOK
  /\ NotForgotten
  /\ AckedWasDelivered
  /\ OnlySent
  /\ DueOnce
  /\ UpcallOncePerDelivery

\* The sender's state in terms of what the link promises.
Abstract == INSTANCE ReliableChannel WITH sent <- 0 .. next_seq_num - 1

\* Sequence numbers, retransmissions and the delivered set implement a channel
\* that hands over what was sent, each message at most once.
ImplementsReliableChannel == Abstract!Spec

\* Everything sent is delivered, if no end crashes.
EverythingArrives == Abstract!EverythingArrives

\* Retransmission stops: the thread drops every message in the end, even when
\* acknowledgements are lost or come late or twice.
RetransmissionStops ==
  \A n \in Num : n \in scheduled ~> (n \notin scheduled \/ crashed # {})

\* Once the sender has got the signal to stop, nothing is sent: what is under way
\* of its messages was under way before.
NothingSentAfterStop ==
  [][\A n \in Num :
       "sender" \in crashed /\ Syn(n) \in network' => Syn(n) \in network]_vars

=============================================================================
