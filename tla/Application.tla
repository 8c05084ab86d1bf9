----------------------------- MODULE Application -----------------------------
(***************************************************************************)
(* One process seen from main.cpp: it reads what it is started with, waits *)
(* at the barrier, and then its loop rations broadcasting and receiving,   *)
(* while logger.cpp keeps a log of both, insertion by insertion; a signal  *)
(* interrupts the process at any point of this.                            *)
(*                                                                         *)
(* What the layers make of a datagram is left to the other modules: here   *)
(* handling one may deliver any of the messages that can come next.  The   *)
(* kernel runs the signal handler on the main thread, which then does not  *)
(* go on; the receiver's thread does, until the process is gone.           *)
(***************************************************************************)
EXTENDS Configuration

CONSTANTS
  Inputs,        \* what it may be started with: [argv, files], files giving
                 \* the lines of those that exist by their paths
  NumForeign,    \* bound: messages of others that get delivered
  QueueBound,    \* bound: datagrams in the queue; the code's has no limit
  MAX_LEN        \* length of the buffer, in lines here, that makes it flush

ASSUME InputsAssumption ==
  \A i \in Inputs :
    /\ i.argv \in Seq(STRING)
    /\ \A path \in DOMAIN i.files : i.files[path] \in Seq(Seq(Nat))
ASSUME ConstantsAssumption ==
  /\ NumForeign \in Nat
  /\ QueueBound \in Nat \ {0}
  /\ MAX_LEN \in Nat

VARIABLES
  input,             \* what it was started with
  hosts,             \* the hosts, as parser.hosts() returns them
  config,            \* the ConfigParser: [num_messages, deps]
  main,              \* where the main thread is: at "parse", "hosts", "config",
                     \* "log", "socket", "barrier", in the loop "broadcasting",
                     \* having "sent" a message it has not logged, "handling" a
                     \* datagram, "logging" a delivery, "writing" the buffer to
                     \* the file, "flushing" that, "finished" broadcasting
  status,            \* "running"; in the signal handler, "writing" the buffer
                     \* and "flushing" the file; "exited" by the handler;
                     \* "failed", when an error or a second signal has ended
                     \* the process
  next_msg,          \* the number it broadcasts next
  subsequent_recvs,  \* datagrams it may still receive before it broadcasts
  message_queue,     \* number of datagrams in the queue of the receiver thread
  buffer,            \* the text in the logger's buffer
  file,              \* the text written to the output file; of a failed
                     \* process, what is not flushed of it may be lost
  happened           \* history: the events as they occurred

startVars == << input, hosts, config >>
logVars == << buffer, file >>
loopVars == << next_msg, subsequent_recvs, message_queue, logVars, happened >>
vars == << startVars, main, status, loopVars >>

num_messages == config.num_messages
InLoop == {"broadcasting", "sent", "handling", "logging", "writing", "flushing", "finished"}
Receiving == InLoop \cup {"barrier"}  \* the receiver thread runs

\* The events that are logged: a broadcast, and a delivery by this process of
\* its own message or of somebody else's.
Broadcasted(n) == [kind |-> "b", from |-> "self", num |-> n]
Delivered(from, n) == [kind |-> "d", from |-> from, num |-> n]

(***************************************************************************)
(* Text: a sequence of lines.  A line is put down by several insertions:   *)
(* "b ", number, line break; "d ", sender, a space, number, line break.    *)
(* put counts those that were made: of the last line of a text in which    *)
(* one is being put down, and of a line cut off, not all.                  *)
(***************************************************************************)
Insertions(e) == IF e.kind = "b" THEN 3 ELSE 5
Line(e, k) == [event |-> e, put |-> k]
WholeLine(e) == Line(e, Insertions(e))
Whole(line) == line = WholeLine(line.event)

\* The text with the next insertion of e's line made.
Inserted(text, e) ==
  IF text = << >> \/ Whole(Last(text))
    THEN Append(text, Line(e, 1))
    ELSE Append(Front(text), Line(e, Last(text).put + 1))

\* What an interrupted write may have written of a text: it ends anywhere.
Cuts(text) ==
  {<< >>} \cup UNION { { Append(SubSeq(text, 1, k - 1), Line(text[k].event, j)) :
                          j \in 1 .. text[k].put } : k \in DOMAIN text }

Count(kind, from) ==
  Cardinality({ i \in DOMAIN happened : happened[i].kind = kind /\ happened[i].from = from })

\* What can be delivered next: each sender's messages in order, its own not
\* before their send.  Nothing is delivered inside send: with two hosts or more,
\* which parser.hpp asks for, the own copy alone is no quorum.
Deliverable ==
  { Delivered("self", n) : n \in { Count("d", "self") } \cap 0 .. Count("b", "self") - 1 }
    \cup { Delivered("other", n) : n \in { Count("d", "other") } \cap 0 .. NumForeign - 1 }

Init ==
  /\ input \in Inputs
  /\ hosts = << >>
  /\ config = [num_messages |-> 0, deps |-> << >>]
  /\ main = "parse"
  /\ next_msg = 0
  /\ subsequent_recvs = 0
  /\ message_queue = 0
  /\ buffer = << >>
  /\ file = << >>
  /\ happened = << >>
  /\ status = "running"

\* At: the main thread is there and no signal has come.
At(place) == main = place /\ status = "running"

-----------------------------------------------------------------------------
(***************************************************************************)
(* The start.  An exception nobody catches and help, which exits, end the  *)
(* process.                                                                *)
(***************************************************************************)
GoOnIf(condition, place) ==
  /\ IF condition THEN main' = place /\ status' = status
                  ELSE main' = main /\ status' = "failed"
  /\ UNCHANGED << input, loopVars >>

Parse ==
  /\ At("parse")
  /\ GoOnIf(parseInternal(input.argv), "hosts")
  /\ UNCHANGED << hosts, config >>

ReadHosts ==
  LET path == hostsPath(input.argv)
      ok == path \in DOMAIN input.files /\ HostsAccepted(input.files[path])
  IN  /\ At("hosts")
      /\ GoOnIf(ok, "config")
      /\ hosts' \in IF ok THEN HostLists(input.files[path]) ELSE {hosts}
      /\ UNCHANGED config

ReadConfig ==
  LET path == configPath(input.argv)
      ok == path \in DOMAIN input.files
  IN  /\ At("config")
      /\ GoOnIf(ok, "log")
      /\ config' \in IF ok
                    THEN [num_messages : {parse_message_num(input.files[path])},
                          deps : DependencyLists(input.files[path])]
                    ELSE {config}
      /\ UNCHANGED hosts

\* The output file can be opened or not.
OpenLog ==
  /\ At("log")
  /\ \E ok \in BOOLEAN : GoOnIf(ok, "socket")
  /\ UNCHANGED << hosts, config >>

\* The id has to be in the hosts file, and its port be free.
OpenSocket ==
  /\ At("socket")
  /\ \E free \in BOOLEAN :
       GoOnIf(free /\ \E i \in DOMAIN hosts : hosts[i].id = id(input.argv), "barrier")
  /\ UNCHANGED << hosts, config >>

\* The barrier closes the connection: waitOnBarrier returns.
PassBarrier ==
  /\ At("barrier")
  /\ main' = "broadcasting"
  /\ subsequent_recvs' = num_messages
  /\ UNCHANGED << startVars, status, next_msg, message_queue, logVars, happened >>

-----------------------------------------------------------------------------
(***************************************************************************)
(* The main thread in its loop.                                            *)
(***************************************************************************)
\* Slips: the ration is never used up; it is not renewed.
RationKept == subsequent_recvs' = subsequent_recvs
RationNotRenewed == subsequent_recvs' = subsequent_recvs

RationUsed == subsequent_recvs' = subsequent_recvs - 1
RationRenewed == subsequent_recvs' = num_messages

MoreToBroadcast == next_msg < num_messages  \* the condition of the loop
MayReceive == subsequent_recvs > 0 /\ message_queue > 0

\* As long as there is a message to broadcast: receive, if the ration is not
\* used up and there is a datagram, ...
ReceiveRationed ==
  /\ At("broadcasting")
  /\ MoreToBroadcast
  /\ MayReceive
  /\ message_queue' = message_queue - 1
  /\ RationUsed
  /\ main' = "handling"
  /\ UNCHANGED << startVars, status, next_msg, logVars, happened >>

\* ... or else renew the ration, broadcast ...
Send ==
  /\ At("broadcasting")
  /\ MoreToBroadcast
  /\ ~ MayReceive
  /\ RationRenewed
  /\ happened' = Append(happened, Broadcasted(next_msg))
  /\ main' = "sent"
  /\ UNCHANGED << startVars, status, next_msg, message_queue, logVars >>

\* ... and log it: one insertion, after the last of which the loop goes on.
LogBroadcast ==
  /\ At("sent")
  /\ buffer' = Inserted(buffer, Broadcasted(next_msg))
  /\ IF Whole(Last(buffer'))
       THEN next_msg' = next_msg + 1 /\ main' = "broadcasting"
       ELSE UNCHANGED << next_msg, main >>
  /\ UNCHANGED << startVars, status, subsequent_recvs, message_queue, file, happened >>

\* Everything is broadcast: tell the signal host, and receive ever after.
Finish ==
  /\ At("broadcasting")
  /\ ~ MoreToBroadcast
  /\ main' = "finished"
  /\ UNCHANGED << startVars, status, loopVars >>

Receive ==
  /\ At("finished")
  /\ message_queue > 0
  /\ message_queue' = message_queue - 1
  /\ main' = "handling"
  /\ UNCHANGED << startVars, status, next_msg, subsequent_recvs, logVars, happened >>

\* Handling a datagram calls Logger::deliver as often as the layers let it.
Deliver(e) ==
  /\ At("handling")
  /\ e \in Deliverable
  /\ happened' = Append(happened, e)
  /\ main' = "logging"
  /\ UNCHANGED << startVars, status, next_msg, subsequent_recvs, message_queue, logVars >>

\* One insertion of Logger::deliver; after the last one, try_flush.
LogDelivery ==
  /\ At("logging")
  /\ buffer' = Inserted(buffer, Last(happened))
  /\ main' = IF ~ Whole(Last(buffer')) THEN "logging"
             ELSE IF Len(buffer') > MAX_LEN THEN "writing" ELSE "handling"
  /\ UNCHANGED << startVars, status, next_msg, subsequent_recvs, message_queue, file, happened >>

\* Slip: what is written is not the whole buffer.
WriteAllButLast == file' = file \o SubSeq(buffer, 1, Len(buffer) - 1)

\* file << buffer.str().
Write == file' = file \o buffer

\* flush, in two steps: it writes the buffer, and flushes the file.  Nothing else
\* happens: buffer.clear() clears the state of the stream and none of its text.
WriteBuffer ==
  /\ At("writing")
  /\ Write
  /\ main' = "flushing"
  /\ UNCHANGED << startVars, status, next_msg, subsequent_recvs, message_queue, buffer, happened >>

FlushFile ==
  /\ At("flushing")
  /\ main' = "handling"
  /\ UNCHANGED << startVars, status, loopVars >>

\* The datagram is done with: the loop that was left is gone on with.
Handled ==
  /\ At("handling")
  /\ main' = IF MoreToBroadcast THEN "broadcasting" ELSE "finished"
  /\ UNCHANGED << startVars, status, loopVars >>

-----------------------------------------------------------------------------
(***************************************************************************)
(* The other threads and the signal.                                       *)
(***************************************************************************)
Ended == status \in {"exited", "failed"}

Arrive ==
  /\ main \in Receiving
  /\ ~ Ended
  /\ message_queue < QueueBound
  /\ message_queue' = message_queue + 1
  /\ UNCHANGED << startVars, main, status, next_msg, subsequent_recvs, logVars, happened >>

\* The socket fails to send or receive, in any thread, also while the handler
\* runs.  Nobody catches the exception, which ends the process.
SocketFails ==
  /\ main \in Receiving
  /\ ~ Ended
  /\ status' = "failed"
  /\ UNCHANGED << startVars, main, loopVars >>

\* A signal: the handler begins, wherever the main thread is, in the middle of a
\* write too.  Before the log is open the handler fails in opening it with a null
\* path.
stop ==
  /\ status = "running"
  /\ status' = IF main \in {"parse", "hosts", "config", "log"} THEN "failed" ELSE "writing"
  /\ IF main = "writing" THEN file' \in { file \o text : text \in Cuts(buffer) }
                         ELSE UNCHANGED file
  /\ UNCHANGED << startVars, main, next_msg, subsequent_recvs, message_queue, buffer, happened >>

\* The handler calls flush, in whatever state the log is, ...
WriteInHandler ==
  /\ status = "writing"
  /\ Write
  /\ status' = "flushing"
  /\ UNCHANGED << startVars, main, next_msg, subsequent_recvs, message_queue, buffer, happened >>

\* ... and exits.
Exit ==
  /\ status = "flushing"
  /\ status' = "exited"
  /\ UNCHANGED << startVars, main, loopVars >>

\* The handler has reset both signals: the one that did not call it ends the
\* process at once.
SecondSignal ==
  /\ status \in {"writing", "flushing"}
  /\ status' = "failed"
  /\ UNCHANGED << startVars, main, loopVars >>

Start == Parse \/ ReadHosts \/ ReadConfig \/ OpenLog \/ OpenSocket \/ PassBarrier

Loop ==
  \/ ReceiveRationed \/ Send \/ LogBroadcast
  \/ Finish \/ Receive
  \/ LogDelivery \/ WriteBuffer \/ FlushFile \/ Handled

Handler == stop \/ WriteInHandler \/ Exit \/ SecondSignal

Next ==
  \/ Start
  \/ Loop
  \/ \E e \in Deliverable : Deliver(e)
  \/ Arrive \/ SocketFails
  \/ Handler

Spec == Init /\ [][Next]_vars

\* The main thread runs; how much it gets to deliver is up to the others.  The
\* barrier lets it go if all the others have come.
FairSpec == Spec /\ WF_vars(Loop) /\ WF_vars(Start)

-----------------------------------------------------------------------------
(***************************************************************************)
(* Properties.                                                             *)
(***************************************************************************)
Event ==
  [kind : {"b"}, from : {"self"}, num : Nat]
    \cup [kind : {"d"}, from : {"self", "other"}, num : Nat]

Text == Seq([event : Event, put : 1 .. 5])

TypeOK ==
  /\ input \in Inputs
  /\ hosts \in Seq([id : Nat, ip : Nat, port : Nat])
  /\ config \in [num_messages : Nat, deps : Seq([process : 0 .. 255, depends : Seq(0 .. 255)])]
  /\ main \in {"parse", "hosts", "config", "log", "socket"} \cup Receiving
  /\ status \in {"running", "writing", "flushing", "exited", "failed"}
  /\ next_msg \in 0 .. num_messages
  /\ subsequent_recvs \in 0 .. num_messages
  /\ message_queue \in 0 .. QueueBound
  /\ buffer \in Text
  /\ file \in Text
  /\ happened \in Seq(Event)

\* Links and causal broadcast take hosts and dependencies by their position.
\* Of files as they are documented, whatever the order of their lines, the one
\* at position i is that of process i, and there is one for each process.
FilesAreReadByProcess ==
  LET hostLines == input.files[hostsPath(input.argv)]
      configLines == input.files[configPath(input.argv)]
  IN  main \in InLoop /\ Documented(hostLines, configLines) =>
        \A i \in 1 .. Cardinality(Entries(hostLines)) :
          /\ \E l \in Entries(hostLines) :
               hostLines[l][1] = i /\ hosts[i] = HostOf(hostLines[l])
          /\ \E l \in 2 .. Len(configLines) :
               configLines[l] = << i >> \o [j \in DOMAIN config.deps[i].depends |->
                                             config.deps[i].depends[j] + 1]

\* The last event is made and its line not complete.
LastUnlogged == main \in {"sent", "logging"}

\* A text is the log of all that happened, in its order, whole line by whole line;
\* the event that is being logged may be missing, or its line be cut short.
IsLog(text) ==
  /\ Len(text) <= Len(happened)
  /\ \A i \in DOMAIN happened :
       \/ i \in DOMAIN text /\ text[i] = WholeLine(happened[i])
       \/ /\ LastUnlogged
          /\ i = Len(happened)
          /\ i \in DOMAIN text => text[i].event = happened[i]

\* Wherever the signal met the main thread, between two insertions of a line or
\* inside a flush too, the file of a process that was stopped ends with the log of
\* all that happened to it, whole and in order up to the last event.  Of the last
\* one it has no more than was logged, and what flushes have written stands in
\* front: EventsAreWritten, LinesAreWhole and LoggedOnce are not true.
StoppedWithItsLog ==
  status = "exited" => \E k \in 0 .. Len(file) : IsLog(SubSeq(file, k + 1, Len(file)))

\* Datagrams that keep coming do not keep the process from broadcasting all.
BroadcastsAll ==
  <>(status # "running" \/ (main \in InLoop /\ next_msg = num_messages))

\* The numbers up to any that a file gives.
MessageNumbers ==
  UNION { 0 .. parse_message_num(lines) : lines \in UNION { Range(i.files) : i \in Inputs } }

\* And broadcasting does not keep it from receiving: a full queue is taken from
\* before a second message is broadcast.
ServedBetweenBroadcasts ==
  \A k \in MessageNumbers :
    (message_queue = QueueBound /\ next_msg = k)
      ~> \/ status # "running"
         \/ message_queue < QueueBound /\ next_msg <= k + 1

\* Each event is one line of the output, also when the buffer has been flushed
\* before the end.
LoggedOnce ==
  main \notin {"writing", "flushing"} =>
    \A i, j \in DOMAIN file : file[i].event = file[j].event => i = j

\* A stopped process leaves every event that occurred in its output.
EventsAreWritten ==
  status = "exited" =>
    \A i \in DOMAIN happened : \E j \in DOMAIN file : file[j] = WholeLine(happened[i])

\* Each line of the output of a stopped process ends with its line break.
LinesAreWhole == status = "exited" => \A i \in DOMAIN file : Whole(file[i])

=============================================================================
