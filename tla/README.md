# Verification of the localized causal broadcast

TLA+ models of the C++ program in `src/code/src` (a distributed-algorithms
course project: `da_proc`, one process per host, localized causal broadcast over
UDP) and of the Python driver that runs it, TLC configurations that check them
on small instances, and TLAPS proofs for every value of the constants.

Paths of C++ files below are relative to `src/code/src/{src,include}`.

## 1. The system

    validate.py  --signals-->  da_proc x N  <--UDP-->  da_proc ...
    barrier.py, finishedSignal.py  <--TCP-->  Coordinator (barrier.hpp)

    main.cpp: broadcast.send / link.receive / log           (main thread)
      LocalizedCausalBroadcast   send, deliver               "
        UniformReliableBroadcast send, deliver, try_deliver  "
          BestEffortBroadcast    send to ring neighbors      "
            PerfectLink          send, deliver, one Peer each
              Peer thread        retransmission queue       (one per peer)
              FairLossLink, udp::Socket                     (receiver thread)
    Logger: observer of the topmost layer, flushed by the stop handler

Calls go down by `send` and come back up by `observer.deliver`, nested in the
handling of one datagram. A process has its main thread, one thread for the
socket and one for each peer; they share concurrent queues, nothing else.

| component | state | operations | hard | correct if |
|---|---|---|---|---|
| BestEffortBroadcast | list of neighbors | `send`, `deliver` | how many neighbors are enough when some crash | the ring is symmetric and minorities of crashes do not cut it |
| UniformReliableBroadcast | `pending`, `delivered`, `ack` | `send`, `deliver`, `try_deliver` | nested delivery of the own copy, late copies, crashes of whoever delivered first | no creation, no duplication, validity, uniform agreement |
| LocalizedCausalBroadcast | heap per originator, `current_clock` | `send`, `deliver` | arrivals in every order; clocks that list a few processes only; the loop restarts | causal, gapless delivery, nothing deliverable left in a heap |
| PerfectLink | sequence number, `incoming` queue, retransmission queue, `acknowledged`, `delivered` | `send`, `deliver`, peer thread | two threads, loss, duplication, reordering, timeouts against acknowledgements | delivery at most once, and in the end, and retransmission ends |
| RollingBitset | offset, chunks, counts | `insert`, `contains` | chunk boundaries, any order of insertion, chunks that fill out of turn | it is a set, and drops chunks in turn |
| ConcurrentQueue | deque, mutex, condition variable | `push`, `pop`, `try_pop`, `try_pop_until` | time against push, wake-ups for no reason, a notification after the unlock | its operations are atomic, no item is slept through |
| FifoBroadcast, MonotonicQueue | heap and next number per originator | `send`, `deliver`; `add`, `has_next`, `pop_next` | arrivals in every order, a look at an empty heap | gapless delivery in order, nothing left behind |
| Parser, ConfigParser | lines of files | `parse`, `hosts`, dependencies | what is looked up by position comes in any order | entry i is that of process i |
| main, Logger, stop handler | next message, ration of receives, buffer, file | start, broadcast, receive, log, flush, stop | a signal inside a line, inside a flush, before the log is open; starvation | the file ends with the history; nobody starves |
| Coordinator, barrier.py, finishedSignal.py | connections | connect, wait, close | everyone waits for everyone | nobody begins early, the run ends |
| validate.py StressTest | process states, shared counter | stop, continue, terminate | several threads between check and signal | a minority is terminated, nobody is left suspended |
| Task | flag | cancel, join | - | not modelled, see section 7 |

`PROJECT.json` lists every component with its sources, every hazard at its line
with the properties that cover it, and for each definition the lines it
translates.

## 2. The modules

| module | models | its state in the code |
|---|---|---|
| `Ring` | `create_n_connected_ring` as a pure operator | - |
| `RingFailures` | that ring for every number of hosts, with a minority of them stopping | hosts, crashed hosts |
| `UniformBroadcast` | what uniform broadcast promises (abstract) | broadcast messages, upcalls |
| `UniformReliableBroadcast` | `uniform-reliable-broadcast.cpp` on `best-effort-broadcast.cpp`, all processes | `urb[p]` is the object; `links` the packets in the perfect links |
| `CausalOrder` | what localized causal broadcast promises (abstract) | what each message depends on, deliveries |
| `LocalizedCausalBroadcast` | `localized-causal-broadcast.cpp`, on `UniformBroadcast` | `pending`, `current_clock`, the iterator `it` |
| `ReliableChannel` | what a perfect link promises (abstract) | sent, upcalls |
| `PerfectLink` | `perfect-link.cpp`, `exponential-backoff.hpp`, the queue, for one ordered pair | `incoming`, `scheduled`/`due` (the priority queue), `acknowledged`, `network`, `delivered` |
| `RollingBitset` | `rolling-set.cpp` | `offset`, `chunks` |
| `FifoBroadcast` | `fifo-broadcast.cpp`, `monotonic-queue.hpp`, on `UniformBroadcast` | `ordered`; `handling` is the queue the loop is over |
| `AtomicQueue` | what the queue promises its users (abstract) | `inner` |
| `ConcurrentQueue` | `concurrent-queue.hpp`, one producer and one consumer | `mutex`, `inner`, where both threads are, `late` for the time |
| `Configuration` | `parser.hpp`, `config-parser.cpp` as pure operators | - |
| `Application` | `main.cpp`, `logger.cpp`, on `Configuration` | the parsed files, locals of `main`, the logger's buffer and file |
| `TestRun` | `barrier.hpp`, `barrier.py`, `finishedSignal.py`, `validate.py` | where each process is, connections, `ProcessInfo`, counter |
| `MC...` | instances for TLC | - |
| `ContainerProofs` | theorems about `RollingBitset` and `ConcurrentQueue` | - |
| `...Proofs` | theorems about the module they are named after | - |

How the layers fit: `LocalizedCausalBroadcast` is built on the abstract
`UniformBroadcast`, which `UniformReliableBroadcast` is shown to implement.
`UniformReliableBroadcast` takes packets from a set `links`, each handed over at
most once and surely if both ends stay up; `LinksAreReliableChannels` says that this
asks of each link no more than `ReliableChannel`, which `PerfectLink` is shown to
implement. `PerfectLink` keeps its delivered
numbers in a set, which `RollingBitset` is shown to be, and the operations on its
queue are atomic, as those of `Application` are, which is what `ConcurrentQueue` is
shown to implement. `FifoBroadcast` stands on `UniformBroadcast` too and implements
the same `CausalOrder`, with nobody affected by others: it promises what localized
causal broadcast does without dependencies. So each layer is checked
against the promise of the one below instead of its code.

What an action is. The layers above the link run on the main thread alone, so
in `UniformReliableBroadcast` a whole handler is one action, nested delivery of
the own copy included. A process that is stopped half-way through the sends of a
handler is covered because a packet of a crashed sender need never arrive. In
`LocalizedCausalBroadcast` one iteration of the loop of `deliver` is an action,
since a process may be stopped between two of them. In `PerfectLink` each access
to shared state is an action: `SendPush` and `SendFirst` are the two halves of
`send` between which the peer thread may run, and `thread` says whether that
thread is about to look at its retransmission queue or waits on `incoming`.
A signal stops the main thread at once (`Crash`) and the
process later (`Exit`), the peer thread going on meanwhile. In `ConcurrentQueue`
every lock, wait and notification is an action. In `Application` every insertion
into the log's buffer is an action (`LogBroadcast`, `LogDelivery`: number, separator and
line break are inserted one by one), and a flush is two, writing the buffer and
flushing the file (`WriteBuffer`, `FlushFile`). The signal can come between any two
of these, and inside a write, of which it leaves any part (`Cuts`). The handler is not
atomic either: `status` follows it through its own write and the exit, while the
receiver thread goes on, the socket may fail, and a second signal, of the kind that did
not call the handler, may kill the process (`SecondSignal`). Each stage of the start is
one action, and a failure in it ends the process. There are no restarts in the code,
and none in the models.

Definitions introduced by "Slip" are wrong variants of the one that follows,
used to see that the properties notice them; no specification refers to them.

One thing the language leaves undefined is modelled as the build does it. `has_next` of a
queue that has become empty reads `top()`, the first place of a vector without elements.
The library does not check it, so what is read is what the vector's storage holds
there: `front` of `FifoBroadcast`, which `add` and `Popped` keep up to date. It is the least
number as long as there is an entry, and the number popped last afterwards, for an
entry that is alone is destroyed in its place and not moved; before the first `add` there is
no storage to read (`NoStorage`). `NeverPopsEmpty` says that the loop never reads storage
that is not there, and that what it reads never sends it on to pop an empty queue.

## 3. The runs

| run | instance | what it shows |
|---|---|---|
| `ring` | 2 to 9 hosts, every minority of crashes | the ring is symmetric, lists distinct hosts, gives a quorum with self, and stays connected |
| `urb_complete` | 3 hosts, 1 crash, 2 originators | with a complete ring, broadcast is uniform and reliable, and implements `UniformBroadcast` |
| `urb_ring` | 4 hosts, 2 crashes, 1 originator | with neighbors only, each link is used as a reliable channel, and no message sent twice on it; once the links owe nothing, a minority of crashes leaves no disagreement; holders deliver while their neighbors and self make a quorum |
| `urb_ring_crash` | 4 hosts, 1 crash | **violated**: uniform agreement, see section 6 |
| `lcb` | 3 hosts, 1, 1 and 2 messages, a chain of dependencies, 1 crash | causality through a process that the originator does not list, several messages in a heap, a stop in the middle of the loop; nothing deliverable stays behind, what is delivered does not depend on the order of arrivals, and the loop ends |
| `fifo` | 2 hosts, 3 messages each, 1 crash | every order of arrival: delivery in order, nothing left behind; the look at an empty queue ends the loop and nothing is popped from it |
| `rolling_bitset` | 12 numbers, chunks of 3 | all insertion orders, four chunk boundaries; a first chunk that was full before stays |
| `perfect_link` | 2 messages, queue of 2, 1 duplicate, both ends stopped | all interleavings of the two threads of the sender with the network: nothing forgotten, no second upcall; everything arrives and retransmission ends if both ends stay up |
| `concurrent_queue` | 5 pushes, all three ways to pop | steps of both threads in every order, time and wake-ups at any moment: the queue is atomic and no item is slept through |
| `application` | 14 starts, 2 of them as documented; up to 2 broadcasts, 2 foreign messages, queue of 2, flush past 3 lines | files in any order are read for the right process; stopped anywhere, the file ends with the history up to the last event; datagrams do not keep the process from broadcasting all, and a full queue is taken from before a second message is broadcast |
| `application_log` | up to 2 broadcasts, flush past 1 line | **violated**: one line for each event, see section 6 |
| `test_run` | 3 processes, 2 stressing threads, 2 signals each | the barrier holds, a minority at most is terminated, the records agree with what the signals did, the run comes to its end |

Bounds, and why they are enough for what is asked:

- *Hosts.* Three is the least number with a minority that may crash; four is the
  least for which the ring is not complete (two neighbors, one stranger). From
  five on the number of neighbors grows with a quarter of `N`, which `ring`
  looks at up to nine, through three values of the ceiling and every remainder.
  By symmetry of the ring one originator stands for any.
- *Messages.* Broadcast treats messages independently; two whose relays cross
  (`urb_complete`) show what there is. Causal order needs chains of messages over
  three processes and several messages of one originator in one heap; `Chain` and
  `Uneven` give both in one instance. FIFO order looks at one originator at a
  time, and three messages have every kind of gap.
- *`MaxUpcalls`* bounds the messages handed to each process of `lcb`: process 0 is
  handed all of them in every order, process 1 three, process 2 broadcasts only.
  The layer below may keep a message back for ever anyhow.
- *`MaxQueued`.* The code's queue has no limit. The bound blocks the main thread
  while the queue is full. That cuts off behaviours, so safety does not depend on
  it (`PerfectLinkProofs` proves it for every bound).
- *`MaxDuplicates`* counts the datagrams the network repeats. One shows what a
  repetition does to each end; without a bound, a bounded queue could be kept full
  of copies of one acknowledgement for ever, which the code's queue could not.
- *`MaxPushes`*: five items let the queue run empty and fill up again with the
  consumer at every place.
- *`QueueBound`*, the same for the receiver's queue in `Application`: when it is
  full the receiver thread does not run. `BroadcastsAll` is asked for with a queue that
  need never run dry, the worst case for broadcasting, and `ServedBetweenBroadcasts` of
  a queue that is full, which with a smaller bound is asked the sooner.
- *`MAX_LEN`* is counted in lines instead of bytes, and tiny. With
  3, each delivery from the fourth line on makes the log flush before the stop.
- *`Inputs`*: command lines with each kind of mistake, ids of one and two digits, hosts files with one host, a
  gap, a line cut short and an id used twice, a config with a blank line; and two
  starts as documented, one with the lines of both files out of order.
- *Twelve numbers* make the bitset grow by several chunks at once, fill chunks
  out of order and drop the first one several times.
- *`attempts`*: four signals in all allow to stop and continue a process and to
  compete for the only termination.

Deadlock checking is off in every run: the systems stop when there is nothing
left to broadcast, to lose or to crash, or when the bounds are used up.

## 4. Fairness

- `UniformReliableBroadcast`: weak fairness of receiving each packet whose sender
  has not crashed. This is what a perfect link promises (`EverythingArrives` of `perfect_link`).
  A crashed sender's packets are owed nothing: its retransmissions are over.
  Broadcasting and crashing are not fair.
- `LocalizedCausalBroadcast`: weak fairness of the loop, which runs on a thread
  that is not blocked.
- `PerfectLink`: weak fairness of the threads and of time; strong fairness of
  receiving each datagram, the definition of a fair-loss link: what is sent again
  and again gets through again and again. And the peer thread waits infinitely
  often: since retry times double, the thread cannot be busy with retries for
  ever. Without this assumption the property fails, for `try_pop` does not look
  at its queue as long as a retry is due. A process that was stopped exits.
- `ConcurrentQueue`: weak fairness of both threads once they are inside an operation.
  Nobody has to call one. The end of the time that `try_pop_until` was given comes too
  (weak fairness of `WakeUp` once it is `late`): the condition variable wakes the thread at
  it. A wake-up without reason need not come, and `pop` has no end of time, so there the
  notification alone must be enough for `ItemEndsOperation`.
- `Application`: weak fairness of the main thread, at the start and in its loop, and of the barrier letting it
  through (`TestRun` shows that it does). Arrivals are not fair: starvation by
  too many is what is asked about. What a datagram delivers is not fair either.
- `TestRun`: strong fairness for each process, since it may be suspended and
  continued, and for each stressor, which draws at random until it finds a valid
  transition; weak fairness for the hosts and the driver. The driver's steps include the
  user's: `validate.py:573` waits for Enter before it terminates the processes that are
  left, and fairness says that it is hit. That a process comes to
  the end of its broadcasting is `BroadcastsAll` of `Application`.

## 5. What is proved

All proofs are by TLAPS and hold for every value of the constants under the
assumptions stated in the modules (`N >= 2`, bounds are natural numbers,
dependencies are sequences of processes, chunks are not empty, the inputs of a
process are words, files and fields). Every safety property that a run checks and
that holds is a theorem, and so is every refinement.

**UniformReliableBroadcastProofs.** The argument is that acknowledgements are
honest. `IInv` says: a packet's sender holds the message (`PacketsComeFromHolders`),
hence who is in `ack` holds it (`AcksComeFromHolders`), hence what was delivered
is held by a majority (`DeliveredIsHeldByMajority`), which, since two majorities
meet, survives a minority of crashes (`DeliveredSurvivesMinorityCrash`). The first
is needed because an acknowledgement is the arrival of a packet sent long before.
`UpcallOncePerDelivery` and `NoAcksAfterDelivery` take care of the nested delivery:
a lemma on `Deliver` states what one handler does to the object, and every action
is reduced to it. `Refinement` shows that each handler is a step of
`UniformBroadcast` or a stutter.

`QuietAgreement` is what the ring gives when some have crashed. A second invariant,
`AgreementInv`, follows each copy: who holds a message has a copy of it under way to
every neighbor or with it, where it is counted or no longer needed
(`HopsAreAccounted`), and nobody holds a quorum back (`NoQuorumWaits`). Once the links
owe nothing, the running neighbors of a running holder therefore hold the message too;
the running hosts are connected (`StaysConnected` of `RingFailuresProofs`, which this module
instantiates), so all of them hold it (`ClosedIsAll`), and who has a majority among its
running neighbors and itself has counted it. That a delivered message is held by a
running process at all is `UniformSurvival`. So in the run `urb_ring_crash` what is missing
is deliveries alone, never messages. This is the safety half of agreement; that the
links come to owe nothing is theirs to provide.

`LinksSuffice` joins the layers: seen from the link between two neighbors, each step
of this module is a step of `ReliableChannel` or a stutter, for every two processes at the
same time. It rests on `PacketsComeFromHolders`, and on a process relaying nothing it
holds already: what it sends has no packet under way that a second one could meet.

**LocalizedCausalBroadcastProofs.** The hard part is that a clock with entries for
the listed processes only stands for the whole causal past. `ClockTellsPast` says
that the past of a broadcast message is what its number and clock name, together
with the pasts of these; and `ClockCountsDeliveries` that clocks count gapless
deliveries, so that passing `can_deliver` means having delivered all that is named
and therefore, as `DeliveriesAreCausal` holds so far, all of the past.
`ArrivedIsPendingOrDelivered` keeps a message from being delivered twice.
`Refinement`: the code implements `CausalOrder`, with iterations that deliver
nothing and arrivals as stutters. `NothingLeftBehind` needs a second invariant,
`LoopInv`: outside the loop no heap has a top that can be delivered
(`IdleMeansNoneReady`), and dependency is transitive and free of cycles
(`PastIsOrder`). Of the messages that would be left behind one depends on none of
the others (`EarliestMessage`, by the number of messages in its past), and that
one is on top of its heap and can be delivered (`WaitingIsReady`), where
`ClocksInRange` provides that a clock lagging behind lacks a message that exists.
`Convergence` puts this together with causality across processes: all that was delivered
anywhere had arrived there with its past, and if the same has arrived at a process that
has returned from `deliver`, it was delivered here too, in whatever order it came.

**ContainerProofs, the bitset.** `ContainsExactlyInserted` needs `CountsAreExact`, for a chunk
is dropped because of its count while `contains` looks at its bits: a count of
`ChunkSize` has to mean that all bits are set. The same fact leaves no place for a
new number in a chunk that was full before it came first (`FullChunksStay`).

**FifoBroadcastProofs.** What was delivered of an originator are the numbers below
the expected one (`ExpectedCountsDeliveries`), what has arrived is delivered or in
its queue, once, and outside the loop over a queue the next number is not in it
(`NextIsMissing`). The last is what makes `NothingLeftBehind` follow, and the others
what makes every delivery the next one (`Refinement`). `FrontIsTopOrOver` is about the
storage of a queue: it is there as soon as something was added, holds the least number of
the entries if there are any, and otherwise a number below the expected one. That is why
the look at an empty queue ends the loop (`NeverEmpty`).

**ContainerProofs, the queue.** `IInv` ties the places of the threads to the mutex and says
that a consumer can only be waiting with an item in the queue while the producer
has yet to notify. `Refinement`: push takes effect at `push_back`, the others where
they return.

**PerfectLinkProofs.** `IInv` adds to the two checked properties that everything
under way was sent (`OnlySent`: without it a number could be acknowledged before
its message exists), that a message is due once (`DueOnce`: dropping the first of
two entries would leave the second) and that upcalls follow the delivered set.
`Refinement`: the implementation of `ReliableChannel`.

**RingFailuresProofs.** The run looks at rings of up to nine hosts, the theorems hold
for every number of hosts. `NeighborIff` first gets rid of the arithmetic modulo
the number of hosts. If running hosts fell into two parts without a link between
them, there would be, going around the ring once from a host of one part by way of
one of the other, two gaps (`Gap`): from the last host of a part to the first of
the other with stopped hosts only in between, and these are at least
`NeighborsPerSide` many, or else the two would be neighbors (`GapIsWide`). Both gaps
together are half of the hosts or more, since four times `NeighborsPerSide` is
their number at least (`PerSide`), and that is no minority (`PartsAreLinked`). From `PerSide`
follows too that neighbors and self make a quorum as long as nobody crashes
(`QuorumAround`).

**ApplicationProofs.** `BufferByPlace` tells for each place of the main thread which lines
the buffer holds: whole ones for all that happened, but for the event that is being logged,
whose line may be missing or have some of its insertions only. This gives
`LogIsTheHistory`. `FileEndsWithBuffer` says that the file ends with the buffer once the
handler has written, which is where it matters that the main thread does not go on after the
signal; whatever an interrupted flush has left stands in front. Together they give
`StoppedLogIsComplete`: what a stop can cost is the line of the last event, or the end of
that line, and no more. That it does cost this is in section 6. Nothing is assumed of the inputs but that they are command lines and
files, so it makes no difference to the log what the process was started with. `TypeCorrect`
says that the loop's number never passes the number of messages.

`FilesByProcess` is about files as documented, with lines in any order. What `std::sort`
leaves is some arrangement of the lines with rising keys. If the keys are the numbers
from 1 to the number of lines, each once, the i-th line is that with key i
(`SortedByNumber`), for the least of the keys from i on is i. The processes are numbered in
eight bits: for the dependencies it has to be shown that no number wraps
(`DependencyIsRead`), which holds up to `MAX_PROCESSES` hosts.

**TestRunProofs.** A thread of the stress test asks the counter, sleeps, and signals;
meanwhile the processes that were terminated, or will be by a thread asleep
(`Doomed`), are no more than the counter says (`CounterCovers`), and the counter stops at
a minority. That this stays so needs `LocksProtect`: no two threads have the same process,
and the transition that was checked is valid until the signal. `RecordedStateIsReal`
follows from the same, and from no thread being asleep when the driver goes on to
continue what is suspended. `BarrierHolds` comes from `BarrierOrder`: nobody is released
before all have been accepted, and nobody broadcasts before it is released.

Only model-checked: liveness, as fairness is out of the prover's reach (`Validity`,
`UniformAgreement`, `HoldersDeliver`, `LoopEnds`, `EverythingArrives`,
`RetransmissionStops`, `ItemEndsOperation`, `BroadcastsAll`, `ServedBetweenBroadcasts`,
`RunEnds`), and the two properties that are violated. Of the first three the theorems `UniformSurvival` and
`QuietAgreement` are the part that needs no fairness.

## 6. What disagrees

- *A minority of crashes can stop a correct process from delivering* (run
  `urb_ring_crash`, `best-effort-broadcast.cpp:18`). With four hosts each has two
  neighbors and needs three acknowledgements, its own included. One crash takes
  one of them away from two of the three others, and the third, whose neighbors
  both run, delivers alone. `HoldersDeliver` states what the ring does promise,
  and `urb_complete` that nothing is amiss while the ring is complete (up to three
  hosts). `src/README.md:134` lets a minority crash.
- *The log is written more than once* (run `application_log`, `logger.cpp:17`).
  `buffer.clear()` clears the flags of the stream and leaves its text. After the
  log has passed a megabyte, each delivery writes all of it again.
  `src/README.md:120` asks for one line for each event.

Three more disagreements are about the end of a process. No run of the project is kept for
them, but each is stated beside the properties that hold, and TLC finds it violated in
a few seconds when it takes the place of the properties of `application_log.cfg` or
`perfect_link.cfg`.

- *A stopped process may lack its last event* (`EventsAreWritten` of `Application`,
  `main.cpp:98`). A message is sent first and logged afterwards, and a delivery is made before
  its line, both on the thread that the handler interrupts. A signal in between leaves an
  output without the event; for a broadcast, others may deliver a message that nobody has
  logged as sent. The counterexample: start, pass the barrier, `Send`, `stop`, `WriteInHandler`,
  `Exit`. `src/README.md:136`: "even a crashed process needs to output the sequence of events
  that occurred before the crash".
- *The last line of a stopped process may be cut short* (`LinesAreWhole` of `Application`,
  `logger.cpp:22` and `26`). A line is several insertions, and the handler writes the buffer
  as it finds it. The counterexample is the same with one `LogBroadcast` before `stop`.
  `src/README.md:120` has every line end with a line break.
- *A stopped process goes on sending* (`NothingSentAfterStop` of `PerfectLink`, `main.cpp:39`).
  The handler runs on one thread, and until `exit` has ended the process the threads of the
  peers take what is in their queues and send it again, even what the main thread was stopped
  before sending. The counterexample: `SendPush`, `Crash` of the sender, `Wait`, `Pop`,
  `Expire`, `Retry`. `src/README.md:134`: "it must not send or handle any received network packets".

`StoppedWithItsLog` is what remains true of the output in spite of this: but for what stands
in front and for the last event, it is the history.

## 7. What is not modelled, and why

- Byte layouts, addresses, formatting of lines, socket errors, partial writes: data
  the properties do not tell apart.
- Times: a retry may fall due whenever it is scheduled; the doubling of retry times
  appears in the fairness of `PerfectLink` only.
- `Task`: cancellation and `join` run in destructors, and `exit` in the signal handler
  runs none for objects of `main`.
- What the code does with files that are not as documented and are accepted all the
  same (ids 1, 3, 3; a blank line in the config) is in `Application`, but no promise
  says what it should be, so no property is about it. The same goes for an error of
  the socket, which ends the process without a log (`SocketFails`).
- Resolving names, trimming lines, the addresses of barrier and signal host in
  `Parser`; `try_recv`, which nothing calls; `serialize.hpp` (unused); build files,
  traffic shaping and the checks of outputs in `validate.py`.
- Functions that are not safe in a signal handler, a signal inside the construction of the
  logger, and one inside a single insertion (half a number).  A second signal is modelled,
  but nothing is said of the output it leaves.

## 8. Plan

Done: sections 2 to 6. What is left:

1. The datagram: `size_bytes`, the size of the clock computed from the length
   received and `force_set_size`, as operators with their round trip.
2. With it, a proof that the clock read at the receiver is the one that was sent, which
   `LocalizedCausalBroadcast` takes for granted.
