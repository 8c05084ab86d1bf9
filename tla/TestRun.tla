------------------------------- MODULE TestRun -------------------------------
(***************************************************************************)
(* A run of the system under validate.py: the processes come up and meet   *)
(* at the barrier (barrier.hpp, barrier.py), the threads of the stress     *)
(* test stop, continue and terminate them, and the run is over when        *)
(* finishedSignal.py has seen the end of every process's broadcasting.     *)
(*                                                                         *)
(* What a process broadcasts is not looked at: it broadcasts for a while,  *)
(* unless it is suspended, and then closes its signal connection.          *)
(***************************************************************************)
EXTENDS Integers, FiniteSets

CONSTANTS
  Process,    \* the processes started
  Stressor,   \* the threads of the stress test, "concurrency" many
  attempts    \* signals each of them sends

ASSUME ProcessAssumption == IsFiniteSet(Process) /\ Process # {}
ASSUME AttemptsAssumption == attempts \in Nat

processes == Cardinality(Process)

\* The saturation of the counter terminatedProcs.
maxTerminatedProcesses ==
  IF processes % 2 = 1 THEN processes \div 2 ELSE (processes - 1) \div 2

VARIABLES
  program,    \* program[p]: how far main.cpp has got
  suspended,  \* processes stopped by SIGSTOP
  sigterm,    \* processes that were sent SIGTERM
  accepted,   \* connections the barrier has accepted
  released,   \* those it has closed: these processes may begin
  ended,      \* processes whose connection the finished signal saw closed
  state,      \* state[p]: ProcessInfo.state, what the test thinks of p
  reserved,   \* the counter terminatedProcs
  stress,     \* stress[t]: what thread t is about, its attempts so far, and the
              \* processes it still selects from
  driver      \* where the main thread of validate.py is

processVars == << program, suspended, sigterm >>
barrierVars == << accepted, released >>
testVars    == << state, reserved, stress >>
vars == << processVars, barrierVars, ended, testVars, driver >>

Idle == [proc |-> "none", op |-> "none"]

Init ==
  /\ program = [p \in Process |-> "started"]
  /\ suspended = {}
  /\ sigterm = {}
  /\ accepted = {}
  /\ released = {}
  /\ ended = {}
  /\ state = [p \in Process |-> "RUNNING"]
  /\ reserved = 0
  /\ stress = [t \in Stressor |->
                 [now |-> Idle, successful |-> 0, selectProc |-> Process]]
  /\ driver = "starting"

-----------------------------------------------------------------------------
(***************************************************************************)
(* The processes.                                                          *)
(***************************************************************************)
Runs(p) == p \notin suspended

Step(p, from, to) ==
  /\ Runs(p)
  /\ program[p] = from
  /\ program' = [program EXCEPT ![p] = to]
  /\ UNCHANGED << suspended, sigterm, barrierVars, ended, testVars, driver >>

\* The coordinator's constructor connects to the signal host, ...
ConnectSignal(p) == Step(p, "started", "signal connected")

\* ... waitOnBarrier to the barrier, and returns when that closes.
ConnectBarrier(p) == Step(p, "signal connected", "waiting")

PassBarrier(p) == p \in released /\ Step(p, "waiting", "broadcasting")

\* finishedBroadcasting closes the signal connection.
FinishBroadcasting(p) == Step(p, "broadcasting", "receiving")

\* The handler of SIGTERM; exit closes all connections.
Exit(p) ==
  /\ p \in sigterm
  /\ program[p] # "exited"
  /\ Step(p, program[p], "exited")

-----------------------------------------------------------------------------
(***************************************************************************)
(* barrier.py and finishedSignal.py.                                       *)
(***************************************************************************)

\* Barrier.wait accepts the connections one after the other ...
Accept(p) ==
  /\ program[p] = "waiting"
  /\ p \notin accepted
  /\ accepted' = accepted \cup {p}
  /\ UNCHANGED << processVars, released, ended, testVars, driver >>

\* Slip: the one that is being accepted is counted twice.
AllButOneCame == Cardinality(accepted) >= processes - 1

AllCame == Cardinality(accepted) = processes

\* ... and when all have come closes them, one after the other.
Release(p) ==
  /\ AllCame
  /\ p \in accepted \ released
  /\ released' = released \cup {p}
  /\ UNCHANGED << processVars, accepted, ended, testVars, driver >>

\* FinishedSignal.read: the end of the stream, behind the number of the process,
\* is the end of its broadcasting, or of the process itself.
End(p) ==
  /\ program[p] \in {"receiving", "exited"}
  /\ p \notin ended
  /\ ended' = ended \cup {p}
  /\ UNCHANGED << processVars, barrierVars, testVars, driver >>

-----------------------------------------------------------------------------
(***************************************************************************)
(* The stress test.                                                        *)
(***************************************************************************)
validStateTransition(current, desired) ==
  \/ current = "RUNNING" /\ desired \in {"STOPPED", "TERMINATED"}
  \/ current = "STOPPED" /\ desired = "RUNNING"

\* Slip: the state is checked, and nobody kept from changing it.
WithoutLock(p) == p \in Process

\* The lock of ProcessInfo p is free.
Free(p) == \A t \in Stressor : stress[t].now.proc # p

\* Slip: the counter saturates one too late.
CanReserveOneMore == reserved <= maxTerminatedProcesses

\* AtomicSaturatedCounter.reserve finds a place.
CanReserve == reserved < maxTerminatedProcesses

\* Thread t has drawn p and op, takes the lock of p, finds the transition valid,
\* reserves a termination if it is one, and goes to sleep with the lock held.
\* If the transition is not valid, or all terminations are reserved, it draws
\* again: nothing has changed.
Attempt(t, p, op) ==
  /\ driver = "stressing"
  /\ stress[t].now = Idle
  /\ stress[t].successful < attempts
  /\ p \in stress[t].selectProc
  /\ Free(p)
  /\ validStateTransition(state[p], op)
  /\ op = "TERMINATED" => CanReserve
  /\ reserved' = IF op = "TERMINATED" THEN reserved + 1 ELSE reserved
  /\ stress' = [stress EXCEPT
                  ![t].now = [proc |-> p, op |-> op],
                  ![t].selectProc = IF op = "TERMINATED" THEN @ \ {p} ELSE @]
  /\ UNCHANGED << processVars, barrierVars, ended, state, driver >>

\* It wakes up, sends the signal and records it.
SendSignal(t) ==
  LET p  == stress[t].now.proc
      op == stress[t].now.op
  IN  /\ stress[t].now # Idle
      /\ suspended' = CASE op = "STOPPED" -> suspended \cup {p}
                        [] op = "RUNNING" -> suspended \ {p}
                        [] OTHER -> suspended
      /\ sigterm' = IF op = "TERMINATED" THEN sigterm \cup {p} ELSE sigterm
      /\ state' = [state EXCEPT ![p] = op]
      /\ stress' = [stress EXCEPT ![t].now = Idle, ![t].successful = @ + 1]
      /\ UNCHANGED << program, barrierVars, ended, reserved, driver >>

-----------------------------------------------------------------------------
(***************************************************************************)
(* main of validate.py.                                                    *)
(***************************************************************************)

\* initBarrierThread.join: Barrier.wait has closed the last connection.
BarrierJoined ==
  /\ driver = "starting"
  /\ released = Process
  /\ driver' = "stressing"
  /\ UNCHANGED << processVars, barrierVars, ended, testVars >>

\* Slip: the stopped processes are left alone.
LeaveStopped ==
  /\ driver = "stressing"
  /\ \A t \in Stressor : stress[t].successful = attempts
  /\ driver' = "waiting"
  /\ UNCHANGED << processVars, barrierVars, ended, testVars >>

\* st.run and continueStoppedProcesses, which does not record what it does.
ContinueStopped ==
  /\ driver = "stressing"
  /\ \A t \in Stressor : stress[t].successful = attempts
  /\ suspended' = suspended \ { p \in Process : state[p] = "STOPPED" }
  /\ driver' = "waiting"
  /\ UNCHANGED << program, sigterm, barrierVars, ended, testVars >>

\* finishSignalThread.join, and then terminateAllProcesses.
TerminateAll ==
  /\ driver = "waiting"
  /\ ended = Process
  /\ suspended' = suspended \ { p \in Process : state[p] = "STOPPED" }
  /\ sigterm' = sigterm \cup { p \in Process : state[p] # "TERMINATED" }
  /\ driver' = "terminating"
  /\ UNCHANGED << program, barrierVars, ended, testVars >>

\* All monitors have joined: the output is complete and can be checked.
Validate ==
  /\ driver = "terminating"
  /\ \A p \in Process : program[p] = "exited"
  /\ driver' = "validating"
  /\ UNCHANGED << processVars, barrierVars, ended, testVars >>

ProcessStep(p) ==
  ConnectSignal(p) \/ ConnectBarrier(p) \/ PassBarrier(p) \/ FinishBroadcasting(p) \/ Exit(p)

HostStep(p) == Accept(p) \/ Release(p) \/ End(p)

StressorStep(t) ==
  \/ SendSignal(t)
  \/ \E p \in Process, op \in {"STOPPED", "RUNNING", "TERMINATED"} : Attempt(t, p, op)

DriverStep == BarrierJoined \/ ContinueStopped \/ TerminateAll \/ Validate

Next ==
  \/ \E p \in Process : ProcessStep(p) \/ HostStep(p)
  \/ \E t \in Stressor : StressorStep(t)
  \/ DriverStep

Spec == Init /\ [][Next]_vars

\* Processes that are not suspended run, and so do the threads of the test.  A
\* stressor draws at random: what it can do again and again, it does.  A process
\* broadcasts everything in the end, see Application; the user hits Enter when
\* validate.py asks for it before it terminates the rest.
Fairness ==
  /\ \A p \in Process : SF_vars(ProcessStep(p))
  /\ WF_vars(\E p \in Process : HostStep(p))
  /\ \A t \in Stressor : SF_vars(StressorStep(t))
  /\ WF_vars(DriverStep)

FairSpec == Spec /\ Fairness

-----------------------------------------------------------------------------
(***************************************************************************)
(* Properties.                                                             *)
(***************************************************************************)

Signal == {"STOPPED", "RUNNING", "TERMINATED"}

\* What a thread of the stress test keeps.
Stress ==
  [now : {Idle} \cup [proc : Process, op : Signal], successful : Nat, selectProc : SUBSET Process]

TypeOK ==
  /\ program \in [Process -> {"started", "signal connected", "waiting",
                              "broadcasting", "receiving", "exited"}]
  /\ suspended \subseteq Process
  /\ sigterm \subseteq Process
  /\ accepted \subseteq Process
  /\ released \subseteq Process
  /\ ended \subseteq Process
  /\ state \in [Process -> Signal]
  /\ reserved \in Nat
  /\ stress \in [Stressor -> Stress]
  /\ driver \in {"starting", "stressing", "waiting", "terminating", "validating"}

Recorded(s) == { p \in Process : state[p] = s }

\* The processes that were sent SIGTERM, or will be by a thread that sleeps.
Doomed ==
  sigterm \cup { p \in Process :
                 \E t \in Stressor : stress[t].now = [proc |-> p, op |-> "TERMINATED"] }

\* Until the processes are all to be terminated, only a minority is, however the
\* stressors interleave between asking the counter and sending the signal.
OnlyMinorityTerminated ==
  driver \in {"starting", "stressing", "waiting"} => 2 * Cardinality(sigterm) < processes

\* No process broadcasts before every process has got to the barrier, its socket
\* bound and its receiver thread running.
BarrierHolds ==
  \A p, q \in Process :
    program[p] \in {"broadcasting", "receiving", "exited"} =>
      program[q] \notin {"started", "signal connected"}

\* What the test has recorded of the processes is what the signals have made of
\* them: no signal of another thread comes between the check of a transition and
\* the signal, so that all that are suspended are found and continued, and none
\* is both terminated and suspended, which would never exit.
RecordedStateIsReal ==
  /\ driver \in {"starting", "stressing"} => suspended = Recorded("STOPPED")
  /\ driver \notin {"starting", "stressing"} => suspended = {}
  /\ driver \in {"starting", "stressing", "waiting"} => sigterm = Recorded("TERMINATED")

\* The counter is ahead of the signals.
CounterCovers ==
  driver \in {"starting", "stressing", "waiting"} =>
    Cardinality(Doomed) <= reserved /\ reserved <= maxTerminatedProcesses

\* Who sleeps has its process to itself, and a transition that is still valid.
LocksProtect ==
  /\ \A t \in Stressor : stress[t].now # Idle =>
       /\ validStateTransition(state[stress[t].now.proc], stress[t].now.op)
       /\ stress[t].successful < attempts
       /\ driver = "stressing"
  /\ \A t, u \in Stressor :
       t # u /\ stress[t].now # Idle /\ stress[u].now # Idle =>
         stress[t].now.proc # stress[u].now.proc

\* How the barrier, the processes and the driver go together.
BarrierOrder ==
  /\ released \subseteq accepted
  /\ released # {} => accepted = Process
  /\ \A p \in Process :
       /\ p \in accepted => program[p] \notin {"started", "signal connected"}
       /\ program[p] \in {"broadcasting", "receiving"} => p \in released
       /\ program[p] = "exited" => p \in sigterm
  /\ driver = "starting" => sigterm = {}
  /\ driver # "starting" => released = Process

\* The inductive invariant.
IInv == TypeOK /\ RecordedStateIsReal /\ CounterCovers /\ LocksProtect /\ BarrierOrder

\* The run comes to its end: no process that was stopped or terminated keeps the
\* test waiting for it.
RunEnds == <>(driver = "validating")

=============================================================================
