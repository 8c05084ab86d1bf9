---------------------------- MODULE TestRunProofs ----------------------------
(***************************************************************************)
(* Theorems about TestRun, for any number of processes, stressors and      *)
(* attempts.                                                               *)
(***************************************************************************)
EXTENDS TestRun, FiniteSetTheorems, TLAPS

LEMMA ProcessesAreCounted ==
  /\ processes \in Nat /\ processes > 0
  /\ maxTerminatedProcesses \in Nat
  /\ 2 * maxTerminatedProcesses < processes
<1>1. processes \in Nat /\ processes > 0
  BY ProcessAssumption, FS_CardinalityType, FS_EmptySet DEF processes
<1>2. QED
  BY <1>1 DEF maxTerminatedProcesses

LEMMA Initially == Init => IInv
<1> SUFFICES ASSUME Init PROVE IInv
  OBVIOUS
<1> USE DEF Init
<1>1. TypeOK
  <2>1. [now |-> Idle, successful |-> 0, selectProc |-> Process] \in Stress
    BY DEF Stress
  <2>2. QED
    BY <2>1 DEF TypeOK, Signal
<1>2. RecordedStateIsReal /\ LocksProtect /\ BarrierOrder
  BY ProcessAssumption DEF RecordedStateIsReal, Recorded, LocksProtect, BarrierOrder
<1>3. CounterCovers
  <2>1. Doomed = {}
    BY DEF Doomed, Idle
  <2>2. QED
    BY <2>1, ProcessesAreCounted, FS_EmptySet DEF CounterCovers
<1>4. QED
  BY <1>1, <1>2, <1>3 DEF IInv

-----------------------------------------------------------------------------
\* What a stressor about its business holds.
LEMMA BusyType ==
  ASSUME TypeOK, NEW t \in Stressor, stress[t].now # Idle
  PROVE  /\ stress[t].now.proc \in Process
         /\ stress[t].now.op \in Signal
         /\ stress[t].now = [proc |-> stress[t].now.proc, op |-> stress[t].now.op]
BY DEF TypeOK, Stress

\* What an attempt makes of the threads, ...
LEMMA AttemptOf ==
  ASSUME TypeOK, NEW t \in Stressor, NEW p \in Process, NEW op \in Signal, Attempt(t, p, op)
  PROVE  /\ stress' \in [Stressor -> Stress]
         /\ stress'[t].now = [proc |-> p, op |-> op]
         /\ stress'[t].successful = stress[t].successful
         /\ \A u \in Stressor : u # t => stress'[u] = stress[u]
<1> DEFINE s == [stress[t] EXCEPT !.now = [proc |-> p, op |-> op],
                   !.selectProc = IF op = "TERMINATED" THEN @ \ {p} ELSE @]
<1>1. stress \in [Stressor -> Stress] /\ stress[t] \in Stress
  BY DEF TypeOK
<1>2. stress' = [stress EXCEPT ![t] = s]
  BY <1>1 DEF Attempt
<1>3. s \in Stress /\ s.now = [proc |-> p, op |-> op] /\ s.successful = stress[t].successful
  BY <1>1 DEF Stress
<1> HIDE DEF s
<1>4. QED
  BY <1>1, <1>2, <1>3

\* ... and sending the signal.
LEMMA SendOf ==
  ASSUME TypeOK, NEW t \in Stressor, SendSignal(t)
  PROVE  /\ stress' \in [Stressor -> Stress]
         /\ stress'[t].now = Idle
         /\ \A u \in Stressor : u # t => stress'[u] = stress[u]
<1> DEFINE s == [stress[t] EXCEPT !.now = Idle, !.successful = @ + 1]
<1>1. stress \in [Stressor -> Stress] /\ stress[t] \in Stress
  BY DEF TypeOK
<1>2. stress' = [stress EXCEPT ![t] = s]
  BY <1>1 DEF SendSignal
<1>3. s \in Stress /\ s.now = Idle
  <2>1. stress[t].successful + 1 \in Nat
    BY <1>1 DEF Stress
  <2>2. QED
    BY <1>1, <2>1 DEF Stress
<1> HIDE DEF s
<1>4. QED
  BY <1>1, <1>2, <1>3

LEMMA TypeStep == TypeOK /\ [Next]_vars => TypeOK'
<1> SUFFICES ASSUME TypeOK, [Next]_vars PROVE TypeOK'
  OBVIOUS
<1> USE DEF TypeOK
<1>1. ASSUME NEW p \in Process, ProcessStep(p) PROVE TypeOK'
  BY <1>1 DEF ProcessStep, ConnectSignal, ConnectBarrier, PassBarrier, FinishBroadcasting,
     Exit, Step, barrierVars, testVars
<1>2. ASSUME NEW p \in Process, HostStep(p) PROVE TypeOK'
  BY <1>2 DEF HostStep, Accept, Release, End, processVars, barrierVars, testVars
<1>3. ASSUME NEW t \in Stressor, NEW p \in Process, NEW op \in Signal, Attempt(t, p, op)
      PROVE  TypeOK'
  <2>1. reserved \in Nat /\ (reserved' = reserved \/ reserved' = reserved + 1)
    BY <1>3 DEF Attempt
  <2>2. reserved' \in Nat
    BY ONLY <2>1
  <2>3. QED
    BY <1>3, <2>2, AttemptOf DEF Attempt, processVars, barrierVars
<1>4. ASSUME NEW t \in Stressor, SendSignal(t) PROVE TypeOK'
  <2>1. stress[t].now.proc \in Process /\ stress[t].now.op \in Signal
    BY <1>4, BusyType DEF SendSignal
  <2>2. stress' \in [Stressor -> Stress]
    BY <1>4, SendOf
  <2>3. suspended' \subseteq Process /\ sigterm' \subseteq Process
    BY <1>4, <2>1 DEF SendSignal, Signal
  <2>4. state' \in [Process -> Signal]
    BY <1>4, <2>1 DEF SendSignal
  <2>5. QED
    BY <1>4, <2>2, <2>3, <2>4 DEF SendSignal, barrierVars
<1>5. CASE DriverStep
  BY <1>5 DEF DriverStep, BarrierJoined, ContinueStopped, TerminateAll, Validate,
     processVars, barrierVars, testVars
<1>6. CASE UNCHANGED vars
  BY <1>6 DEF vars, processVars, barrierVars, testVars
<1>7. QED
  BY <1>1, <1>2, <1>3, <1>4, <1>5, <1>6 DEF Next, StressorStep, Signal

-----------------------------------------------------------------------------
(***************************************************************************)
(* The stress test.                                                        *)
(***************************************************************************)

\* The steps of the processes and the hosts concern none of its variables.
LEMMA OthersLeaveTestAlone ==
  ASSUME NEW p \in Process, ProcessStep(p) \/ HostStep(p)
  PROVE  UNCHANGED << suspended, sigterm, testVars, driver >>
BY DEF ProcessStep, ConnectSignal, ConnectBarrier, PassBarrier, FinishBroadcasting, Exit, Step,
   HostStep, Accept, Release, End, processVars, barrierVars, testVars

LEMMA SendingReleases ==
  ASSUME IInv, NEW t \in Stressor, SendSignal(t)
  PROVE  LocksProtect' /\ RecordedStateIsReal'
<1> DEFINE p == stress[t].now.proc
           op == stress[t].now.op
<1>1. p \in Process /\ op \in Signal /\ TypeOK /\ TypeOK'
  BY BusyType, TypeStep DEF IInv, SendSignal, Next, StressorStep
<1>2. /\ stress[t].now # Idle
      /\ suspended' = CASE op = "STOPPED" -> suspended \cup {p}
                        [] op = "RUNNING" -> suspended \ {p}
                        [] OTHER -> suspended
      /\ sigterm' = IF op = "TERMINATED" THEN sigterm \cup {p} ELSE sigterm
      /\ state' = [state EXCEPT ![p] = op]
      /\ stress' = [stress EXCEPT ![t].now = Idle, ![t].successful = @ + 1]
      /\ driver' = driver
  BY DEF SendSignal
<1>3. /\ validStateTransition(state[p], op)
      /\ driver = "stressing"
      /\ suspended = Recorded("STOPPED")
      /\ sigterm = Recorded("TERMINATED")
  BY <1>2 DEF IInv, LocksProtect, RecordedStateIsReal
<1>4. /\ stress'[t].now = Idle
      /\ \A u \in Stressor : u # t => stress'[u] = stress[u]
  BY <1>1, SendOf
<1>5. ASSUME NEW u \in Stressor, stress'[u].now # Idle
      PROVE  u # t /\ stress[u].now # Idle /\ stress[u].now.proc # p
  BY <1>2, <1>4, <1>5 DEF IInv, LocksProtect
<1> HIDE DEF p, op
<1>6. LocksProtect'
  <2>1. ASSUME NEW u \in Stressor, stress'[u].now # Idle
        PROVE  /\ validStateTransition(state'[stress'[u].now.proc], stress'[u].now.op)
               /\ stress'[u].successful < attempts
               /\ driver' = "stressing"
    <3>1. stress'[u] = stress[u] /\ stress[u].now.proc # p /\ stress[u].now # Idle
      BY <1>4, <1>5, <2>1
    <3>2. state'[stress[u].now.proc] = state[stress[u].now.proc]
      BY <1>1, <1>2, <3>1, BusyType DEF TypeOK
    <3>3. QED
      BY <1>2, <3>1, <3>2 DEF IInv, LocksProtect, validStateTransition
  <2>2. ASSUME NEW u \in Stressor, NEW v \in Stressor, u # v,
               stress'[u].now # Idle, stress'[v].now # Idle
        PROVE  stress'[u].now.proc # stress'[v].now.proc
    BY <1>4, <1>5, <2>2 DEF IInv, LocksProtect
  <2>3. QED
    BY <2>1, <2>2 DEF LocksProtect, validStateTransition
<1>7. RecordedStateIsReal'
  <2>1. state' \in [Process -> Signal] /\ \A q \in Process : state'[q] = IF q = p THEN op ELSE state[q]
    BY <1>1, <1>2 DEF TypeOK
  <2>2. suspended' = { q \in Process : state'[q] = "STOPPED" }
    BY <1>1, <1>2, <1>3, <2>1 DEF Recorded, Signal, validStateTransition
  <2>3. sigterm' = { q \in Process : state'[q] = "TERMINATED" }
    BY <1>1, <1>2, <1>3, <2>1 DEF Recorded, Signal, validStateTransition
  <2>4. QED
    BY <1>2, <1>3, <2>2, <2>3 DEF RecordedStateIsReal, Recorded
<1>8. QED
  BY <1>6, <1>7

LEMMA AttemptingLocks ==
  ASSUME IInv, NEW t \in Stressor, NEW p \in Process, NEW op \in Signal, Attempt(t, p, op)
  PROVE  LocksProtect' /\ RecordedStateIsReal'
<1>1. /\ driver = "stressing" /\ UNCHANGED << state, driver, suspended, sigterm >>
      /\ stress[t].now = Idle
      /\ stress[t].successful < attempts
      /\ Free(p)
      /\ validStateTransition(state[p], op)
  BY DEF Attempt, processVars
<1>2. /\ stress'[t].now = [proc |-> p, op |-> op]
      /\ stress'[t].successful = stress[t].successful
      /\ \A u \in Stressor : u # t => stress'[u] = stress[u]
  BY AttemptOf DEF IInv
<1>3. ASSUME NEW u \in Stressor, stress'[u].now # Idle
      PROVE  /\ validStateTransition(state[stress'[u].now.proc], stress'[u].now.op)
             /\ stress'[u].successful < attempts
             /\ u # t => stress'[u].now.proc # p
  <2>1. CASE u = t
    BY <1>1, <1>2, <2>1
  <2>2. CASE u # t
    BY <1>1, <1>2, <1>3, <2>2 DEF Free, IInv, LocksProtect
  <2>3. QED
    BY <2>1, <2>2
<1>4. ASSUME NEW u \in Stressor, NEW v \in Stressor, u # v,
             stress'[u].now # Idle, stress'[v].now # Idle
      PROVE  stress'[u].now.proc # stress'[v].now.proc
  BY <1>2, <1>3, <1>4 DEF IInv, LocksProtect
<1>5. LocksProtect'
  BY <1>1, <1>3, <1>4 DEF LocksProtect, validStateTransition
<1>6. RecordedStateIsReal'
  BY <1>1 DEF IInv, RecordedStateIsReal, Recorded
<1>7. QED
  BY <1>5, <1>6

LEMMA DoomedIsFinite ==
  /\ TypeOK => IsFiniteSet(Doomed) /\ Cardinality(Doomed) \in Nat
  /\ TypeOK' => IsFiniteSet(Doomed') /\ Cardinality(Doomed') \in Nat
<1>1. (TypeOK => Doomed \subseteq Process) /\ (TypeOK' => Doomed' \subseteq Process)
  BY DEF Doomed, TypeOK
<1>2. ASSUME NEW S \in SUBSET Process PROVE IsFiniteSet(S) /\ Cardinality(S) \in Nat
  BY ProcessAssumption, FS_Subset, FS_CardinalityType
<1>3. QED
  BY <1>1, <1>2

\* Whoever is to be terminated is reserved for first.
LEMMA AttemptingReserves ==
  ASSUME IInv, NEW t \in Stressor, NEW p \in Process, NEW op \in Signal, Attempt(t, p, op)
  PROVE  CounterCovers'
<1>1. /\ driver = "stressing" /\ UNCHANGED << driver, sigterm >>
      /\ stress[t].now = Idle
      /\ op = "TERMINATED" => reserved < maxTerminatedProcesses
      /\ reserved' = IF op = "TERMINATED" THEN reserved + 1 ELSE reserved
  BY DEF Attempt, CanReserve, processVars
<1>2. /\ stress'[t].now = [proc |-> p, op |-> op]
      /\ \A u \in Stressor : u # t => stress'[u] = stress[u]
  BY AttemptOf DEF IInv
<1>3. Doomed' \subseteq IF op = "TERMINATED" THEN Doomed \cup {p} ELSE Doomed
  <2> SUFFICES ASSUME NEW q \in Process, NEW u \in Stressor,
                      stress'[u].now = [proc |-> q, op |-> "TERMINATED"]
               PROVE  \/ op = "TERMINATED" /\ q = p
                      \/ stress[u].now = [proc |-> q, op |-> "TERMINATED"]
    BY <1>1 DEF Doomed
  <2>1. QED
    BY <1>2
<1>4. /\ IsFiniteSet(Doomed) /\ Cardinality(Doomed) \in Nat
      /\ IsFiniteSet(Doomed') /\ Cardinality(Doomed') \in Nat
      /\ reserved \in Nat
  <2>1. TypeOK'
    BY TypeStep DEF IInv, Next, StressorStep, Signal
  <2>2. IsFiniteSet(Doomed') /\ Cardinality(Doomed') \in Nat
    BY <2>1, DoomedIsFinite
  <2>3. QED
    BY <2>2, DoomedIsFinite DEF IInv, TypeOK
<1>5. /\ IsFiniteSet(Doomed \cup {p})
      /\ Cardinality(Doomed \cup {p}) \in Nat
      /\ Cardinality(Doomed \cup {p}) <= Cardinality(Doomed) + 1
  <2>1. /\ IsFiniteSet(Doomed \cup {p})
        /\ \/ Cardinality(Doomed \cup {p}) = Cardinality(Doomed)
           \/ Cardinality(Doomed \cup {p}) = Cardinality(Doomed) + 1
    BY <1>4, FS_AddElement
  <2>2. QED
    BY <1>4, <2>1
<1>6. maxTerminatedProcesses \in Nat
  BY ProcessesAreCounted
<1>7. Cardinality(Doomed) <= reserved /\ reserved <= maxTerminatedProcesses
  BY <1>1 DEF IInv, CounterCovers
<1>8. CASE op = "TERMINATED"
  <2>1. Cardinality(Doomed') <= Cardinality(Doomed \cup {p})
    BY <1>3, <1>5, <1>8, FS_Subset
  <2>2. reserved < maxTerminatedProcesses /\ reserved' = reserved + 1
    BY <1>1, <1>8
  <2>3. Cardinality(Doomed') <= reserved' /\ reserved' <= maxTerminatedProcesses
    BY <1>4, <1>5, <1>6, <1>7, <2>1, <2>2
  <2>4. QED
    BY <2>3 DEF CounterCovers, maxTerminatedProcesses, processes
<1>9. CASE op # "TERMINATED"
  <2>1. Cardinality(Doomed') <= Cardinality(Doomed)
    BY <1>3, <1>4, <1>9, FS_Subset
  <2>2. Cardinality(Doomed') <= reserved' /\ reserved' <= maxTerminatedProcesses
    BY <1>1, <1>4, <1>6, <1>7, <1>9, <2>1
  <2>3. QED
    BY <2>2 DEF CounterCovers, maxTerminatedProcesses, processes
<1>10. QED
  BY <1>8, <1>9

\* A signal that is sent dooms nobody who was not doomed before.
LEMMA SendingDoomsNobody ==
  ASSUME IInv, NEW t \in Stressor, SendSignal(t)
  PROVE  CounterCovers'
<1>1. /\ stress[t].now # Idle
      /\ sigterm' = IF stress[t].now.op = "TERMINATED" THEN sigterm \cup {stress[t].now.proc}
                    ELSE sigterm
      /\ UNCHANGED << reserved, driver >>
  BY DEF SendSignal
<1>2. /\ stress[t].now.proc \in Process
      /\ stress[t].now = [proc |-> stress[t].now.proc, op |-> stress[t].now.op]
      /\ stress'[t].now = Idle
      /\ \A u \in Stressor : u # t => stress'[u] = stress[u]
  BY <1>1, BusyType, SendOf DEF IInv
<1>3. Doomed' \subseteq Doomed
  <2>1. sigterm' \subseteq Doomed
    BY <1>1, <1>2 DEF Doomed
  <2>2. ASSUME NEW q \in Process, NEW u \in Stressor,
               stress'[u].now = [proc |-> q, op |-> "TERMINATED"]
        PROVE  stress[u].now = [proc |-> q, op |-> "TERMINATED"]
    BY <1>2, <2>2 DEF Idle
  <2>3. QED
    BY <2>1, <2>2 DEF Doomed
<1>4. /\ IsFiniteSet(Doomed)
      /\ Cardinality(Doomed) \in Nat
      /\ reserved \in Nat
  BY DoomedIsFinite DEF IInv, TypeOK
<1>5. Cardinality(Doomed') \in Nat /\ Cardinality(Doomed') <= Cardinality(Doomed)
  BY <1>3, <1>4, FS_Subset, FS_CardinalityType
<1>6. maxTerminatedProcesses \in Nat
  BY ProcessesAreCounted
<1>7. driver = "stressing" /\ Cardinality(Doomed) <= reserved /\ reserved <= maxTerminatedProcesses
  BY <1>1 DEF IInv, LocksProtect, CounterCovers
<1>8. Cardinality(Doomed') <= reserved' /\ reserved' <= maxTerminatedProcesses
  BY <1>1, <1>4, <1>5, <1>6, <1>7
<1>9. QED
  BY <1>8 DEF CounterCovers, maxTerminatedProcesses, processes

\* The steps of the driver, each with what it needs of the test.
LEMMA DrivingKeepsTest ==
  ASSUME IInv, DriverStep
  PROVE  RecordedStateIsReal' /\ CounterCovers' /\ LocksProtect'
<1>1. TypeOK /\ RecordedStateIsReal /\ CounterCovers /\ LocksProtect
  BY DEF IInv
<1>2. UNCHANGED << state, stress, reserved >>
  BY DEF DriverStep, BarrierJoined, ContinueStopped, TerminateAll, Validate, testVars
<1>3. sigterm' = sigterm => Doomed' = Doomed
  BY <1>2 DEF Doomed
<1>4. CASE BarrierJoined
  BY <1>1, <1>2, <1>4 DEF BarrierJoined, processVars, RecordedStateIsReal, Recorded,
     CounterCovers, Doomed, LocksProtect, validStateTransition, maxTerminatedProcesses, processes
<1>5. CASE ContinueStopped
  <2>1. \A t \in Stressor : stress[t].now = Idle
    BY <1>1, <1>5, AttemptsAssumption DEF ContinueStopped, LocksProtect
  <2>2. LocksProtect'
    BY <1>2, <2>1 DEF LocksProtect
  <2>3. suspended' = {} /\ driver = "stressing" /\ driver' = "waiting" /\ sigterm' = sigterm
    BY <1>1, <1>5 DEF ContinueStopped, RecordedStateIsReal, Recorded
  <2>4. RecordedStateIsReal'
    BY <1>1, <1>2, <2>3 DEF RecordedStateIsReal, Recorded
  <2>5. CounterCovers'
    BY <1>1, <1>2, <1>3, <2>3 DEF CounterCovers, maxTerminatedProcesses, processes
  <2>6. QED
    BY <2>2, <2>4, <2>5
<1>6. CASE TerminateAll \/ Validate
  <2>1. /\ driver \in {"waiting", "terminating"} /\ driver' \in {"terminating", "validating"}
        /\ suspended' \subseteq suspended
    BY <1>6 DEF TerminateAll, Validate, processVars
  <2>2. RecordedStateIsReal' /\ CounterCovers'
    BY <1>1, <2>1 DEF RecordedStateIsReal, CounterCovers
  <2>3. LocksProtect'
    BY <1>1, <1>2, <2>1 DEF LocksProtect
  <2>4. QED
    BY <2>2, <2>3
<1>7. QED
  BY <1>4, <1>5, <1>6 DEF DriverStep

LEMMA TestStep ==
  ASSUME IInv, [Next]_vars
  PROVE  RecordedStateIsReal' /\ CounterCovers' /\ LocksProtect'
<1>1. ASSUME UNCHANGED << suspended, sigterm, testVars, driver >>
      PROVE  RecordedStateIsReal' /\ CounterCovers' /\ LocksProtect'
  BY <1>1 DEF IInv, testVars, RecordedStateIsReal, Recorded, CounterCovers, Doomed,
     LocksProtect, validStateTransition, maxTerminatedProcesses, processes
<1>2. ASSUME NEW p \in Process, ProcessStep(p) \/ HostStep(p)
      PROVE  RecordedStateIsReal' /\ CounterCovers' /\ LocksProtect'
  BY <1>1, <1>2, OthersLeaveTestAlone
<1>3. ASSUME NEW t \in Stressor, StressorStep(t)
      PROVE  RecordedStateIsReal' /\ CounterCovers' /\ LocksProtect'
  BY <1>3, SendingReleases, SendingDoomsNobody, AttemptingLocks, AttemptingReserves
  DEF StressorStep, Signal
<1>4. CASE UNCHANGED vars
  BY <1>1, <1>4 DEF vars, processVars
<1>5. QED
  BY <1>2, <1>3, <1>4, DrivingKeepsTest DEF Next

-----------------------------------------------------------------------------
(***************************************************************************)
(* The barrier.                                                            *)
(***************************************************************************)

\* All that the barrier counts are all.
LEMMA AllCameMeansAll ==
  ASSUME TypeOK, AllCame
  PROVE  accepted = Process
BY ProcessAssumption, FS_Subset DEF TypeOK, AllCame, processes

\* How far a process gets in a step of its own.
LEMMA ProgramStep ==
  ASSUME IInv, NEW p \in Process, ProcessStep(p)
  PROVE  BarrierOrder'
<1>1. TypeOK /\ BarrierOrder
  BY DEF IInv
<1>2. UNCHANGED << sigterm, accepted, released, driver >>
  BY DEF ProcessStep, ConnectSignal, ConnectBarrier, PassBarrier, FinishBroadcasting, Exit, Step,
     barrierVars
<1>3. \A q \in Process : q # p => program'[q] = program[q]
  BY <1>1 DEF ProcessStep, ConnectSignal, ConnectBarrier, PassBarrier, FinishBroadcasting, Exit,
     Step, TypeOK
<1>4. /\ p \in accepted => program'[p] \notin {"started", "signal connected"}
      /\ program'[p] \in {"broadcasting", "receiving"} => p \in released
      /\ program'[p] = "exited" => p \in sigterm
  BY <1>1 DEF ProcessStep, ConnectSignal, ConnectBarrier, PassBarrier, FinishBroadcasting, Exit,
     Step, TypeOK, BarrierOrder
<1>5. QED
  BY <1>1, <1>2, <1>3, <1>4 DEF BarrierOrder

LEMMA BarrierStep ==
  ASSUME IInv, [Next]_vars
  PROVE  BarrierOrder'
<1>1. TypeOK /\ BarrierOrder
  BY DEF IInv
<1>2. ASSUME NEW p \in Process, HostStep(p) PROVE BarrierOrder'
  <2>1. CASE Accept(p)
    BY <1>1, <2>1 DEF Accept, processVars, BarrierOrder, TypeOK
  <2>2. CASE Release(p)
    <3>1. accepted = Process
      BY <1>1, <2>2, AllCameMeansAll DEF Release
    <3>2. QED
      BY <1>1, <2>2, <3>1 DEF Release, processVars, BarrierOrder, TypeOK
  <2>3. CASE End(p)
    BY <1>1, <2>3 DEF End, processVars, barrierVars, BarrierOrder
  <2>4. QED
    BY <1>2, <2>1, <2>2, <2>3 DEF HostStep
<1>3. ASSUME NEW t \in Stressor, NEW p \in Process, NEW op \in Signal, Attempt(t, p, op)
      PROVE  BarrierOrder'
  BY <1>1, <1>3 DEF Attempt, processVars, barrierVars, BarrierOrder
<1>4. ASSUME NEW t \in Stressor, SendSignal(t) PROVE BarrierOrder'
  <2>1. /\ stress[t].now # Idle /\ UNCHANGED << program, barrierVars, driver >>
        /\ sigterm \subseteq sigterm'
    BY <1>4 DEF SendSignal
  <2>2. driver = "stressing"
    BY <2>1 DEF IInv, LocksProtect
  <2>3. QED
    BY <1>1, <2>1, <2>2 DEF barrierVars, BarrierOrder
<1>5. CASE DriverStep
  BY <1>1, <1>5 DEF DriverStep, BarrierJoined, ContinueStopped, TerminateAll, Validate,
     processVars, barrierVars, BarrierOrder
<1>6. CASE UNCHANGED vars
  BY <1>1, <1>6 DEF vars, processVars, barrierVars, BarrierOrder
<1>7. QED
  BY <1>2, <1>3, <1>4, <1>5, <1>6, ProgramStep DEF Next, StressorStep, Signal

-----------------------------------------------------------------------------
\* The inductive invariant holds in every reachable state.
THEOREM InductiveInvariant == Spec => []IInv
<1>1. IInv /\ [Next]_vars => IInv'
  BY TypeStep, TestStep, BarrierStep DEF IInv
<1>2. QED
  BY <1>1, Initially, PTL DEF Spec

\* However the stressors interleave, a majority is not terminated by the test.
THEOREM MajorityIsSpared == Spec => []OnlyMinorityTerminated
<1>1. IInv => OnlyMinorityTerminated
  <2> SUFFICES ASSUME IInv, driver \in {"starting", "stressing", "waiting"}
               PROVE  2 * Cardinality(sigterm) < processes
    BY DEF OnlyMinorityTerminated
  <2>1. sigterm \subseteq Doomed /\ IsFiniteSet(Doomed) /\ Cardinality(Doomed) \in Nat
    BY DoomedIsFinite DEF IInv, Doomed
  <2>2. Cardinality(sigterm) \in Nat /\ Cardinality(sigterm) <= Cardinality(Doomed)
    BY <2>1, FS_Subset, FS_CardinalityType
  <2>3. /\ reserved \in Nat
        /\ Cardinality(Doomed) <= reserved /\ reserved <= maxTerminatedProcesses
    BY DEF IInv, TypeOK, CounterCovers
  <2>4. QED
    BY <2>1, <2>2, <2>3, ProcessesAreCounted
<1>2. QED
  BY <1>1, InductiveInvariant, PTL

\* No process broadcasts before all have got to the barrier.
THEOREM BarrierIsABarrier == Spec => []BarrierHolds
<1>1. IInv => BarrierHolds
  <2> SUFFICES ASSUME IInv, NEW p \in Process, NEW q \in Process,
                      program[p] \in {"broadcasting", "receiving", "exited"}
               PROVE  program[q] \notin {"started", "signal connected"}
    BY DEF BarrierHolds
  <2>1. p \in released \/ released = Process
    BY DEF IInv, BarrierOrder
  <2>2. QED
    BY <2>1 DEF IInv, BarrierOrder
<1>2. QED
  BY <1>1, InductiveInvariant, PTL

\* The test knows which processes are suspended and which were terminated.
THEOREM RecordsAreTrue == Spec => []RecordedStateIsReal
<1>1. IInv => RecordedStateIsReal
  BY DEF IInv
<1>2. QED
  BY <1>1, InductiveInvariant, PTL

=============================================================================
