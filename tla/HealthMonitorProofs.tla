------------------------ MODULE HealthMonitorProofs -------------------------
(***************************************************************************)
(* Proofs about HealthMonitor for any number of callers, thread objects    *)
(* and targets. NoOrphan is not inductive: that start() finds the place    *)
(* empty when it spawns its thread rests on the lock, which it holds from  *)
(* the moment it saw no living thread (LockInv).                           *)
(***************************************************************************)
EXTENDS HealthMonitor, FiniteSetTheorems, TLAPS

\* A caller in the middle of start() holds the lock, and no thread lives.
LockInv == \A k \in Callers : pc[k] \in {"probe", "spawn"} =>
               lock = k /\ \A d \in Threads : ~Alive(d)

IInv == TypeOK /\ NoOrphan /\ LockInv

\* While the lock is free nobody is in the middle of start().
LEMMA FreeLock ==
    ASSUME IInv, lock = NoOne
    PROVE  \A k \in Callers : pc[k] \notin {"probe", "spawn"}
  BY NoOneAssumption DEF IInv, LockInv, NoOne

\* Steps of the monitor and the clock, which bring no thread to life.
LEMMA NobodyIsBorn ==
    ASSUME IInv, UNCHANGED <<lock, thread, pc>>,
           \A d \in Threads : Alive(d)' => Alive(d)
    PROVE  NoOrphan' /\ LockInv'
  BY DEF IInv, NoOrphan, LockInv

LEMMA CallerStep ==
    ASSUME IInv, NEW k \in Callers, Call(k) \/ Caller(k)
    PROVE  IInv'
  <1> USE DEF IInv
  <1>1. CASE Call(k)
    <2>1. TypeOK' BY <1>1 DEF Call, Goto, TypeOK, Steps, threadVars
    <2>2. NoOrphan' /\ LockInv'
      BY <1>1 DEF Call, Goto, TypeOK, NoOrphan, LockInv, Alive, threadVars
    <2>3. QED BY <2>1, <2>2
  <1>2. CASE StartLock(k)
    <2>1. TypeOK' BY <1>2 DEF StartLock, Goto, TypeOK, Steps, threadVars
    <2>2. MayStart => \A d \in Threads : ~Alive(d)
      BY NoOneAssumption DEF MayStart, Running, NoOrphan, NoOne
    <2>3. \A d \in Threads : Alive(d)' <=> Alive(d)
      BY <1>2 DEF StartLock, threadVars, Alive
    <2>4. NoOrphan' BY <1>2, <2>3 DEF StartLock, NoOrphan
    <2>5. LockInv'
      BY <1>2, <2>2, <2>3, FreeLock DEF StartLock, Goto, TypeOK, LockInv
    <2>6. QED BY <2>1, <2>4, <2>5
  <1>3. CASE StartProbe(k)
    <2>1. TypeOK'
      BY <1>3, TargetsAssumption DEF StartProbe, MoreToPoll, Goto, TypeOK, Steps, threadVars
    <2>2. NoOrphan' /\ LockInv'
      BY <1>3 DEF StartProbe, Goto, TypeOK, NoOrphan, LockInv, Alive, threadVars
    <2>3. QED BY <2>1, <2>2
  <1>4. CASE StartSpawn(k)
    <2>1. PICK d \in Threads : thread' = d /\ run' = [run EXCEPT ![d] = "loop"]
      BY <1>4 DEF StartSpawn
    <2>2. TypeOK' BY <1>4, <2>1 DEF StartSpawn, Goto, TypeOK, Steps, Rounds
    <2>3. lock = k /\ \A e \in Threads : ~Alive(e)
      BY <1>4 DEF StartSpawn, LockInv
    <2>4. NoOrphan' BY <2>1, <2>3 DEF NoOrphan, Alive, TypeOK
    <2>5. \A j \in Callers : pc'[j] \notin {"probe", "spawn"}
      BY <1>4, <2>3 DEF StartSpawn, Goto, TypeOK, LockInv
    <2>6. LockInv' BY <2>5 DEF LockInv
    <2>7. QED BY <2>2, <2>4, <2>6
  <1>5. CASE StopLock(k)
    <2>1. TypeOK' BY <1>5 DEF StopLock, Goto, TypeOK, Steps, threadVars
    <2>2. NoOrphan' /\ LockInv'
      BY <1>5 DEF StopLock, Goto, TypeOK, NoOrphan, LockInv, Alive, threadVars
    <2>3. QED BY <2>1, <2>2
  <1>6. CASE StopJoin(k)
    <2>1. TypeOK' BY <1>6 DEF StopJoin, Goto, TypeOK, Steps, threadVars
    <2>2. NoOrphan' /\ LockInv'
      BY <1>6 DEF StopJoin, Goto, TypeOK, NoOrphan, LockInv, Alive, threadVars
    <2>3. QED BY <2>1, <2>2
  <1>7. CASE StopForget(k)
    <2>1. TypeOK' BY <1>7 DEF StopForget, Goto, TypeOK, Steps, threadVars
    <2>2. \A d \in Threads : Alive(d)' <=> Alive(d)
      BY <1>7 DEF StopForget, threadVars, Alive
    <2>3. NoOrphan' BY <1>7, <2>2 DEF StopForget, Forgets, NoOrphan
    <2>4. LockInv' BY <1>7, <2>2 DEF StopForget, Goto, TypeOK, LockInv
    <2>5. QED BY <2>1, <2>3, <2>4
  <1>8. QED BY <1>1, <1>2, <1>3, <1>4, <1>5, <1>6, <1>7 DEF Caller

LEMMA MonitorStep ==
    ASSUME IInv, NEW d \in Threads, Monitor(d)
    PROVE  IInv'
  <1> USE DEF IInv
  <1>1. CASE MonitorLoop(d)
    <2>1. TypeOK' BY <1>1 DEF MonitorLoop, TypeOK, Rounds, callerVars
    <2>2. \A e \in Threads : Alive(e)' => Alive(e)
      BY <1>1 DEF MonitorLoop, Alive, TypeOK
    <2>3. QED BY <1>1, <2>1, <2>2, NobodyIsBorn DEF MonitorLoop, callerVars
  <1>2. CASE MonitorNext(d)
    <2>1. TypeOK' BY <1>2 DEF MonitorNext, TypeOK, Rounds, callerVars
    <2>2. \A e \in Threads : Alive(e)' => Alive(e)
      BY <1>2 DEF MonitorNext, Alive, TypeOK
    <2>3. QED BY <1>2, <2>1, <2>2, NobodyIsBorn DEF MonitorNext, callerVars
  <1>3. CASE MonitorProbed(d)
    <2>1. TypeOK' BY <1>3 DEF MonitorProbed, Left, TypeOK, Rounds, callerVars
    <2>2. \A e \in Threads : Alive(e)' => Alive(e)
      BY <1>3 DEF MonitorProbed, Alive, TypeOK
    <2>3. QED BY <1>3, <2>1, <2>2, NobodyIsBorn DEF MonitorProbed, callerVars
  <1>4. QED BY <1>1, <1>2, <1>3 DEF Monitor

\* The inductive invariant of the monitor: types, one reachable thread at most,
\* and the lock around a start() in progress (health.py start, stop, _run).
THEOREM HealthMonitorInvariant == Spec => []IInv
  <1>1. Init => IInv
    <2> SUFFICES ASSUME Init PROVE IInv
      OBVIOUS
    <2>1. TypeOK
      <3>1. 0 \in 0..(T - 1) BY TargetsAssumption
      <3>2. probed \in [Callers -> 0..(T - 1)] BY <3>1 DEF Init
      <3>3. /\ todo \in [Threads -> SUBSET Targets] /\ due \in [Targets -> BOOLEAN]
            /\ run \in [Threads -> Rounds] /\ pc \in [Callers -> Steps]
        BY DEF Init, Steps, Rounds
      <3>4. QED BY <3>2, <3>3 DEF Init, TypeOK
    <2>2. NoOrphan /\ LockInv BY DEF Init, NoOrphan, LockInv, Alive
    <2>3. QED BY <2>1, <2>2 DEF IInv
  <1>2. IInv /\ [Next]_vars => IInv'
    <2> SUFFICES ASSUME IInv, [Next]_vars PROVE IInv'
      OBVIOUS
    <2>1. ASSUME NEW k \in Callers, Call(k) \/ Caller(k) PROVE IInv'
      BY <2>1, CallerStep
    <2>2. ASSUME NEW d \in Threads, Monitor(d) PROVE IInv'
      BY <2>2, MonitorStep
    <2>3. ASSUME NEW t \in Targets, Elapse(t) PROVE IInv'
      <3>1. TypeOK' BY <2>3 DEF IInv, Elapse, TypeOK, threadVars, callerVars
      <3>2. \A e \in Threads : Alive(e)' => Alive(e)
        BY <2>3 DEF Elapse, threadVars, Alive
      <3>3. QED BY <2>3, <3>1, <3>2, NobodyIsBorn DEF IInv, Elapse, callerVars
    <2>4. CASE UNCHANGED vars
      <3>1. TypeOK' BY <2>4 DEF IInv, vars, TypeOK
      <3>2. \A e \in Threads : Alive(e)' => Alive(e)
        BY <2>4 DEF vars, Alive
      <3>3. QED BY <2>4, <3>1, <3>2, NobodyIsBorn DEF IInv, vars
    <2>5. QED BY <2>1, <2>2, <2>3, <2>4 DEF Next
  <1>3. QED BY <1>1, <1>2, PTL DEF Spec

\* stop() can reach every thread that lives: there is no orphan, whatever
\* joins timed out before (health.py stop, second section).
THEOREM NoOrphanCorrect == Spec => []NoOrphan
  <1>1. IInv => NoOrphan BY DEF IInv
  <1>2. QED BY <1>1, HealthMonitorInvariant, PTL

\* Two probes never overlap, the first one of start() included: a prober in
\* start() excludes living threads, and of these there is one at most.
THEOREM ProbesCorrect == Spec => []ProbesDisjoint
  <1>1. IInv => ProbesDisjoint
    <2> SUFFICES ASSUME IInv PROVE ProbesDisjoint
      OBVIOUS
    <2>1. \E x : Probing \subseteq {x}
      <3>1. CASE \E k \in Callers : pc[k] = "probe"
        <4>1. PICK k \in Callers : pc[k] = "probe" BY <3>1
        <4>2. \A d \in Threads : run[d] # "probe"
          BY <4>1 DEF IInv, LockInv, Alive
        <4>3. \A j \in Callers : pc[j] = "probe" => j = k
          BY <4>1 DEF IInv, LockInv
        <4>4. Probing \subseteq {k} BY <4>2, <4>3 DEF Probing
        <4>5. QED BY <4>4
      <3>2. CASE \A k \in Callers : pc[k] # "probe"
        <4>1. \A d \in Threads : run[d] = "probe" => d = thread
          BY DEF IInv, NoOrphan, Alive
        <4>2. Probing \subseteq {thread} BY <3>2, <4>1 DEF Probing
        <4>3. QED BY <4>2
      <3>3. QED BY <3>1, <3>2
    <2>2. PICK x : Probing \subseteq {x} BY <2>1
    <2>3. IsFiniteSet({x}) /\ Cardinality({x}) = 1 BY FS_Singleton
    <2>4. Probing \in SUBSET {x} BY <2>2
    <2>5. Cardinality(Probing) <= Cardinality({x}) BY <2>3, <2>4, FS_Subset
    <2>6. QED BY <2>3, <2>5 DEF ProbesDisjoint
  <1>2. QED BY <1>1, HealthMonitorInvariant, PTL
-----------------------------------------------------------------------------
(***************************************************************************)
(* What a stop() that waits can count on: the signal to the thread it      *)
(* joins stays, and with it every step of that thread brings its end       *)
(* nearer. It is StopTakesEffect up to the fairness of the thread.         *)
(***************************************************************************)

\* The thread a stop() has signalled and not yet forgotten is dead or still signalled.
SignalKept == \A k \in Callers, d \in Threads :
                  ref[k] = d /\ Alive(d) => stopEvent

\* How many steps a signalled thread has left at most.
Short(d) == IF run[d] = "probe" THEN 3
            ELSE IF run[d] = "round" THEN 2
            ELSE IF run[d] = "loop" THEN 1 ELSE 0

StopAdvances == \A k \in Callers, d \in Threads :
                    ref[k] = d => /\ Short(d)' <= Short(d)
                                  /\ Monitor(d) => Short(d)' < Short(d)

\* Steps that leave the threads' life and who is signalled alone.
LEMMA SignalStays ==
    ASSUME SignalKept, stopEvent => stopEvent', run' = run,
           \A k \in Callers : ref'[k] \in {ref[k], NoOne}
    PROVE  SignalKept'
  BY NoOneAssumption DEF SignalKept, Alive, NoOne

LEMMA SignalCallerStep ==
    ASSUME IInv, SignalKept, NEW k \in Callers, Call(k) \/ Caller(k)
    PROVE  SignalKept'
  <1> USE DEF IInv
  <1>1. CASE Call(k)
    BY <1>1, SignalStays DEF Call, threadVars
  <1>2. CASE StartLock(k)
    <2>1. CASE MayStart
      <3>1. \A d \in Threads : ~Alive(d)
        BY <2>1, NoOneAssumption DEF MayStart, Running, NoOrphan, NoOne
      <3>2. QED BY <1>2, <3>1 DEF StartLock, threadVars, SignalKept, Alive
    <2>2. CASE ~MayStart
      BY <1>2, <2>2, SignalStays DEF StartLock, threadVars
    <2>3. QED BY <2>1, <2>2
  <1>3. CASE StartProbe(k)
    BY <1>3, SignalStays DEF StartProbe, threadVars
  <1>4. CASE StartSpawn(k)
    <2>1. PICK d \in Threads : Fresh(d) /\ run' = [run EXCEPT ![d] = "loop"]
      BY <1>4 DEF StartSpawn
    <2>2. \A e \in Threads : Alive(e)' => Alive(e) \/ e = d
      BY <2>1 DEF Alive, TypeOK
    <2>3. QED BY <1>4, <2>1, <2>2 DEF StartSpawn, Fresh, SignalKept
  <1>5. CASE StopLock(k)
    <2>1. \A d \in Threads : Alive(d)' <=> Alive(d)
      BY <1>5 DEF StopLock, threadVars, Alive
    <2>2. \A d \in Threads : Alive(d) => thread # NoOne
      BY NoOneAssumption DEF NoOrphan, NoOne
    <2>3. QED BY <1>5, <2>1, <2>2 DEF StopLock, SignalKept
  <1>6. CASE StopJoin(k)
    BY <1>6, SignalStays DEF StopJoin, threadVars
  <1>7. CASE StopForget(k)
    <2>1. \A j \in Callers : ref'[j] \in {ref[j], NoOne}
      BY <1>7 DEF StopForget, TypeOK
    <2>2. QED BY <1>7, <2>1, SignalStays DEF StopForget, threadVars
  <1>8. QED BY <1>1, <1>2, <1>3, <1>4, <1>5, <1>6, <1>7 DEF Caller

LEMMA SignalMonitorStep ==
    ASSUME IInv, SignalKept, NEW d \in Threads, Monitor(d)
    PROVE  SignalKept'
  <1>1. \A e \in Threads : Alive(e)' => Alive(e)
    BY DEF IInv, Monitor, MonitorLoop, MonitorNext, MonitorProbed, Alive, TypeOK
  <1>2. UNCHANGED <<ref, stopEvent>>
    BY DEF Monitor, MonitorLoop, MonitorNext, MonitorProbed, callerVars
  <1>3. QED BY <1>1, <1>2 DEF SignalKept

\* A thread that some stop() waits for is signalled for as long as it lives: no
\* start() that runs meanwhile clears the event under it (health.py start, stop).
THEOREM SignalKeptCorrect == Spec => []SignalKept
  <1>1. Init => SignalKept BY DEF Init, SignalKept, Alive
  <1>2. IInv /\ SignalKept /\ [Next]_vars => SignalKept'
    <2> SUFFICES ASSUME IInv, SignalKept, [Next]_vars PROVE SignalKept'
      OBVIOUS
    <2>1. ASSUME NEW k \in Callers, Call(k) \/ Caller(k) PROVE SignalKept'
      BY <2>1, SignalCallerStep
    <2>2. ASSUME NEW d \in Threads, Monitor(d) PROVE SignalKept'
      BY <2>2, SignalMonitorStep
    <2>3. ASSUME NEW t \in Targets, Elapse(t) PROVE SignalKept'
      BY <2>3, SignalStays DEF Elapse, threadVars, callerVars
    <2>4. CASE UNCHANGED vars BY <2>4, SignalStays DEF vars
    <2>5. QED BY <2>1, <2>2, <2>3, <2>4 DEF Next
  <1>3. QED BY <1>1, <1>2, HealthMonitorInvariant, PTL DEF Spec

\* A thread that was told to stop takes a nearer step to its end whenever it
\* steps, and nothing else leads it away: at most three steps of its own are
\* left, one probe among them (health.py _run).
THEOREM StopAdvancesCorrect == Spec => [][StopAdvances]_vars
  <1>1. ASSUME IInv, SignalKept, [Next]_vars PROVE [StopAdvances]_vars
    <2> SUFFICES ASSUME Next, NEW k \in Callers, NEW d \in Threads, ref[k] = d
                 PROVE  /\ Short(d)' <= Short(d)
                        /\ Monitor(d) => Short(d)' < Short(d)
      BY <1>1 DEF StopAdvances
    <2> USE <1>1 DEF IInv
    <2>1. ASSUME Monitor(d) PROVE Short(d)' < Short(d)
      <3>1. Alive(d)
        BY <2>1 DEF Monitor, MonitorLoop, MonitorNext, MonitorProbed, Alive
      <3>2. stopEvent BY <3>1 DEF SignalKept
      <3>3. CASE MonitorLoop(d) BY <3>2, <3>3 DEF MonitorLoop, Short, TypeOK
      <3>4. CASE MonitorNext(d) BY <3>2, <3>4 DEF MonitorNext, Short, TypeOK
      <3>5. CASE MonitorProbed(d) BY <3>5 DEF MonitorProbed, Short, TypeOK
      <3>6. QED BY <2>1, <3>3, <3>4, <3>5 DEF Monitor
    <2>2. ASSUME ~Monitor(d) PROVE run'[d] = run[d]
      <3>1. ASSUME NEW j \in Callers, StartSpawn(j) PROVE run'[d] = run[d]
        <4>1. PICK e \in Threads : Fresh(e) /\ run' = [run EXCEPT ![e] = "loop"]
          BY <3>1 DEF StartSpawn
        <4>2. e # d BY <4>1 DEF Fresh
        <4>3. QED BY <4>1, <4>2 DEF TypeOK
      <3>2. ASSUME NEW e \in Threads, Monitor(e) PROVE run'[d] = run[d]
        BY <2>2, <3>2 DEF Monitor, MonitorLoop, MonitorNext, MonitorProbed, TypeOK
      <3>3. QED
        BY <3>1, <3>2 DEF Next, Call, Caller, StartLock, StartProbe, StopLock,
                          StopJoin, StopForget, Elapse, threadVars
    <2>3. Short(d) \in 0..3 BY DEF Short
    <2>4. Short(d)' \in 0..3 BY DEF Short
    <2>5. ~Monitor(d) => Short(d)' <= Short(d)
      BY <2>2, <2>3 DEF Short
    <2>6. QED BY <2>1, <2>3, <2>4, <2>5
  <1>2. QED BY <1>1, HealthMonitorInvariant, SignalKeptCorrect, PTL DEF Spec
=============================================================================
