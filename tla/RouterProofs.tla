---------------------------- MODULE RouterProofs ----------------------------
(***************************************************************************)
(* Proofs about Router for every pool size, set of callers, policy and     *)
(* threshold.                                                              *)
(***************************************************************************)
EXTENDS Router, FiniteSetTheorems, TLAPS

\* While a call looks for a member one is left, and while it holds one it is
\* a member of its order: what makes the indexing in chat() well defined.
TriedInv == \A c \in Calls : /\ pc[c] \in Finished => tried[c] = 0
                             /\ pc[c] = "acquire" => tried[c] < N
                             /\ pc[c] \in Holding => tried[c] \in 1..N

\* The configuration order is an attempt order, and an attempt order lists
\* members only, none twice and none left out.
LEMMA ConfigOrder == InConfigOrder \in Orders
  BY DEF InConfigOrder, Orders, Bijection, Injection, Surjection, IsInjective

LEMMA OrderFacts ==
    ASSUME NEW o \in Orders
    PROVE  /\ o \in [Members -> Members]
           /\ \A i, j \in Members : o[i] = o[j] => i = j
           /\ \A m \in Members : \E i \in Members : o[i] = m
  BY DEF Orders, Bijection, Injection, Surjection, IsInjective

\* The steps a call can be at, and what the sets of steps have in common.
LEMMA StepFacts == /\ {"acquire", "backend", "next", "return", "raise", "close"} = Running
                   /\ {"idle", "ok", "failed", "broken", "closed"} = Finished
                   /\ Finished \cap Running = {} /\ "acquire" \notin Holding
                   /\ Running = Holding \cup {"acquire"}
  BY DEF Running, Finished, Holding

\* The counters stay below the bounds they saturate at.
LEMMA CounterFacts ==
    /\ FailureCap \in Nat \ {0} /\ FailureThreshold \in 1..FailureCap
    /\ UnhealthyThreshold \in 1..FailureCap
    /\ \A n \in 0..FailureCap : CountFailure(n) \in 1..FailureCap
    /\ \A n \in 0..SuccessThreshold : CountSuccess(n) \in 1..SuccessThreshold
  BY ThresholdAssumption DEF FailureCap, CountFailure, CountSuccess

LEMMA StateFacts == /\ {"healthy", "unknown", "degraded", "unhealthy"} = HealthStates
                    /\ \A n \in Int : StateAfterFailures(n) \in HealthStates
  BY DEF HealthStates, StateAfterFailures

\* How a released call goes on is a step of its own.
LEMMA ReleaseFacts ==
    ASSUME NEW step \in Holding \ {"backend"}, NEW n \in 1..N
    PROVE  /\ AfterRelease(step, n) \in Finished \cup {"acquire"}
           /\ AfterRelease(step, n) = "acquire" => n < N
  BY PoolAssumption DEF AfterRelease, Finished, Holding

\* The member a call holds, and the one it takes next, are members of the pool.
LEMMA CurrentFacts ==
    ASSUME TypeOK, TriedInv, NEW c \in Calls
    PROVE  /\ pc[c] \in Holding => Current(c) \in Members
           /\ pc[c] = "acquire" => order[c][tried[c] + 1] \in Members
  <1>1. order[c] \in [Members -> Members]
    BY OrderFacts DEF TypeOK
  <1>2. pc[c] \in Holding => tried[c] \in Members
    BY DEF TriedInv, Members
  <1>3. pc[c] = "acquire" => tried[c] + 1 \in Members
    BY PoolAssumption DEF TriedInv, Members, TypeOK
  <1>4. QED
    BY <1>1, <1>2, <1>3 DEF Current

\* Every variable keeps its type, and a call never runs off its order.
THEOREM TypeCorrect == Spec => [](TypeOK /\ TriedInv)
  <1>1. Init => TypeOK /\ TriedInv
    BY ConfigOrder, StepFacts, CounterFacts, StateFacts, PoolAssumption,
       ThresholdAssumption DEF Init, TypeOK, TriedInv
  <1>2. TypeOK /\ TriedInv /\ [Next]_vars => (TypeOK /\ TriedInv)'
    <2> SUFFICES ASSUME TypeOK, TriedInv, [Next]_vars
                 PROVE TypeOK' /\ TriedInv'
      OBVIOUS
    <2>1. ASSUME NEW c \in Calls, Begin(c) PROVE TypeOK' /\ TriedInv'
      <3>1. rrIndex' \in 0..(N - 1)
        BY <2>1, PoolAssumption DEF Begin, TypeOK, Advance
      <3>2. TypeOK'
        BY <2>1, <3>1, StepFacts DEF Begin, TypeOK, memberVars
      <3>3. TriedInv'
        BY <2>1, StepFacts, PoolAssumption DEF Begin, TypeOK, TriedInv
      <3>4. QED BY <3>2, <3>3
    <2>2. ASSUME NEW c \in Calls, Acquire(c) PROVE TypeOK' /\ TriedInv'
      <3>1. tried[c] + 1 \in 0..N /\ tried[c] + 1 \in 1..N
        BY <2>2, PoolAssumption DEF Acquire, TypeOK, TriedInv
      <3>2. TypeOK'
        <4>1. busy' \in [Members -> Int]
          BY <2>2, CurrentFacts DEF Acquire, TypeOK
        <4>2. QED
          BY <2>2, <3>1, <4>1, StepFacts DEF Acquire, TypeOK, memberVars
      <3>3. TriedInv'
        BY <2>2, <3>1, StepFacts DEF Acquire, TypeOK, TriedInv, Holding
      <3>4. QED BY <3>2, <3>3
    <2>3. ASSUME NEW c \in Calls, Succeed(c) PROVE TypeOK' /\ TriedInv'
      <3>1. 0 \in 0..FailureCap /\ SuccessThreshold \in 0..SuccessThreshold
        BY CounterFacts, ThresholdAssumption
      <3>2. TypeOK'
        BY <2>3, <3>1, StepFacts, StateFacts DEF Succeed, TypeOK
      <3>3. TriedInv'
        BY <2>3, StepFacts DEF Succeed, TypeOK, TriedInv, Holding
      <3>4. QED BY <3>2, <3>3
    <2>4. ASSUME NEW c \in Calls, Fail(c) PROVE TypeOK' /\ TriedInv'
      <3>1. AfterFailure(c) \in {"next", "raise"}
        BY DEF AfterFailure
      <3>2. /\ failures' \in [Members -> 0..FailureCap]
            /\ successes' \in [Members -> 0..SuccessThreshold]
            /\ health' \in [Members -> HealthStates]
            /\ cooling' \in [Members -> BOOLEAN]
        <4>1. CASE ~(Cooldown \/ ActiveHealth)
          BY <2>4, <4>1 DEF Fail, RecordFailure, TypeOK, memberVars
        <4>2. CASE Cooldown \/ ActiveHealth
          <5>1. Current(c) \in Members
            BY <2>4, CurrentFacts DEF Fail, Holding
          <5>2. CountFailure(failures[Current(c)]) \in 0..FailureCap
            BY <5>1, CounterFacts DEF TypeOK
          <5>3. /\ StateAfterFailures(CountFailure(failures[Current(c)])) \in HealthStates
                /\ 0 \in 0..SuccessThreshold
            BY <5>2, StateFacts, ThresholdAssumption
          <5>4. QED
            BY <2>4, <4>2, <5>1, <5>2, <5>3 DEF Fail, RecordFailure, TypeOK
        <4>3. QED BY <4>1, <4>2
      <3>3. TypeOK'
        BY <2>4, <3>1, <3>2, StepFacts DEF Fail, TypeOK
      <3>4. TriedInv'
        BY <2>4, <3>1, StepFacts DEF Fail, TypeOK, TriedInv, Holding
      <3>5. QED BY <3>3, <3>4
    <2>5. ASSUME NEW c \in Calls, Release(c) PROVE TypeOK' /\ TriedInv'
      <3>1. /\ AfterRelease(pc[c], tried[c]) \in Finished \cup {"acquire"}
            /\ AfterRelease(pc[c], tried[c]) = "acquire" => tried[c] < N
        BY <2>5, ReleaseFacts DEF Release, TriedInv
      <3>2. TypeOK'
        <4>1. busy' \in [Members -> Int]
          BY <2>5, CurrentFacts DEF Release, TypeOK
        <4>2. /\ order' \in [Calls -> Orders] /\ tried' \in [Calls -> 0..N]
              /\ emitted' \in [Calls -> BOOLEAN]
          <5>1. CASE AfterRelease(pc[c], tried[c]) \in Finished
            <6>1. 0 \in 0..N
              BY PoolAssumption
            <6>2. QED BY <2>5, <5>1, <6>1, ConfigOrder DEF Release, TypeOK
          <5>2. CASE AfterRelease(pc[c], tried[c]) \notin Finished
            BY <2>5, <5>2 DEF Release, TypeOK
          <5>3. QED BY <5>1, <5>2
        <4>3. pc' \in [Calls -> Finished \cup Running]
          BY <2>5, <3>1, StepFacts DEF Release, TypeOK
        <4>4. QED
          BY <2>5, <4>1, <4>2, <4>3 DEF Release, TypeOK, memberVars
      <3>3. TriedInv'
        BY <2>5, <3>1, StepFacts DEF Release, TypeOK, TriedInv
      <3>4. QED BY <3>2, <3>3
    <2>6. ASSUME NEW c \in Calls, Emit(c) \/ Close(c) PROVE TypeOK' /\ TriedInv'
      <3>1. TypeOK'
        BY <2>6, StepFacts DEF Emit, Close, TypeOK, memberVars
      <3>2. TriedInv'
        BY <2>6, StepFacts DEF Emit, Close, TypeOK, TriedInv, Holding
      <3>3. QED BY <3>1, <3>2
    <2>7. ASSUME NEW m \in Members, Probe(m) PROVE TypeOK' /\ TriedInv'
      <3>1. /\ 0 \in 0..FailureCap /\ 0 \in 0..SuccessThreshold
            /\ CountFailure(failures[m]) \in 0..FailureCap
            /\ CountSuccess(successes[m]) \in 0..SuccessThreshold
        BY CounterFacts, ThresholdAssumption DEF TypeOK
      <3>2. StateAfterFailures(CountFailure(failures[m])) \in HealthStates
        BY <3>1, StateFacts
      <3>3. TypeOK'
        <4>1. CASE ProbeGood(m)
          BY <4>1, <3>1, StateFacts DEF ProbeGood, TypeOK, callVars
        <4>2. CASE ProbeBad(m)
          BY <4>2, <3>1, <3>2 DEF ProbeBad, TypeOK, callVars
        <4>3. QED BY <2>7, <4>1, <4>2 DEF Probe
      <3>4. TriedInv'
        BY <2>7 DEF Probe, ProbeGood, ProbeBad, TriedInv, callVars
      <3>5. QED BY <3>3, <3>4
    <2>8. ASSUME NEW m \in Members, CooldownEnds(m) PROVE TypeOK' /\ TriedInv'
      BY <2>8 DEF CooldownEnds, TypeOK, TriedInv, callVars
    <2>9. CASE UNCHANGED vars
      BY <2>9 DEF vars, TypeOK, TriedInv
    <2>10. QED
      BY <2>1, <2>2, <2>3, <2>4, <2>5, <2>6, <2>7, <2>8, <2>9 DEF Next, Step
  <1>3. QED
    BY <1>1, <1>2, PTL DEF Spec

\* The routing state agrees with the counters, in every configuration.
THEOREM HealthStateCorrect == Spec => []HealthStateAgrees
  <1>1. Init => HealthStateAgrees
    BY DEF Init, HealthStateAgrees, HealthAgrees
  <1>2. /\ TypeOK /\ TriedInv /\ HealthStateAgrees /\ [Next]_vars
        => HealthStateAgrees'
    <2> SUFFICES ASSUME TypeOK, TriedInv, HealthStateAgrees, [Next]_vars,
                        NEW m \in Members
                 PROVE HealthAgrees(m)'
      BY DEF HealthStateAgrees
    <2>1. HealthAgrees(m)
      BY DEF HealthStateAgrees
    <2>2. failures[m] \in 0..FailureCap /\ successes[m] \in 0..SuccessThreshold
      BY DEF TypeOK
    <2>3. CASE UNCHANGED memberVars
      BY <2>1, <2>3 DEF memberVars, HealthAgrees
    <2>4. ASSUME NEW c \in Calls, Succeed(c) PROVE HealthAgrees(m)'
      BY <2>4, <2>1 DEF Succeed, HealthAgrees, TypeOK
    <2>5. ASSUME NEW c \in Calls, Fail(c) PROVE HealthAgrees(m)'
      <3>1. CASE ~(Cooldown \/ ActiveHealth) \/ m # Current(c)
        BY <2>5, <3>1, <2>1 DEF Fail, RecordFailure, memberVars, HealthAgrees, TypeOK
      <3>2. CASE (Cooldown \/ ActiveHealth) /\ m = Current(c)
        BY <2>5, <3>2, <2>1, <2>2, ThresholdAssumption
        DEF Fail, RecordFailure, HealthAgrees, TypeOK, StateAfterFailures,
            CountFailure, FailureCap
      <3>3. QED BY <3>1, <3>2
    <2>6. ASSUME NEW k \in Members, ProbeGood(k) PROVE HealthAgrees(m)'
      BY <2>6, <2>1, <2>2, ThresholdAssumption
      DEF ProbeGood, HealthAgrees, TypeOK, CountSuccess
    <2>7. ASSUME NEW k \in Members, ProbeBad(k) PROVE HealthAgrees(m)'
      BY <2>7, <2>1, <2>2, ThresholdAssumption
      DEF ProbeBad, HealthAgrees, TypeOK, StateAfterFailures, CountFailure, FailureCap
    <2>8. ASSUME NEW k \in Members, CooldownEnds(k) PROVE HealthAgrees(m)'
      BY <2>8, <2>1 DEF CooldownEnds, HealthAgrees, TypeOK
    <2>9. QED
      BY <2>3, <2>4, <2>5, <2>6, <2>7, <2>8
      DEF Next, Step, Probe, Begin, Acquire, Release, Emit, Close, vars, memberVars
  <1>3. QED
    BY <1>1, <1>2, TypeCorrect, PTL DEF Spec

\* busy counts the calls in flight: no way out of an attempt, and no
\* interleaving of calls, leaks or double-counts one.
THEOREM BusyCorrect == Spec => []BusyMatchesInFlight
  <1>1. Init => BusyMatchesInFlight
    <2> SUFFICES ASSUME Init, NEW m \in Members PROVE busy[m] = Cardinality(Holders(m))
      BY DEF BusyMatchesInFlight
    <2>1. Holders(m) = {}
      BY DEF Init, Holders, Holding
    <2>2. QED
      BY <2>1, FS_EmptySet DEF Init
  <1>2. TypeOK /\ TriedInv /\ BusyMatchesInFlight /\ [Next]_vars => BusyMatchesInFlight'
    <2> SUFFICES ASSUME TypeOK, TriedInv, BusyMatchesInFlight, [Next]_vars,
                        NEW m \in Members
                 PROVE busy'[m] = Cardinality(Holders(m)')
      BY DEF BusyMatchesInFlight
    <2>1. busy[m] = Cardinality(Holders(m))
      BY DEF BusyMatchesInFlight
    <2>2. IsFiniteSet(Holders(m)) /\ Cardinality(Holders(m)) \in Nat
      BY CallsAssumption, FS_Subset, FS_CardinalityType DEF Holders
    <2>3. ASSUME Holders(m)' = Holders(m), busy'[m] = busy[m]
          PROVE busy'[m] = Cardinality(Holders(m)')
      BY <2>1, <2>3
    <2>4. ASSUME NEW c \in Calls, Acquire(c)
          PROVE busy'[m] = Cardinality(Holders(m)')
      <3>1. /\ \A d \in Calls \ {c} : pc'[d] = pc[d] /\ Current(d)' = Current(d)
            /\ pc'[c] = "backend" /\ Current(c)' = order[c][tried[c] + 1]
            /\ pc[c] = "acquire"
        BY <2>4 DEF Acquire, TypeOK, Current
      <3>2. CASE order[c][tried[c] + 1] = m
        <4>1. Holders(m)' = Holders(m) \cup {c} /\ c \notin Holders(m)
          BY <3>1, <3>2 DEF Holders, Holding
        <4>2. busy'[m] = busy[m] + 1
          BY <2>4, <3>2 DEF Acquire, TypeOK
        <4>3. QED
          BY <4>1, <4>2, <2>1, <2>2, FS_AddElement
      <3>3. CASE order[c][tried[c] + 1] # m
        <4>1. Holders(m)' = Holders(m)
          BY <3>1, <3>3 DEF Holders, Holding
        <4>2. busy'[m] = busy[m]
          BY <2>4, <3>3 DEF Acquire, TypeOK
        <4>3. QED
          BY <4>1, <4>2, <2>3
      <3>4. QED BY <3>2, <3>3
    <2>5. ASSUME NEW c \in Calls, Release(c)
          PROVE busy'[m] = Cardinality(Holders(m)')
      <3>1. /\ \A d \in Calls \ {c} : pc'[d] = pc[d] /\ Current(d)' = Current(d)
            /\ pc'[c] \notin Holding /\ pc[c] \in Holding
        <4>1. AfterRelease(pc[c], tried[c]) \in Finished \cup {"acquire"}
          BY <2>5, ReleaseFacts DEF Release, TriedInv
        <4>2. QED
          BY <2>5, <4>1, StepFacts DEF Release, TypeOK, Current
      <3>2. CASE Current(c) = m
        <4>1. Holders(m)' = Holders(m) \ {c} /\ c \in Holders(m)
          BY <3>1, <3>2 DEF Holders
        <4>2. busy'[m] = busy[m] - 1
          BY <2>5, <3>2 DEF Release, TypeOK
        <4>3. QED
          BY <4>1, <4>2, <2>1, <2>2, FS_RemoveElement
      <3>3. CASE Current(c) # m
        <4>1. Holders(m)' = Holders(m)
          BY <3>1, <3>3 DEF Holders
        <4>2. busy'[m] = busy[m]
          BY <2>5, <3>3 DEF Release, TypeOK
        <4>3. QED
          BY <4>1, <4>2, <2>3
      <3>4. QED BY <3>2, <3>3
    <2>6. ASSUME NEW c \in Calls, Begin(c)
          PROVE busy'[m] = Cardinality(Holders(m)')
      <3>1. Holders(m)' = Holders(m)
        <4>1. /\ \A d \in Calls \ {c} : pc'[d] = pc[d] /\ Current(d)' = Current(d)
              /\ pc[c] \in Finished /\ pc'[c] = "acquire"
          BY <2>6 DEF Begin, TypeOK, Current
        <4>2. QED
          BY <4>1 DEF Holders, Finished, Holding
      <3>2. QED BY <3>1, <2>3, <2>6 DEF Begin
    <2>7. ASSUME NEW c \in Calls, Succeed(c) \/ Fail(c) \/ Emit(c) \/ Close(c)
          PROVE busy'[m] = Cardinality(Holders(m)')
      <3>1. /\ \A d \in Calls : pc'[d] \in Holding <=> pc[d] \in Holding
            /\ UNCHANGED <<busy, order, tried>>
        BY <2>7 DEF Succeed, Fail, Emit, Close, AfterFailure, TypeOK, Holding
      <3>2. Holders(m)' = Holders(m)
        BY <3>1 DEF Holders, Current
      <3>3. QED BY <3>1, <3>2, <2>3
    <2>8. CASE UNCHANGED <<busy, pc, order, tried>>
      BY <2>8, <2>3 DEF Holders, Current
    <2>9. QED
      BY <2>4, <2>5, <2>6, <2>7, <2>8
      DEF Next, Step, Probe, ProbeGood, ProbeBad, CooldownEnds, callVars, vars
  <1>3. QED
    BY <1>1, <1>2, TypeCorrect, PTL DEF Spec

\* What an attempt's outcome says about its output: failover only without,
\* a broken or closed stream only with.
EmittedInv == \A c \in Calls : /\ pc[c] = "next" => ~emitted[c]
                               /\ pc[c] \in {"raise", "close"} => emitted[c]

LEMMA EmittedCorrect == Spec => []EmittedInv
  <1>1. Init => EmittedInv
    BY DEF Init, EmittedInv
  <1>2. TypeOK /\ TriedInv /\ EmittedInv /\ [Next]_vars => EmittedInv'
    <2> SUFFICES ASSUME TypeOK, TriedInv, EmittedInv, [Next]_vars PROVE EmittedInv'
      OBVIOUS
    <2>1. ASSUME NEW c \in Calls, Release(c) PROVE EmittedInv'
      <3>1. AfterRelease(pc[c], tried[c]) \in Finished \cup {"acquire"}
        BY <2>1, ReleaseFacts DEF Release, TriedInv
      <3>2. pc'[c] \notin {"next", "raise", "close"}
        BY <2>1, <3>1 DEF Release, TypeOK, Finished
      <3>3. \A d \in Calls \ {c} : pc'[d] = pc[d] /\ emitted'[d] = emitted[d]
        BY <2>1 DEF Release, TypeOK
      <3>4. QED
        BY <3>2, <3>3 DEF EmittedInv
    <2>2. ASSUME NEW c \in Calls,
                 Begin(c) \/ Acquire(c) \/ Succeed(c) \/ Fail(c) \/ Emit(c) \/ Close(c)
          PROVE EmittedInv'
      BY <2>2
      DEF Begin, Acquire, Succeed, Fail, Emit, Close, AfterFailure, TypeOK, EmittedInv
    <2>3. CASE UNCHANGED <<pc, emitted>>
      BY <2>3 DEF EmittedInv
    <2>4. QED
      BY <2>1, <2>2, <2>3
      DEF Next, Step, Probe, ProbeGood, ProbeBad, CooldownEnds, callVars, vars
  <1>3. QED
    BY <1>1, <1>2, TypeCorrect, PTL DEF Spec

\* A call with a place left in its order has a member left to try, and the
\* call that has come to the end of it has none.
LEMMA UntriedFacts ==
    ASSUME TypeOK, NEW c \in Calls, pc[c] \notin Finished
    PROVE  /\ tried[c] = 0 => Untried(c) = Members
           /\ tried[c] < N => order[c][tried[c] + 1] \in Untried(c)
           /\ tried[c] = N => Untried(c) = {}
  <1>1. /\ order[c] \in [Members -> Members]
        /\ \A i, j \in Members : order[c][i] = order[c][j] => i = j
        /\ \A m \in Members : \E i \in Members : order[c][i] = m
    BY OrderFacts DEF TypeOK
  <1>0. tried[c] \in 0..N
    BY DEF TypeOK
  <1>2. tried[c] = 0 => Untried(c) = Members
    BY DEF Untried
  <1>3. tried[c] < N => order[c][tried[c] + 1] \in Untried(c)
    <2> SUFFICES ASSUME tried[c] < N PROVE order[c][tried[c] + 1] \in Untried(c)
      OBVIOUS
    <2>1. tried[c] + 1 \in Members
      BY <1>0, PoolAssumption DEF Members
    <2>2. \A i \in 1..tried[c] : i \in Members /\ i # tried[c] + 1
      BY <1>0, PoolAssumption DEF Members
    <2>3. QED
      BY <1>1, <2>1, <2>2 DEF Untried
  <1>4. tried[c] = N => Untried(c) = {}
    BY <1>1 DEF Untried, Members
  <1>5. QED
    BY <1>2, <1>3, <1>4

\* Router keeps the promise Failover makes to its callers.
THEOREM RouterImplementsFailover == Spec => RefinesFailover
  <1>1. Init => Promise!Init
    BY DEF Init, Promise!Init, phaseBar, untriedBar, Phase, Untried, Finished
  <1>2. TypeOK /\ TriedInv /\ EmittedInv /\ TypeOK' /\ TriedInv' /\ [Next]_vars
        => [Promise!Next]_(Promise!vars)
    <2> SUFFICES ASSUME TypeOK, TriedInv, EmittedInv, TypeOK', TriedInv', [Next]_vars
                 PROVE  Promise!Next \/ UNCHANGED <<phaseBar, untriedBar>>
      BY DEF Promise!vars
    <2>0. ASSUME NEW c \in Calls,
                 \A d \in Calls \ {c} : /\ pc'[d] = pc[d] /\ order'[d] = order[d]
                                        /\ tried'[d] = tried[d]
                                        /\ emitted'[d] = emitted[d]
          PROVE  /\ phaseBar' = [phaseBar EXCEPT ![c] = Phase(c)']
                 /\ untriedBar' = [untriedBar EXCEPT ![c] = Untried(c)']
                 /\ phaseBar[c] = Phase(c) /\ untriedBar[c] = Untried(c)
      <3>1. \A d \in Calls \ {c} : Phase(d)' = Phase(d) /\ Untried(d)' = Untried(d)
        BY <2>0 DEF Phase, Untried
      <3>2. QED
        BY <3>1 DEF phaseBar, untriedBar
    <2>1. ASSUME NEW c \in Calls, Begin(c) PROVE Promise!Next
      <3>1. pc[c] \in Finished /\ pc'[c] = "acquire" /\ tried'[c] = 0
        BY <2>1 DEF Begin, TypeOK, TriedInv
      <3>2. Phase(c) \in Promise!Settled /\ Phase(c)' = "choosing" /\ Untried(c)' = Members
        BY <3>1, StepFacts DEF Phase, Untried, Promise!Settled
      <3>3. Promise!Begin(c)
        BY <2>1, <2>0, <3>2 DEF Begin, TypeOK, Promise!Begin
      <3>4. QED BY <3>3 DEF Promise!Next
    <2>2. ASSUME NEW c \in Calls, Acquire(c) PROVE Promise!Next
      <3>1. /\ pc[c] = "acquire" /\ pc'[c] = "backend" /\ tried'[c] = tried[c] + 1
            /\ order'[c] = order[c] /\ emitted'[c] = FALSE
            /\ tried[c] < N /\ tried[c] \in 0..N
        BY <2>2 DEF Acquire, TypeOK, TriedInv
      <3>2. order[c][tried[c] + 1] \in Untried(c)
        BY <3>1, UntriedFacts, StepFacts
      <3>3. Phase(c) = "choosing" /\ Phase(c)' = "offered"
        BY <3>1, StepFacts DEF Phase
      <3>4. Untried(c)' = Untried(c) \ {order[c][tried[c] + 1]}
        <4>1. 1..(tried[c] + 1) = (1..tried[c]) \cup {tried[c] + 1}
          BY <3>1
        <4>2. QED
          BY <3>1, <4>1, StepFacts DEF Untried
      <3>5. /\ phaseBar' = [phaseBar EXCEPT ![c] = Phase(c)']
            /\ untriedBar' = [untriedBar EXCEPT ![c] = Untried(c)']
            /\ phaseBar[c] = Phase(c) /\ untriedBar[c] = Untried(c)
        BY <2>2, <2>0 DEF Acquire, TypeOK
      <3>6. Promise!Offer(c)
        BY <3>2, <3>3, <3>4, <3>5 DEF Promise!Offer
      <3>7. QED BY <3>6 DEF Promise!Next
    <2>3. ASSUME NEW c \in Calls, Emit(c) PROVE Promise!Next
      <3>1. /\ Phase(c) = "offered" /\ Phase(c)' = "visible" /\ Untried(c)' = Untried(c)
        BY <2>3, StepFacts DEF Emit, Phase, Untried, TypeOK
      <3>2. Promise!Show(c)
        BY <2>3, <2>0, <3>1 DEF Emit, TypeOK, Promise!Show, phaseBar, untriedBar
      <3>3. QED BY <3>2 DEF Promise!Next
    <2>4. ASSUME NEW c \in Calls, Succeed(c) \/ Fail(c) \/ Close(c)
          PROVE  UNCHANGED <<phaseBar, untriedBar>>
      <3>1. /\ \A d \in Calls \ {c} : pc'[d] = pc[d]
            /\ UNCHANGED <<order, tried, emitted>>
            /\ pc[c] = "backend" /\ pc'[c] \in {"return", "next", "raise", "close"}
        BY <2>4 DEF Succeed, Fail, Close, AfterFailure, TypeOK
      <3>2. \A d \in Calls : Phase(d)' = Phase(d) /\ Untried(d)' = Untried(d)
        BY <3>1, StepFacts DEF Phase, Untried
      <3>3. QED BY <3>2 DEF phaseBar, untriedBar
    <2>5. ASSUME NEW c \in Calls, Release(c) PROVE Promise!Next
      <3>1. /\ phaseBar' = [phaseBar EXCEPT ![c] = Phase(c)']
            /\ untriedBar' = [untriedBar EXCEPT ![c] = Untried(c)']
            /\ phaseBar[c] = Phase(c) /\ untriedBar[c] = Untried(c)
        BY <2>5, <2>0 DEF Release, TypeOK
      <3>2. pc[c] \in {"next", "return", "raise", "close"} /\ pc[c] \notin Finished
        BY <2>5 DEF Release, Holding, Finished
      <3>3. pc'[c] = AfterRelease(pc[c], tried[c]) /\ tried[c] \in 1..N
        BY <2>5 DEF Release, TypeOK, TriedInv
      <3>4. Phase(c) = IF emitted[c] THEN "visible" ELSE "offered"
        BY <3>2 DEF Phase, Finished
      <3>5. pc'[c] \in Finished => Phase(c)' = pc'[c] /\ Untried(c)' = {}
        BY DEF Phase, Untried
      <3>6. CASE pc[c] = "return"
        <4>1. pc'[c] = "ok" BY <3>3, <3>6 DEF AfterRelease
        <4>2. Promise!Answer(c)
          BY <3>1, <3>4, <3>5, <4>1, StepFacts DEF Promise!Answer, Promise!Settle
        <4>3. QED BY <4>2 DEF Promise!Next
      <3>7. CASE pc[c] \in {"raise", "close"}
        <4>1. pc'[c] \in {"broken", "closed"} BY <3>3, <3>7 DEF AfterRelease
        <4>2. emitted[c] BY <3>7 DEF EmittedInv
        <4>3. Promise!BreakOff(c)
          BY <3>1, <3>4, <3>5, <4>1, <4>2, StepFacts DEF Promise!BreakOff, Promise!Settle
        <4>4. QED BY <4>3 DEF Promise!Next
      <3>8. CASE pc[c] = "next" /\ tried[c] < N
        <4>1. pc'[c] = "acquire" BY <3>3, <3>8 DEF AfterRelease
        <4>2. ~emitted[c] BY <3>8 DEF EmittedInv
        <4>3. Untried(c) # {} BY <3>2, <3>8, UntriedFacts
        <4>4. Phase(c)' = "choosing" BY <4>1, StepFacts DEF Phase
        <4>5. order'[c] = order[c] /\ tried'[c] = tried[c]
          BY <2>5, <3>8, <4>1, StepFacts DEF Release, TypeOK
        <4>6. Untried(c)' = Untried(c) BY <4>5, <4>1, <3>2, StepFacts DEF Untried
        <4>7. Promise!TryAnother(c)
          BY <3>1, <3>4, <4>2, <4>3, <4>4, <4>6
          DEF Promise!TryAnother, phaseBar, untriedBar
        <4>8. QED BY <4>7 DEF Promise!Next
      <3>9. CASE pc[c] = "next" /\ tried[c] = N
        <4>1. pc'[c] = "failed"
          BY <3>3, <3>9, PoolAssumption DEF AfterRelease
        <4>2. ~emitted[c] BY <3>9 DEF EmittedInv
        <4>3. Untried(c) = {} BY <3>2, <3>9, UntriedFacts
        <4>4. Promise!Refuse(c)
          BY <3>1, <3>4, <3>5, <4>1, <4>2, <4>3, StepFacts
          DEF Promise!Refuse, Promise!Settle
        <4>5. QED BY <4>4 DEF Promise!Next
      <3>10. QED
        BY <3>2, <3>3, <3>6, <3>7, <3>8, <3>9, PoolAssumption
    <2>6. CASE UNCHANGED callVars
      BY <2>6 DEF callVars, phaseBar, untriedBar, Phase, Untried
    <2>7. QED
      BY <2>1, <2>2, <2>3, <2>4, <2>5, <2>6
      DEF Next, Step, Probe, ProbeGood, ProbeBad, CooldownEnds, callVars, vars
  <1>3. QED
    BY <1>1, <1>2, TypeCorrect, EmittedCorrect, PTL DEF Spec, RefinesFailover, Promise!Spec
-----------------------------------------------------------------------------
(* Progress: the safety half of the two liveness properties. A fair step   *)
(* of a call, or a fair probe, always comes nearer to the end, and no      *)
(* other step undoes it.                                                   *)

\* The steps a call has left at most: three with each member it has not tried.
StepsLeft(c) == IF pc[c] \in Finished THEN 0
                ELSE 3 * (N - tried[c]) + (CASE pc[c] = "acquire" -> 0
                                             [] pc[c] = "backend" -> 2
                                             [] OTHER -> 1)
CallsAdvance == \A c \in Calls : pc[c] \notin Finished =>
                    /\ StepsLeft(c)' <= StepsLeft(c)
                    /\ Step(c) => StepsLeft(c)' < StepsLeft(c)

\* chat() and stream_chat() never loop over the pool: a call ends after three
\* steps with each member at most, whatever chunks, probes and other calls come
\* between them.
THEOREM CallsAdvanceCorrect ==
    Spec => [](\A c \in Calls : StepsLeft(c) \in 0..(3 * N)) /\ [][CallsAdvance]_vars
  <1>1. TypeOK /\ TriedInv => \A c \in Calls : StepsLeft(c) \in 0..(3 * N)
    <2> SUFFICES ASSUME TypeOK, TriedInv, NEW c \in Calls PROVE StepsLeft(c) \in 0..(3 * N)
      OBVIOUS
    <2>1. tried[c] \in 0..N /\ (pc[c] \in Holding => tried[c] \in 1..N)
      BY DEF TypeOK, TriedInv
    <2>2. pc[c] \notin Finished => pc[c] = "acquire" \/ pc[c] \in Holding
      BY StepFacts DEF TypeOK
    <2>3. QED
      BY <2>1, <2>2, PoolAssumption, StepFacts DEF StepsLeft
  <1>2. TypeOK /\ TriedInv /\ TriedInv' /\ [Next]_vars => CallsAdvance
    <2> SUFFICES ASSUME TypeOK, TriedInv, TriedInv', [Next]_vars,
                        NEW c \in Calls, pc[c] \notin Finished
                 PROVE  /\ StepsLeft(c)' <= StepsLeft(c)
                        /\ Step(c) => StepsLeft(c)' < StepsLeft(c)
      BY DEF CallsAdvance
    <2>0. /\ tried[c] \in 0..N /\ N \in Nat /\ pc[c] \in Running
          /\ pc[c] = "acquire" => tried[c] < N
          /\ StepsLeft(c) \in Int
      BY StepFacts, PoolAssumption DEF TypeOK, TriedInv, StepsLeft
    <2>1. CASE Acquire(c)
      <3>1. pc'[c] = "backend" /\ tried'[c] = tried[c] + 1 /\ pc[c] = "acquire"
        BY <2>1 DEF Acquire, TypeOK
      <3>2. QED
        BY <2>0, <3>1, StepFacts DEF StepsLeft
    <2>2. CASE Succeed(c) \/ Fail(c) \/ Close(c)
      <3>1. /\ pc[c] = "backend" /\ tried'[c] = tried[c]
            /\ pc'[c] \in {"return", "next", "raise", "close"}
        BY <2>2 DEF Succeed, Fail, Close, AfterFailure, TypeOK
      <3>2. QED
        BY <2>0, <3>1, StepFacts DEF StepsLeft
    <2>3. CASE Release(c)
      <3>1. /\ pc[c] \in Holding \ {"backend"} /\ pc[c] # "acquire"
            /\ pc'[c] = AfterRelease(pc[c], tried[c])
            /\ pc'[c] \in Finished \/ (pc'[c] = "acquire" /\ tried'[c] = tried[c])
        BY <2>3, ReleaseFacts, StepFacts DEF Release, TypeOK, TriedInv
      <3>2. StepsLeft(c) = 3 * (N - tried[c]) + 1
        BY <3>1 DEF StepsLeft
      <3>3. QED
        BY <2>0, <3>1, <3>2, StepFacts DEF StepsLeft
    <2>4. CASE UNCHANGED <<pc[c], tried[c]>>
      <3>1. StepsLeft(c)' = StepsLeft(c)
        BY <2>4 DEF StepsLeft
      <3>2. ~Step(c)
        BY <2>0, <2>4, ReleaseFacts, StepFacts
        DEF Step, Acquire, Succeed, Fail, AfterFailure, Release, TypeOK, TriedInv
      <3>3. QED
        BY <2>0, <3>1, <3>2
    <2>5. ~Begin(c)
      BY DEF Begin
    <2>6. ASSUME NEW d \in Calls \ {c}, Begin(d) \/ Step(d) \/ Emit(d) \/ Close(d)
          PROVE  UNCHANGED <<pc[c], tried[c]>>
      BY <2>6 DEF Begin, Step, Acquire, Succeed, Fail, Release, Emit, Close, TypeOK
    <2>7. CASE Emit(c) \/ (\E m \in Members : Probe(m) \/ CooldownEnds(m)) \/ UNCHANGED vars
      BY <2>4, <2>7 DEF Emit, Probe, ProbeGood, ProbeBad, CooldownEnds, callVars, vars
    <2>8. QED
      BY <2>1, <2>2, <2>3, <2>4, <2>5, <2>6, <2>7 DEF Next, Step
  <1>3. QED
    BY <1>1, <1>2, TypeCorrect, PTL DEF Spec

\* The good probes a member of an active pool is short of.
ProbesShort(m) == IF health[m] = "healthy" THEN 0 ELSE SuccessThreshold - successes[m]
RecoveryAdvances == ActiveHealth => \A m \in Members : ~Setback(m) =>
                        /\ ProbesShort(m)' <= ProbesShort(m)
                        /\ Probe(m) => \/ ProbesShort(m)' < ProbesShort(m)
                                       \/ ProbesShort(m)' = 0

\* Recovery of an endpoint (record_probe_result): as long as its own calls and
\* probes do not fail, every probe brings a member nearer to "healthy", and
\* nothing that happens to it or elsewhere takes it back.
THEOREM RecoveryAdvancesCorrect ==
    Spec => /\ [](ActiveHealth => \A m \in Members :
                      /\ ProbesShort(m) \in 0..SuccessThreshold
                      /\ ProbesShort(m) = 0 <=> health[m] = "healthy")
            /\ [][RecoveryAdvances]_vars
  <1>1. TypeOK /\ HealthStateAgrees /\ ActiveHealth => \A m \in Members :
            /\ ProbesShort(m) \in 0..SuccessThreshold
            /\ ProbesShort(m) = 0 <=> health[m] = "healthy"
    BY ThresholdAssumption DEF TypeOK, HealthStateAgrees, HealthAgrees, ProbesShort
  <1>2. TypeOK /\ TriedInv /\ HealthStateAgrees /\ [Next]_vars => RecoveryAdvances
    <2> SUFFICES ASSUME TypeOK, TriedInv, HealthStateAgrees, [Next]_vars, ActiveHealth,
                        NEW m \in Members, ~Setback(m)
                 PROVE  /\ ProbesShort(m)' <= ProbesShort(m)
                        /\ Probe(m) => \/ ProbesShort(m)' < ProbesShort(m)
                                       \/ ProbesShort(m)' = 0
      BY DEF RecoveryAdvances
    <2>0. /\ SuccessThreshold \in Nat \ {0} /\ successes[m] \in 0..SuccessThreshold
          /\ ProbesShort(m) \in 0..SuccessThreshold
          /\ ProbesShort(m) = 0 <=> health[m] = "healthy"
      BY <1>1, ThresholdAssumption DEF TypeOK
    <2>1. CASE ProbeGood(m)
      <3>1. CASE CountSuccess(successes[m]) >= SuccessThreshold
        <4>1. health'[m] = "healthy"
          BY <2>1, <3>1 DEF ProbeGood, TypeOK
        <4>2. QED
          BY <2>0, <4>1 DEF ProbesShort
      <3>2. CASE ~(CountSuccess(successes[m]) >= SuccessThreshold)
        <4>1. /\ health'[m] = "degraded" /\ successes'[m] = successes[m] + 1
              /\ successes[m] < SuccessThreshold
          BY <2>0, <2>1, <3>2 DEF ProbeGood, CountSuccess, TypeOK
        <4>2. health[m] # "healthy"
          BY <2>0, <4>1 DEF HealthStateAgrees, HealthAgrees
        <4>3. QED
          BY <2>0, <4>1, <4>2 DEF ProbesShort
      <3>3. QED BY <3>1, <3>2
    <2>2. ~ProbeBad(m) /\ \A c \in Calls : Fail(c) => Current(c) # m
      BY DEF Setback
    <2>3. ASSUME NEW c \in Calls, Succeed(c) PROVE ProbesShort(m)' \in {0, ProbesShort(m)}
      BY <2>3 DEF Succeed, ProbesShort, TypeOK
    <2>4. ASSUME NEW c \in Calls, Fail(c) PROVE ProbesShort(m)' = ProbesShort(m)
      BY <2>2, <2>4 DEF Fail, RecordFailure, ProbesShort, memberVars, TypeOK
    <2>5. ASSUME NEW k \in Members \ {m}, ProbeGood(k) \/ ProbeBad(k)
          PROVE  ProbesShort(m)' = ProbesShort(m)
      BY <2>5 DEF ProbeGood, ProbeBad, ProbesShort, TypeOK
    <2>6. UNCHANGED <<health, successes>> => ProbesShort(m)' = ProbesShort(m)
      BY DEF ProbesShort
    <2>7. ProbesShort(m)' \in {0, ProbesShort(m)} \/ ProbeGood(m)
      BY <2>2, <2>3, <2>4, <2>5, <2>6
      DEF Next, Step, Probe, CooldownEnds, Begin, Acquire, Release, Emit, Close, vars, memberVars
    <2>8. QED
      BY <2>0, <2>1, <2>2, <2>7 DEF Probe
  <1>3. QED
    BY <1>1, <1>2, TypeCorrect, HealthStateCorrect, PTL DEF Spec
=============================================================================
