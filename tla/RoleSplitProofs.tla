-------------------------- MODULE RoleSplitProofs ---------------------------
(***************************************************************************)
(* Proofs about RoleSplit for any set of worker roles, pool limit, retry   *)
(* budget and configuration.                                               *)
(***************************************************************************)
EXTENDS RoleSplit, FiniteSetTheorems, TLAPS

\* Where the loop stands: a wave can still be submitted when the step says
\* so, and the verifier is reached only where one is configured.
LoopInv == /\ pc = "submit" => wave < MaxAttempts
           /\ pc # "submit" => wave \in 1..MaxAttempts
           /\ pc \in {"verify", "decide"} => conf.verify

\* A result is missing only while results are collected, and is given up only
\* once the deadline has passed.
CollectInv ==
    /\ pc \notin {"submit", "collect"} => \A r \in Roles : result[r] # "none"
    /\ ~late => \A r \in Roles : result[r] # "timed_out"
    /\ wave > 0 /\ pc = "submit" => \A r \in Roles : result[r] \in {"ok", "failed"}

\* What is in worker_results is what the role's call of this wave returned.
ResultsInv ==
    \A r \in Roles : result[r] \in {"ok", "failed"} => task[wave][r] = result[r]

\* Waves to come have no calls, and the calls of the waves gone by have ended:
\* a next wave is submitted only when every call of the last one returned.
WaveInv ==
    \A w \in Waves, r \in Roles :
        /\ w > wave => task[w][r] = "none"
        /\ w < wave => task[w][r] \in {"ok", "failed"}

PoolInv == wave > 0 => Cardinality(InState(wave, "running")) <= PoolSize

\* The verifier has judged every wave but the current one, or that one too; only
\* after it judged the current one is there a pass or a warning.
AttemptInv ==
    /\ pc = "submit" => attempts = wave
    /\ pc \in {"collect", "check", "verify"} => attempts = wave - 1
    /\ pc = "decide" => attempts = wave /\ passed # "none"
    /\ pc \notin {"compose", "synthesize", "done"} => ~warning
    /\ pc \in {"submit", "collect", "check", "verify"} => passed # "yes"
    /\ attempts = 0 <=> passed = "none"
    /\ pc \in {"compose", "synthesize", "done"} =>
          \/ attempts = wave /\ passed = "yes" /\ ~warning
          \/ attempts = wave /\ passed = "no" /\ warning
          \/ /\ attempts = wave - 1 /\ passed # "yes" /\ ~warning
             /\ conf.verify => late \/ ~AnyOk

IInv == /\ TypeOK /\ LoopInv /\ CollectInv /\ ResultsInv /\ WaveInv /\ PoolInv
        /\ AttemptInv

LEMMA PoolFacts == /\ PoolSize \in Nat /\ PoolSize <= MaxParallel
                   /\ \A w : /\ IsFiniteSet(InState(w, "running"))
                             /\ Cardinality(InState(w, "running")) \in Nat
  <1>1. Cardinality(Roles) \in Nat
    BY RolesAssumption, FS_CardinalityType
  <1>2. \A w : IsFiniteSet(InState(w, "running"))
    BY RolesAssumption, FS_Subset DEF InState
  <1>3. QED
    BY <1>1, <1>2, LimitAssumption, FS_CardinalityType DEF PoolSize

\* One thread more, where there was room for one.
LEMMA OneMore ==
    ASSUME NEW S, NEW x, NEW n \in Nat, IsFiniteSet(S), Cardinality(S) < n
    PROVE  Cardinality(S \cup {x}) <= n
  <1>1. Cardinality(S) \in Nat
    BY FS_CardinalityType
  <1>2. Cardinality(S \cup {x}) = IF x \in S THEN Cardinality(S) ELSE Cardinality(S) + 1
    BY FS_AddElement
  <1>3. QED BY <1>1, <1>2

LEMMA AttemptFacts ==
    ASSUME conf \in Confs
    PROVE  /\ MaxAttempts \in Waves
           /\ conf.verify => MaxAttempts = 1 + conf.retries
           /\ conf.retries \in Nat
  BY LimitAssumption DEF Confs, MaxAttempts, Waves

\* The inductive invariant: where the loop stands, what is collected, and what
\* the verifier has judged.
THEOREM RoleSplitInvariant == Spec => []IInv
  <1>1. Init => IInv
    <2> SUFFICES ASSUME Init PROVE IInv
      OBVIOUS
    <2>1. TypeOK
      <3>1. /\ 0 \in 0..(1 + MaxRetries)
            /\ "none" \in TaskStates /\ "none" \in Results /\ "none" \in Outcomes
            /\ "submit" \in Steps
        BY LimitAssumption DEF TaskStates, Results, Outcomes, Steps
      <3>2. QED BY <3>1 DEF Init, TypeOK
    <2>2. LoopInv
      BY AttemptFacts DEF Init, LoopInv, Waves
    <2>3. CollectInv /\ ResultsInv /\ WaveInv /\ PoolInv /\ AttemptInv
      BY LimitAssumption DEF Init, CollectInv, ResultsInv, WaveInv, PoolInv, AttemptInv, Waves
    <2>4. QED BY <2>1, <2>2, <2>3 DEF IInv
  <1>2. IInv /\ [Next]_vars => IInv'
    <2> SUFFICES ASSUME IInv, [Next]_vars PROVE IInv'
      OBVIOUS
    <2>0. TypeOK /\ LoopInv /\ CollectInv /\ ResultsInv /\ WaveInv /\ PoolInv /\ AttemptInv
      BY DEF IInv
    <2>a. /\ conf \in Confs /\ MaxAttempts \in Waves /\ wave \in Nat
          /\ MaxAttempts \in Nat /\ Waves \subseteq Nat
          /\ conf.verify => MaxAttempts = 1 + conf.retries /\ conf.retries \in Nat
      BY <2>0, AttemptFacts, LimitAssumption DEF TypeOK, Waves
    <2>b. /\ pc = "submit" => wave + 1 \in Waves /\ wave + 1 \in 1..MaxAttempts
          /\ pc # "submit" => wave \in Waves /\ wave > 0
      BY <2>0, <2>a, LimitAssumption DEF LoopInv, Waves
    <2>1. CASE Submit
      <3>1. TypeOK'
        BY <2>1, <2>0, <2>b, LimitAssumption
        DEF Submit, TypeOK, Steps, TaskStates, Results, Waves
      <3>2. LoopInv'
        BY <2>1, <2>b DEF Submit, LoopInv, MaxAttempts
      <3>3. \A r \in Roles : task'[wave + 1][r] = "queued"
        BY <2>1, <2>0, <2>b DEF Submit, TypeOK
      <3>4. WaveInv'
        <4> SUFFICES ASSUME NEW w \in Waves, NEW r \in Roles
                     PROVE  /\ w > wave + 1 => task'[w][r] = "none"
                            /\ w < wave + 1 => task'[w][r] \in {"ok", "failed"}
          BY <2>1 DEF Submit, WaveInv
        <4>1. w # wave + 1 => task'[w][r] = task[w][r]
          BY <2>1, <2>0 DEF Submit, TypeOK
        <4>2. CASE w > wave + 1
          BY <4>1, <4>2, <2>0, <2>a DEF WaveInv
        <4>3. CASE w < wave
          BY <4>1, <4>3, <2>0, <2>a DEF WaveInv
        <4>4. CASE w = wave
          <5>1. result[r] \in {"ok", "failed"} /\ task[wave][r] = result[r]
            BY <4>4, <2>1, <2>0, <2>a DEF Submit, CollectInv, ResultsInv, Waves
          <5>2. QED BY <4>1, <4>4, <5>1, <2>a
        <4>5. CASE w = wave + 1
          BY <4>5, <2>a
        <4>6. QED
          BY <4>2, <4>3, <4>4, <4>5, <2>a
      <3>5. PoolInv'
        <4>1. InState(wave, "running")' = {}
          BY <2>1, <3>3 DEF Submit, InState
        <4>2. QED BY <4>1, FS_EmptySet, PoolFacts DEF PoolInv
      <3>6. CollectInv' /\ ResultsInv'
        BY <2>1 DEF Submit, CollectInv, ResultsInv
      <3>7. AttemptInv'
        BY <2>1, <2>0, <2>a DEF Submit, AttemptInv
      <3>8. QED BY <3>1, <3>2, <3>4, <3>5, <3>6, <3>7 DEF IInv
    <2>2. ASSUME NEW w \in Waves, NEW r \in Roles, StartTask(w, r) PROVE IInv'
      <3>1. w = wave
        BY <2>2, <2>0, <2>a DEF StartTask, WaveInv, TypeOK
      <3>2. TypeOK'
        BY <2>2, <2>0 DEF StartTask, TypeOK, TaskStates
      <3>3. /\ task'[w][r] = "running"
            /\ \A v \in Waves, s \in Roles :
                  v # w \/ s # r => task'[v][s] = task[v][s]
        BY <2>2, <2>0 DEF StartTask, TypeOK
      <3>4. WaveInv'
        BY <2>2, <3>1, <3>3, <2>0, <2>a DEF StartTask, WaveInv
      <3>5. PoolInv'
        <4>1. InState(wave, "running")' = InState(wave, "running") \cup {r}
          BY <2>2, <3>1, <3>3 DEF StartTask, InState
        <4>2. Cardinality(InState(wave, "running")') <= PoolSize
          BY <2>2, <3>1, <4>1, PoolFacts, OneMore DEF StartTask
        <4>3. QED BY <2>2, <4>2 DEF StartTask, PoolInv, PoolSize
      <3>6. ResultsInv'
        BY <2>2, <3>1, <3>3, <2>0 DEF StartTask, ResultsInv
      <3>7. LoopInv' /\ CollectInv' /\ AttemptInv'
        BY <2>2, <2>0 DEF StartTask, LoopInv, CollectInv, AttemptInv, AnyOk, MaxAttempts
      <3>8. QED BY <3>2, <3>4, <3>5, <3>6, <3>7 DEF IInv
    <2>3. ASSUME NEW w \in Waves, NEW r \in Roles, FinishTask(w, r) PROVE IInv'
      <3>1. w = wave
        BY <2>3, <2>0, <2>a DEF FinishTask, WaveInv, TypeOK
      <3>2. TypeOK'
        BY <2>3, <2>0 DEF FinishTask, TypeOK, TaskStates
      <3>3. /\ task'[w][r] \in {"ok", "failed"}
            /\ \A v \in Waves, s \in Roles :
                  v # w \/ s # r => task'[v][s] = task[v][s]
        BY <2>3, <2>0 DEF FinishTask, TypeOK
      <3>4. WaveInv'
        BY <2>3, <3>1, <3>3, <2>0, <2>a DEF FinishTask, WaveInv
      <3>5. PoolInv'
        <4>1. InState(wave, "running")' \subseteq InState(wave, "running")
          BY <2>3, <3>1, <3>3 DEF FinishTask, InState
        <4>2. /\ Cardinality(InState(wave, "running")') <= Cardinality(InState(wave, "running"))
              /\ Cardinality(InState(wave, "running")') \in Nat
          BY <4>1, PoolFacts, FS_Subset, FS_CardinalityType
        <4>3. QED
          BY <2>3, <2>0, <4>2, PoolFacts DEF FinishTask, PoolInv, PoolSize
      <3>6. ResultsInv'
        BY <2>3, <3>1, <3>3, <2>0 DEF FinishTask, ResultsInv
      <3>7. LoopInv' /\ CollectInv' /\ AttemptInv'
        BY <2>3, <2>0 DEF FinishTask, LoopInv, CollectInv, AttemptInv, AnyOk, MaxAttempts
      <3>8. QED BY <3>2, <3>4, <3>5, <3>6, <3>7 DEF IInv
    <2>4. ASSUME NEW r \in Roles, Collect(r) PROVE IInv'
      <3>1. TypeOK'
        BY <2>4, <2>0 DEF Collect, Arrived, TypeOK, Results
      <3>2. PoolInv' /\ WaveInv' /\ LoopInv' /\ AttemptInv'
        BY <2>4, <2>0 DEF Collect, PoolInv, WaveInv, LoopInv, AttemptInv, InState,
                          MaxAttempts, PoolSize
      <3>3. CollectInv' /\ ResultsInv'
        BY <2>4, <2>0 DEF Collect, Arrived, CollectInv, ResultsInv, TypeOK
      <3>4. QED BY <3>1, <3>2, <3>3 DEF IInv
    <2>5. CASE GiveUp
      <3>1. \A v \in Waves, s \in Roles :
               /\ task'[v][s] \in TaskStates
               /\ task'[v][s] = task[v][s] \/ (task[v][s] = "queued" /\ task'[v][s] = "cancelled" /\ v = wave)
        BY <2>5, <2>0, <2>b DEF GiveUp, TypeOK, TaskStates
      <3>2. task' \in [Waves -> [Roles -> TaskStates]]
        BY <2>5, <2>0, <2>b DEF GiveUp, TypeOK, TaskStates
      <3>3. TypeOK'
        BY <2>5, <2>0, <3>2 DEF GiveUp, Mark, TypeOK, Results, Steps
      <3>4. LoopInv' /\ CollectInv' /\ AttemptInv'
        BY <2>5, <2>0 DEF GiveUp, Mark, LoopInv, CollectInv, AttemptInv, MaxAttempts, TypeOK
      <3>5. WaveInv'
        BY <2>5, <2>0, <2>a, <3>1 DEF GiveUp, WaveInv
      <3>6. ResultsInv'
        BY <2>5, <2>0, <2>b, <3>1 DEF GiveUp, Mark, ResultsInv, TypeOK
      <3>7. PoolInv'
        <4>1. InState(wave, "running")' = InState(wave, "running")
          BY <2>5, <2>b, <3>1 DEF GiveUp, InState
        <4>2. QED BY <2>5, <4>1, <2>0 DEF GiveUp, PoolInv, PoolSize
      <3>8. QED BY <3>3, <3>4, <3>5, <3>6, <3>7 DEF IInv
    <2>6. CASE AllCollected \/ Check \/ Verify \/ Decide \/ Compose \/ Synthesize
      <3>1. /\ UNCHANGED <<conf, late, wave, task, result>>
            /\ pc # "submit"
        BY <2>6 DEF AllCollected, Check, Verify, Decide, Compose, Synthesize
      <3>2. ResultsInv' /\ WaveInv' /\ PoolInv'
        BY <3>1, <2>0 DEF ResultsInv, WaveInv, PoolInv, InState, PoolSize
      <3>3. TypeOK' /\ AttemptInv' /\ LoopInv' /\ CollectInv'
        <4>1. CASE AllCollected
          BY <4>1, <2>0, <2>a DEF AllCollected, TypeOK, Steps, AttemptInv, LoopInv,
                                  CollectInv, MaxAttempts
        <4>2. CASE Check
          BY <4>2, <2>0, <2>a DEF Check, TypeOK, Steps, AttemptInv, LoopInv,
                                  CollectInv, AnyOk, MaxAttempts
        <4>3. CASE Verify
          <5>1. attempts + 1 = wave /\ wave \in 0..(1 + MaxRetries)
            BY <4>3, <2>0, <2>a DEF Verify, AttemptInv, TypeOK
          <5>2. TypeOK'
            BY <4>3, <5>1, <2>0, <2>a, LimitAssumption DEF Verify, TypeOK, Steps
          <5>3. AttemptInv' /\ LoopInv' /\ CollectInv'
            BY <4>3, <5>1, <2>0, <2>a DEF Verify, AttemptInv, LoopInv, CollectInv, MaxAttempts
          <5>4. QED BY <5>2, <5>3
        <4>4. CASE Decide
          <5>1. TypeOK'
            BY <4>4, <2>0 DEF Decide, TypeOK, Steps
          <5>2. wave = MaxAttempts => BudgetSpent
            BY <4>4, <2>0, <2>a DEF Decide, LoopInv, BudgetSpent
          <5>3. AttemptInv'
            BY <4>4, <5>2, <2>0, <2>a DEF Decide, Accepted, AttemptInv, TypeOK
          <5>4. LoopInv'
            BY <4>4, <2>0, <2>a DEF Decide, LoopInv, MaxAttempts
          <5>5. CollectInv'
            BY <4>4, <2>0, <2>a DEF Decide, CollectInv, TypeOK, Results
          <5>6. QED BY <5>1, <5>3, <5>4, <5>5
        <4>5. CASE Compose
          BY <4>5, <2>0, <2>a DEF Compose, Respond, TypeOK, Steps, Outcomes, AttemptInv,
                                  LoopInv, CollectInv, AnyOk, MaxAttempts
        <4>6. CASE Synthesize
          BY <4>6, <2>0, <2>a DEF Synthesize, Respond, TypeOK, Steps, Outcomes, AttemptInv,
                                  LoopInv, CollectInv, AnyOk, MaxAttempts
        <4>7. QED BY <2>6, <4>1, <4>2, <4>3, <4>4, <4>5, <4>6
      <3>4. QED BY <3>2, <3>3 DEF IInv
    <2>7. CASE DeadlinePasses \/ UNCHANGED vars
      <3>1. /\ UNCHANGED <<conf, pc, wave, task, result, attempts, passed, warning, outcome>>
            /\ late' \in BOOLEAN /\ (late => late')
        BY <2>7, <2>0 DEF DeadlinePasses, vars, TypeOK
      <3>2. TypeOK' /\ LoopInv' /\ AttemptInv'
        BY <3>1, <2>0 DEF TypeOK, LoopInv, AttemptInv, AnyOk, MaxAttempts
      <3>3. CollectInv' /\ ResultsInv' /\ WaveInv'
        BY <3>1, <2>0 DEF CollectInv, ResultsInv, WaveInv
      <3>4. PoolInv'
        BY <3>1, <2>0 DEF PoolInv, InState, PoolSize
      <3>5. QED BY <3>2, <3>3, <3>4 DEF IInv
    <2>8. QED
      BY <2>1, <2>2, <2>3, <2>4, <2>5, <2>6, <2>7 DEF Next, Serve, Work
  <1>3. QED
    BY <1>1, <1>2, PTL DEF Spec

\* Type correctness of a request's bookkeeping.
THEOREM RoleSplitTypeCorrect == Spec => []TypeOK
  <1>1. IInv => TypeOK BY DEF IInv
  <1>2. QED BY <1>1, RoleSplitInvariant, PTL

\* _run_workers: a role's result is the end of its call of that wave and stays
\* what it is, whatever the order in which calls end and deadlines pass.
THEOREM ResultsCorrect == Spec => ResultsOfThisWave
  <1> DEFINE Step == \A r \in Roles :
               /\ result[r] # "none" /\ wave' = wave => result'[r] = result[r]
               /\ result'[r] \in {"ok", "failed"} => task'[wave'][r] = result'[r]
  <1>1. IInv /\ IInv' /\ [Next]_vars => [Step]_vars
    <2> SUFFICES ASSUME IInv, IInv', Next, NEW r \in Roles,
                        result[r] # "none", wave' = wave
                 PROVE  result'[r] = result[r]
      BY DEF IInv, ResultsInv
    <2>0. TypeOK
      BY DEF IInv
    <2>1. CASE Submit
      BY <2>0, <2>1, LimitAssumption DEF Submit, TypeOK
    <2>2. ASSUME NEW s \in Roles, Collect(s) PROVE result'[r] = result[r]
      BY <2>0, <2>2 DEF Collect, TypeOK
    <2>3. CASE GiveUp
      BY <2>3 DEF GiveUp
    <2>4. CASE AllCollected \/ Check \/ Verify \/ Decide \/ Compose \/ Synthesize
               \/ DeadlinePasses \/ Work
      BY <2>4 DEF AllCollected, Check, Verify, Decide, Compose, Synthesize,
                  DeadlinePasses, Work, StartTask, FinishTask
    <2>5. QED
      BY <2>1, <2>2, <2>3, <2>4 DEF Next, Serve
  <1>2. QED
    BY <1>1, RoleSplitInvariant, PTL DEF Spec, ResultsOfThisWave

\* A request never has more calls in flight than max_parallel_workers, although
\* each wave has a pool of its own and a pool outlives the wait for it.
THEOREM ParallelLimitCorrect == Spec => []WithinParallelLimit
  <1>1. ASSUME IInv PROVE WithinParallelLimit
    <2>0. TypeOK /\ WaveInv /\ PoolInv
      BY <1>1 DEF IInv
    <2>1. wave \in Nat /\ Waves \subseteq Nat /\ MaxParallel \in Nat
      BY <2>0, LimitAssumption DEF TypeOK, Waves
    <2>2. \A x \in Running : x[1] = wave /\ x[2] \in InState(wave, "running")
                             /\ x = <<x[1], x[2]>>
      <3> SUFFICES ASSUME NEW x \in Running
                   PROVE  /\ x[1] = wave
                          /\ x[2] \in InState(wave, "running")
                          /\ x = <<x[1], x[2]>>
        OBVIOUS
      <3>1. /\ x[1] \in Waves /\ x[2] \in Roles /\ x = <<x[1], x[2]>>
            /\ task[x[1]][x[2]] = "running"
        BY DEF Running
      <3>2. ~(x[1] > wave) /\ ~(x[1] < wave)
        BY <2>0, <3>1 DEF WaveInv
      <3>3. x[1] = wave
        BY <2>1, <3>1, <3>2
      <3>4. QED BY <3>1, <3>3 DEF InState
    <2>3. CASE Running = {}
      BY <2>1, <2>3, FS_EmptySet DEF WithinParallelLimit
    <2>4. CASE Running # {}
      <3>1. wave > 0
        BY <2>4, <2>1, <2>2 DEF Running, Waves
      <3> DEFINE f == [x \in Running |-> x[2]]
      <3>2. f \in Injection(Running, InState(wave, "running"))
        BY <2>2 DEF Injection, IsInjective
      <3>3. Cardinality(Running) <= Cardinality(InState(wave, "running"))
        BY <3>2, PoolFacts, FS_Injection
      <3>4. Cardinality(Running) \in Nat
        BY <3>2, PoolFacts, FS_Injection, FS_CardinalityType
      <3>5. QED
        BY <2>0, <2>1, <3>1, <3>3, <3>4, PoolFacts DEF PoolInv, WithinParallelLimit
    <2>5. QED BY <2>3, <2>4
  <1>2. QED BY <1>1, RoleSplitInvariant, PTL

\* _run_role_split: an accepting verdict and the warning are about the very
\* results the answer was made from; a rejection may be of the wave before, and
\* then the last wave was not judged for want of a success or of time.
THEOREM VerdictCorrect == Spec => []VerdictIsCurrent
  <1>1. IInv => VerdictIsCurrent
    <2> SUFFICES ASSUME IInv PROVE VerdictIsCurrent
      OBVIOUS
    <2>1. AttemptInv /\ passed \in {"none", "yes", "no"} /\ pc \in Steps
          /\ wave \in Int /\ attempts \in Int
      BY LimitAssumption DEF IInv, TypeOK
    <2>2. QED BY <2>1 DEF AttemptInv, VerdictIsCurrent, Steps
  <1>2. QED BY <1>1, RoleSplitInvariant, PTL
-----------------------------------------------------------------------------
(* Progress: the safety half of RequestEnds. Every step comes nearer to    *)
(* the end of the request and of its calls, and no wait is in vain.        *)

Missing == {r \in Roles : result[r] = "none"}
Calls(state) == {x \in Waves \X Roles : task[x[1]][x[2]] = state}
Returned == {"ok", "failed"}

\* A wave takes at most Turn steps: three for each role (its call starts, ends
\* and is collected), the rest in the serving thread.
Turn == 3 * Cardinality(Roles) + 5
StageLeft == CASE pc = "done" -> 0 [] pc = "synthesize" -> 1 [] pc = "compose" -> 2
               [] pc = "submit" -> 3 [] pc = "decide" -> 4 [] pc = "verify" -> 5
               [] pc = "check" -> 6 [] pc = "collect" -> 7
StepsLeft == (MaxAttempts - wave) * Turn + StageLeft + Cardinality(Missing)
             + 2 * Cardinality(Calls("queued")) + Cardinality(Calls("running"))

StepsAdvance == /\ Serve \/ Work => StepsLeft' < StepsLeft
                /\ DeadlinePasses => StepsLeft' = StepsLeft

\* What the serving thread waits for can come: a result that is there, a call
\* that runs, or one that is queued and has a thread.
NoWaitInVain ==
    pc = "collect" =>
        \/ Missing = {}
        \/ \E r \in Missing : \/ task[wave][r] \in Returned \cup {"running"}
                              \/ \E s \in Roles : task[wave][s] = "running"
                              \/ /\ task[wave][r] = "queued"
                                 /\ Cardinality(InState(wave, "running")) < PoolSize

\* While a wave is collected no call of it is missing or cancelled.
PendingInv == pc = "collect" =>
                  \A r \in Roles : task[wave][r] \in Returned \cup {"queued", "running"}

\* The collecting loop of _run_parallel_workers never waits for a future that
\* nobody will complete: no cancelled call is uncollected while it runs.
THEOREM NoWaitInVainCorrect == Spec => []NoWaitInVain
  <1>1. Init => PendingInv
    BY DEF Init, PendingInv
  <1>2. IInv /\ PendingInv /\ [Next]_vars => PendingInv'
    <2> SUFFICES ASSUME IInv, PendingInv, [Next]_vars, pc' = "collect", NEW r \in Roles
                 PROVE  task'[wave'][r] \in Returned \cup {"queued", "running"}
      BY DEF PendingInv
    <2>0. TypeOK /\ LoopInv /\ wave \in Nat /\ (pc = "submit" => wave + 1 \in Waves)
          /\ (pc # "submit" => wave \in Waves)
      BY AttemptFacts, LimitAssumption DEF IInv, TypeOK, LoopInv, Waves
    <2>1. CASE Submit
      BY <2>0, <2>1 DEF Submit, TypeOK
    <2>2. ASSUME NEW w \in Waves, NEW s \in Roles, StartTask(w, s) \/ FinishTask(w, s)
          PROVE  task'[wave'][r] \in Returned \cup {"queued", "running"}
      <3>1. /\ wave' = wave /\ wave \in Waves
            /\ task[wave][r] \in Returned \cup {"queued", "running"}
        BY <2>0, <2>2 DEF StartTask, FinishTask, PendingInv
      <3>2. task'[wave][r] \in {task[wave][r], "running", "ok", "failed"}
        BY <2>0, <2>2, <3>1 DEF StartTask, FinishTask, TypeOK
      <3>3. QED BY <3>1, <3>2 DEF Returned
    <2>3. CASE (\E s \in Roles : Collect(s)) \/ DeadlinePasses \/ UNCHANGED vars
      BY <2>3 DEF Collect, DeadlinePasses, vars, PendingInv
    <2>4. ~(AllCollected \/ GiveUp \/ Check \/ Verify \/ Decide \/ Compose \/ Synthesize)
      BY DEF AllCollected, GiveUp, Check, Verify, Decide, Compose, Synthesize
    <2>5. QED BY <2>1, <2>2, <2>3, <2>4 DEF Next, Serve, Work
  <1>3. IInv /\ PendingInv => NoWaitInVain
    <2> SUFFICES ASSUME IInv, PendingInv, pc = "collect", NEW r \in Missing,
                        task[wave][r] \notin Returned \cup {"running"},
                        \A s \in Roles : task[wave][s] # "running"
                 PROVE  /\ task[wave][r] = "queued"
                        /\ Cardinality(InState(wave, "running")) < PoolSize
      BY DEF NoWaitInVain
    <2>1. task[wave][r] = "queued"
      BY DEF PendingInv, Missing
    <2>2. Cardinality(InState(wave, "running")) = 0
      <3>1. InState(wave, "running") = {}
        BY DEF InState
      <3>2. QED BY <3>1, FS_EmptySet
    <2>3. PoolSize \in Nat \ {0}
      BY RolesAssumption, LimitAssumption, FS_CardinalityType, FS_EmptySet DEF PoolSize
    <2>4. QED BY <2>1, <2>2, <2>3
  <1>4. QED
    BY <1>1, <1>2, <1>3, RoleSplitInvariant, PTL DEF Spec

LEMMA CountsAre ==
    /\ Cardinality(Roles) \in Nat
    /\ IsFiniteSet(Missing) /\ Cardinality(Missing) \in Nat
    /\ Cardinality(Missing) <= Cardinality(Roles)
    /\ \A state : IsFiniteSet(Calls(state)) /\ Cardinality(Calls(state)) \in Nat
  <1>0. IsFiniteSet(Waves)
    BY LimitAssumption, FS_Interval DEF Waves
  <1>1. IsFiniteSet(Waves \X Roles)
    BY <1>0, RolesAssumption, FS_Product
  <1>2. \A state : Calls(state) \in SUBSET (Waves \X Roles)
    BY DEF Calls
  <1>3. \A state : IsFiniteSet(Calls(state)) /\ Cardinality(Calls(state)) \in Nat
    BY <1>1, <1>2, FS_Subset, FS_CardinalityType
  <1>4. Missing \in SUBSET Roles
    BY DEF Missing
  <1>5. QED
    BY <1>3, <1>4, RolesAssumption, FS_Subset, FS_CardinalityType

\* A number of calls, and one more that was not among them.
LEMMA OneMoves ==
    ASSUME NEW S, NEW x, IsFiniteSet(S), x \in S
    PROVE  Cardinality(S \ {x}) = Cardinality(S) - 1
  BY FS_RemoveElement

\* One round more and a stage further on.
LEMMA RoundGone ==
    ASSUME NEW n \in Nat, NEW t \in Nat
    PROVE  n * t \in Nat /\ (n + 1) * t = n * t + t
  OBVIOUS

\* The parts of StepsLeft: the stage counts whatever the rest.
LEMMA Sums ==
    ASSUME NEW a \in Nat, NEW m \in Nat, NEW q \in Nat, NEW u \in Nat,
           NEW b \in Nat, NEW n \in Nat, NEW p \in Nat, NEW v \in Nat,
           NEW s \in 0..7, NEW t \in 0..7, b <= a, n <= m, p <= q, v <= u, t < s
    PROVE  b + t + n + 2 * p + v < a + s + m + 2 * q + u
  OBVIOUS

LEMMA StagesFacts ==
    ASSUME TypeOK, LoopInv
    PROVE  /\ MaxAttempts - wave \in Nat /\ Turn \in Nat
           /\ (MaxAttempts - wave) * Turn \in Nat
           /\ StageLeft \in 0..7 /\ StepsLeft \in Nat
  <1>1. MaxAttempts \in Nat /\ wave \in Nat /\ wave <= MaxAttempts
    BY AttemptFacts, LimitAssumption DEF TypeOK, LoopInv, Waves
  <1>2. Turn \in Nat
    BY CountsAre DEF Turn
  <1>3. StageLeft \in 0..7
    BY DEF TypeOK, Steps, StageLeft
  <1>4. (MaxAttempts - wave) * Turn \in Nat
    BY <1>1, <1>2, RoundGone
  <1>5. QED
    BY <1>1, <1>2, <1>3, <1>4, CountsAre DEF StepsLeft

\* "It never loops for ever" (_run_role_split): a request takes a number of steps
\* that roles and retries bound, its straggling calls included, whatever the
\* order of its calls, its deadline and the verifier's verdicts.
THEOREM RequestAdvancesCorrect ==
    Spec => /\ StepsLeft <= (1 + MaxRetries) * Turn + 3 + Cardinality(Roles)
            /\ [](StepsLeft \in Nat) /\ [][StepsAdvance]_vars
  <1>1. Init => StepsLeft <= (1 + MaxRetries) * Turn + 3 + Cardinality(Roles)
    <2> SUFFICES ASSUME Init
                 PROVE  StepsLeft <= (1 + MaxRetries) * Turn + 3 + Cardinality(Roles)
      OBVIOUS
    <2>1. MaxAttempts \in 1..(1 + MaxRetries) /\ wave = 0 /\ StageLeft = 3
      BY AttemptFacts DEF Init, Waves, StageLeft
    <2>2. \A state \in {"queued", "running"} : Cardinality(Calls(state)) = 0
      <3>1. \A state \in {"queued", "running"} : Calls(state) = {}
        BY DEF Init, Calls
      <3>2. QED BY <3>1, FS_EmptySet
    <2>3. MaxAttempts * Turn <= (1 + MaxRetries) * Turn
      <3>1. Turn \in Nat /\ MaxRetries \in Nat
        BY CountsAre, LimitAssumption DEF Turn
      <3>2. \A a, b, t \in Nat : a <= b => a * t <= b * t
        OBVIOUS
      <3>3. QED BY <2>1, <3>1, <3>2
    <2>4. (MaxAttempts - wave) * Turn = MaxAttempts * Turn
      BY <2>1
    <2>5. Turn \in Nat /\ MaxAttempts * Turn \in Nat /\ (1 + MaxRetries) * Turn \in Nat
      BY <2>1, CountsAre, LimitAssumption, RoundGone DEF Turn
    <2>6. QED
      BY <2>1, <2>2, <2>3, <2>4, <2>5, CountsAre DEF StepsLeft
  <1>2. IInv => StepsLeft \in Nat
    BY StagesFacts DEF IInv
  <1>3. IInv /\ IInv' /\ [Next]_vars => [StepsAdvance]_vars
    <2> SUFFICES ASSUME IInv, IInv', Serve \/ Work \/ DeadlinePasses
                 PROVE  StepsAdvance
      BY DEF Next
    <2>0. /\ TypeOK /\ LoopInv /\ CollectInv /\ WaveInv /\ TypeOK' /\ LoopInv'
      BY DEF IInv
    <2> DEFINE A == (MaxAttempts - wave) * Turn
               M == Cardinality(Missing)
               Q == Cardinality(Calls("queued"))
               U == Cardinality(Calls("running"))
    <2>a. /\ A \in Nat /\ StageLeft \in 0..7 /\ M \in Nat /\ Q \in Nat /\ U \in Nat
          /\ StepsLeft = A + StageLeft + M + 2 * Q + U
      BY <2>0, StagesFacts, CountsAre DEF StepsLeft
    <2>b. /\ A' \in Nat /\ StageLeft' \in 0..7
          /\ StepsLeft' = A' + StageLeft' + M' + 2 * Q' + U'
      <3>1. StageLeft' \in 0..7
        BY <2>0 DEF TypeOK, Steps, StageLeft
      <3>2. MaxAttempts' \in Nat /\ wave' \in Nat /\ wave' <= MaxAttempts' /\ Turn' = Turn
        BY <2>0, AttemptFacts, LimitAssumption
        DEF TypeOK, LoopInv, Waves, MaxAttempts, Confs, Turn
      <3>3. A' \in Nat
        BY <3>2, <2>0, StagesFacts, RoundGone
      <3>4. QED BY <3>1, <3>3 DEF StepsLeft
    <2>c. UNCHANGED result => M' = M
      BY DEF Missing
    <2>d. UNCHANGED task => Q' = Q /\ U' = U
      BY DEF Calls
    <2>e. UNCHANGED <<conf, wave>> => A' = A
      BY DEF MaxAttempts, Turn
    <2> HIDE DEF A, M, Q, U
    <2>1. CASE DeadlinePasses
      <3>1. UNCHANGED <<conf, wave, task, result, pc>>
        BY <2>1 DEF DeadlinePasses
      <3>2. StageLeft' = StageLeft
        BY <3>1 DEF StageLeft
      <3>3. ~(Serve \/ Work)
        BY <2>1, <2>0 DEF DeadlinePasses, Serve, Work, Submit, AllCollected, GiveUp, Check,
           Verify, Decide, Compose, Synthesize, Collect, StartTask, FinishTask
      <3>4. QED
        BY <3>1, <3>2, <3>3, <2>a, <2>b, <2>c, <2>d, <2>e DEF StepsAdvance
    <2> SUFFICES ASSUME Serve \/ Work, ~DeadlinePasses PROVE StepsLeft' < StepsLeft
      BY <2>1 DEF StepsAdvance
    <2>2. CASE AllCollected \/ Check \/ Verify \/ Decide \/ Compose \/ Synthesize
      <3>1. UNCHANGED <<conf, wave, task, result>>
        BY <2>2 DEF AllCollected, Check, Verify, Decide, Compose, Synthesize
      <3>2. StageLeft' < StageLeft
        BY <2>2 DEF AllCollected, Check, Verify, Decide, Compose, Synthesize, StageLeft
      <3>3. A' = A /\ M' = M /\ Q' = Q /\ U' = U
        BY <3>1, <2>c, <2>d, <2>e
      <3>4. /\ A' \in Nat /\ M' \in Nat /\ Q' \in Nat /\ U' \in Nat
            /\ A' <= A /\ M' <= M /\ Q' <= Q /\ U' <= U
        BY <3>3, <2>a
      <3>5. QED BY <3>2, <3>4, <2>a, <2>b, Sums
    <2>3. ASSUME NEW r \in Roles, Collect(r) PROVE StepsLeft' < StepsLeft
      <3>1. UNCHANGED <<conf, wave, task, pc>>
        BY <2>3 DEF Collect
      <3>2. StageLeft' = StageLeft
        BY <3>1 DEF StageLeft
      <3>3. Missing' = Missing \ {r} /\ r \in Missing
        BY <2>3, <2>0 DEF Collect, Arrived, Missing, TypeOK
      <3>4. M' = M - 1
        BY <3>3, CountsAre, OneMoves DEF M
      <3>5. QED BY <3>1, <3>2, <3>4, <2>a, <2>b, <2>d, <2>e
    <2>4. CASE GiveUp
      <3>1. UNCHANGED <<conf, wave>> /\ StageLeft' = 6 /\ StageLeft = 7 /\ wave \in Waves
        BY <2>4, <2>0, AttemptFacts, LimitAssumption DEF GiveUp, StageLeft, TypeOK, LoopInv, Waves
      <3>2. Missing' = {}
        BY <2>4, <2>0 DEF GiveUp, Mark, Missing, TypeOK
      <3>3. M' = 0
        BY <3>2, FS_EmptySet DEF M
      <3>4. \A v \in Waves, s \in Roles :
                \/ task'[v][s] = task[v][s]
                \/ task[v][s] = "queued" /\ task'[v][s] = "cancelled"
        BY <2>4, <2>0, <3>1 DEF GiveUp, TypeOK
      <3>5. Calls("queued")' \in SUBSET Calls("queued") /\ Calls("running")' = Calls("running")
        BY <3>4 DEF Calls
      <3>6. Q' <= Q /\ U' = U /\ Q' \in Nat
        BY <3>5, CountsAre, FS_Subset, FS_CardinalityType DEF Q, U
      <3>7. A' = A
        BY <3>1, <2>e
      <3>8. /\ A' \in Nat /\ M' \in Nat /\ Q' \in Nat /\ U' \in Nat
            /\ A' <= A /\ M' <= M /\ Q' <= Q /\ U' <= U /\ StageLeft' < StageLeft
        BY <3>1, <3>3, <3>6, <3>7, <2>a
      <3>9. QED BY <3>8, <2>a, <2>b, Sums
    <2>5. CASE Submit
      <3>1. /\ wave' = wave + 1 /\ conf' = conf /\ StageLeft = 3 /\ StageLeft' = 7
            /\ wave \in Nat /\ MaxAttempts \in Nat /\ wave < MaxAttempts /\ wave + 1 \in Waves
        BY <2>5, <2>0, AttemptFacts, LimitAssumption
        DEF Submit, StageLeft, TypeOK, LoopInv, Waves
      <3>2. A = A' + Turn
        <4>1. MaxAttempts' = MaxAttempts /\ Turn' = Turn /\ Turn \in Nat
          BY <3>1, CountsAre DEF MaxAttempts, Turn
        <4> DEFINE n == MaxAttempts - (wave + 1)
        <4>2. n \in Nat /\ MaxAttempts - wave = n + 1
          BY <3>1
        <4>3. A = (n + 1) * Turn /\ A' = n * Turn
          BY <3>1, <4>1, <4>2 DEF A
        <4> HIDE DEF n
        <4>4. QED BY <4>1, <4>2, <4>3, RoundGone
      <3>3. Turn = 3 * Cardinality(Roles) + 5 /\ Cardinality(Roles) \in Nat
        BY CountsAre DEF Turn
      <3>4. M' = Cardinality(Roles)
        <4>1. Missing' = Roles
          BY <2>5 DEF Submit, Missing
        <4>2. QED BY <4>1 DEF M
      <3>5. \A v \in Waves, s \in Roles :
                task'[v][s] = IF v = wave + 1 THEN "queued" ELSE task[v][s]
        BY <2>5, <2>0 DEF Submit, TypeOK
      <3>6. U' <= U /\ U' \in Nat
        <4>1. Calls("running")' \in SUBSET Calls("running")
          BY <3>5 DEF Calls
        <4>2. QED BY <4>1, CountsAre, FS_Subset, FS_CardinalityType DEF U
      <3>7. Q' <= Cardinality(Roles) /\ Q' \in Nat
        <4>1. \A v \in Waves, s \in Roles : task'[v][s] = "queued" => v = wave + 1
          <5> SUFFICES ASSUME NEW v \in Waves, NEW s \in Roles, v # wave + 1
                       PROVE  task[v][s] # "queued"
            BY <3>5
          <5>1. v > wave \/ v < wave \/ v = wave
            BY <3>1 DEF Waves
          <5>2. CASE v # wave
            BY <5>1, <5>2, <2>0 DEF WaveInv
          <5>3. CASE v = wave
            <6>1. wave > 0
              BY <5>3, LimitAssumption DEF Waves
            <6>2. result[s] \in {"ok", "failed"} /\ task[wave][s] = result[s]
              BY <6>1, <2>5 DEF IInv, Submit, CollectInv, ResultsInv
            <6>3. QED BY <5>3, <6>2
          <5>4. QED BY <5>2, <5>3
        <4> DEFINE f == [x \in Calls("queued")' |-> x[2]]
        <4>2. \A x \in Calls("queued")' : x = <<wave + 1, x[2]>> /\ x[2] \in Roles
          BY <4>1 DEF Calls
        <4>3. f \in Injection(Calls("queued")', Roles)
          BY <4>2 DEF Injection, IsInjective
        <4>4. QED
          BY <4>3, RolesAssumption, FS_Injection, FS_CardinalityType DEF Q
      <3>8. QED BY <3>1, <3>2, <3>3, <3>4, <3>6, <3>7, <2>a, <2>b
    <2>6. ASSUME NEW w \in Waves, NEW r \in Roles, StartTask(w, r) PROVE StepsLeft' < StepsLeft
      <3>1. UNCHANGED <<conf, wave, result, pc>>
        BY <2>6 DEF StartTask
      <3>2. StageLeft' = StageLeft
        BY <3>1 DEF StageLeft
      <3>3. /\ <<w, r>> \in Calls("queued") /\ <<w, r>> \notin Calls("running")
            /\ Calls("queued")' = Calls("queued") \ {<<w, r>>}
            /\ Calls("running")' = Calls("running") \cup {<<w, r>>}
        BY <2>6, <2>0 DEF StartTask, Calls, TypeOK
      <3>4. Q' = Q - 1
        BY <3>3, CountsAre, OneMoves DEF Q
      <3>5. U' = U + 1
        BY <3>3, CountsAre, FS_AddElement DEF U
      <3>6. QED BY <3>1, <3>2, <3>4, <3>5, <2>a, <2>b, <2>c, <2>e
    <2>7. ASSUME NEW w \in Waves, NEW r \in Roles, FinishTask(w, r) PROVE StepsLeft' < StepsLeft
      <3>1. UNCHANGED <<conf, wave, result, pc>>
        BY <2>7 DEF FinishTask
      <3>2. StageLeft' = StageLeft
        BY <3>1 DEF StageLeft
      <3>3. /\ <<w, r>> \in Calls("running")
            /\ Calls("running")' = Calls("running") \ {<<w, r>>}
            /\ Calls("queued")' = Calls("queued")
        BY <2>7, <2>0 DEF FinishTask, Calls, TypeOK
      <3>4. U' = U - 1
        BY <3>3, CountsAre, OneMoves DEF U
      <3>5. Q' = Q
        BY <3>3 DEF Q
      <3>6. QED BY <3>1, <3>2, <3>4, <3>5, <2>a, <2>b, <2>c, <2>e
    <2>8. QED
      BY <2>2, <2>3, <2>4, <2>5, <2>6, <2>7 DEF Serve, Work
  <1>4. QED
    BY <1>1, <1>2, <1>3, RoleSplitInvariant, PTL DEF Spec
=============================================================================
