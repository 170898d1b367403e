----------------------------- MODULE RoleSplit ------------------------------
(***************************************************************************)
(* One request under the role_split pattern (orchestrator.py): waves of    *)
(* worker calls on a thread pool, collected until the request deadline;    *)
(* the verifier, which may send the workers round again; the synthesis.    *)
(* The worker threads, the deadline and the thread that serves the request *)
(* run concurrently. Each wave has a pool of its own, and calls that still *)
(* run when their wave is given up run on in the background.               *)
(*                                                                         *)
(* Abstracted: contents and usage numbers; late stands for                 *)
(* _deadline_passed; a role's call, with the router's failover inside, is  *)
(* one step from running to ok or failed.                                  *)
(***************************************************************************)
EXTENDS Integers, FiniteSets

CONSTANTS Roles,       \* the selected worker roles
          MaxParallel, \* max_parallel_workers
          MaxRetries   \* largest verify.max_retries considered

ASSUME RolesAssumption == IsFiniteSet(Roles) /\ Roles # {}
ASSUME LimitAssumption == MaxParallel \in Nat \ {0} /\ MaxRetries \in Nat

VARIABLES
    conf,     \* the configuration the request runs under; never changes
    late,     \* the request's deadline has passed
    pc,       \* the step of the thread that serves the request
    wave,     \* waves of workers submitted so far
    task,     \* task[w][r]: the call of role r in wave w
    result,   \* result[r]: the WorkerResult of role r in worker_results
    attempts, \* length of verification_attempts
    passed,   \* verification_passed
    warning,  \* verification_warning is set
    outcome   \* what the caller of chat() gets

vars == <<conf, late, pc, wave, task, result, attempts, passed, warning, outcome>>

Waves == 1..(1 + MaxRetries)
Confs == [verify : BOOLEAN,          \* verify.enabled and a verifier role
          retries : 0..MaxRetries,   \* verify.max_retries
          synthesizer : BOOLEAN,     \* a synthesizer role is configured
          deadline : BOOLEAN]        \* request_timeout_seconds is set

TaskStates == {"none", "queued", "running", "ok", "failed", "cancelled"}
Results == {"none", "ok", "failed", "timed_out"}
Outcomes == {"none", "error", "merged", "synthesized"}
Steps == {"submit", "collect", "check", "verify", "decide", "compose",
          "synthesize", "done"}

PoolSizeBug == MaxParallel + 1
PoolSize == IF Cardinality(Roles) < MaxParallel THEN Cardinality(Roles) ELSE MaxParallel
MaxAttempts == 1 + (IF conf.verify THEN conf.retries ELSE 0)

InState(w, state) == {r \in Roles : task[w][r] = state}
AnyOk == \E r \in Roles : result[r] = "ok"
-----------------------------------------------------------------------------
Init == /\ conf \in Confs
        /\ late = FALSE
        /\ pc = "submit"
        /\ wave = 0
        /\ task = [w \in Waves |-> [r \in Roles |-> "none"]]
        /\ result = [r \in Roles |-> "none"]
        /\ attempts = 0
        /\ passed = "none"
        /\ warning = FALSE
        /\ outcome = "none"

\* _run_workers: a new executor, one future per role.
Submit == /\ pc = "submit"
          /\ pc' = "collect"
          /\ wave' = wave + 1
          /\ task' = [task EXCEPT ![wave + 1] = [r \in Roles |-> "queued"]]
          /\ result' = [r \in Roles |-> "none"]
          /\ UNCHANGED <<conf, late, attempts, passed, warning, outcome>>

\* A pool thread takes the next future and calls the role's router ...
StartTask(w, r) == /\ task[w][r] = "queued"
                   /\ Cardinality(InState(w, "running")) < PoolSize
                   /\ task' = [task EXCEPT ![w][r] = "running"]
                   /\ UNCHANGED <<conf, late, pc, wave, result, attempts, passed,
                                  warning, outcome>>

\* ... and _run_role returns, also after the request was given up or answered.
FinishTaskBug(w, r) ==
    /\ task[w][r] = "running"
    /\ \E end \in {"ok", "failed"} : /\ task' = [task EXCEPT ![w][r] = end]
                                    /\ result' = [result EXCEPT ![r] = end]
    /\ UNCHANGED <<conf, late, pc, wave, attempts, passed, warning, outcome>>

FinishTask(w, r) == /\ task[w][r] = "running"
                    /\ \E end \in {"ok", "failed"} : task' = [task EXCEPT ![w][r] = end]
                    /\ UNCHANGED <<conf, late, pc, wave, result, attempts, passed,
                                   warning, outcome>>

\* as_completed hands over a finished future.
Arrived(r) == task[wave][r]

Collect(r) == /\ pc = "collect"
              /\ result[r] = "none"
              /\ task[wave][r] \in {"ok", "failed"}
              /\ result' = [result EXCEPT ![r] = Arrived(r)]
              /\ UNCHANGED <<conf, late, pc, wave, task, attempts, passed, warning, outcome>>

AllCollected == /\ pc = "collect"
                /\ \A r \in Roles : result[r] # "none"
                /\ pc' = "check"
                /\ UNCHANGED <<conf, late, wave, task, result, attempts, passed,
                               warning, outcome>>

\* TimeoutError: every role without a result is marked timed out, even if its
\* call has just finished; what is queued is cancelled, what runs runs on.
Mark(r) == "timed_out"
GiveUpBug == /\ pc = "collect"
             /\ late
             /\ UNCHANGED vars

GiveUp == /\ pc = "collect"
          /\ late
          /\ \E r \in Roles : result[r] = "none"
          /\ result' = [r \in Roles |-> IF result[r] = "none" THEN Mark(r) ELSE result[r]]
          /\ task' = [task EXCEPT ![wave] = [r \in Roles |->
                          IF @[r] = "queued" THEN "cancelled" ELSE @[r]]]
          /\ pc' = "check"
          /\ UNCHANGED <<conf, late, wave, attempts, passed, warning, outcome>>

\* After a wave: no verifier, nothing to verify or no time left ends the loop.
Check == /\ pc = "check"
         /\ pc' = IF conf.verify /\ AnyOk /\ ~late THEN "verify" ELSE "compose"
         /\ UNCHANGED <<conf, late, wave, task, result, attempts, passed, warning, outcome>>

\* _run_verifier: a failing call or an unreadable answer is a failed attempt.
Verify == /\ pc = "verify"
          /\ attempts' = attempts + 1
          /\ passed' \in {"yes", "no"}
          /\ pc' = "decide"
          /\ UNCHANGED <<conf, late, wave, task, result, warning, outcome>>

AcceptedBug == FALSE
Accepted == passed = "yes"
BudgetSpent == wave > conf.retries

Decide == /\ pc = "decide"
          /\ warning' = (~Accepted /\ (BudgetSpent \/ late))
          /\ pc' = IF Accepted \/ BudgetSpent \/ late \/ wave = MaxAttempts
                   THEN "compose" ELSE "submit"
          /\ UNCHANGED <<conf, late, wave, task, result, attempts, passed, outcome>>

\* Synthesis, or the deterministic merge; chat() turns a result without a
\* single successful worker into an OrchestrationError.
Respond(kind) == outcome' = IF AnyOk THEN kind ELSE "error"

Compose == /\ pc = "compose"
           /\ IF conf.synthesizer /\ AnyOk /\ ~late
              THEN pc' = "synthesize" /\ UNCHANGED outcome
              ELSE pc' = "done" /\ Respond("merged")
           /\ UNCHANGED <<conf, late, wave, task, result, attempts, passed, warning>>

\* _synthesize, falling back to the merge when the call fails.
Synthesize == /\ pc = "synthesize"
              /\ Respond("synthesized") \/ Respond("merged")
              /\ pc' = "done"
              /\ UNCHANGED <<conf, late, wave, task, result, attempts, passed, warning>>

DeadlinePasses == /\ conf.deadline
                  /\ ~late
                  /\ late' = TRUE
                  /\ UNCHANGED <<conf, pc, wave, task, result, attempts, passed,
                                 warning, outcome>>

Serve == \/ Submit \/ AllCollected \/ GiveUp \/ Check \/ Verify \/ Decide
         \/ Compose \/ Synthesize
         \/ \E r \in Roles : Collect(r)
Work == \E w \in Waves, r \in Roles : StartTask(w, r) \/ FinishTask(w, r)

Next == Serve \/ Work \/ DeadlinePasses

Spec == Init /\ [][Next]_vars

\* The serving thread and time advance. Worker calls owe an answer only to a
\* request without a deadline (their own timeout ends them); calls of the
\* verifier and the synthesizer are ended by their timeouts always.
Fairness == /\ WF_vars(Serve)
            /\ WF_vars(DeadlinePasses)
            /\ WF_vars(~conf.deadline /\ Work)
FairSpec == Spec /\ Fairness
-----------------------------------------------------------------------------
TypeOK == /\ conf \in Confs
          /\ late \in BOOLEAN
          /\ pc \in Steps
          /\ wave \in 0..(1 + MaxRetries)
          /\ task \in [Waves -> [Roles -> TaskStates]]
          /\ result \in [Roles -> Results]
          /\ attempts \in 0..(1 + MaxRetries)
          /\ passed \in {"none", "yes", "no"}
          /\ warning \in BOOLEAN
          /\ outcome \in Outcomes

\* A request never has more worker calls in flight than max_parallel_workers.
\* Each wave has a pool of its own, and a pool outlives the wait for its calls:
\* they do not add up because no wave follows one that was given up.
Running == {x \in Waves \X Roles : task[x[1]][x[2]] = "running"}
WithinParallelLimit == Cardinality(Running) <= MaxParallel

\* A role's result in worker_results is the end of its own call in the wave it
\* was collected in, and stays what it is while that wave lasts: a call that
\* returns after its role was marked timed out changes nothing.
ResultsOfThisWave ==
    [][\A r \in Roles :
          /\ result[r] # "none" /\ wave' = wave => result'[r] = result[r]
          /\ result'[r] \in {"ok", "failed"} => task'[wave'][r] = result'[r]]_vars

\* verification_passed=True, and the warning, are said of the very results that
\* are returned, and a request whose last wave was rejected is never answered
\* without the warning. The verdict may be of an earlier wave in one case only:
\* it is a rejection, of the wave just before, and the last wave was not judged
\* because no worker of it succeeded or the deadline had passed.
VerdictIsCurrent ==
    /\ attempts = 0 <=> passed = "none"
    /\ passed = "yes" => attempts = wave /\ ~warning
    /\ warning => passed = "no" /\ attempts = wave
    /\ pc = "done" /\ passed = "no" /\ attempts = wave => warning
    /\ pc = "done" /\ conf.verify /\ attempts # wave =>
          attempts = wave - 1 /\ (late \/ ~AnyOk)

\* "It never loops for ever": every request ends, with a deadline even if no
\* worker ever answers.
RequestEnds == <>(pc = "done")

\* README, request_timeout_seconds: at the deadline, "if even one succeeded, the
\* outputs of that moment are returned"; the deadline turns a request into an
\* error only if no worker call that was waited for had succeeded.
SuccessIsKept ==
    outcome = "error" /\ (\E r \in Roles : result[r] = "timed_out")
        => \A w \in 1..(wave - 1), r \in Roles : task[w][r] # "ok"
=============================================================================
