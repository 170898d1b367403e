------------------------------- MODULE Router -------------------------------
(***************************************************************************)
(* ModelRouter (routing.py): a pool of equivalent endpoints behind one     *)
(* logical model. Caller threads take a snapshot of the attempt order,     *)
(* then try its members one by one; every method that touches the members' *)
(* counters is one critical section of the router's lock, so each is one   *)
(* action here, and the work between two critical sections interleaves     *)
(* with the other callers and with the health monitor's probes.            *)
(*                                                                         *)
(* Abstracted: time (cooling[m] stands for cooldown_until > now), payloads,*)
(* the exceptions' identity. chat() takes the same critical sections as a  *)
(* stream_chat() that never emits, so one set of actions models both.      *)
(* Counters saturate at the largest value the code compares them with.     *)
(***************************************************************************)
EXTENDS Integers, FiniteSets, Functions

CONSTANTS
    N,                  \* number of pool members (RoutingError when none)
    Calls,              \* concurrent caller threads
    Policy,             \* "round_robin" | "least_busy"
    Cooldown,           \* cooldown_seconds > 0
    ActiveHealth,       \* active_health_enabled
    UnhealthyThreshold, \* failures that start a cooldown
    FailureThreshold,   \* failures that make a member unhealthy
    SuccessThreshold    \* good probes that make a member healthy

ASSUME CallsAssumption == IsFiniteSet(Calls)
ASSUME PoolAssumption == N \in Nat \ {0}
ASSUME PolicyAssumption == Policy \in {"round_robin", "least_busy"}
ASSUME SwitchAssumption == Cooldown \in BOOLEAN /\ ActiveHealth \in BOOLEAN
ASSUME ThresholdAssumption == /\ UnhealthyThreshold \in Nat \ {0}
                              /\ FailureThreshold \in Nat \ {0}
                              /\ SuccessThreshold \in Nat \ {0}

VARIABLES
    busy,       \* busy[m]: in-flight calls counted on member m
    failures,   \* failures[m]: consecutive failures, saturating
    successes,  \* successes[m]: consecutive_successes, saturating
    health,     \* health[m]: health_state
    cooling,    \* cooling[m]: cooldown_until lies in the future
    rrIndex,    \* _round_robin_index
    pc,         \* pc[c]: the step call c takes next, or how its last call ended
    order,      \* order[c]: the attempt order call c took
    tried,      \* tried[c]: how many members of order[c] call c has acquired
    emitted     \* emitted[c]: a chunk of the current attempt was delivered

memberVars == <<failures, successes, health, cooling>>
callVars == <<pc, order, tried, emitted>>
vars == <<busy, failures, successes, health, cooling, rrIndex,
          pc, order, tried, emitted>>

Members == 1..N
Orders == Bijection(Members, Members)
InConfigOrder == [i \in Members |-> i]

\* Saturation bound of failures[_]; successes[_] saturates at SuccessThreshold.
FailureCap == IF FailureThreshold >= UnhealthyThreshold
              THEN FailureThreshold ELSE UnhealthyThreshold
CountFailure(n) == IF n < FailureCap THEN n + 1 ELSE n
\* Variants of the definitions that follow them, named ...Bug, are the
\* plausible coding mistakes the properties below are shown to notice.
CountSuccessBug(n) == 1
CountSuccess(n) == IF n < SuccessThreshold THEN n + 1 ELSE n

HealthStates == {"healthy", "unknown", "degraded", "unhealthy"}
Priority(state) == CASE state = "healthy" -> 0 [] state = "unknown" -> 1
                     [] state = "degraded" -> 2 [] state = "unhealthy" -> 3

Finished == {"idle", "ok", "failed", "broken", "closed"}
Holding == {"backend", "next", "return", "raise", "close"}
Running == Holding \cup {"acquire"}

\* The member call c has acquired and not yet released.
Current(c) == order[c][tried[c]]
-----------------------------------------------------------------------------
Init == /\ busy = [m \in Members |-> 0]
        /\ failures = [m \in Members |-> 0]
        /\ successes = [m \in Members |-> 0]
        /\ health = [m \in Members |-> IF ActiveHealth THEN "unknown" ELSE "healthy"]
        /\ cooling = [m \in Members |-> FALSE]
        /\ rrIndex = 0
        /\ pc = [c \in Calls |-> "idle"]
        /\ order = [c \in Calls |-> InConfigOrder]
        /\ tried = [c \in Calls |-> 0]
        /\ emitted = [c \in Calls |-> FALSE]

MemberState(m) == IF cooling[m] /\ health[m] = "healthy" THEN "degraded" ELSE health[m]

\* The policy's own order, which the stable sort by state refines.
RotationRank(m) == IF m > rrIndex THEN m - rrIndex ELSE m - rrIndex + N
PolicyBefore(a, b) == \/ /\ Policy = "least_busy"
                         /\ \/ busy[a] < busy[b]
                            \/ busy[a] = busy[b] /\ a < b
                      \/ /\ Policy = "round_robin"
                         /\ RotationRank(a) < RotationRank(b)
AttemptBefore(a, b) == \/ Priority(MemberState(a)) < Priority(MemberState(b))
                       \/ /\ Priority(MemberState(a)) = Priority(MemberState(b))
                          /\ PolicyBefore(a, b)
IsAttemptOrder(o) == \A i, j \in Members : i < j => AttemptBefore(o[i], o[j])

AdvanceBug(i) == i + 1
Advance(i) == (i + 1) % N

\* chat() or stream_chat() starts: _attempt_order under the lock.
Begin(c) == /\ pc[c] \in Finished
            /\ pc' = [pc EXCEPT ![c] = "acquire"]
            /\ \E o \in Orders : /\ IsAttemptOrder(o)
                                 /\ order' = [order EXCEPT ![c] = o]
            /\ rrIndex' = IF Policy = "round_robin" THEN Advance(rrIndex) ELSE rrIndex
            /\ UNCHANGED <<busy, memberVars, tried, emitted>>

Acquire(c) == /\ pc[c] = "acquire"
              /\ pc' = [pc EXCEPT ![c] = "backend"]
              /\ tried' = [tried EXCEPT ![c] = @ + 1]
              /\ busy' = [busy EXCEPT ![order[c][tried[c] + 1]] = @ + 1]
              /\ emitted' = [emitted EXCEPT ![c] = FALSE]
              /\ UNCHANGED <<memberVars, rrIndex, order>>

\* A streaming backend delivers a chunk.
Emit(c) == /\ pc[c] = "backend"
           /\ ~emitted[c]
           /\ emitted' = [emitted EXCEPT ![c] = TRUE]
           /\ UNCHANGED <<busy, memberVars, rrIndex, pc, order, tried>>

\* The backend answered (or its stream ended): _record_success.
Succeed(c) == /\ pc[c] = "backend"
              /\ pc' = [pc EXCEPT ![c] = "return"]
              /\ failures' = [failures EXCEPT ![Current(c)] = 0]
              /\ successes' = [successes EXCEPT ![Current(c)] = SuccessThreshold]
              /\ health' = [health EXCEPT ![Current(c)] = "healthy"]
              /\ cooling' = [cooling EXCEPT ![Current(c)] = FALSE]
              /\ UNCHANGED <<busy, rrIndex, order, tried, emitted>>

StateAfterFailuresBug(n) == IF n > FailureThreshold THEN "unhealthy" ELSE "degraded"
StateAfterFailures(n) == IF n >= FailureThreshold THEN "unhealthy" ELSE "degraded"
AfterFailureBug(c) == "next"
AfterFailureRetryBug(c) == IF emitted[c] THEN "raise" ELSE "backend"
AfterFailure(c) == IF emitted[c] THEN "raise" ELSE "next"

RecordFailure(m) ==
    IF Cooldown \/ ActiveHealth
    THEN /\ failures' = [failures EXCEPT ![m] = CountFailure(@)]
         /\ successes' = [successes EXCEPT ![m] = 0]
         /\ health' = [health EXCEPT ![m] =
                IF ActiveHealth THEN StateAfterFailures(CountFailure(failures[m])) ELSE @]
         /\ cooling' = [cooling EXCEPT ![m] =
                @ \/ (Cooldown /\ CountFailure(failures[m]) >= UnhealthyThreshold)]
    ELSE UNCHANGED memberVars

\* The backend raised: _record_failure, then failover unless output was seen.
Fail(c) == /\ pc[c] = "backend"
           /\ pc' = [pc EXCEPT ![c] = AfterFailure(c)]
           /\ RecordFailure(Current(c))
           /\ UNCHANGED <<busy, rrIndex, order, tried, emitted>>

CloseBug(c) == /\ pc[c] = "backend"
               /\ emitted[c]
               /\ pc' = [pc EXCEPT ![c] = "closed"]
               /\ UNCHANGED <<busy, memberVars, rrIndex, order, tried, emitted>>

\* The consumer closes the generator at a yield: GeneratorExit passes the
\* handler by and records nothing.
Close(c) == /\ pc[c] = "backend"
            /\ emitted[c]
            /\ pc' = [pc EXCEPT ![c] = "close"]
            /\ UNCHANGED <<busy, memberVars, rrIndex, order, tried, emitted>>

\* How a call goes on once it has released its member.
AfterRelease(step, n) == CASE step = "return" -> "ok"
                           [] step = "raise" -> "broken"
                           [] step = "close" -> "closed"
                           [] step = "next" -> IF n < N THEN "acquire" ELSE "failed"

\* The finally clause of an attempt. The locals go when the call returns.
Release(c) ==
    /\ pc[c] \in Holding \ {"backend"}
    /\ busy' = [busy EXCEPT ![Current(c)] = @ - 1]
    /\ pc' = [pc EXCEPT ![c] = AfterRelease(@, tried[c])]
    /\ IF AfterRelease(pc[c], tried[c]) \in Finished
       THEN /\ order' = [order EXCEPT ![c] = InConfigOrder]
            /\ tried' = [tried EXCEPT ![c] = 0]
            /\ emitted' = [emitted EXCEPT ![c] = FALSE]
       ELSE UNCHANGED <<order, tried, emitted>>
    /\ UNCHANGED <<memberVars, rrIndex>>

\* record_probe_result, called by the health monitor of an active pool.
ProbeGood(m) ==
    /\ ActiveHealth
    /\ failures' = [failures EXCEPT ![m] = 0]
    /\ successes' = [successes EXCEPT ![m] = CountSuccess(@)]
    /\ IF CountSuccess(successes[m]) >= SuccessThreshold
       THEN /\ health' = [health EXCEPT ![m] = "healthy"]
            /\ cooling' = [cooling EXCEPT ![m] = FALSE]
       ELSE /\ health' = [health EXCEPT ![m] = "degraded"]
            /\ UNCHANGED cooling
    /\ UNCHANGED <<busy, rrIndex, callVars>>

ProbeBad(m) ==
    /\ ActiveHealth
    /\ failures' = [failures EXCEPT ![m] = CountFailure(@)]
    /\ successes' = [successes EXCEPT ![m] = 0]
    /\ health' = [health EXCEPT ![m] = StateAfterFailures(CountFailure(failures[m]))]
    /\ UNCHANGED <<busy, cooling, rrIndex, callVars>>

\* The clock passes cooldown_until.
CooldownEnds(m) == /\ cooling[m]
                   /\ cooling' = [cooling EXCEPT ![m] = FALSE]
                   /\ UNCHANGED <<busy, failures, successes, health, rrIndex, callVars>>

Step(c) == Acquire(c) \/ Succeed(c) \/ Fail(c) \/ Release(c)
Probe(m) == ProbeGood(m) \/ ProbeBad(m)

Next == \/ \E c \in Calls : Begin(c) \/ Step(c) \/ Emit(c) \/ Close(c)
        \/ \E m \in Members : Probe(m) \/ CooldownEnds(m)

Spec == Init /\ [][Next]_vars

\* A caller thread keeps running, its backend answers or times out, and the
\* monitor probes each member again and again; callers owe no further call.
Fairness == /\ \A c \in Calls : WF_vars(Step(c))
            /\ \A m \in Members : WF_vars(Probe(m))
FairSpec == Spec /\ Fairness
-----------------------------------------------------------------------------
TypeOK == /\ busy \in [Members -> Int]
          /\ failures \in [Members -> 0..FailureCap]
          /\ successes \in [Members -> 0..SuccessThreshold]
          /\ health \in [Members -> HealthStates]
          /\ cooling \in [Members -> BOOLEAN]
          /\ rrIndex \in 0..(N - 1)
          /\ pc \in [Calls -> Finished \cup Running]
          /\ order \in [Calls -> Orders]
          /\ tried \in [Calls -> 0..N]
          /\ emitted \in [Calls -> BOOLEAN]

Holders(m) == {c \in Calls : pc[c] \in Holding /\ Current(c) = m}

\* The in-flight count that least_busy sorts by and /health reports is exactly
\* the number of calls between _acquire and _release of that member, however
\* an attempt ended: an answer, an error, or a stream its consumer closed.
BusyMatchesInFlight == \A m \in Members : busy[m] = Cardinality(Holders(m))

\* The state routing sorts by always agrees with the two counters, whatever
\* the order in which calls and probes of the same member report: a member of
\* an active pool is unhealthy only after enough failures in a row, healthy
\* only after enough successes in a row, and a cooldown never demotes it.
HealthAgrees(m) ==
    IF ActiveHealth
    THEN \/ /\ health[m] = "unknown"
            /\ failures[m] = 0 /\ successes[m] = 0 /\ ~cooling[m]
         \/ /\ health[m] = "healthy"
            /\ failures[m] = 0 /\ successes[m] = SuccessThreshold /\ ~cooling[m]
         \/ /\ health[m] = "unhealthy"
            /\ failures[m] >= FailureThreshold /\ successes[m] = 0
         \/ /\ health[m] = "degraded"
            /\ failures[m] < FailureThreshold /\ successes[m] < SuccessThreshold
            /\ failures[m] = 0 <=> successes[m] # 0
    ELSE /\ health[m] = "healthy"
         /\ cooling[m] => Cooldown /\ failures[m] >= UnhealthyThreshold
HealthStateAgrees == \A m \in Members : HealthAgrees(m)

\* The promise of Failover.tla, kept across every interleaving: each member is
\* asked at most once per call, an error reaches the caller only after every
\* member failed, and never two members' chunks in one stream.
Untried(c) == IF pc[c] \in Finished THEN {}
              ELSE {m \in Members : \A i \in 1..tried[c] : order[c][i] # m}
Phase(c) == IF pc[c] \in Finished THEN pc[c]
            ELSE IF pc[c] = "acquire" THEN "choosing"
            ELSE IF emitted[c] THEN "visible" ELSE "offered"
phaseBar == [c \in Calls |-> Phase(c)]
untriedBar == [c \in Calls |-> Untried(c)]
Promise == INSTANCE Failover WITH phase <- phaseBar, untried <- untriedBar
RefinesFailover == Promise!Spec

\* Every call comes to an end: a caller never loops over the pool.
CallsReturn == \A c \in Calls : pc[c] = "acquire" ~> pc[c] \in Finished

\* An endpoint that is up again gets its traffic back: once its probes and
\* calls no longer fail it is healthy for good, whatever happened before.
Setback(m) == ProbeBad(m) \/ \E c \in Calls : Fail(c) /\ Current(c) = m
RecoveredMemberHealthy ==
    ActiveHealth => \A m \in Members :
        <>[][~Setback(m)]_vars => <>[](health[m] = "healthy")
=============================================================================
