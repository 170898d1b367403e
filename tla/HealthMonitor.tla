--------------------------- MODULE HealthMonitor ----------------------------
(***************************************************************************)
(* The life of the health monitor (health.py): start() and stop() called   *)
(* by any threads in any order, and the daemon thread _run between them.   *)
(* start() holds the lifecycle lock while it probes every target once;     *)
(* stop() holds it only to set the stop event and again to forget the      *)
(* thread, and joins the thread in between without it, for a bounded time. *)
(*                                                                         *)
(* Abstracted: time (due[t] stands for next_probe_at <= now, and a join    *)
(* may time out whenever its thread still lives), and what a probe records *)
(* (Router's ProbeGood and ProbeBad).                                      *)
(***************************************************************************)
EXTENDS Integers, FiniteSets

CONSTANTS Callers,  \* threads that call start() and stop()
          Threads,  \* monitor thread objects; one that nobody refers to is new
          T         \* number of probe targets, in configuration order

ASSUME TargetsAssumption == T \in Nat \ {0}
ASSUME ThreadsAssumption == /\ IsFiniteSet(Threads) /\ IsFiniteSet(Callers)
                            /\ Cardinality(Threads) > Cardinality(Callers)
ASSUME NoOneAssumption == "none" \notin Callers \cup Threads

VARIABLES
    lock,      \* holder of _lifecycle_lock, or NoOne
    stopEvent, \* _stop_event is set
    thread,    \* _thread, or NoOne
    run,       \* run[d]: the step of monitor thread d
    todo,      \* todo[d]: the due targets d has still to probe in this round
    due,       \* due[t]: the next probe of target t is due
    pc,        \* pc[k]: the step of caller k
    ref,       \* ref[k]: the thread caller k's stop() joins, or NoOne
    probed     \* probed[k]: how many targets caller k's start() has probed

vars == <<lock, stopEvent, thread, run, todo, due, pc, ref, probed>>
callerVars == <<pc, ref, probed>>
threadVars == <<run, todo>>

NoOne == "none"
Targets == 1..T
Steps == {"idle", "start", "probe", "spawn", "stop", "join", "forget"}
Rounds == {"dead", "loop", "round", "probe"}

Alive(d) == run[d] \in {"loop", "round", "probe"}
Running == thread # NoOne /\ Alive(thread)
First(S) == CHOOSE t \in S : \A u \in S : t <= u
-----------------------------------------------------------------------------
Init == /\ lock = NoOne
        /\ stopEvent = FALSE
        /\ thread = NoOne
        /\ run = [d \in Threads |-> "dead"]
        /\ todo = [d \in Threads |-> {}]
        /\ due = [t \in Targets |-> FALSE]
        /\ pc = [k \in Callers |-> "idle"]
        /\ ref = [k \in Callers |-> NoOne]
        /\ probed = [k \in Callers |-> 0]

Goto(k, step) == pc' = [pc EXCEPT ![k] = step]

Call(k) == /\ pc[k] = "idle"
           /\ \E operation \in {"start", "stop"} : Goto(k, operation)
           /\ UNCHANGED <<lock, stopEvent, thread, threadVars, due, ref, probed>>

\* start(): nothing to do while a thread is alive, else clear the stop event
\* and keep the lock for the first, synchronous poll_once().
MayStartBug == ~Running \/ stopEvent
MayStart == ~Running

StartLock(k) ==
    /\ pc[k] = "start"
    /\ lock = NoOne
    /\ Goto(k, IF MayStart THEN "probe" ELSE "idle")
    /\ lock' = IF MayStart THEN k ELSE NoOne
    /\ stopEvent' = IF MayStart THEN FALSE ELSE stopEvent
    /\ UNCHANGED <<thread, threadVars, due, ref, probed>>

MoreToPoll(n) == n + 1 < T

StartProbe(k) ==
    /\ pc[k] = "probe"
    /\ IF MoreToPoll(probed[k])
       THEN /\ probed' = [probed EXCEPT ![k] = @ + 1]
            /\ UNCHANGED pc
       ELSE /\ probed' = [probed EXCEPT ![k] = 0]
            /\ Goto(k, "spawn")
    /\ UNCHANGED <<lock, stopEvent, thread, threadVars, due, ref>>

\* A thread object nobody refers to any more.
Fresh(d) == /\ ~Alive(d) /\ d # thread
            /\ \A k \in Callers : ref[k] # d

StartSpawn(k) ==
    /\ pc[k] = "spawn"
    /\ \E d \in Threads : /\ Fresh(d)
                          /\ thread' = d
                          /\ run' = [run EXCEPT ![d] = "loop"]
    /\ due' = [t \in Targets |-> FALSE]
    /\ lock' = NoOne
    /\ Goto(k, "idle")
    /\ UNCHANGED <<stopEvent, todo, ref, probed>>

\* stop(), first section: signal the thread, remember which one.
StopLock(k) ==
    /\ pc[k] = "stop"
    /\ lock = NoOne
    /\ ref' = [ref EXCEPT ![k] = thread]
    /\ stopEvent' = (stopEvent \/ thread # NoOne)
    /\ Goto(k, IF thread = NoOne THEN "idle" ELSE "join")
    /\ UNCHANGED <<lock, thread, threadVars, due, probed>>

\* The join returns because the thread ended, or after its timeout.
StopJoin(k) == /\ pc[k] = "join"
               /\ Goto(k, "forget")
               /\ UNCHANGED <<lock, stopEvent, thread, threadVars, due, ref, probed>>

\* stop(), second section: forget the thread if it is still the one joined
\* and it is dead.
ForgetsBug(k) == TRUE
Forgets(k) == thread = ref[k] /\ ~Alive(ref[k])

StopForget(k) ==
    /\ pc[k] = "forget"
    /\ lock = NoOne
    /\ thread' = IF Forgets(k) THEN NoOne ELSE thread
    /\ ref' = [ref EXCEPT ![k] = NoOne]
    /\ Goto(k, "idle")
    /\ UNCHANGED <<lock, stopEvent, threadVars, due, probed>>

\* _run: the loop's condition, then the targets due now, else wait.
MonitorLoop(d) ==
    /\ run[d] = "loop"
    /\ \/ /\ stopEvent
          /\ run' = [run EXCEPT ![d] = "dead"]
          /\ UNCHANGED todo
       \/ /\ ~stopEvent
          /\ \E t \in Targets : due[t]
          /\ run' = [run EXCEPT ![d] = "round"]
          /\ todo' = [todo EXCEPT ![d] = {t \in Targets : due[t]}]
    /\ UNCHANGED <<lock, stopEvent, thread, due, callerVars>>

\* The next target of the round, unless a stop was signalled meanwhile.
MonitorNext(d) ==
    /\ run[d] = "round"
    /\ run' = [run EXCEPT ![d] = IF todo[d] = {} THEN "loop"
                                 ELSE IF stopEvent THEN "dead" ELSE "probe"]
    /\ todo' = [todo EXCEPT ![d] = IF stopEvent THEN {} ELSE @]
    /\ UNCHANGED <<lock, stopEvent, thread, due, callerVars>>

\* _poll_target returned and recorded; the target's next probe is scheduled.
LeftBug(targets) == {}
Left(targets) == targets \ {First(targets)}

MonitorProbed(d) ==
    /\ run[d] = "probe"
    /\ run' = [run EXCEPT ![d] = "round"]
    /\ todo' = [todo EXCEPT ![d] = Left(todo[d])]
    /\ due' = [due EXCEPT ![First(todo[d])] = FALSE]
    /\ UNCHANGED <<lock, stopEvent, thread, callerVars>>

\* A target's interval has passed.
Elapse(t) == /\ ~due[t]
             /\ due' = [due EXCEPT ![t] = TRUE]
             /\ UNCHANGED <<lock, stopEvent, thread, threadVars, callerVars>>

Caller(k) == \/ StartLock(k) \/ StartProbe(k) \/ StartSpawn(k)
             \/ StopLock(k) \/ StopJoin(k) \/ StopForget(k)
Monitor(d) == MonitorLoop(d) \/ MonitorNext(d) \/ MonitorProbed(d)

Next == \/ \E k \in Callers : Call(k) \/ Caller(k)
        \/ \E d \in Threads : Monitor(d)
        \/ \E t \in Targets : Elapse(t)

Spec == Init /\ [][Next]_vars

\* The monitor thread runs, its probes return (they have a timeout) and time
\* passes. Nothing is assumed of the callers, nor of who gets the lock.
Fairness == /\ \A d \in Threads : WF_vars(Monitor(d))
            /\ \A t \in Targets : WF_vars(Elapse(t))
FairSpec == Spec /\ Fairness
-----------------------------------------------------------------------------
TypeOK == /\ lock \in Callers \cup {NoOne}
          /\ stopEvent \in BOOLEAN
          /\ thread \in Threads \cup {NoOne}
          /\ run \in [Threads -> Rounds]
          /\ todo \in [Threads -> SUBSET Targets]
          /\ due \in [Targets -> BOOLEAN]
          /\ pc \in [Callers -> Steps]
          /\ ref \in [Callers -> Threads \cup {NoOne}]
          /\ probed \in [Callers -> 0..(T - 1)]

\* No thread is ever left running that stop() could no longer reach: a live
\* monitor thread is the one _thread names, so there is at most one.
NoOrphan == \A d \in Threads : Alive(d) => thread = d

\* No two probes overlap: not the one of a start() with those of the thread,
\* nor those of two starts, whatever stops and join timeouts came before.
Probing == {k \in Callers : pc[k] = "probe"} \cup {d \in Threads : run[d] = "probe"}
ProbesDisjoint == Cardinality(Probing) <= 1

\* A stop that found a thread ends that very thread: no start() running at the
\* same time can take the signal away from it.
StopTakesEffect ==
    \A k \in Callers, d \in Threads :
        pc[k] = "join" /\ ref[k] = d ~> ~Alive(d)

\* While the monitor is left running it probes each target again and again.
EveryTargetProbed ==
    \A t \in Targets :
        []<>(\/ ~Running \/ stopEvent
             \/ run[thread] = "probe" /\ First(todo[thread]) = t)
=============================================================================
