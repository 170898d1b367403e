----------------------------- MODULE Admission ------------------------------
(***************************************************************************)
(* Admission of POST /v1/chat/completions by the HTTP server (server.py):  *)
(* a BoundedSemaphore of processing slots, an optional bounded queue that  *)
(* holds one ticket per waiting handler thread, and the handler that must  *)
(* give its slot back however the request ends. Every request runs on a    *)
(* thread of its own (ThreadingHTTPServer).                                *)
(*                                                                         *)
(* The semaphore is the standard library's: acquire takes a free slot,     *)
(* with a timeout it gives up only while no slot is free, and a newly      *)
(* arrived request may overtake the waiting ones. What the orchestrator    *)
(* does between admission and response is one step with any outcome. The   *)
(* slot is taken before the body of the request is read, and no socket has *)
(* a time-out: a client that stops sending or reading holds its thread,    *)
(* and its slot, for as long as it likes.                                  *)
(***************************************************************************)
EXTENDS Integers, FiniteSets

CONSTANTS Requests,      \* handler threads, each serving one request at a time
          MaxConcurrent, \* max_concurrent_requests
          QueueEnabled,  \* server.queue.enabled
          MaxQueue       \* server.queue.max_size

ASSUME RequestsAssumption == IsFiniteSet(Requests)
ASSUME SlotsAssumption == MaxConcurrent \in Nat \ {0}
ASSUME QueueAssumption == QueueEnabled \in BOOLEAN /\ MaxQueue \in Nat \ {0}

VARIABLES free,   \* value of _request_semaphore
          queued, \* tickets in _request_queue
          pc,     \* pc[r]: the step request r takes next
          stalled \* requests whose client neither sends nor reads, and stays

vars == <<free, queued, pc, stalled>>

\* How the body of do_POST ends: a result, one of its except clauses (400, 413,
\* 500, 502), or an exception while the response is written (client gone).
Outcomes == {"result", "error", "cut"}

Ticketed == {"waiting", "granted", "expired"}
InService == {"granted", "serving", "responded"}
Steps == {"idle", "full", "refused"} \cup Ticketed \cup InService

\* The steps at which a thread waits for its client.
AtSocket == {"serving", "refused"}
-----------------------------------------------------------------------------
Init == /\ free = MaxConcurrent
        /\ queued = 0
        /\ pc = [r \in Requests |-> "idle"]
        /\ stalled = {}

Goto(r, step) == pc' = [pc EXCEPT ![r] = step]

\* A request arrives: acquire(blocking=False).
Arrive(r) == /\ pc[r] = "idle"
             /\ free' = IF free > 0 THEN free - 1 ELSE free
             /\ Goto(r, IF free > 0 THEN "serving"
                        ELSE IF QueueEnabled THEN "full" ELSE "refused")
             /\ UNCHANGED <<queued, stalled>>

\* put_nowait: queue.Full is a refusal.
HasRoomBug(n) == n <= MaxQueue
HasRoom(n) == n < MaxQueue

Enqueue(r) == /\ pc[r] = "full"
              /\ queued' = IF HasRoom(queued) THEN queued + 1 ELSE queued
              /\ Goto(r, IF HasRoom(queued) THEN "waiting" ELSE "refused")
              /\ UNCHANGED <<free, stalled>>

\* acquire(timeout=...) gets a slot ...
Grant(r) == /\ pc[r] = "waiting"
            /\ free > 0
            /\ free' = free - 1
            /\ Goto(r, "granted")
            /\ UNCHANGED <<queued, stalled>>

\* ... or the time is up while there is none.
TimeOutBug(r) == /\ pc[r] = "waiting"
                 /\ free = 0
                 /\ UNCHANGED vars
TimeOut(r) == /\ pc[r] = "waiting"
              /\ free = 0
              /\ Goto(r, "expired")
              /\ UNCHANGED <<free, queued, stalled>>

\* The finally clause: get_nowait takes a ticket out, anybody's.
TakeTicketBug(r) == IF pc[r] = "granted" THEN queued - 1 ELSE queued
TakeTicket(r) == IF queued > 0 THEN queued - 1 ELSE queued

Dequeue(r) == /\ pc[r] \in {"granted", "expired"}
              /\ queued' = TakeTicket(r)
              /\ Goto(r, IF pc[r] = "granted" THEN "serving" ELSE "refused")
              /\ UNCHANGED <<free, stalled>>

Refuse(r) == /\ pc[r] = "refused" /\ r \notin stalled
             /\ Goto(r, "idle")
             /\ UNCHANGED <<free, queued, stalled>>

\* The handler reads the body, runs the request and writes a response, or
\* fails to. It gets through only when the client sends and reads.
AfterServiceBug(outcome) == IF outcome = "cut" THEN "idle" ELSE "responded"
AfterService(outcome) == "responded"

Serve(r) == /\ pc[r] = "serving" /\ r \notin stalled
            /\ \E outcome \in Outcomes : Goto(r, AfterService(outcome))
            /\ UNCHANGED <<free, queued, stalled>>

\* The finally clause of do_POST: the slot goes back after the response.
Release(r) == /\ pc[r] = "responded"
              /\ free' = free + 1
              /\ Goto(r, "idle")
              /\ UNCHANGED <<queued, stalled>>

\* A client stops sending its body, or reading its response, and goes on later
\* (or resets the connection, which ends the wait as well) if it likes.
Stall(r) == /\ pc[r] \in AtSocket /\ r \notin stalled
            /\ stalled' = stalled \cup {r}
            /\ UNCHANGED <<free, queued, pc>>

Resume(r) == /\ r \in stalled
             /\ stalled' = stalled \ {r}
             /\ UNCHANGED <<free, queued, pc>>

Handle(r) == \/ Enqueue(r) \/ Grant(r) \/ TimeOut(r) \/ Dequeue(r)
             \/ Refuse(r) \/ Serve(r) \/ Release(r)

Next == \E r \in Requests : Arrive(r) \/ Handle(r) \/ Stall(r) \/ Resume(r)

Spec == Init /\ [][Next]_vars

\* A handler thread keeps running unless its client stalls, waits no longer
\* than the queue timeout, and the orchestrator returns (every backend call has
\* a timeout of its own). Of the clients nothing is assumed: they may never
\* arrive, and never go on once they stall.
Fairness == \A r \in Requests : WF_vars(Handle(r))
FairSpec == Spec /\ Fairness
-----------------------------------------------------------------------------
TypeOK == /\ free \in 0..MaxConcurrent
          /\ queued \in 0..MaxQueue
          /\ pc \in [Requests -> Steps]
          /\ stalled \in SUBSET {r \in Requests : pc[r] \in AtSocket}

\* Slots are conserved: those that are free and those some thread is to give
\* back add up to max_concurrent_requests, so no way out of do_POST leaks one
\* and BoundedSemaphore.release() never raises.
Holders == {r \in Requests : pc[r] \in InService}
SlotsConserved == free + Cardinality(Holders) = MaxConcurrent

\* The tickets are those of the threads between put and get, although
\* get_nowait may take out another thread's: the queue.Empty branch of the
\* finally clause is dead code, and the size /health reports drains to zero.
TicketHolders == {r \in Requests : pc[r] \in Ticketed}
TicketsMatchWaiters == queued = Cardinality(TicketHolders)

\* A request whose own client does not stall for ever is answered and leaves,
\* however the arrivals that overtake it in the race for free slots are timed,
\* and although the slots may be held for ever by clients that do stall.
Responsive(r) == <>[](r \notin stalled)
EveryRequestLeaves ==
    \A r \in Requests : Responsive(r) => (pc[r] # "idle" ~> pc[r] = "idle")
=============================================================================
