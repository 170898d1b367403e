-------------------------- MODULE AdmissionProofs ---------------------------
(***************************************************************************)
(* Proofs about Admission for any number of threads, slots and queue       *)
(* places. The two counters are tied to the sets of threads they count;    *)
(* each counter changes exactly when a thread enters or leaves its set,    *)
(* and the bounds of the counters follow from the cardinalities.           *)
(***************************************************************************)
EXTENDS Admission, FiniteSetTheorems, TLAPS

Counts == /\ free \in Int /\ queued \in Int
          /\ pc \in [Requests -> Steps]

\* The queue bound is not a consequence of the counting: it is kept by
\* put_nowait. The lower bound of free is kept by the semaphore itself.
Bounds == free >= 0 /\ queued <= MaxQueue

\* Only a thread that waits for its client has a client that stalls.
Stalls == stalled \in SUBSET {r \in Requests : pc[r] \in AtSocket}

IInv == Counts /\ Bounds /\ Stalls /\ SlotsConserved /\ TicketsMatchWaiters

\* A set of threads selected by their step is finite.
LEMMA StepSets ==
    ASSUME NEW at, NEW S
    PROVE  /\ IsFiniteSet({r \in Requests : at[r] \in S})
           /\ Cardinality({r \in Requests : at[r] \in S}) \in Nat
  BY RequestsAssumption, FS_Subset, FS_CardinalityType

\* What a thread at a step adds to the count of the threads in a set of steps.
Weight(step, S) == IF step \in S THEN 1 ELSE 0

LEMMA WeightType == ASSUME NEW step, NEW S PROVE Weight(step, S) \in {0, 1}
  BY DEF Weight

\* How one thread's step changes the number of threads in a set of steps.
LEMMA OneMoves ==
    ASSUME Counts, NEW r \in Requests, NEW step, Goto(r, step), NEW S
    PROVE  Cardinality({q \in Requests : pc'[q] \in S})
             = Cardinality({q \in Requests : pc[q] \in S})
               + Weight(step, S) - Weight(pc[r], S)
  <1> DEFINE A == {q \in Requests : pc[q] \in S}
             B == {q \in Requests : pc'[q] \in S}
  <1>1. pc'[r] = step /\ \A q \in Requests \ {r} : pc'[q] = pc[q]
    BY DEF Goto, Counts
  <1>2. IsFiniteSet(A) /\ Cardinality(A) \in Nat
    BY StepSets
  <1>3. CASE (pc[r] \in S <=> step \in S)
    <2>1. A = B
      BY <1>1, <1>3
    <2>2. Weight(step, S) = Weight(pc[r], S) /\ Weight(step, S) \in Int
      BY <1>3 DEF Weight
    <2>3. Cardinality(B) = Cardinality(A)
      BY <2>1
    <2>4. QED
      <3> HIDE DEF A, B
      <3>1. Cardinality(B) = Cardinality(A) + Weight(step, S) - Weight(pc[r], S)
        BY <1>2, <2>2, <2>3
      <3>2. QED BY <3>1 DEF A, B
  <1>4. CASE pc[r] \notin S /\ step \in S
    <2>1. B = A \cup {r} /\ r \notin A
      BY <1>1, <1>4
    <2>2. Cardinality(B) = Cardinality(A) + 1
      BY <1>2, <2>1, FS_AddElement
    <2>3. Weight(step, S) = 1 /\ Weight(pc[r], S) = 0
      BY <1>4 DEF Weight
    <2>4. Cardinality(B) = Cardinality(A) + Weight(step, S) - Weight(pc[r], S)
      BY <1>2, <2>2, <2>3
    <2>5. QED BY <2>4
  <1>5. CASE pc[r] \in S /\ step \notin S
    <2>1. B = A \ {r} /\ r \in A
      BY <1>1, <1>5
    <2>2. Cardinality(B) = Cardinality(A) - 1
      BY <1>2, <2>1, FS_RemoveElement
    <2>3. Weight(step, S) = 0 /\ Weight(pc[r], S) = 1
      BY <1>5 DEF Weight
    <2>4. Cardinality(B) = Cardinality(A) + Weight(step, S) - Weight(pc[r], S)
      BY <1>2, <2>2, <2>3
    <2>5. QED BY <2>4
  <1>6. QED
    BY <1>3, <1>4, <1>5

\* Slots and tickets are accounted for at every moment.
THEOREM AdmissionInvariant == Spec => []IInv
  <1> USE SlotsAssumption, QueueAssumption
  <1>1. Init => IInv
    <2> SUFFICES ASSUME Init PROVE IInv
      OBVIOUS
    <2>1. Holders = {} /\ TicketHolders = {}
      BY DEF Init, Holders, TicketHolders, InService, Ticketed
    <2>2. Cardinality(Holders) = 0 /\ Cardinality(TicketHolders) = 0
      BY <2>1, FS_EmptySet
    <2>3. QED
      BY <2>2 DEF Init, IInv, Counts, Bounds, Stalls, SlotsConserved, TicketsMatchWaiters, Steps
  <1>2. IInv /\ [Next]_vars => IInv'
    <2> SUFFICES ASSUME IInv, [Next]_vars PROVE IInv'
      OBVIOUS
    <2>1. /\ free \in Int /\ queued \in Int /\ free >= 0 /\ queued <= MaxQueue
          /\ pc \in [Requests -> Steps] /\ Counts
          /\ free + Cardinality(Holders) = MaxConcurrent
          /\ queued = Cardinality(TicketHolders)
          /\ Cardinality(Holders) \in Nat /\ Cardinality(TicketHolders) \in Nat
          /\ Stalls
      BY StepSets
      DEF IInv, Counts, Bounds, SlotsConserved, TicketsMatchWaiters, Holders, TicketHolders
    <2>2. ASSUME NEW r \in Requests, NEW step \in Steps, Goto(r, step),
                 free' \in Nat, queued' \in Int, queued' <= MaxQueue,
                 free' = free + Weight(pc[r], InService) - Weight(step, InService),
                 queued' = queued + Weight(step, Ticketed) - Weight(pc[r], Ticketed),
                 stalled' = stalled, r \notin stalled
          PROVE IInv'
      <3>1. Counts'
        BY <2>1, <2>2 DEF Counts, Goto
      <3>2. /\ Cardinality(Holders') = Cardinality(Holders) + Weight(step, InService)
                                       - Weight(pc[r], InService)
            /\ Cardinality(TicketHolders') = Cardinality(TicketHolders)
                                       + Weight(step, Ticketed) - Weight(pc[r], Ticketed)
        BY <2>1, <2>2, OneMoves DEF Holders, TicketHolders
      <3>3. SlotsConserved'
        BY <2>1, <2>2, <3>2, WeightType DEF SlotsConserved
      <3>4. TicketsMatchWaiters'
        BY <2>1, <2>2, <3>2, WeightType DEF TicketsMatchWaiters
      <3>5. Stalls'
        BY <2>1, <2>2 DEF Stalls, Goto
      <3>6. QED
        BY <3>1, <3>3, <3>4, <3>5, <2>2 DEF IInv, Bounds
    <2> USE DEF Steps, Ticketed, InService, Weight
    <2>s. \A r \in stalled : pc[r] \in {"serving", "refused"}
      BY <2>1 DEF Stalls, AtSocket
    <2>3. ASSUME NEW r \in Requests, Arrive(r) PROVE IInv'
      BY <2>3, <2>1, <2>2, <2>s DEF Arrive
    <2>4. ASSUME NEW r \in Requests, Enqueue(r) PROVE IInv'
      BY <2>4, <2>1, <2>2, <2>s DEF Enqueue, HasRoom
    <2>5. ASSUME NEW r \in Requests, Grant(r) \/ TimeOut(r) PROVE IInv'
      BY <2>5, <2>1, <2>2, <2>s DEF Grant, TimeOut
    <2>6. ASSUME NEW r \in Requests, Dequeue(r) PROVE IInv'
      <3>1. queued > 0
        <4>1. r \in TicketHolders
          BY <2>6 DEF Dequeue, TicketHolders
        <4>2. Cardinality(TicketHolders) # 0
          <5>1. IsFiniteSet(TicketHolders)
            BY StepSets DEF TicketHolders
          <5>2. TicketHolders # {}
            BY <4>1
          <5>3. QED BY <5>1, <5>2, FS_EmptySet
        <4>3. QED BY <4>2, <2>1
      <3>2. QED
        BY <2>6, <3>1, <2>1, <2>2, <2>s DEF Dequeue, TakeTicket
    <2>7. ASSUME NEW r \in Requests, Refuse(r) \/ Serve(r) \/ Release(r) PROVE IInv'
      BY <2>7, <2>1, <2>2, <2>s DEF Refuse, Serve, Release, AfterService
    <2>8. ASSUME UNCHANGED <<free, queued, pc>>, Stalls' PROVE IInv'
      BY <2>8, <2>1 DEF IInv, Counts, Bounds, SlotsConserved, TicketsMatchWaiters,
                        Holders, TicketHolders
    <2>9. ASSUME NEW r \in Requests, Stall(r) \/ Resume(r) PROVE IInv'
      BY <2>8, <2>9, <2>1 DEF Stall, Resume, Stalls
    <2>10. CASE UNCHANGED vars
      BY <2>8, <2>10, <2>1 DEF vars, Stalls
    <2>11. QED
      BY <2>3, <2>4, <2>5, <2>6, <2>7, <2>9, <2>10 DEF Next, Handle
  <1>3. QED
    BY <1>1, <1>2, PTL DEF Spec

\* However do_POST ends, the slot it took is free again, once.
THEOREM SlotsCorrect == Spec => []SlotsConserved
  <1>1. IInv => SlotsConserved
    BY DEF IInv
  <1>2. QED BY <1>1, AdmissionInvariant, PTL

\* The queue's size is the number of waiting threads.
THEOREM TicketsCorrect == Spec => []TicketsMatchWaiters
  <1>1. IInv => TicketsMatchWaiters
    BY DEF IInv
  <1>2. QED BY <1>1, AdmissionInvariant, PTL

\* The counters stay within their limits: no more requests are served than
\* there are slots, no more wait than the queue has places.
THEOREM AdmissionTypeCorrect == Spec => []TypeOK
  <1>1. IInv => TypeOK
    <2> SUFFICES ASSUME IInv PROVE TypeOK
      OBVIOUS
    <2>1. Cardinality(Holders) \in Nat /\ Cardinality(TicketHolders) \in Nat
      BY StepSets DEF Holders, TicketHolders
    <2>2. QED
      BY <2>1, SlotsAssumption, QueueAssumption
      DEF IInv, Counts, Bounds, Stalls, SlotsConserved, TicketsMatchWaiters, TypeOK
  <1>2. QED BY <1>1, AdmissionInvariant, PTL
=============================================================================
