---------------------------- MODULE ServiceProofs ----------------------------
(***************************************************************************)
(* Proofs about what serves a shopper's session: the capacity of the       *)
(* gateway, for every set of requests and every limit; the admission of her *)
(* connections, for every number of them and every limit; the cart of her  *)
(* browser, for every set of changes and number of reconnects; a guest's   *)
(* history, for every set of writers, wherever locks run out; her verified *)
(* access, for every number of shoppers, tabs, overlapping calls and codes; *)
(* support cases and takeovers, for every set of agents, number of steps and *)
(* length of the takeover's lease; and all of these beside each other.     *)
(***************************************************************************)
EXTENDS MCServices, FiniteSetTheorems, SequenceTheorems, TLAPS

\* Queue, semaphore and the sets cut out of them are finite.
LEMMA SubsetIsFinite == \A S \in SUBSET Req : IsFiniteSet(S) /\ Cardinality(S) \in Nat
<1>1. TAKE S \in SUBSET Req
<1>2. IsFiniteSet(S)
  BY FS_Subset, CapacityAssumption
<1>3. QED
  BY <1>2, FS_CardinalityType

\* A token more makes a set at most one larger.
LEMMA OneMore ==
    ASSUME NEW S \in SUBSET Req, NEW r \in Req
    PROVE  /\ Cardinality(S \union {r}) <= Cardinality(S) + 1
           /\ Cardinality(S \union {r}) \in Nat
<1>1. IsFiniteSet(S) /\ Cardinality(S) \in Nat
  BY SubsetIsFinite
<1>2. Cardinality(S \union {r}) = IF r \in S THEN Cardinality(S) ELSE Cardinality(S) + 1
  BY <1>1, FS_AddElement
<1>3. QED
  BY <1>1, <1>2

-----------------------------------------------------------------------------
(***************************************************************************)
(* Type correctness.                                                       *)
(***************************************************************************)

LEMMA CapacityTypeInit == Init => TypeOK
BY CapacityAssumption DEF Init, TypeOK, Step, WaitCap

\* The two results of the acquire script.
LEMMA AcquiredType ==
    ASSUME TypeOK, NEW r \in Req, Acquired(r)
    PROVE  sem' \subseteq Req /\ lease' \in [Req -> 0..Lease]
<1>1. Lease \in 0..Lease
  BY CapacityAssumption
<1>2. CASE HasSlot
  BY <1>1, <1>2 DEF Acquired, Unexpired, TypeOK
<1>3. CASE ~HasSlot
  BY <1>3 DEF Acquired, Unexpired, TypeOK
<1>4. QED
  BY <1>2, <1>3

LEMMA CapacityTypeStep == TypeOK /\ [Next]_vars => TypeOK'
<1> SUFFICES ASSUME TypeOK, [Next]_vars PROVE TypeOK'
  OBVIOUS
<1> USE CapacityAssumption DEF TypeOK, Step, Goto
<1>1. ASSUME NEW r \in Req, Work(r) PROVE TypeOK'
  <2>1. CASE Register(r)
    BY <2>1 DEF Register, Registered
  <2>2. CASE CheckWait(r)
    BY <2>2 DEF CheckWait, LeaveQueue
  <2>3. CASE Poll(r)
    BY <2>3 DEF Poll, LeaveQueue
  <2>4. CASE TryAcquire(r)
    BY <2>4, AcquiredType DEF TryAcquire
  <2>5. CASE Dequeue(r)
    BY <2>5 DEF Dequeue
  <2>6. QED
    BY <1>1, <2>1, <2>2, <2>3, <2>4, <2>5 DEF Work
<1>2. ASSUME NEW r \in Req, Fault(r) PROVE TypeOK'
  <2>1. CASE RegisterFails(r)
    BY <2>1 DEF RegisterFails, Registered
  <2>2. CASE AcquireFails(r)
    BY <2>2, AcquiredType DEF AcquireFails
  <2>3. CASE DequeueFails(r) \/ RenewFails(r) \/ ReleaseFails(r) \/ Crash(r)
    BY <2>3 DEF DequeueFails, RenewFails, ReleaseFails, Crash
  <2>4. QED
    BY <1>2, <2>1, <2>2, <2>3 DEF Fault
<1>3. ASSUME NEW r \in Req, Arrive(r) \/ Renew(r) \/ Release(r) \/ Cancel(r) PROVE TypeOK'
  <2>1. 0 \in 0..WaitCap /\ Lease \in 0..Lease
    BY DEF WaitCap
  <2>2. CASE Arrive(r) \/ Release(r) \/ Cancel(r)
    BY <2>1, <2>2 DEF Arrive, Release, Cancel
  <2>3. CASE Renew(r)
    BY <2>1, <2>3 DEF Renew, Renewed
  <2>4. QED
    BY <1>3, <2>2, <2>3
<1>4. CASE KeyExpires \/ Tick
  <2>1. CASE KeyExpires
    BY <2>1 DEF KeyExpires
  <2>2. CASE Tick
    BY <2>2 DEF Tick, WaitCap
  <2>3. QED
    BY <1>4, <2>1, <2>2
<1>5. CASE UNCHANGED vars
  BY <1>5 DEF vars
<1>6. QED
  BY <1>1, <1>2, <1>3, <1>4, <1>5 DEF Next

\* Every reachable state is well typed.
THEOREM TypeCorrect == Spec => []TypeOK
<1>1. QED
  BY CapacityTypeInit, CapacityTypeStep, PTL DEF Spec

-----------------------------------------------------------------------------
(***************************************************************************)
(* Tokens: a request that has not been granted a lease is not in the       *)
(* semaphore, and one that does not wait is not in the queue.              *)
(***************************************************************************)

TokenInv ==
    /\ \A r \in Req : pc[r] \in {"new", "arriving", "queued", "polling", "head", "done"}
                          => r \notin sem
    /\ \A r \in Req : pc[r] \in {"new", "arriving", "running", "done"} => r \notin queue

LEMMA TokenInit == Init => TokenInv
BY DEF Init, TokenInv

LEMMA TokenStep == TypeOK /\ TokenInv /\ [Next]_vars => TokenInv'
<1> SUFFICES ASSUME TypeOK, TokenInv, [Next]_vars PROVE TokenInv'
  OBVIOUS
<1> USE DEF TypeOK, TokenInv, Step, Goto
<1>1. ASSUME NEW r \in Req, Work(r) PROVE TokenInv'
  <2>1. CASE Register(r)
    BY <2>1 DEF Register, Registered
  <2>2. CASE CheckWait(r)
    BY <2>2 DEF CheckWait, LeaveQueue
  <2>3. CASE Poll(r)
    BY <2>3 DEF Poll, LeaveQueue
  <2>4. CASE TryAcquire(r)
    BY <2>4 DEF TryAcquire, Acquired, Unexpired
  <2>5. CASE Dequeue(r)
    BY <2>5 DEF Dequeue
  <2>6. QED
    BY <1>1, <2>1, <2>2, <2>3, <2>4, <2>5 DEF Work
<1>2. ASSUME NEW r \in Req, Fault(r) PROVE TokenInv'
  <2>1. CASE RegisterFails(r)
    BY <2>1 DEF RegisterFails, Registered
  <2>2. CASE AcquireFails(r)
    BY <2>2 DEF AcquireFails, Acquired, Unexpired
  <2>3. CASE DequeueFails(r) \/ RenewFails(r) \/ ReleaseFails(r) \/ Crash(r)
    BY <2>3 DEF DequeueFails, RenewFails, ReleaseFails, Crash
  <2>4. QED
    BY <1>2, <2>1, <2>2, <2>3 DEF Fault
<1>3. ASSUME NEW r \in Req, Arrive(r) \/ Renew(r) \/ Release(r) \/ Cancel(r) PROVE TokenInv'
  BY <1>3 DEF Arrive, Renew, Renewed, Release, Cancel
<1>4. CASE KeyExpires \/ Tick \/ UNCHANGED vars
  BY <1>4 DEF KeyExpires, Tick, vars
<1>5. QED
  BY <1>1, <1>2, <1>3, <1>4 DEF Next

\* A request that ends without a failed call leaves neither a queue entry
\* nor a lease behind: the finally blocks cover every path.
THEOREM RequestsExitClean == Spec => []CleanExit
<1>1. TokenInv => CleanExit
  BY DEF TokenInv, CleanExit
<1>2. QED
  BY <1>1, CapacityTypeInit, CapacityTypeStep, TokenInit, TokenStep, PTL DEF Spec

-----------------------------------------------------------------------------
(***************************************************************************)
(* The semaphore: a live run holds an unexpired lease, and the set of      *)
(* leases is never larger than Concurrency.  The first part is what makes  *)
(* the second one bound the runs.                                          *)
(***************************************************************************)

SemBounded == Cardinality(sem) <= Concurrency
SemInv     == LiveRunHoldsLease /\ SemBounded

LEMMA SemInit == Init => SemInv
<1> SUFFICES ASSUME Init PROVE SemInv
  OBVIOUS
<1>1. LiveRunHoldsLease
  BY DEF Init, LiveRunHoldsLease, LiveRuns
<1>2. SemBounded
  BY FS_EmptySet, CapacityAssumption DEF Init, SemBounded
<1>3. QED
  BY <1>1, <1>2 DEF SemInv

\* Purging the expired leases and adding one where there is room.
LEMMA AcquireKeepsBound ==
    ASSUME TypeOK, SemBounded, NEW r \in Req, Acquired(r)
    PROVE  SemBounded'
<1>1. Unexpired \in SUBSET sem /\ Unexpired \in SUBSET Req /\ IsFiniteSet(sem)
  BY SubsetIsFinite DEF Unexpired, TypeOK
<1>2. Cardinality(Unexpired) <= Cardinality(sem)
  BY <1>1, FS_Subset
<1>3. Cardinality(Unexpired) \in Nat /\ Cardinality(sem) \in Nat
  BY <1>1, SubsetIsFinite DEF TypeOK
<1>4. /\ Cardinality(Unexpired \union {r}) <= Cardinality(Unexpired) + 1
      /\ Cardinality(Unexpired \union {r}) \in Nat
  BY <1>1, OneMore
<1>5. CASE HasSlot
  <2>1. sem' = Unexpired \union {r}
    BY <1>5 DEF Acquired
  <2>2. Cardinality(Unexpired) + 1 <= Concurrency
    BY <1>3, <1>5, CapacityAssumption DEF HasSlot
  <2>3. QED
    BY <1>3, <1>4, <2>1, <2>2, CapacityAssumption DEF SemBounded
<1>6. CASE ~HasSlot
  <2>1. sem' = Unexpired
    BY <1>6 DEF Acquired
  <2>2. QED
    BY <1>2, <1>3, <2>1, CapacityAssumption DEF SemBounded
<1>7. QED
  BY <1>5, <1>6

\* No other step adds a lease.
LEMMA ShrinkKeepsBound ==
    ASSUME TypeOK, SemBounded, sem' \in SUBSET sem
    PROVE  SemBounded'
<1>1. IsFiniteSet(sem) /\ Cardinality(sem) \in Nat /\ Cardinality(sem') \in Nat
  BY SubsetIsFinite DEF TypeOK
<1>2. Cardinality(sem') <= Cardinality(sem)
  BY <1>1, FS_Subset
<1>3. QED
  BY <1>1, <1>2, CapacityAssumption DEF SemBounded

LEMMA SemStep == TypeOK /\ TokenInv /\ SemInv /\ [Next]_vars => SemInv'
<1> SUFFICES ASSUME TypeOK, TokenInv, SemInv, [Next]_vars PROVE SemInv'
  OBVIOUS
<1>1. LiveRunHoldsLease /\ SemBounded
  BY DEF SemInv
<1>2. ASSUME NEW r \in Req, TryAcquire(r) PROVE SemInv'
  <2>1. Acquired(r)
    BY <1>2 DEF TryAcquire
  <2>2. SemBounded'
    BY <1>1, <2>1, AcquireKeepsBound
  <2>3. LiveRunHoldsLease'
    BY <1>1, <1>2, CapacityAssumption
       DEF TryAcquire, Acquired, Unexpired, LiveRunHoldsLease, LiveRuns, Goto, TypeOK
  <2>4. QED
    BY <2>2, <2>3 DEF SemInv
<1>3. ASSUME NEW r \in Req, AcquireFails(r) PROVE SemInv'
  <2>1. SemBounded'
    <3>1. CASE Acquired(r)
      BY <1>1, <3>1, AcquireKeepsBound
    <3>2. CASE UNCHANGED sem
      BY <1>1, <3>2, ShrinkKeepsBound
    <3>3. QED
      BY <1>3, <3>1, <3>2 DEF AcquireFails
  <2>2. LiveRunHoldsLease'
    BY <1>1, <1>3, CapacityAssumption
       DEF AcquireFails, Acquired, Unexpired, LiveRunHoldsLease, LiveRuns, Goto, TypeOK
  <2>3. QED
    BY <2>1, <2>2 DEF SemInv
<1>4. ASSUME NEW r \in Req,
             \/ CheckWait(r) \/ Poll(r) \/ Dequeue(r) \/ Register(r)
             \/ RegisterFails(r) \/ DequeueFails(r) \/ RenewFails(r) \/ ReleaseFails(r)
             \/ Crash(r) \/ Arrive(r) \/ Renew(r) \/ Release(r) \/ Cancel(r)
      PROVE  SemInv'
  <2>1. sem' \in SUBSET sem
    BY <1>4 DEF CheckWait, LeaveQueue, Poll, Dequeue, Register, RegisterFails,
         DequeueFails, RenewFails, ReleaseFails, Crash, Arrive, Renew, Release, Cancel
  <2>2. SemBounded'
    BY <1>1, <2>1, ShrinkKeepsBound
  <2>3. LiveRunHoldsLease'
    <3> USE <1>1, CapacityAssumption
        DEF LiveRunHoldsLease, LiveRuns, Goto, TypeOK
    <3>1. CASE CheckWait(r) \/ Poll(r) \/ Dequeue(r) \/ Register(r)
      BY <3>1 DEF CheckWait, LeaveQueue, Poll, Dequeue, Register
    <3>2. CASE RegisterFails(r) \/ DequeueFails(r) \/ RenewFails(r) \/ ReleaseFails(r)
               \/ Crash(r)
      BY <3>2 DEF RegisterFails, DequeueFails, RenewFails, ReleaseFails, Crash
    <3>3. CASE Arrive(r) \/ Renew(r) \/ Release(r) \/ Cancel(r)
      BY <3>3 DEF Arrive, Renew, Renewed, Release, Cancel
    <3>4. QED
      BY <1>4, <3>1, <3>2, <3>3
  <2>4. QED
    BY <2>2, <2>3 DEF SemInv
<1>5. CASE KeyExpires \/ Tick \/ UNCHANGED vars
  <2>1. SemBounded'
    <3>1. sem' \in SUBSET sem
      BY <1>5 DEF KeyExpires, Tick, vars
    <3>2. QED
      BY <1>1, <3>1, ShrinkKeepsBound
  <2>2. LiveRunHoldsLease'
    <3>1. CASE KeyExpires
      BY <1>1, <3>1 DEF KeyExpires, Unexpired, LiveRunHoldsLease, LiveRuns
    <3>2. CASE Tick \/ UNCHANGED vars
      BY <1>1, <3>2 DEF Tick, vars, OnTime, LiveRunHoldsLease, LiveRuns, TypeOK
    <3>3. QED
      BY <1>5, <3>1, <3>2
  <2>3. QED
    BY <2>1, <2>2 DEF SemInv
<1>6. QED
  BY <1>2, <1>3, <1>4, <1>5 DEF Next, Work, Fault

\* A run that has not been told to stop holds a lease that has not expired.
THEOREM LiveRunsHoldLeases == Spec => []LiveRunHoldsLease
<1>1. SemInv => LiveRunHoldsLease
  BY DEF SemInv
<1>2. QED
  BY <1>1, CapacityTypeInit, CapacityTypeStep, TokenInit, TokenStep, SemInit, SemStep, PTL DEF Spec

\* Never more than Concurrency runs talk to a provider.
THEOREM ConcurrencyHolds == Spec => []RunsWithinConcurrency
<1>1. TypeOK /\ SemInv => RunsWithinConcurrency
  <2> SUFFICES ASSUME TypeOK, SemInv PROVE RunsWithinConcurrency
    OBVIOUS
  <2>1. LiveRuns \in SUBSET sem /\ LiveRuns \in SUBSET Req
    BY DEF SemInv, LiveRunHoldsLease, LiveRuns
  <2>2. IsFiniteSet(sem) /\ Cardinality(sem) \in Nat /\ Cardinality(LiveRuns) \in Nat
    BY <2>1, SubsetIsFinite DEF TypeOK
  <2>3. Cardinality(LiveRuns) <= Cardinality(sem)
    BY <2>1, <2>2, FS_Subset
  <2>4. QED
    BY <2>2, <2>3, CapacityAssumption
       DEF SemInv, SemBounded, RunsWithinConcurrency
<1>2. QED
  BY <1>1, CapacityTypeInit, CapacityTypeStep, TokenInit, TokenStep, SemInit, SemStep, PTL DEF Spec

-----------------------------------------------------------------------------
(***************************************************************************)
(* The queue: its length, and the place of those who wait.                 *)
(***************************************************************************)

QueueInv == QueueBounded /\ PlaceKept

LEMMA QueueInit == Init => QueueInv
<1> SUFFICES ASSUME Init PROVE QueueInv
  OBVIOUS
<1>1. QueueBounded
  BY FS_EmptySet, CapacityAssumption DEF Init, QueueBounded
<1>2. PlaceKept
  BY DEF Init, PlaceKept
<1>3. QED
  BY <1>1, <1>2 DEF QueueInv

\* Purging the stale entries and adding one where there is a place.
LEMMA RegisterKeepsBound ==
    ASSUME TypeOK, QueueBounded, NEW r \in Req, Registered(r)
    PROVE  QueueBounded'
<1> DEFINE kept == queue \ Stale(r)
<1>1. kept \in SUBSET queue /\ kept \in SUBSET Req /\ IsFiniteSet(queue)
  BY SubsetIsFinite DEF TypeOK
<1>2. Cardinality(kept) <= Cardinality(queue)
  BY <1>1, FS_Subset
<1>3. Cardinality(kept) \in Nat /\ Cardinality(queue) \in Nat
  BY <1>1, SubsetIsFinite DEF TypeOK
<1>4. /\ Cardinality(kept \union {r}) <= Cardinality(kept) + 1
      /\ Cardinality(kept \union {r}) \in Nat
  BY <1>1, OneMore
<1>5. queue' = IF HasPlace(kept) THEN kept \union {r} ELSE kept
  BY DEF Registered
<1> HIDE DEF kept
<1>6. CASE HasPlace(kept)
  <2>1. Cardinality(kept) + 1 <= MaxQueue
    BY <1>3, <1>6, CapacityAssumption DEF HasPlace
  <2>2. QED
    BY <1>3, <1>4, <1>5, <1>6, <2>1, CapacityAssumption DEF QueueBounded
<1>7. CASE ~HasPlace(kept)
  BY <1>2, <1>3, <1>5, <1>7, CapacityAssumption DEF QueueBounded
<1>8. QED
  BY <1>6, <1>7

\* No other step adds an entry.
LEMMA ShrinkKeepsQueueBound ==
    ASSUME TypeOK, QueueBounded, queue' \in SUBSET queue
    PROVE  QueueBounded'
<1>1. IsFiniteSet(queue) /\ Cardinality(queue) \in Nat /\ Cardinality(queue') \in Nat
  BY SubsetIsFinite DEF TypeOK
<1>2. Cardinality(queue') <= Cardinality(queue)
  BY <1>1, FS_Subset
<1>3. QED
  BY <1>1, <1>2, CapacityAssumption DEF QueueBounded

LEMMA QueueStep == TypeOK /\ QueueInv /\ [Next]_vars => QueueInv'
<1> SUFFICES ASSUME TypeOK, QueueInv, [Next]_vars PROVE QueueInv'
  OBVIOUS
<1>1. QueueBounded /\ PlaceKept
  BY DEF QueueInv
<1>2. ASSUME NEW r \in Req, Register(r) \/ RegisterFails(r) PROVE QueueInv'
  <2>1. Registered(r) \/ UNCHANGED queue
    BY <1>2 DEF Register, RegisterFails
  <2>2. QueueBounded'
    BY <1>1, <2>1, RegisterKeepsBound, ShrinkKeepsQueueBound
  <2>3. \A q \in Req : q \in queue /\ wait[q] < QueueWait => q \in queue'
    BY <2>1, CapacityAssumption DEF Registered, Stale, TypeOK, WaitCap
  <2>4. PlaceKept'
    <3>1. UNCHANGED wait
      BY <1>2 DEF Register, RegisterFails
    <3>2. \A q \in Req \ {r} : pc'[q] = pc[q]
      BY <1>2 DEF Register, RegisterFails, Goto, TypeOK
    <3>3. pc'[r] \in {"queued", "polling", "head"} => r \in queue'
      BY <1>2 DEF Register, RegisterFails, Goto, TypeOK
    <3>4. QED
      BY <1>1, <2>3, <3>1, <3>2, <3>3 DEF PlaceKept
  <2>5. QED
    BY <2>2, <2>4 DEF QueueInv
<1>3. ASSUME NEW r \in Req,
             \/ CheckWait(r) \/ Poll(r) \/ TryAcquire(r) \/ Dequeue(r)
             \/ AcquireFails(r) \/ DequeueFails(r) \/ RenewFails(r) \/ ReleaseFails(r)
             \/ Crash(r) \/ Arrive(r) \/ Renew(r) \/ Release(r) \/ Cancel(r)
      PROVE  QueueInv'
  <2>1. queue' \in SUBSET queue
    BY <1>3 DEF CheckWait, LeaveQueue, Poll, TryAcquire, Dequeue, AcquireFails,
         DequeueFails, RenewFails, ReleaseFails, Crash, Arrive, Renew, Release, Cancel
  <2>2. QueueBounded'
    BY <1>1, <2>1, ShrinkKeepsQueueBound
  <2>3. PlaceKept'
    <3> USE <1>1, CapacityAssumption DEF PlaceKept, Goto, TypeOK
    <3>1. CASE CheckWait(r) \/ Poll(r) \/ TryAcquire(r) \/ Dequeue(r)
      BY <3>1 DEF CheckWait, LeaveQueue, Poll, TryAcquire, Dequeue
    <3>2. CASE AcquireFails(r) \/ DequeueFails(r) \/ RenewFails(r) \/ ReleaseFails(r)
               \/ Crash(r)
      BY <3>2 DEF AcquireFails, DequeueFails, RenewFails, ReleaseFails, Crash
    <3>3. CASE Arrive(r) \/ Renew(r) \/ Release(r) \/ Cancel(r)
      BY <3>3 DEF Arrive, Renew, Release, Cancel
    <3>4. QED
      BY <1>3, <3>1, <3>2, <3>3
  <2>4. QED
    BY <2>2, <2>3 DEF QueueInv
<1>4. CASE KeyExpires \/ Tick \/ UNCHANGED vars
  <2>1. QueueBounded'
    <3>1. queue' \in SUBSET queue
      BY <1>4 DEF KeyExpires, Tick, vars
    <3>2. QED
      BY <1>1, <3>1, ShrinkKeepsQueueBound
  <2>2. PlaceKept'
    <3>1. CASE KeyExpires
      BY <1>1, <3>1, CapacityAssumption DEF KeyExpires, PlaceKept, WaitCap, TypeOK
    <3>2. CASE Tick \/ UNCHANGED vars
      BY <1>1, <3>2, CapacityAssumption DEF Tick, vars, PlaceKept, TypeOK, WaitCap
    <3>3. QED
      BY <1>4, <3>1, <3>2
  <2>3. QED
    BY <2>1, <2>2 DEF QueueInv
<1>5. QED
  BY <1>2, <1>3, <1>4 DEF Next, Work, Fault

\* The queue never holds more entries than it may.
THEOREM QueueStaysBounded == Spec => []QueueBounded
<1>1. QueueInv => QueueBounded
  BY DEF QueueInv
<1>2. QED
  BY <1>1, CapacityTypeInit, CapacityTypeStep, QueueInit, QueueStep, PTL DEF Spec

\* Nobody loses her place in the queue before her own wait is over.
THEOREM PlacesAreKept == Spec => []PlaceKept
<1>1. QueueInv => PlaceKept
  BY DEF QueueInv
<1>2. QED
  BY <1>1, CapacityTypeInit, CapacityTypeStep, QueueInit, QueueStep, PTL DEF Spec

-----------------------------------------------------------------------------
(***************************************************************************)
(* Type correctness of the admission.                                      *)
(***************************************************************************)
LEMMA AdmissionTypeInit == AdmissionInit => AdmissionTypeOK
BY AdmissionAssumption DEF AdmissionInit, AdmissionTypeOK, SocketState, Stage

LEMMA AdmissionTypeAdmit ==
    ASSUME AdmissionTypeOK, NEW c \in Connections, Admit(c), UNCHANGED replica
    PROVE  AdmissionTypeOK'
<1> USE AdmissionAssumption
    DEF AdmissionTypeOK, SocketState, Stage, At, Close, Refuse, Attach, leases
<1>1. CASE Connect(c) \/ ConfigUnavailable(c) \/ CapRefuses(c)
  BY <1>1 DEF Connect, ConfigUnavailable, CapRefuses
<1>2. CASE AdmitLocally(c)
  BY <1>2 DEF AdmitLocally
<1>3. CASE ClaimTicket(c) \/ TicketRefused(c)
  BY <1>3 DEF ClaimTicket, TicketRefused, Tickets
<1>4. CASE AcquireGlobal(c) \/ AcquireGlobalFails(c)
  BY <1>4 DEF AcquireGlobal, AcquireGlobalFails
<1>5. CASE AcquireNetwork(c) \/ AcquireNetworkFails(c)
  BY <1>5 DEF AcquireNetwork, AcquireNetworkFails
<1>6. CASE BackOut(c)
  BY <1>6 DEF BackOut, ReleasedOrLeft
<1>7. CASE InstallLease(c) \/ Serve(c)
  BY <1>7 DEF InstallLease, Serve
<1>8. QED
  BY <1>1, <1>2, <1>3, <1>4, <1>5, <1>6, <1>7 DEF Admit

LEMMA AdmissionTypeStep == AdmissionTypeOK /\ [AdmissionNext]_admissionVars => AdmissionTypeOK'
<1> SUFFICES ASSUME AdmissionTypeOK, [AdmissionNext]_admissionVars PROVE AdmissionTypeOK'
  OBVIOUS
<1> USE AdmissionAssumption DEF AdmissionTypeOK, SocketState, Stage, Close, leases
<1>1. ASSUME NEW c \in Connections, Admit(c), UNCHANGED replica PROVE AdmissionTypeOK'
  BY <1>1, AdmissionTypeAdmit
<1>2. ASSUME NEW c \in Connections, SocketCloses(c), UNCHANGED replica PROVE AdmissionTypeOK'
  BY <1>2 DEF SocketCloses, ReleasedOrLeft
<1>3. ASSUME NEW c \in Connections, RenewLease(c) \/ RenewLeaseFails(c), UNCHANGED replica
      PROVE  AdmissionTypeOK'
  BY <1>3 DEF RenewLease, RenewLeaseFails, LeasesRenewed
<1>4. ASSUME NEW c \in Connections, Revoke(c), UNCHANGED replica PROVE AdmissionTypeOK'
  BY <1>4 DEF Revoke
<1>5. ASSUME NEW r \in Replicas, StopGateway(r) \/ ReplicaDies(r), UNCHANGED replica
      PROVE  AdmissionTypeOK'
  BY <1>5 DEF StopGateway, ReplicaDies
<1>6. CASE LeasesAge /\ UNCHANGED replica
  BY <1>6 DEF LeasesAge, Older
<1>7. CASE UNCHANGED admissionVars
  BY <1>7 DEF admissionVars
<1>8. QED
  BY <1>1, <1>2, <1>3, <1>4, <1>5, <1>6, <1>7 DEF AdmissionNext

\* Every reachable state of the sockets, their handlers and the leases is well typed.
THEOREM AdmissionTypeCorrect == AdmissionSpec => []AdmissionTypeOK
BY AdmissionTypeInit, AdmissionTypeStep, PTL DEF AdmissionSpec

-----------------------------------------------------------------------------
(***************************************************************************)
(* Open sockets stay within the limits.  The sets of leases are bounded by *)
(* the scripts that extend them; an open socket that is served has a       *)
(* member in both sets, since its leases are renewed in time and one that  *)
(* was lost closes the socket.                                             *)
(***************************************************************************)
OpenHoldsLeases ==
    \A c \in Connections : socket[c] = "open" =>
        /\ Holding(c) => globalLease[c] > 0
        /\ stage[c] \in {"granted", "hydrate", "serving"} => networkLease[c] > 0

LeasesWithinLimits ==
    /\ Cardinality(GlobalHolders) <= GlobalCap
    /\ \A n \in {NetworkOf[c] : c \in Connections} :
          Cardinality(NetworkHolders(n)) <= NetworkLimit

LeaseInv == AdmissionTypeOK /\ OpenHoldsLeases /\ LeasesWithinLimits

LEMMA LimitsAreNumbers == GlobalCap \in Nat \ {0} /\ NetworkLimit \in Nat \ {0}
BY AdmissionAssumption DEF GlobalCap

LEMMA HoldersFinite ==
    /\ IsFiniteSet(GlobalHolders) /\ IsFiniteSet(GlobalHolders')
    /\ \A n : IsFiniteSet(NetworkHolders(n)) /\ IsFiniteSet(NetworkHolders(n)')
BY AdmissionAssumption, FS_Subset DEF GlobalHolders, NetworkHolders

LEMMA LeaseInit == AdmissionInit => LeaseInv
<1> SUFFICES ASSUME AdmissionInit PROVE OpenHoldsLeases /\ LeasesWithinLimits
  BY AdmissionTypeInit DEF LeaseInv
<1>1. OpenHoldsLeases
  BY DEF AdmissionInit, OpenHoldsLeases
<1>2. GlobalHolders = {} /\ \A n : NetworkHolders(n) = {}
  BY DEF AdmissionInit, GlobalHolders, NetworkHolders
<1>3. QED
  BY <1>1, <1>2, FS_EmptySet, LimitsAreNumbers DEF LeasesWithinLimits

\* A set that is not full takes one more.
LEMMA RoomForOne ==
    ASSUME NEW S, IsFiniteSet(S), NEW T, NEW x, T \subseteq S \union {x},
           NEW cap \in Nat, HasRoom(S, cap)
    PROVE  Cardinality(T) <= cap
<1>0. Cardinality(S) \in Nat
  BY FS_CardinalityType
<1>1. /\ IsFiniteSet(S \union {x})
      /\ Cardinality(S \union {x}) = Cardinality(S) \/ Cardinality(S \union {x}) = Cardinality(S) + 1
  <2>1. CASE x \in S
    <3>1. S \union {x} = S
      BY <2>1
    <3>2. QED
      BY <3>1
  <2>2. CASE x \notin S
    BY <2>2, FS_AddElement
  <2>3. QED
    BY <2>1, <2>2
<1>2. Cardinality(T) <= Cardinality(S \union {x}) /\ IsFiniteSet(T)
  BY <1>1, FS_Subset
<1>3. Cardinality(S) \in Nat /\ Cardinality(T) \in Nat /\ Cardinality(S \union {x}) \in Nat
  BY <1>1, <1>2, FS_CardinalityType
<1>4. QED
  BY <1>1, <1>2, <1>3 DEF HasRoom

LEMMA SmallerFits ==
    ASSUME NEW S, IsFiniteSet(S), NEW T \in SUBSET S, NEW cap \in Nat, Cardinality(S) <= cap
    PROVE  Cardinality(T) <= cap
BY FS_Subset, FS_CardinalityType

\* A step that gives no connection a lease it did not have.
LEMMA LimitsKept ==
    ASSUME LeasesWithinLimits,
           \A c \in Connections : /\ globalLease'[c] > 0 => globalLease[c] > 0
                                  /\ networkLease'[c] > 0 => networkLease[c] > 0
    PROVE  LeasesWithinLimits'
<1>1. GlobalHolders' \subseteq GlobalHolders /\ \A n : NetworkHolders(n)' \subseteq NetworkHolders(n)
  BY DEF GlobalHolders, NetworkHolders
<1>2. QED
  BY <1>1, HoldersFinite, SmallerFits, LimitsAreNumbers DEF LeasesWithinLimits

LEMMA LimitsAcquire ==
    ASSUME LeaseInv, NEW c \in Connections,
           \/ AcquireGlobal(c) \/ AcquireGlobalFails(c)
           \/ AcquireNetwork(c) \/ AcquireNetworkFails(c)
    PROVE  LeasesWithinLimits'
<1> USE DEF LeaseInv, AdmissionTypeOK
<1>1. CASE UNCHANGED leases
  BY <1>1, LimitsKept DEF leases
<1>2. CASE /\ globalLease' = [globalLease EXCEPT ![c] = LeaseLife] /\ UNCHANGED networkLease
           /\ HasRoom(GlobalHolders, GlobalCap)
  <2>1. GlobalHolders' \subseteq GlobalHolders \union {c}
    BY <1>2 DEF GlobalHolders
  <2>2. \A n : NetworkHolders(n)' = NetworkHolders(n)
    BY <1>2 DEF NetworkHolders
  <2>3. Cardinality(GlobalHolders') <= GlobalCap
    BY <1>2, <2>1, HoldersFinite, RoomForOne, LimitsAreNumbers
  <2>4. QED
    BY <2>2, <2>3 DEF LeasesWithinLimits
<1>3. CASE /\ networkLease' = [networkLease EXCEPT ![c] = LeaseLife] /\ UNCHANGED globalLease
           /\ HasRoom(NetworkHolders(NetworkOf[c]), NetworkLimit)
  <2>1. GlobalHolders' = GlobalHolders
    BY <1>3 DEF GlobalHolders
  <2>2. ASSUME NEW n, n # NetworkOf[c] PROVE NetworkHolders(n)' = NetworkHolders(n)
    BY <1>3, <2>2 DEF NetworkHolders
  <2>3. NetworkHolders(NetworkOf[c])' \subseteq NetworkHolders(NetworkOf[c]) \union {c}
    BY <1>3 DEF NetworkHolders
  <2>4. Cardinality(NetworkHolders(NetworkOf[c])') <= NetworkLimit
    BY <1>3, <2>3, HoldersFinite, RoomForOne, LimitsAreNumbers
  <2>5. QED
    BY <2>1, <2>2, <2>4 DEF LeasesWithinLimits
<1>4. QED
  BY <1>1, <1>2, <1>3
     DEF AcquireGlobal, AcquireGlobalFails, AcquireNetwork, AcquireNetworkFails, leases

LEMMA LimitsStep == LeaseInv /\ [AdmissionNext]_admissionVars => LeasesWithinLimits'
<1> SUFFICES ASSUME LeaseInv, [AdmissionNext]_admissionVars PROVE LeasesWithinLimits'
  OBVIOUS
<1> USE DEF LeaseInv, AdmissionTypeOK
<1>1. ASSUME NEW c \in Connections,
             \/ AcquireGlobal(c) \/ AcquireGlobalFails(c)
             \/ AcquireNetwork(c) \/ AcquireNetworkFails(c)
      PROVE  LeasesWithinLimits'
  BY <1>1, LimitsAcquire
<1>2. ASSUME NEW c \in Connections, Admit(c),
             ~AcquireGlobal(c), ~AcquireGlobalFails(c),
             ~AcquireNetwork(c), ~AcquireNetworkFails(c)
      PROVE  LeasesWithinLimits'
  <2>1. /\ globalLease' \in ReleasedOrLeft(globalLease, c)
        /\ networkLease' = networkLease
    BY <1>2 DEF Admit, Connect, ConfigUnavailable, CapRefuses, AdmitLocally, ClaimTicket,
       TicketRefused, BackOut, InstallLease, Serve, leases, ReleasedOrLeft
  <2>2. QED
    BY <2>1, LimitsKept DEF ReleasedOrLeft
<1>3. ASSUME NEW c \in Connections, SocketCloses(c) PROVE LeasesWithinLimits'
  BY <1>3, LimitsKept DEF SocketCloses, ReleasedOrLeft, leases
<1>4. ASSUME NEW c \in Connections, RenewLease(c) \/ RenewLeaseFails(c)
      PROVE  LeasesWithinLimits'
  BY <1>4, LimitsKept DEF RenewLease, RenewLeaseFails, LeasesRenewed
<1>5. ASSUME NEW c \in Connections, Revoke(c) PROVE LeasesWithinLimits'
  BY <1>5, LimitsKept DEF Revoke, leases
<1>6. ASSUME NEW r \in Replicas, StopGateway(r) \/ ReplicaDies(r) PROVE LeasesWithinLimits'
  BY <1>6, LimitsKept DEF StopGateway, ReplicaDies, leases
<1>7. CASE LeasesAge
  BY <1>7, LimitsKept DEF LeasesAge, Older
<1>8. CASE UNCHANGED admissionVars
  BY <1>8, LimitsKept DEF admissionVars
<1>9. QED
  BY <1>1, <1>2, <1>3, <1>4, <1>5, <1>6, <1>7, <1>8 DEF AdmissionNext, Admit

LEMMA HoldersStep == LeaseInv /\ [AdmissionNext]_admissionVars => OpenHoldsLeases'
<1> SUFFICES ASSUME LeaseInv, [AdmissionNext]_admissionVars PROVE OpenHoldsLeases'
  OBVIOUS
<1> USE AdmissionAssumption
    DEF LeaseInv, AdmissionTypeOK, OpenHoldsLeases, Holding, Close, leases
<1>1. ASSUME NEW c \in Connections, Admit(c) PROVE OpenHoldsLeases'
  <2> USE DEF At, Refuse, Attach
  <2>1. CASE Connect(c) \/ ConfigUnavailable(c) \/ CapRefuses(c) \/ AdmitLocally(c)
    BY <2>1 DEF Connect, ConfigUnavailable, CapRefuses, AdmitLocally
  <2>2. CASE ClaimTicket(c) \/ TicketRefused(c)
    BY <2>2 DEF ClaimTicket, TicketRefused
  <2>3. CASE AcquireGlobal(c) \/ AcquireGlobalFails(c)
    BY <2>3 DEF AcquireGlobal, AcquireGlobalFails
  <2>4. CASE AcquireNetwork(c) \/ AcquireNetworkFails(c)
    BY <2>4 DEF AcquireNetwork, AcquireNetworkFails
  <2>5. CASE BackOut(c)
    BY <2>5 DEF BackOut, ReleasedOrLeft
  <2>6. CASE InstallLease(c) \/ Serve(c)
    BY <2>6 DEF InstallLease, Serve
  <2>7. QED
    BY <1>1, <2>1, <2>2, <2>3, <2>4, <2>5, <2>6 DEF Admit
<1>2. ASSUME NEW c \in Connections, SocketCloses(c) PROVE OpenHoldsLeases'
  BY <1>2 DEF SocketCloses, ReleasedOrLeft
<1>3. ASSUME NEW c \in Connections, RenewLease(c) \/ RenewLeaseFails(c)
      PROVE  OpenHoldsLeases'
  BY <1>3 DEF RenewLease, RenewLeaseFails, LeasesRenewed
<1>4. ASSUME NEW c \in Connections, Revoke(c) PROVE OpenHoldsLeases'
  BY <1>4 DEF Revoke
<1>5. ASSUME NEW r \in Replicas, StopGateway(r) \/ ReplicaDies(r) PROVE OpenHoldsLeases'
  BY <1>5 DEF StopGateway, ReplicaDies
<1>6. CASE LeasesAge
  BY <1>6 DEF LeasesAge, Older, RenewsInTime
<1>7. CASE UNCHANGED admissionVars
  BY <1>7 DEF admissionVars
<1>8. QED
  BY <1>1, <1>2, <1>3, <1>4, <1>5, <1>6, <1>7 DEF AdmissionNext

LEMMA LeaseStep == LeaseInv /\ [AdmissionNext]_admissionVars => LeaseInv'
BY AdmissionTypeStep, HoldersStep, LimitsStep DEF LeaseInv

LEMMA LeasesBoundSockets == LeaseInv => OpenSocketsWithinLimits
<1> SUFFICES ASSUME LeaseInv PROVE OpenSocketsWithinLimits
  OBVIOUS
<1>1. {c \in Connections : Served(c)} \subseteq GlobalHolders
  BY DEF LeaseInv, OpenHoldsLeases, Served, Holding, GlobalHolders
<1>2. ASSUME NEW n PROVE {c \in Connections : Served(c) /\ NetworkOf[c] = n} \subseteq NetworkHolders(n)
  BY DEF LeaseInv, OpenHoldsLeases, Served, NetworkHolders
<1>3. QED
  BY <1>1, <1>2, HoldersFinite, SmallerFits, LimitsAreNumbers
     DEF LeaseInv, LeasesWithinLimits, OpenSocketsWithinLimits

\* The open sockets that are served never outnumber the shared limit, nor those of one
\* address its own, for any connections, replicas and lease life.
THEOREM OpenSocketsCorrect == AdmissionSpec => []OpenSocketsWithinLimits
BY LeaseInit, LeaseStep, LeasesBoundSockets, PTL DEF AdmissionSpec

-----------------------------------------------------------------------------
(***************************************************************************)
(* Type correctness.                                                       *)
(***************************************************************************)

LEMMA CartTypeGateway ==
    ASSUME CartTypeOK, NEW r \in CartRequests, GatewayCart(r)
    PROVE  CartTypeOK'
BY DEF GatewayCart, RequestCartChange, TimesOut, Aborted, Settles, CartTypeOK

LEMMA CartTypeBrowser ==
    ASSUME CartTypeOK, NEW r \in CartRequests, BrowserCartSteps(r)
    PROVE  CartTypeOK'
<1>1. CASE MutateBrowserCart(r)
  BY <1>1 DEF MutateBrowserCart, CartTypeOK
<1>2. CASE StoreChangesCart(r)
  BY <1>2 DEF StoreChangesCart, CartTypeOK
<1>3. CASE StoreRefuses(r)
  BY <1>3 DEF StoreRefuses, CartTypeOK
<1>4. CASE BrowserAnswers(r)
  <2>1. [request |-> r, on |-> socketNumber, result |-> frame[r]] \in Answer
    BY <1>4 DEF BrowserAnswers, CartTypeOK, Answer
  <2>2. QED
    BY <1>4, <2>1 DEF BrowserAnswers, CartTypeOK
<1>5. QED
  BY <1>1, <1>2, <1>3, <1>4 DEF BrowserCartSteps

LEMMA CartTypeSocket ==
    ASSUME CartTypeOK, Resolve \/ SocketLost \/ Reconnects
    PROVE  CartTypeOK'
<1> USE CartAssumption
<1>1. CASE Resolve
  <2>1. PICK x \in answers :
           /\ answers' = answers \ {x}
           /\ \/ UNCHANGED outcome
              \/ \E r \in CartRequests : Settles(r, x.result)
    BY <1>1 DEF Resolve
  <2>2. x.result \in {"success", "failure"}
    BY DEF CartTypeOK, Answer
  <2>3. outcome' \in [CartRequests -> {"none", "waiting", "success", "failure"}]
    BY <2>1, <2>2 DEF Settles, CartTypeOK
  <2>4. QED
    BY <1>1, <2>1, <2>3 DEF Resolve, CartTypeOK
<1>2. CASE SocketLost
  BY <1>2 DEF SocketLost, CartTypeOK
<1>3. CASE Reconnects
  BY <1>3 DEF Reconnects, CartTypeOK
<1>4. QED
  BY <1>1, <1>2, <1>3

LEMMA CartTypeStep == CartTypeOK /\ [CartNext]_cartVars => CartTypeOK'
<1> SUFFICES ASSUME CartTypeOK, [CartNext]_cartVars PROVE CartTypeOK'
  OBVIOUS
<1>1. CASE UNCHANGED cartVars
  BY <1>1 DEF cartVars, CartTypeOK
<1>2. QED
  BY <1>1, CartTypeGateway, CartTypeBrowser, CartTypeSocket DEF CartNext

LEMMA CartTypeInit == CartInit => CartTypeOK
BY CartAssumption DEF CartInit, CartTypeOK

\* The type invariant of the cart bridge.
THEOREM CartTypeCorrect == CartSpec => []CartTypeOK
BY CartTypeInit, CartTypeStep, PTL DEF CartSpec

-----------------------------------------------------------------------------
(***************************************************************************)
(* What the model is told.                                                 *)
(***************************************************************************)

\* A success is only spoken of, by the browser or on the wire, after the store
\* made the change.
SuccessIsReal ==
    /\ \A r \in CartRequests : frame[r] = "success" => r \in inCart
    /\ \A x \in answers : x.result = "success" => x.request \in inCart
    /\ ReportedChangesAreMade

LEMMA SuccessSteps ==
    ASSUME CartTypeOK, SuccessIsReal, [CartNext]_cartVars
    PROVE  SuccessIsReal'
<1> USE DEF SuccessIsReal, ReportedChangesAreMade, CartTypeOK
<1>1. CASE Resolve
  <2>1. PICK x \in answers :
           /\ answers' = answers \ {x}
           /\ \/ UNCHANGED outcome
              \/ \E r \in CartRequests : Matches(r, x) /\ Settles(r, x.result)
    BY <1>1 DEF Resolve
  <2>2. ReportedChangesAreMade'
    <3>1. CASE UNCHANGED outcome
      BY <1>1, <3>1 DEF Resolve
    <3>2. ASSUME NEW r \in CartRequests, Matches(r, x), Settles(r, x.result)
          PROVE  ReportedChangesAreMade'
      <4>1. x.result = "success" => r \in inCart
        BY <3>2 DEF Matches
      <4>2. QED
        BY <1>1, <3>2, <4>1 DEF Resolve, Settles
    <3>3. QED
      BY <2>1, <3>1, <3>2
  <2>3. QED
    BY <1>1, <2>1, <2>2 DEF Resolve
<1>2. CASE SocketLost
  BY <1>2 DEF SocketLost
<1>3. CASE Reconnects
  BY <1>3 DEF Reconnects
<1>4. ASSUME NEW r \in CartRequests, GatewayCart(r) PROVE SuccessIsReal'
  BY <1>4 DEF GatewayCart, RequestCartChange, TimesOut, Aborted, Settles
<1>5. ASSUME NEW r \in CartRequests, BrowserCartSteps(r) PROVE SuccessIsReal'
  <2>1. CASE MutateBrowserCart(r)
    BY <2>1 DEF MutateBrowserCart
  <2>2. CASE StoreChangesCart(r) \/ StoreRefuses(r)
    BY <2>2 DEF StoreChangesCart, StoreRefuses
  <2>3. CASE BrowserAnswers(r)
    BY <2>3 DEF BrowserAnswers
  <2>4. QED
    BY <1>5, <2>1, <2>2, <2>3 DEF BrowserCartSteps
<1>6. CASE UNCHANGED cartVars
  BY <1>6 DEF cartVars
<1>7. QED
  BY <1>1, <1>2, <1>3, <1>4, <1>5, <1>6 DEF CartNext

\* The model is told of a change only if the store has made it.
THEOREM ReportedChangesCorrect == CartSpec => []ReportedChangesAreMade
<1>1. CartInit => SuccessIsReal
  BY DEF CartInit, SuccessIsReal, ReportedChangesAreMade
<1>2. SuccessIsReal => ReportedChangesAreMade
  BY DEF SuccessIsReal
<1>3. QED
  BY <1>1, <1>2, SuccessSteps, CartTypeCorrect, PTL DEF CartSpec

-----------------------------------------------------------------------------
(***************************************************************************)
(* What an operation makes of a history.                                   *)
(***************************************************************************)

LEMMA EffectType ==
    ASSUME NEW w \in Writers, NEW op \in H!Operation, NEW s \in H!History,
           H!Applies(op, s)
    PROVE  H!Effect(op, w, s) \in H!History
<1> USE HistoryAssumption
<1>1. s.conversation \in H!ConversationIds /\ s.messages \in Seq(Writers)
  BY DEF H!History
<1>2. CASE op.kind \in {"clear", "delete"}
  BY <1>2 DEF H!Effect, H!EmptyStore, H!History, H!ConversationIds
<1>3. CASE op.kind = "create"
  BY <1>3 DEF H!Effect, H!History, H!ConversationIds
<1>4. CASE op.kind = "append"
  <2>1. Append(s.messages, w) \in Seq(Writers)
    BY <1>1
  <2>2. H!LastOf(Append(s.messages, w), MaxMessages) \in Seq(Writers)
    BY <2>1, SubSeqProperties DEF H!LastOf
  <2>3. H!Effect(op, w, s) = [s EXCEPT !.messages = H!LastOf(Append(@, w), MaxMessages)]
    BY <1>4 DEF H!Effect
  <2>4. QED
    BY <1>1, <2>2, <2>3 DEF H!History
<1>5. CASE op.kind = "truncate"
  <2>1. H!Positions(s, op.from) # {}
    BY <1>5 DEF H!Applies
  <2>2. PICK i : i = CHOOSE j \in H!Positions(s, op.from) : TRUE
    OBVIOUS
  <2>3. i \in 1..Len(s.messages)
    BY <1>1, <2>1, <2>2 DEF H!Positions
  <2>4. SubSeq(s.messages, 1, i - 1) \in Seq(Writers)
    BY <1>1, <2>3, SubSeqProperties
  <2>5. H!Effect(op, w, s) = [s EXCEPT !.messages = SubSeq(@, 1, i - 1)]
    BY <1>5, <2>2 DEF H!Effect
  <2>6. QED
    BY <1>1, <2>4, <2>5 DEF H!History
<1>6. CASE op.kind = "rename"
  BY <1>6 DEF H!Effect
<1>7. QED
  BY <1>2, <1>3, <1>4, <1>5, <1>6 DEF H!Operation

LEMMA RequestType ==
    ASSUME HistoryTypeOK
    PROVE  Requests \subseteq H!Operation
<1>1. store.conversation \in H!ConversationIds /\ store.messages \in Seq(Writers)
  BY DEF HistoryTypeOK, H!History
<1>2. {store.messages[i] : i \in DOMAIN store.messages} \subseteq Writers
  BY <1>1
<1>3. QED
  BY <1>1, <1>2 DEF Requests, H!Operation, H!ConversationIds

-----------------------------------------------------------------------------
(***************************************************************************)
(* Type correctness.  A writer about to write has read a store its         *)
(* operation applies to.                                                   *)
(***************************************************************************)

ReadsApplicable ==
    \A w \in Writers : at[w] = "writing" => H!Applies(operation[w], snapshot[w])

\* The key of the lock holds the token of whoever is within the lock's life.
InTimeHolds == \A w \in inTime : lock = w

\* What a holder of the lock has read is still what is stored.
SnapshotCurrent ==
    ~lapsed => \A w \in inTime : at[w] = "writing" => snapshot[w] = store

HistoryInvariant == HistoryTypeOK /\ ReadsApplicable /\ InTimeHolds /\ SnapshotCurrent

LEMMA ForgetType ==
    ASSUME HistoryTypeOK, NEW w \in Writers, Forget(w)
    PROVE  /\ snapshot' \in [Writers -> H!History]
           /\ operation' \in [Writers -> H!Operation]
<1>1. H!EmptyStore \in H!History
  BY DEF H!EmptyStore, H!History, H!ConversationIds
<1>2. NoOperation \in H!Operation
  BY DEF NoOperation, H!Operation, H!ConversationIds
<1>3. QED
  BY <1>1, <1>2 DEF Forget, HistoryTypeOK

LEMMA HistoryTypeInit == HistoryInit => HistoryInvariant
<1> SUFFICES ASSUME HistoryInit PROVE HistoryInvariant
  OBVIOUS
<1>1. H!EmptyStore \in H!History
  BY DEF H!EmptyStore, H!History, H!ConversationIds
<1>2. [H!EmptyStore EXCEPT !.conversation = First] \in H!History
  BY <1>1 DEF H!EmptyStore, H!History, H!ConversationIds
<1>3. NoOperation \in H!Operation
  BY DEF NoOperation, H!Operation, H!ConversationIds
<1>4. QED
  BY <1>1, <1>2, <1>3 DEF HistoryInit, HistoryInvariant, HistoryTypeOK, ReadsApplicable,
                          InTimeHolds, SnapshotCurrent

LEMMA HistoryTypeStep ==
    ASSUME HistoryInvariant, NEW w \in Writers,
           \/ Ask(w) \/ TakeLock(w) \/ GoUnlocked(w) \/ ReadStore(w) \/ WriteStore(w)
           \/ CallFails(w) \/ ReleaseLock(w) \/ WriterDies(w) \/ LockRunsOut(w)
    PROVE  HistoryTypeOK'
<1> USE DEF HistoryInvariant
<1>1. CASE Ask(w)
  <2>1. PICK op \in H!Operation : operation' = [operation EXCEPT ![w] = op]
    BY <1>1, RequestType DEF Ask
  <2>2. QED
    BY <1>1, <2>1 DEF Ask, Move, HistoryTypeOK
<1>2. CASE TakeLock(w)
  BY <1>2 DEF TakeLock, Move, HistoryTypeOK
<1>3. CASE GoUnlocked(w)
  BY <1>3 DEF GoUnlocked, Move, HistoryTypeOK
<1>4. CASE ReadStore(w)
  <2>1. snapshot' \in [Writers -> H!History] /\ operation' \in [Writers -> H!Operation]
    <3>1. CASE H!Applies(operation[w], store)
      BY <1>4, <3>1 DEF ReadStore, HistoryTypeOK
    <3>2. CASE ~H!Applies(operation[w], store)
      BY <1>4, <3>2, ForgetType DEF ReadStore
    <3>3. QED
      BY <3>1, <3>2
  <2>2. at' \in [Writers -> {"idle", "locking", "reading", "writing", "releasing", "done"}]
    BY <1>4 DEF ReadStore, Move, HistoryTypeOK
  <2>3. QED
    BY <1>4, <2>1, <2>2 DEF ReadStore, HistoryTypeOK
<1>5. CASE WriteStore(w)
  <2>1. /\ operation[w] \in H!Operation /\ snapshot[w] \in H!History
        /\ H!Applies(operation[w], snapshot[w])
    BY <1>5 DEF WriteStore, HistoryTypeOK, ReadsApplicable
  <2>2. store' \in H!History
    BY <1>5, <2>1, EffectType DEF WriteStore
  <2>3. snapshot' \in [Writers -> H!History] /\ operation' \in [Writers -> H!Operation]
    BY <1>5, ForgetType DEF WriteStore
  <2>4. at' \in [Writers -> {"idle", "locking", "reading", "writing", "releasing", "done"}]
    BY <1>5 DEF WriteStore, Move, HistoryTypeOK
  <2>5. lapsed' \in BOOLEAN
    BY <1>5 DEF WriteStore
  <2>6. QED
    BY <1>5, <2>2, <2>3, <2>4, <2>5 DEF WriteStore, HistoryTypeOK
<1>6. CASE CallFails(w) \/ WriterDies(w)
  <2>1. snapshot' \in [Writers -> H!History] /\ operation' \in [Writers -> H!Operation]
    BY <1>6, ForgetType DEF CallFails, WriterDies
  <2>2. QED
    BY <1>6, <2>1 DEF CallFails, WriterDies, Move, HistoryTypeOK
<1>7. CASE ReleaseLock(w)
  BY <1>7 DEF ReleaseLock, Unlock, Move, HistoryTypeOK
<1>8. CASE LockRunsOut(w)
  BY <1>8 DEF LockRunsOut, HistoryTypeOK
<1>9. QED
  BY <1>1, <1>2, <1>3, <1>4, <1>5, <1>6, <1>7, <1>8

LEMMA ReadsApplicableStep ==
    ASSUME HistoryInvariant, NEW w \in Writers,
           \/ Ask(w) \/ TakeLock(w) \/ GoUnlocked(w) \/ ReadStore(w) \/ WriteStore(w)
           \/ CallFails(w) \/ ReleaseLock(w) \/ WriterDies(w) \/ LockRunsOut(w)
    PROVE  ReadsApplicable'
<1> USE DEF HistoryInvariant, ReadsApplicable
<1> SUFFICES ASSUME NEW v \in Writers, at'[v] = "writing"
             PROVE  H!Applies(operation'[v], snapshot'[v])
  BY DEF H!Applies, H!Positions
<1>1. CASE at[v] = "writing" /\ operation'[v] = operation[v] /\ snapshot'[v] = snapshot[v]
  BY <1>1
<1>2. CASE Ask(w) \/ TakeLock(w) \/ GoUnlocked(w)
  BY <1>1, <1>2 DEF Ask, TakeLock, GoUnlocked, Move, HistoryTypeOK
<1>3. CASE ReadStore(w)
  <2>1. CASE v = w
    BY <1>3, <2>1 DEF ReadStore, Move, HistoryTypeOK
  <2>2. CASE v # w
    BY <1>1, <1>3, <2>2 DEF ReadStore, Forget, Move, HistoryTypeOK
  <2>3. QED
    BY <2>1, <2>2
<1>4. CASE WriteStore(w) \/ CallFails(w) \/ WriterDies(w)
  BY <1>1, <1>4 DEF WriteStore, CallFails, WriterDies, Forget, Move, HistoryTypeOK
<1>5. CASE ReleaseLock(w) \/ LockRunsOut(w)
  BY <1>1, <1>5 DEF ReleaseLock, LockRunsOut, Move, HistoryTypeOK
<1>6. QED
  BY <1>2, <1>3, <1>4, <1>5

-----------------------------------------------------------------------------
(***************************************************************************)
(* The lock.                                                               *)
(***************************************************************************)

LEMMA InTimeHoldsStep ==
    ASSUME HistoryInvariant, NEW w \in Writers,
           \/ Ask(w) \/ TakeLock(w) \/ GoUnlocked(w) \/ ReadStore(w) \/ WriteStore(w)
           \/ CallFails(w) \/ ReleaseLock(w) \/ WriterDies(w) \/ LockRunsOut(w)
    PROVE  InTimeHolds'
<1> USE HistoryAssumption DEF HistoryInvariant, InTimeHolds
<1>1. CASE TakeLock(w)
  BY <1>1 DEF TakeLock, HistoryTypeOK
<1>2. CASE ReleaseLock(w)
  BY <1>2 DEF ReleaseLock, Unlock
<1>3. CASE LockRunsOut(w)
  BY <1>3 DEF LockRunsOut
<1>4. CASE Ask(w) \/ GoUnlocked(w) \/ ReadStore(w) \/ WriteStore(w) \/ CallFails(w)
           \/ WriterDies(w)
  BY <1>4 DEF Ask, GoUnlocked, ReadStore, WriteStore, CallFails, WriterDies
<1>5. QED
  BY <1>1, <1>2, <1>3, <1>4

\* A write by another writer than the holder is one without the lock.
LEMMA SnapshotCurrentStep ==
    ASSUME HistoryInvariant, NEW w \in Writers,
           \/ Ask(w) \/ TakeLock(w) \/ GoUnlocked(w) \/ ReadStore(w) \/ WriteStore(w)
           \/ CallFails(w) \/ ReleaseLock(w) \/ WriterDies(w) \/ LockRunsOut(w)
    PROVE  SnapshotCurrent'
<1> USE DEF HistoryInvariant, SnapshotCurrent
<1> SUFFICES ASSUME ~lapsed', NEW v \in inTime', at'[v] = "writing"
             PROVE  snapshot'[v] = store'
  OBVIOUS
<1>1. CASE Ask(w) \/ GoUnlocked(w) \/ ReleaseLock(w)
  BY <1>1 DEF Ask, GoUnlocked, ReleaseLock, Move, HistoryTypeOK
<1>2. CASE TakeLock(w)
  BY <1>2 DEF TakeLock, Move, HistoryTypeOK
<1>3. CASE ReadStore(w)
  <2>1. CASE v = w
    BY <1>3, <2>1 DEF ReadStore, Move, HistoryTypeOK
  <2>2. CASE v # w
    BY <1>3, <2>2 DEF ReadStore, Forget, Move, HistoryTypeOK
  <2>3. QED
    BY <2>1, <2>2
<1>4. CASE WriteStore(w)
  <2>1. w \in inTime /\ v \in inTime
    BY <1>4 DEF WriteStore
  <2>2. v = w
    BY <2>1 DEF InTimeHolds
  <2>3. at'[w] = "releasing"
    BY <1>4 DEF WriteStore, Move, HistoryTypeOK
  <2>4. QED
    BY <2>2, <2>3
<1>5. CASE CallFails(w) \/ WriterDies(w)
  BY <1>5 DEF CallFails, WriterDies, Forget, Move, HistoryTypeOK
<1>6. CASE LockRunsOut(w)
  BY <1>6 DEF LockRunsOut
<1>7. QED
  BY <1>1, <1>2, <1>3, <1>4, <1>5, <1>6

LEMMA HistoryInvariantHolds == HistorySpec => []HistoryInvariant
<1>1. HistoryInvariant /\ UNCHANGED historyVars => HistoryInvariant'
  BY DEF historyVars, HistoryInvariant, HistoryTypeOK, ReadsApplicable, InTimeHolds,
         SnapshotCurrent, H!Applies, H!Positions
<1>2. HistoryInvariant /\ HistoryNext => HistoryInvariant'
  BY HistoryTypeStep, ReadsApplicableStep, InTimeHoldsStep, SnapshotCurrentStep
     DEF HistoryNext, HistoryInvariant
<1>3. QED
  BY HistoryTypeInit, <1>1, <1>2, PTL DEF HistorySpec

\* The type invariant of the guest history: the store keeps its shape whatever
\* operations overlap, and within the lock or without it.
THEOREM HistoryTypeCorrect == HistorySpec => []HistoryTypeOK
BY HistoryInvariantHolds, PTL DEF HistoryInvariant

-----------------------------------------------------------------------------
(***************************************************************************)
(* The refinement.                                                         *)
(***************************************************************************)

LEMMA StepImplements ==
    ASSUME HistoryInvariant, [HistoryNext]_historyVars
    PROVE  [H!StoreNext]_<<store, lapsed>>
<1>1. CASE UNCHANGED historyVars
  BY <1>1 DEF historyVars
<1>2. ASSUME NEW w \in Writers, WriteStore(w)
      PROVE  [H!StoreNext]_<<store, lapsed>>
  <2>1. CASE lapsed'
    BY <2>1 DEF H!StoreNext
  <2>2. CASE ~lapsed'
    <3>1. ~lapsed /\ w \in inTime /\ at[w] = "writing"
      BY <1>2, <2>2 DEF WriteStore
    <3>2. snapshot[w] = store /\ H!Applies(operation[w], store)
      BY <3>1 DEF HistoryInvariant, SnapshotCurrent, ReadsApplicable
    <3>3. store' = H!Effect(operation[w], w, store)
      BY <1>2, <3>2 DEF WriteStore
    <3>4. UNCHANGED lapsed
      BY <1>2, <2>2, <3>1 DEF WriteStore, HistoryInvariant, HistoryTypeOK
    <3>5. H!Operate(w, operation[w]) /\ operation[w] \in H!Operation
      BY <3>2, <3>3, <3>4 DEF H!Operate, HistoryInvariant, HistoryTypeOK
    <3>6. CASE store' = store
      BY <3>4, <3>6
    <3>7. CASE store' # store
      BY <3>5, <3>7 DEF H!StoreNext
    <3>8. QED
      BY <3>6, <3>7
  <2>3. QED
    BY <2>1, <2>2
<1>3. ASSUME NEW w \in Writers,
             \/ Ask(w) \/ TakeLock(w) \/ GoUnlocked(w) \/ ReadStore(w) \/ CallFails(w)
             \/ ReleaseLock(w) \/ WriterDies(w) \/ LockRunsOut(w)
      PROVE  UNCHANGED <<store, lapsed>>
  BY <1>3 DEF Ask, TakeLock, GoUnlocked, ReadStore, CallFails, ReleaseLock, WriterDies,
              LockRunsOut
<1>4. QED
  BY <1>1, <1>2, <1>3 DEF HistoryNext

\* The locked read-change-write of the guest history implements operations that
\* each take effect at once, up to the first write made without the lock.
THEOREM HistoryImplementsStore == HistorySpec => AtomicWhileLocked
<1>1. HistoryInit => H!StoreInit
  BY DEF HistoryInit, H!StoreInit
<1>2. QED
  BY <1>1, StepImplements, HistoryInvariantHolds, PTL
     DEF HistorySpec, AtomicWhileLocked, H!StoreSpec

-----------------------------------------------------------------------------
(***************************************************************************)
(* Type correctness.  An attempt is only counted or granted after a row    *)
(* with attempts left was read.                                            *)
(***************************************************************************)
Judged(c) == Doing(c, "wrong") \/ Doing(c, "right")
TypeAndRows ==
    /\ VerificationTypeOK
    /\ \A c \in Calls : Judged(c) => AttemptsLeft(call[c].row)

LEMMA KeyTypes ==
    ASSUME VerificationTypeOK, NEW c \in Calls
    PROVE  /\ Of(c) \in GuestSockets /\ SessionOfCall(c) \in Sessions /\ KeyOf(c) \in Keys
           /\ call[c].phase \in Phases /\ call[c].email \in Emails /\ call[c].row \in Challenge
           /\ call[c].row.code \in 0..MaxCodes /\ call[c].row.attempts \in 0..MaxAttempts
BY VerificationAssumption
   DEF VerificationTypeOK, Call, Challenge, Of, SessionOfCall, KeyOf, Keys

LEMMA TypeInit == VerificationInit => TypeAndRows
<1> SUFFICES ASSUME VerificationInit PROVE TypeAndRows
  OBVIOUS
<1>1. NoChallenge \in Challenge
  BY VerificationAssumption DEF NoChallenge, Challenge
<1>2. call \in [Calls -> Call] /\ \A c \in Calls : call[c].phase = "idle"
  BY <1>1 DEF VerificationInit, Call, Phases
<1>3. QED
  BY <1>1, <1>2, VerificationAssumption
     DEF VerificationInit, TypeAndRows, VerificationTypeOK, Judged, Doing, Codes

\* A call that moves on, with the row it has or the one it reads.
LEMMA CallMoves ==
    ASSUME VerificationTypeOK, NEW c \in Calls, NEW p \in Phases, Goes(c, p)
    PROVE  /\ call' \in [Calls -> Call]
           /\ \A d \in Calls : /\ call'[d].row = call[d].row /\ call'[d].email = call[d].email
                               /\ call'[d].phase = IF d = c THEN p ELSE call[d].phase
BY DEF Goes, VerificationTypeOK, Call

LEMMA TypeMagento ==
    ASSUME TypeAndRows, NEW c \in Calls, MagentoSteps(c)
    PROVE  TypeAndRows'
<1> USE VerificationAssumption DEF TypeAndRows, Judged, Doing
<1>k. /\ KeyOf(c) \in Keys /\ call[c].email \in Emails /\ call[c].row \in Challenge
      /\ challenge[KeyOf(c)] \in Challenge /\ NoChallenge \in Challenge
  BY KeyTypes DEF VerificationTypeOK, NoChallenge, Challenge
<1>p. {"idle", "sending", "checking", "wrong", "right", "remembering"} \subseteq Phases
  BY DEF Phases
<1>1. ASSUME NEW from, NEW to \in {"sending", "checking"}, WithLock(c, from, to)
      PROVE  TypeAndRows'
  <2>1. call' \in [Calls -> Call]
    <3>1. [call[c] EXCEPT !.phase = to, !.row = challenge[KeyOf(c)]] \in Call
      BY <1>k, <1>p DEF VerificationTypeOK, Call
    <3>2. QED
      BY <1>1, <3>1 DEF WithLock, VerificationTypeOK
  <2>2. \A d \in Calls : /\ d # c => call'[d] = call[d]
                         /\ call'[c].phase = to
    BY <1>1 DEF WithLock, VerificationTypeOK, Call
  <2>3. QED
    BY <1>1, <1>k, <2>1, <2>2 DEF WithLock, VerificationTypeOK, OnlyCalls
<1>2. CASE LockRefused(c) \/ SendRefused(c) \/ CodeRefused(c)
  <2>1. Goes(c, "idle")
    BY <1>2 DEF LockRefused, SendRefused, CodeRefused
  <2>2. QED
    BY <1>2, <1>k, <1>p, <2>1, CallMoves
       DEF LockRefused, SendRefused, CodeRefused, Unlocks, OnlyCalls, VerificationTypeOK
<1>3. CASE CreateChallenge(c)
  <2>1. [code |-> sent + 1, attempts |-> 0] \in Challenge
    BY <1>3 DEF CreateChallenge, Challenge, VerificationTypeOK
  <2>2. QED
    BY <1>3, <1>k, <1>p, <2>1, CallMoves DEF CreateChallenge, Unlocks, VerificationTypeOK
<1>4. CASE SendFails(c)
  BY <1>4, <1>k, <1>p, CallMoves DEF SendFails, Unlocks, VerificationTypeOK
<1>5. CASE CheckCode(c)
  <2>1. call[c].row.code \in Codes
    BY <1>5, <1>k DEF CheckCode, AttemptsLeft, Codes, Challenge
  <2>2. PICK p \in {"wrong", "right"} : Goes(c, p)
    BY <1>5 DEF CheckCode
  <2>3. QED
    BY <1>5, <1>p, <2>1, <2>2, CallMoves DEF CheckCode, VerificationTypeOK, AttemptsLeft
<1>6. CASE CountAttempt(c)
  <2>1. [challenge[KeyOf(c)] EXCEPT !.attempts = call[c].row.attempts + 1] \in Challenge
    BY <1>6, <1>k DEF CountAttempt, AttemptsLeft, Challenge
  <2>2. challenge' = [challenge EXCEPT ![KeyOf(c)] =
                         [challenge[KeyOf(c)] EXCEPT !.attempts = call[c].row.attempts + 1]]
    BY <1>6 DEF CountAttempt
  <2>3. challenge' \in [Keys -> Challenge]
    BY <1>k, <2>1, <2>2 DEF VerificationTypeOK
  <2>4. QED
    BY <1>6, <1>k, <1>p, <2>3, CallMoves DEF CountAttempt, Unlocks, VerificationTypeOK
<1>7. CASE GrantAccess(c)
  <2>1. [challenge[KeyOf(c)] EXCEPT !.attempts = MaxAttempts] \in Challenge
    BY <1>k DEF Challenge
  <2>2. challenge' = [challenge EXCEPT ![KeyOf(c)] =
                         [challenge[KeyOf(c)] EXCEPT !.attempts = MaxAttempts]]
    BY <1>7, <1>k DEF GrantAccess, VerificationTypeOK
  <2>3. challenge' \in [Keys -> Challenge]
    BY <1>k, <2>1, <2>2 DEF VerificationTypeOK
  <2>4. call[c].row.code \in Codes
    BY <1>7, <1>k DEF GrantAccess, AttemptsLeft, Codes, Challenge
  <2>5. codeLock' \in [Emails -> Calls \union {NoCall}] /\ grants' \in [Codes -> Nat]
    BY <1>7, <1>k, <2>4 DEF GrantAccess, Unlocks, VerificationTypeOK
  <2>6. /\ call' \in [Calls -> Call]
        /\ \A d \in Calls : /\ call'[d].row = call[d].row
                            /\ call'[d].phase = IF d = c THEN "remembering" ELSE call[d].phase
    BY <1>7, <1>p, CallMoves DEF GrantAccess
  <2>7. VerificationTypeOK'
    BY <1>7, <2>3, <2>5, <2>6 DEF GrantAccess, VerificationTypeOK
  <2>8. QED
    BY <2>6, <2>7
<1>8. CASE OutcomeNotWritten(c)
  <2>1. call[c].row.code \in Codes
    BY <1>8, <1>k DEF OutcomeNotWritten, AttemptsLeft, Codes, Challenge
  <2>2. lost' \in [Codes -> 0..MaxLost]
    BY <1>8, <2>1 DEF OutcomeNotWritten, VerificationTypeOK
  <2>3. codeLock' \in [Emails -> Calls \union {NoCall}]
    BY <1>8, <1>k DEF OutcomeNotWritten, Unlocks, VerificationTypeOK
  <2>4. /\ call' \in [Calls -> Call]
        /\ \A d \in Calls : /\ call'[d].row = call[d].row
                            /\ call'[d].phase = IF d = c THEN "idle" ELSE call[d].phase
    BY <1>8, <1>p, CallMoves DEF OutcomeNotWritten
  <2>5. VerificationTypeOK'
    BY <1>8, <2>2, <2>3, <2>4 DEF OutcomeNotWritten, VerificationTypeOK
  <2>6. QED
    BY <1>8, <2>4, <2>5 DEF OutcomeNotWritten, Doing
<1>9. QED
  BY <1>1, <1>2, <1>3, <1>4, <1>5, <1>6, <1>7, <1>8 DEF MagentoSteps

LEMMA TypeGateway ==
    ASSUME TypeAndRows, NEW c \in Calls, GatewaySteps(c)
    PROVE  TypeAndRows'
<1> USE VerificationAssumption DEF TypeAndRows, Judged, Doing
<1>k. /\ Of(c) \in GuestSockets /\ SessionOfCall(c) \in Sessions
      /\ call[c].row.code \in 0..MaxCodes
  BY KeyTypes
<1>p. {"idle", "request", "verify", "verified", "admitted"} \subseteq Phases
  BY DEF Phases
<1>1. CASE RequestOtp(c) \/ VerifyOtp(c)
  <2>1. PICK e \in Emails, p \in {"request", "verify"} :
           call' = [call EXCEPT ![c] = [@ EXCEPT !.phase = p, !.email = e]]
    BY <1>1 DEF RequestOtp, VerifyOtp
  <2>2. [call[c] EXCEPT !.phase = p, !.email = e] \in Call
    BY <1>p DEF VerificationTypeOK, Call
  <2>3. call' \in [Calls -> Call]
    BY <2>1, <2>2 DEF VerificationTypeOK
  <2>4. \A d \in Calls : d # c => call'[d] = call[d]
    BY <2>1 DEF VerificationTypeOK
  <2>5. call'[c].phase = p
    BY <2>1 DEF VerificationTypeOK, Call
  <2>6. CASE RequestOtp(c)
    <3>1. access' \in [GuestSockets -> 0..MaxCodes] /\ cachedAccess' \in [Sessions -> 0..MaxCodes]
      BY <2>6, <1>k DEF RequestOtp, VerificationTypeOK
    <3>2. QED
      BY <2>6, <2>3, <2>4, <2>5, <3>1 DEF RequestOtp, VerificationTypeOK
  <2>7. CASE VerifyOtp(c)
    BY <2>7, <2>3, <2>4, <2>5 DEF VerifyOtp, OnlyCalls, VerificationTypeOK
  <2>8. QED
    BY <1>1, <2>6, <2>7
<1>2. CASE AnswerLost(c) \/ AdmitResumption(c)
  <2>1. PICK p \in {"idle", "admitted"} : Goes(c, p)
    BY <1>2 DEF AnswerLost, AdmitResumption
  <2>2. /\ call' \in [Calls -> Call]
        /\ \A d \in Calls : /\ call'[d].row = call[d].row
                            /\ call'[d].phase = IF d = c THEN p ELSE call[d].phase
    BY <1>p, <2>1, CallMoves
  <2>3. VerificationTypeOK'
    BY <1>2, <2>2 DEF AnswerLost, AdmitResumption, OnlyCalls, VerificationTypeOK
  <2>4. QED
    BY <2>2, <2>3
<1>3. CASE RememberGuestOrderAccess(c)
  <2>1. Goes(c, "verified")
    BY <1>3 DEF RememberGuestOrderAccess
  <2>2. /\ call' \in [Calls -> Call]
        /\ \A d \in Calls : /\ call'[d].row = call[d].row
                            /\ call'[d].phase = IF d = c THEN "verified" ELSE call[d].phase
    BY <1>p, <2>1, CallMoves
  <2>3. VerificationTypeOK'
    BY <1>3, <1>k, <2>2 DEF RememberGuestOrderAccess, VerificationTypeOK
  <2>4. QED
    BY <2>2, <2>3
<1>4. CASE ResumePendingAction(c)
  <2>1. Goes(c, "idle")
    BY <1>4 DEF ResumePendingAction
  <2>2. /\ call' \in [Calls -> Call]
        /\ \A d \in Calls : /\ call'[d].row = call[d].row
                            /\ call'[d].phase = IF d = c THEN "idle" ELSE call[d].phase
    BY <1>p, <2>1, CallMoves
  <2>3. pending' \in [GuestSockets -> BOOLEAN] /\ resumed' \in Nat
    BY <1>4, <1>k DEF ResumePendingAction, TakePending, VerificationTypeOK
  <2>4. VerificationTypeOK'
    BY <1>4, <2>2, <2>3 DEF ResumePendingAction, VerificationTypeOK
  <2>5. QED
    BY <2>2, <2>4
<1>5. QED
  BY <1>1, <1>2, <1>3, <1>4 DEF GatewaySteps

WaitingSteps(n) ==
    RememberPendingVerificationAction(n) \/ ClearPendingVerificationAction(n)
        \/ HydrateGuestOrderAccess(n)

LEMMA TypeWaiting ==
    ASSUME TypeAndRows, NEW n \in GuestSockets, WaitingSteps(n)
    PROVE  TypeAndRows'
<1> USE VerificationAssumption DEF TypeAndRows, Judged, Doing, VerificationTypeOK
<1>0. SessionOf[n] \in Sessions /\ cachedAccess[SessionOf[n]] \in 0..MaxCodes
  OBVIOUS
<1>1. CASE RememberPendingVerificationAction(n)
  <2>1. pending' \in [GuestSockets -> BOOLEAN]
    BY <1>1 DEF RememberPendingVerificationAction
  <2>2. QED
    BY <1>0, <1>1, <2>1 DEF RememberPendingVerificationAction
<1>2. CASE ClearPendingVerificationAction(n)
  BY <1>2 DEF ClearPendingVerificationAction
<1>3. CASE HydrateGuestOrderAccess(n)
  <2>1. access' \in [GuestSockets -> 0..MaxCodes] /\ cachedAccess' \in [Sessions -> 0..MaxCodes]
    BY <1>0, <1>3 DEF HydrateGuestOrderAccess
  <2>2. QED
    BY <1>3, <2>1 DEF HydrateGuestOrderAccess
<1>4. QED
  BY <1>1, <1>2, <1>3 DEF WaitingSteps

LEMMA TypeStep == TypeAndRows /\ [VerificationNext]_verificationVars => TypeAndRows'
<1> SUFFICES ASSUME TypeAndRows, [VerificationNext]_verificationVars PROVE TypeAndRows'
  OBVIOUS
<1>1. CASE UNCHANGED verificationVars
  BY <1>1 DEF verificationVars, TypeAndRows, VerificationTypeOK, Judged, Doing
<1>2. QED
  BY <1>1, TypeMagento, TypeGateway, TypeWaiting DEF VerificationNext, WaitingSteps

\* The type invariant of the verification.
THEOREM VerificationTypeCorrect == VerificationSpec => []VerificationTypeOK
<1>1. TypeAndRows => VerificationTypeOK
  BY DEF TypeAndRows
<1>2. QED
  BY <1>1, TypeInit, TypeStep, PTL DEF VerificationSpec

-----------------------------------------------------------------------------
(***************************************************************************)
(* A code is tried and granted under the lock of its e-mail.               *)
(***************************************************************************)
Working(c) == call[c].phase \in {"sending", "checking", "wrong", "right"}

\* Who works on an e-mail's challenges holds its lock, and the row that was read
\* is still the row.
LockHeld ==
    \A c \in Calls : Working(c) => /\ codeLock[call[c].email] = c
                                   /\ call[c].row = challenge[KeyOf(c)]

\* A code is in one row at most; one that was not sent yet was not tried.
CodesDiffer ==
    /\ \A k, l \in Keys : challenge[k].code = challenge[l].code => k = l \/ challenge[k].code = 0
    /\ \A k \in Keys : challenge[k].code <= sent
    /\ \A d \in Codes : d > sent => guesses[d] = 0 /\ grants[d] = 0

\* The attempts of a row count the guesses, but for the one that is being judged and
\* those whose outcome was not written.
BeingJudged(k) == \E c \in Calls : Judged(c) /\ KeyOf(c) = k
GuessesCounted ==
    \A k \in Keys : challenge[k].code # 0 =>
        /\ guesses[challenge[k].code] <= challenge[k].attempts + lost[challenge[k].code] + 1
        /\ ~BeingJudged(k)
               => guesses[challenge[k].code] <= challenge[k].attempts + lost[challenge[k].code]
        /\ challenge[k].attempts # MaxAttempts => grants[challenge[k].code] = 0

CodeInvariant == CodesDiffer /\ GuessesCounted /\ CodesAreBounded

LEMMA LockStep ==
    ASSUME TypeAndRows, LockHeld, [VerificationNext]_verificationVars
    PROVE  LockHeld'
<1> USE VerificationAssumption DEF TypeAndRows, LockHeld, Working
<1>t. \A c \in Calls : /\ KeyOf(c) \in Keys /\ KeyOf(c) = <<call[c].email, SessionOfCall(c)>>
                       /\ call[c].email \in Emails /\ c # NoCall
                       /\ SessionOfCall(c) \in Sessions
  BY KeyTypes DEF KeyOf
<1>s. \A c \in Calls : SessionOfCall(c)' = SessionOfCall(c)
  BY DEF SessionOfCall
<1>k. \A c \in Calls : call'[c].email = call[c].email => KeyOf(c)' = KeyOf(c)
  BY <1>s DEF KeyOf
<1>1. ASSUME NEW c \in Calls, NEW from, NEW to, WithLock(c, from, to) PROVE LockHeld'
  <2>1. \A d \in Calls : /\ call'[d].email = call[d].email
                         /\ d # c => call'[d] = call[d]
                         /\ call'[c].row = challenge[KeyOf(c)]
    BY <1>1 DEF WithLock, VerificationTypeOK, Call
  <2>2. codeLock' = [codeLock EXCEPT ![call[c].email] = c] /\ codeLock[call[c].email] = NoCall
    BY <1>1 DEF WithLock, LockFree
  <2>3. UNCHANGED challenge
    BY <1>1 DEF WithLock, OnlyCalls
  <2>4. QED
    BY <1>t, <1>k, <2>1, <2>2, <2>3 DEF VerificationTypeOK
<1>2. ASSUME NEW c \in Calls, LockRefused(c) PROVE LockHeld'
  BY <1>2, <1>k, <1>t, CallMoves DEF LockRefused, OnlyCalls, Phases
<1>3. ASSUME NEW c \in Calls,
             CreateChallenge(c) \/ SendFails(c) \/ SendRefused(c) \/ CodeRefused(c)
                \/ CountAttempt(c) \/ GrantAccess(c) \/ OutcomeNotWritten(c)
      PROVE  LockHeld'
  <2>1. Working(c)
    BY <1>3 DEF CreateChallenge, SendFails, SendRefused, CodeRefused, CountAttempt,
                GrantAccess, OutcomeNotWritten, Doing
  <2>2. PICK p \in {"idle", "remembering"} : Goes(c, p)
    BY <1>3 DEF CreateChallenge, SendFails, SendRefused, CodeRefused, CountAttempt, GrantAccess,
                OutcomeNotWritten
  <2>3. codeLock' = [codeLock EXCEPT ![call[c].email] = NoCall]
    BY <1>3 DEF CreateChallenge, SendFails, SendRefused, CodeRefused, CountAttempt,
                GrantAccess, OutcomeNotWritten, Unlocks
  <2>4. \A k \in Keys : k # KeyOf(c) => challenge'[k] = challenge[k]
    BY <1>3, <1>t DEF CreateChallenge, SendFails, SendRefused, CodeRefused, CountAttempt,
                GrantAccess, OutcomeNotWritten, OnlyCalls, VerificationTypeOK
  <2>5. \A d \in Calls : Working(d) /\ d # c => call[d].email # call[c].email /\ KeyOf(d) # KeyOf(c)
    BY <2>1, <1>t
  <2>6. \A d \in Calls : /\ call'[d].row = call[d].row /\ call'[d].email = call[d].email
                         /\ call'[d].phase = IF d = c THEN p ELSE call[d].phase
    BY <2>2, CallMoves DEF Phases
  <2>7. QED
    BY <1>t, <1>k, <2>3, <2>4, <2>5, <2>6 DEF VerificationTypeOK
<1>4. ASSUME NEW c \in Calls, CheckCode(c) PROVE LockHeld'
  <2>1. PICK p \in {"wrong", "right"} : Goes(c, p)
    BY <1>4 DEF CheckCode
  <2>2. QED
    BY <1>4, <1>k, <1>t, <2>1, CallMoves DEF CheckCode, Doing, Phases
<1>5. ASSUME NEW c \in Calls, RequestOtp(c) \/ VerifyOtp(c) PROVE LockHeld'
  <2>1. \A d \in Calls : d # c => call'[d] = call[d]
    BY <1>5 DEF RequestOtp, VerifyOtp, VerificationTypeOK
  <2>2. call'[c].phase \in {"request", "verify"}
    <3>1. PICK e \in Emails, p \in {"request", "verify"} :
             call' = [call EXCEPT ![c] = [@ EXCEPT !.phase = p, !.email = e]]
      BY <1>5 DEF RequestOtp, VerifyOtp
    <3>2. QED
      BY <3>1 DEF VerificationTypeOK, Call
  <2>3. UNCHANGED <<challenge, codeLock>>
    BY <1>5 DEF RequestOtp, VerifyOtp, OnlyCalls
  <2>4. QED
    BY <1>k, <1>t, <2>1, <2>2, <2>3
<1>6. ASSUME NEW c \in Calls,
             AnswerLost(c) \/ RememberGuestOrderAccess(c) \/ AdmitResumption(c)
                \/ ResumePendingAction(c)
      PROVE  LockHeld'
  <2>1. PICK p \in {"idle", "verified", "admitted"} : Goes(c, p)
    BY <1>6 DEF AnswerLost, RememberGuestOrderAccess, AdmitResumption, ResumePendingAction
  <2>2. UNCHANGED <<challenge, codeLock>>
    BY <1>6 DEF AnswerLost, RememberGuestOrderAccess, AdmitResumption, ResumePendingAction,
                OnlyCalls
  <2>3. QED
    BY <1>k, <1>t, <2>1, <2>2, CallMoves DEF Phases
<1>7. ASSUME NEW n \in GuestSockets, WaitingSteps(n) PROVE LockHeld'
  BY <1>7, <1>k, <1>t DEF WaitingSteps, RememberPendingVerificationAction,
     ClearPendingVerificationAction, HydrateGuestOrderAccess
<1>8. CASE UNCHANGED verificationVars
  BY <1>8, <1>k, <1>t DEF verificationVars
<1>9. QED
  BY <1>1, <1>2, <1>3, <1>4, <1>5, <1>6, <1>7, <1>8
     DEF VerificationNext, MagentoSteps, GatewaySteps, WaitingSteps

LEMMA KeyFacts ==
    ASSUME VerificationTypeOK
    PROVE  \A k \in Keys : /\ challenge[k].code \in Nat /\ challenge[k].attempts \in Nat
                           /\ challenge[k].attempts <= MaxAttempts
                           /\ challenge[k].code # 0 => challenge[k].code \in Codes
BY VerificationAssumption DEF VerificationTypeOK, Challenge, Codes

\* Steps that leave the rows alone and judge nothing.
LEMMA QuietStep ==
    ASSUME CodeInvariant, UNCHANGED <<challenge, sent, guesses, grants, lost>>,
           \A c \in Calls : Judged(c) => Judged(c)' /\ KeyOf(c)' = KeyOf(c)
    PROVE  CodeInvariant'
<1>1. \A k \in Keys : BeingJudged(k) => BeingJudged(k)'
  BY DEF BeingJudged
<1>2. QED
  BY <1>1 DEF CodeInvariant, CodesDiffer, GuessesCounted, CodesAreBounded

LEMMA CodeStep ==
    ASSUME TypeAndRows, LockHeld, CodeInvariant, NEW c \in Calls, MagentoSteps(c)
    PROVE  CodeInvariant'
<1> USE VerificationAssumption DEF TypeAndRows
<1>k. /\ KeyOf(c) \in Keys
      /\ \A k \in Keys : /\ challenge[k].code \in Nat /\ challenge[k].attempts \in Nat
                         /\ challenge[k].attempts <= MaxAttempts
                         /\ challenge[k].code # 0 => challenge[k].code \in Codes
      /\ sent \in Nat /\ MaxAttempts \in Nat /\ guesses \in [Codes -> Nat] /\ grants \in [Codes -> Nat]
      /\ lost \in [Codes -> Nat]
  BY KeyTypes, KeyFacts DEF VerificationTypeOK
<1>s. \A d \in Calls : call'[d].email = call[d].email => KeyOf(d)' = KeyOf(d)
  BY DEF KeyOf, SessionOfCall
\* Nobody else judges an attempt on this row.
<1>o. Working(c) => \A d \in Calls : Judged(d) /\ KeyOf(d) = KeyOf(c) => d = c
  <2>1. \A d \in Calls : KeyOf(d) = KeyOf(c) => call[d].email = call[c].email
    BY DEF KeyOf
  <2>2. QED
    BY <2>1 DEF LockHeld, Judged, Doing, Working
<1>1. ASSUME NEW from, NEW to, from \in {"request", "verify"}, WithLock(c, from, to)
      PROVE  CodeInvariant'
  <2>1. \A d \in Calls : /\ call'[d].email = call[d].email
                         /\ d # c => call'[d] = call[d]
    BY <1>1 DEF WithLock, VerificationTypeOK, Call
  <2>2. QED
    BY <1>1, <1>s, <2>1, QuietStep DEF WithLock, Judged, Doing, OnlyCalls
<1>2. CASE LockRefused(c) \/ SendRefused(c) \/ CodeRefused(c)
  <2>1. Goes(c, "idle") /\ ~Judged(c)
    BY <1>2 DEF LockRefused, SendRefused, CodeRefused, Judged, Doing
  <2>2. QED
    BY <1>2, <1>s, <2>1, CallMoves, QuietStep
       DEF LockRefused, SendRefused, CodeRefused, OnlyCalls, Judged, Doing, Phases
<1>3. CASE CreateChallenge(c) \/ SendFails(c)
  <2>1. Goes(c, "idle") /\ ~Judged(c) /\ Working(c)
    BY <1>3 DEF CreateChallenge, SendFails, Judged, Doing, Working
  <2>2. \A d \in Calls : (Judged(d) <=> Judged(d)') /\ KeyOf(d)' = KeyOf(d)
    BY <1>s, <2>1, CallMoves DEF Judged, Doing, Phases
  <2>3. \A k \in Keys : BeingJudged(k) <=> BeingJudged(k)'
    BY <2>2 DEF BeingJudged
  <2>4. \A k \in Keys : k # KeyOf(c) => challenge'[k] = challenge[k]
    BY <1>3, <1>k DEF CreateChallenge, SendFails, VerificationTypeOK
  <2>5. UNCHANGED <<guesses, grants, lost>>
    BY <1>3 DEF CreateChallenge, SendFails
  <2>6. CASE CreateChallenge(c)
    <3>1. /\ challenge'[KeyOf(c)].code = sent + 1 /\ challenge'[KeyOf(c)].attempts = 0
          /\ sent' = sent + 1 /\ sent + 1 \in Codes
      BY <2>6, <1>k DEF CreateChallenge, VerificationTypeOK, Codes
    <3>2. guesses[sent + 1] = 0 /\ grants[sent + 1] = 0
      BY <1>k, <3>1 DEF CodeInvariant, CodesDiffer
    <3>3. CodesDiffer'
      <4>1. \A k \in Keys : challenge[k].code <= sent
        BY DEF CodeInvariant, CodesDiffer
      <4>2. \A k \in Keys : challenge'[k].code <= sent'
        BY <1>k, <2>4, <3>1, <4>1
      <4>3. \A k, l \in Keys :
                challenge'[k].code = challenge'[l].code => k = l \/ challenge'[k].code = 0
        BY <1>k, <2>4, <3>1, <4>1 DEF CodeInvariant, CodesDiffer
      <4>4. \A e \in Codes : e > sent' => guesses'[e] = 0 /\ grants'[e] = 0
        BY <1>k, <2>5, <3>1 DEF CodeInvariant, CodesDiffer, Codes
      <4>5. QED
        BY <4>2, <4>3, <4>4 DEF CodesDiffer
    <3>4. GuessesCounted'
      BY <1>k, <2>3, <2>4, <2>5, <3>1, <3>2 DEF CodeInvariant, GuessesCounted
    <3>5. QED
      BY <2>5, <3>3, <3>4 DEF CodeInvariant, CodesAreBounded
  <2>7. CASE SendFails(c)
    <3>1. challenge'[KeyOf(c)].code = 0 /\ sent' = sent
      BY <2>7, <1>k DEF SendFails, VerificationTypeOK, NoChallenge
    <3>2. CodesDiffer'
      BY <1>k, <2>4, <2>5, <3>1 DEF CodeInvariant, CodesDiffer
    <3>3. GuessesCounted'
      BY <1>k, <2>3, <2>4, <2>5, <3>1 DEF CodeInvariant, GuessesCounted
    <3>4. QED
      BY <2>5, <3>2, <3>3 DEF CodeInvariant, CodesAreBounded
  <2>8. QED
    BY <1>3, <2>6, <2>7
<1>4. CASE CheckCode(c)
  <2> DEFINE d == challenge[KeyOf(c)].code
  <2>1. Working(c) /\ ~Judged(c)
    BY <1>4 DEF CheckCode, Doing, Working, Judged
  <2>2. call[c].row = challenge[KeyOf(c)]
    BY <2>1 DEF LockHeld
  <2>3. /\ d \in Codes /\ challenge[KeyOf(c)].attempts < MaxAttempts
        /\ guesses' = [guesses EXCEPT ![d] = guesses[d] + 1]
        /\ UNCHANGED <<challenge, sent, grants, lost>>
    <3>1. AttemptsLeft(challenge[KeyOf(c)])
      BY <1>4, <2>2 DEF CheckCode
    <3>2. guesses' = [guesses EXCEPT ![d] = guesses[d] + 1]
      BY <1>4, <2>2 DEF CheckCode
    <3>3. QED
      BY <1>4, <1>k, <3>1, <3>2 DEF CheckCode, AttemptsLeft
  <2>4. guesses[d] <= challenge[KeyOf(c)].attempts + lost[d]
    <3>1. ~BeingJudged(KeyOf(c))
      BY <1>o, <2>1 DEF BeingJudged
    <3>2. KeyOf(c) \in Keys /\ d # 0
      BY <1>k, <2>3 DEF Codes
    <3>3. QED
      BY <3>1, <3>2 DEF CodeInvariant, GuessesCounted
  <2>5. PICK p \in {"wrong", "right"} : Goes(c, p)
    BY <1>4 DEF CheckCode
  <2>6. \A e \in Calls : KeyOf(e)' = KeyOf(e) /\ (Judged(e) => Judged(e)') /\ Judged(c)'
    BY <1>s, <2>5, CallMoves DEF Judged, Doing, Phases
  <2>7. \A k \in Keys : k = KeyOf(c) \/ BeingJudged(k) => BeingJudged(k)'
    BY <2>6 DEF BeingJudged
  <2>8. \A k \in Keys : k # KeyOf(c) => challenge[k].code # d \/ challenge[k].code = 0
    BY <1>k DEF CodeInvariant, CodesDiffer
  <2>9. CodesDiffer'
    <3>1. d <= sent
      BY <1>k DEF CodeInvariant, CodesDiffer
    <3>2. \A e \in Codes : e > sent => e # d
      BY <1>k, <3>1 DEF Codes
    <3>3. QED
      BY <1>k, <2>3, <3>2 DEF CodeInvariant, CodesDiffer
  <2>10. GuessesCounted'
    <3>1. \A k \in Keys : k # KeyOf(c) /\ challenge[k].code # 0 =>
                guesses'[challenge[k].code] = guesses[challenge[k].code]
      BY <1>k, <2>3, <2>8
    <3>2. guesses'[d] = guesses[d] + 1
      BY <1>k, <2>3
    <3>3. guesses[d] \in Nat /\ lost[d] \in Nat
      BY <1>k, <2>3
    <3>4. ASSUME NEW k \in Keys, challenge[k].code # 0
          PROVE  /\ guesses'[challenge[k].code]
                        <= challenge[k].attempts + lost[challenge[k].code] + 1
                 /\ ~BeingJudged(k)' => guesses'[challenge[k].code]
                        <= challenge[k].attempts + lost[challenge[k].code]
                 /\ challenge[k].attempts # MaxAttempts => grants[challenge[k].code] = 0
      <4>1. CASE k = KeyOf(c)
        BY <1>k, <2>4, <2>7, <3>2, <3>3, <3>4, <4>1 DEF CodeInvariant, GuessesCounted
      <4>2. CASE k # KeyOf(c)
        BY <2>7, <3>1, <3>4, <4>2 DEF CodeInvariant, GuessesCounted
      <4>3. QED
        BY <4>1, <4>2
    <3>5. QED
      BY <2>3, <3>4 DEF GuessesCounted
  <2>11. CodesAreBounded'
    BY <1>k, <2>3, <2>4 DEF CodeInvariant, CodesAreBounded
  <2>12. QED
    BY <2>9, <2>10, <2>11 DEF CodeInvariant
<1>5. CASE CountAttempt(c) \/ GrantAccess(c)
  <2> DEFINE d == challenge[KeyOf(c)].code
  <2>1. Working(c) /\ Judged(c)
    BY <1>5 DEF CountAttempt, GrantAccess, Doing, Working, Judged
  <2>2. call[c].row = challenge[KeyOf(c)]
    BY <2>1 DEF LockHeld
  <2>3. challenge[KeyOf(c)].attempts < MaxAttempts /\ d \in Codes
    <3>1. AttemptsLeft(challenge[KeyOf(c)])
      BY <2>1, <2>2
    <3>2. challenge[KeyOf(c)].code # 0 /\ challenge[KeyOf(c)].attempts < MaxAttempts
      BY <3>1 DEF AttemptsLeft
    <3>3. KeyOf(c) \in Keys
      BY <1>k
    <3>4. challenge[KeyOf(c)].code \in Codes
      BY <1>k, <3>2, <3>3
    <3>5. QED
      BY <3>2, <3>4
  <2>4. /\ guesses[d] <= challenge[KeyOf(c)].attempts + lost[d] + 1 /\ grants[d] = 0
        /\ lost[d] \in Nat /\ guesses[d] \in Nat
    <3>1. d # 0
      BY <2>3, VerificationAssumption DEF Codes
    <3>2. QED
      BY <1>k, <2>3, <3>1 DEF CodeInvariant, GuessesCounted
  <2>5. PICK p \in {"idle", "remembering"} : Goes(c, p)
    BY <1>5 DEF CountAttempt, GrantAccess
  <2>6. \A e \in Calls : KeyOf(e)' = KeyOf(e) /\ (e # c => Judged(e)' = Judged(e))
    BY <1>s, <2>5, CallMoves DEF Judged, Doing, Phases
  <2>7. \A k \in Keys : k # KeyOf(c) => (BeingJudged(k) => BeingJudged(k)')
    BY <2>6 DEF BeingJudged
  <2>8. \A k \in Keys : k # KeyOf(c) =>
             challenge'[k] = challenge[k] /\ (challenge[k].code # d \/ challenge[k].code = 0)
    BY <1>5, <1>k DEF CountAttempt, GrantAccess, CodeInvariant, CodesDiffer, VerificationTypeOK
  <2>9. /\ challenge'[KeyOf(c)].code = d /\ UNCHANGED <<sent, guesses, lost>>
        /\ \/ challenge'[KeyOf(c)].attempts = challenge[KeyOf(c)].attempts + 1 /\ UNCHANGED grants
           \/ challenge'[KeyOf(c)].attempts = MaxAttempts /\ grants' = [grants EXCEPT ![d] = @ + 1]
    BY <1>5, <1>k, <2>2 DEF CountAttempt, GrantAccess, VerificationTypeOK, Challenge
  <2>10. CodesDiffer'
    <3>1. \A k \in Keys : challenge'[k].code = challenge[k].code
      BY <2>8, <2>9
    <3>2. d <= sent
      BY <1>k DEF CodeInvariant, CodesDiffer
    <3>3. \A e \in Codes : e > sent => e # d
      BY <1>k, <3>2 DEF Codes
    <3>4. QED
      BY <1>k, <2>3, <2>9, <3>1, <3>3 DEF CodeInvariant, CodesDiffer
  <2>11. GuessesCounted'
    BY <1>k, <2>3, <2>4, <2>7, <2>8, <2>9 DEF CodeInvariant, GuessesCounted
  <2>12. CodesAreBounded'
    BY <1>k, <2>3, <2>4, <2>9 DEF CodeInvariant, CodesAreBounded
  <2>13. QED
    BY <2>10, <2>11, <2>12 DEF CodeInvariant
<1>6. CASE OutcomeNotWritten(c)
  <2> DEFINE d == challenge[KeyOf(c)].code
  <2>1. Working(c) /\ Judged(c) /\ Goes(c, "idle")
    BY <1>6 DEF OutcomeNotWritten, Doing, Working, Judged
  <2>2. call[c].row = challenge[KeyOf(c)]
    BY <2>1 DEF LockHeld
  <2>3. d \in Codes /\ challenge[KeyOf(c)].attempts < MaxAttempts
    BY <1>k, <2>1, <2>2 DEF AttemptsLeft
  <2>4. UNCHANGED <<challenge, sent, guesses, grants>> /\ lost' = [lost EXCEPT ![d] = @ + 1]
    BY <1>6, <2>2 DEF OutcomeNotWritten
  <2>5. \A e \in Codes : lost'[e] \in Nat /\ lost'[e] = IF e = d THEN lost[e] + 1 ELSE lost[e]
    BY <1>k, <2>3, <2>4
  <2>6. \A e \in Calls : KeyOf(e)' = KeyOf(e) /\ (e # c => Judged(e)' = Judged(e))
    BY <1>s, <2>1, CallMoves DEF Judged, Doing, Phases
  <2>7. \A k \in Keys : k # KeyOf(c) => (BeingJudged(k) => BeingJudged(k)')
    BY <2>6 DEF BeingJudged
  <2>8. CodesDiffer'
    BY <2>4 DEF CodeInvariant, CodesDiffer
  <2>9. GuessesCounted'
    <3>1. ASSUME NEW k \in Keys, challenge[k].code # 0
          PROVE  /\ guesses[challenge[k].code]
                        <= challenge[k].attempts + lost'[challenge[k].code] + 1
                 /\ ~BeingJudged(k)' => guesses[challenge[k].code]
                        <= challenge[k].attempts + lost'[challenge[k].code]
      <4>1. /\ guesses[challenge[k].code] \in Nat /\ lost[challenge[k].code] \in Nat
            /\ challenge[k].attempts \in Nat /\ challenge[k].code \in Codes
        BY <1>k, <3>1
      <4>2. guesses[challenge[k].code] <= challenge[k].attempts + lost[challenge[k].code] + 1
        BY <3>1 DEF CodeInvariant, GuessesCounted
      <4>3. CASE k = KeyOf(c)
        BY <2>5, <4>1, <4>2, <4>3
      <4>4. CASE k # KeyOf(c)
        BY <2>5, <2>7, <3>1, <4>1, <4>2, <4>4 DEF CodeInvariant, GuessesCounted
      <4>5. QED
        BY <4>3, <4>4
    <3>2. QED
      BY <2>4, <3>1 DEF CodeInvariant, GuessesCounted
  <2>10. CodesAreBounded'
    BY <1>k, <2>4, <2>5 DEF CodeInvariant, CodesAreBounded
  <2>11. QED
    BY <2>8, <2>9, <2>10 DEF CodeInvariant
<1>7. QED
  BY <1>1, <1>2, <1>3, <1>4, <1>5, <1>6 DEF MagentoSteps

LEMMA CodeStepOthers ==
    ASSUME TypeAndRows, CodeInvariant,
           \/ \E c \in Calls : GatewaySteps(c)
           \/ \E n \in GuestSockets : WaitingSteps(n)
           \/ UNCHANGED verificationVars
    PROVE  CodeInvariant'
<1> USE DEF TypeAndRows, Judged, Doing
<1>s. \A d \in Calls : call'[d].email = call[d].email => KeyOf(d)' = KeyOf(d)
  BY DEF KeyOf, SessionOfCall
<1>1. ASSUME NEW c \in Calls, RequestOtp(c) \/ VerifyOtp(c) PROVE CodeInvariant'
  <2>1. ~Judged(c) /\ \A d \in Calls : d # c => call'[d] = call[d]
    BY <1>1 DEF RequestOtp, VerifyOtp, VerificationTypeOK
  <2>2. QED
    BY <1>1, <1>s, <2>1, QuietStep DEF RequestOtp, VerifyOtp, OnlyCalls
<1>2. ASSUME NEW c \in Calls,
             AnswerLost(c) \/ RememberGuestOrderAccess(c) \/ AdmitResumption(c)
                \/ ResumePendingAction(c)
      PROVE  CodeInvariant'
  <2>1. ~Judged(c)
    BY <1>2 DEF AnswerLost, RememberGuestOrderAccess, AdmitResumption, ResumePendingAction
  <2>2. PICK p \in {"idle", "verified", "admitted"} : Goes(c, p)
    BY <1>2 DEF AnswerLost, RememberGuestOrderAccess, AdmitResumption, ResumePendingAction
  <2>3. \A d \in Calls : Judged(d) => Judged(d)' /\ KeyOf(d)' = KeyOf(d)
    BY <1>s, <2>1, <2>2, CallMoves DEF Phases
  <2>4. QED
    BY <1>2, <2>3, QuietStep DEF AnswerLost, RememberGuestOrderAccess, AdmitResumption,
                             ResumePendingAction, OnlyCalls
<1>3. ASSUME NEW n \in GuestSockets, WaitingSteps(n) PROVE CodeInvariant'
  BY <1>3, <1>s, QuietStep DEF WaitingSteps, RememberPendingVerificationAction,
     ClearPendingVerificationAction, HydrateGuestOrderAccess
<1>4. CASE UNCHANGED verificationVars
  BY <1>4, <1>s, QuietStep DEF verificationVars
<1>5. QED
  BY <1>1, <1>2, <1>3, <1>4 DEF GatewaySteps

\* A code is tried at most MaxAttempts times and lets in at most once.
THEOREM CodesBounded == VerificationSpec => []CodesAreBounded
<1>1. VerificationInit => LockHeld /\ CodeInvariant
  BY VerificationAssumption
     DEF VerificationInit, LockHeld, Working, CodeInvariant, CodesDiffer, GuessesCounted,
         CodesAreBounded, NoChallenge, Codes
<1>2. TypeAndRows /\ LockHeld /\ CodeInvariant /\ [VerificationNext]_verificationVars
          => CodeInvariant'
  BY CodeStep, CodeStepOthers DEF VerificationNext, WaitingSteps
<1>3. CodeInvariant => CodesAreBounded
  BY DEF CodeInvariant
<1>4. QED
  BY <1>1, <1>2, <1>3, TypeInit, TypeStep, LockStep, PTL DEF VerificationSpec

-----------------------------------------------------------------------------
(***************************************************************************)
(* A request that waits is resumed once.                                   *)
(***************************************************************************)
WaitingSockets == {n \in GuestSockets : pending[n]}
ResumedOrWaiting == resumed + Cardinality(WaitingSockets) <= remembered

\* Each request that is resumed had been remembered, and is not resumed again.
THEOREM ResumedCorrect == VerificationSpec => []ResumedAtMostOnce
<1>1. VerificationInit => ResumedOrWaiting
  <2> SUFFICES ASSUME VerificationInit PROVE ResumedOrWaiting
    OBVIOUS
  <2>1. WaitingSockets = {}
    BY DEF VerificationInit, WaitingSockets
  <2>2. Cardinality(WaitingSockets) = 0
    BY <2>1, FS_EmptySet, Zenon
  <2>3. QED
    BY <2>2 DEF VerificationInit, ResumedOrWaiting
<1>2. TypeAndRows /\ ResumedOrWaiting /\ [VerificationNext]_verificationVars
          => ResumedOrWaiting'
  <2> SUFFICES ASSUME TypeAndRows, ResumedOrWaiting, [VerificationNext]_verificationVars
               PROVE  ResumedOrWaiting'
    OBVIOUS
  <2>0. /\ IsFiniteSet(WaitingSockets) /\ Cardinality(WaitingSockets) \in Nat
        /\ resumed \in Nat /\ remembered \in Nat
    BY VerificationAssumption, FS_Subset, FS_CardinalityType
       DEF TypeAndRows, VerificationTypeOK, WaitingSockets
  <2>1. ASSUME NEW n \in GuestSockets, RememberPendingVerificationAction(n)
        PROVE  ResumedOrWaiting'
    <3>1. WaitingSockets' = WaitingSockets \union {n}
      BY <2>1 DEF RememberPendingVerificationAction, WaitingSockets, TypeAndRows, VerificationTypeOK
    <3>2. Cardinality(WaitingSockets') \in Nat /\ Cardinality(WaitingSockets') <= Cardinality(WaitingSockets) + 1
      <4>1. Cardinality(WaitingSockets \union {n})
                = IF n \in WaitingSockets THEN Cardinality(WaitingSockets) ELSE Cardinality(WaitingSockets) + 1
        BY <2>0, FS_AddElement, Zenon
      <4>2. Cardinality(WaitingSockets')
                = IF n \in WaitingSockets THEN Cardinality(WaitingSockets) ELSE Cardinality(WaitingSockets) + 1
        BY <3>1, <4>1, Zenon
      <4>3. QED
        BY <2>0, <4>2
    <3>3. QED
      BY <2>0, <2>1, <3>2 DEF RememberPendingVerificationAction, ResumedOrWaiting
  <2>2. ASSUME NEW n \in GuestSockets, ClearPendingVerificationAction(n)
        PROVE  ResumedOrWaiting'
    <3>1. WaitingSockets' \subseteq WaitingSockets
      BY <2>2 DEF ClearPendingVerificationAction, WaitingSockets, TypeAndRows, VerificationTypeOK
    <3>2. Cardinality(WaitingSockets') \in Nat /\ Cardinality(WaitingSockets') <= Cardinality(WaitingSockets)
      BY <2>0, <3>1, FS_Subset, FS_CardinalityType
    <3>3. QED
      BY <2>0, <2>2, <3>2 DEF ClearPendingVerificationAction, ResumedOrWaiting
  <2>3. ASSUME NEW c \in Calls, ResumePendingAction(c) PROVE ResumedOrWaiting'
    <3>0. Of(c) \in GuestSockets
      BY KeyTypes DEF TypeAndRows
    <3>1. WaitingSockets' = WaitingSockets \ {Of(c)}
      BY <2>3, <3>0
         DEF ResumePendingAction, TakePending, WaitingSockets, TypeAndRows, VerificationTypeOK
    <3>2. CASE pending[Of(c)]
      <4>1. Of(c) \in WaitingSockets
        BY <3>0, <3>2 DEF WaitingSockets
      <4>2. Cardinality(WaitingSockets') = Cardinality(WaitingSockets) - 1
        BY <2>0, <3>1, <4>1, FS_RemoveElement
      <4>3. QED
        BY <2>0, <2>3, <3>2, <4>2 DEF ResumePendingAction, ResumedOrWaiting
    <3>3. CASE ~pending[Of(c)]
      <4>1. WaitingSockets' = WaitingSockets
        BY <3>1, <3>3 DEF WaitingSockets
      <4>2. QED
        BY <2>3, <3>3, <4>1 DEF ResumePendingAction, ResumedOrWaiting
    <3>4. QED
      BY <3>2, <3>3
  <2>4. CASE UNCHANGED <<pending, remembered, resumed>>
    BY <2>4 DEF ResumedOrWaiting, WaitingSockets
  <2>5. ASSUME NEW c \in Calls, MagentoSteps(c) PROVE UNCHANGED <<pending, remembered, resumed>>
    BY <2>5 DEF MagentoSteps, WithLock, LockRefused, CreateChallenge, SendFails, SendRefused,
       CheckCode, CodeRefused, CountAttempt, GrantAccess, OutcomeNotWritten, OnlyCalls
  <2>6. ASSUME NEW c \in Calls, GatewaySteps(c), ~ResumePendingAction(c)
        PROVE  UNCHANGED <<pending, remembered, resumed>>
    BY <2>6 DEF GatewaySteps, RequestOtp, VerifyOtp, AnswerLost, RememberGuestOrderAccess,
       AdmitResumption, OnlyCalls
  <2>7. ASSUME NEW n \in GuestSockets, HydrateGuestOrderAccess(n)
        PROVE  UNCHANGED <<pending, remembered, resumed>>
    BY <2>7 DEF HydrateGuestOrderAccess
  <2>8. QED
    BY <2>1, <2>2, <2>3, <2>4, <2>5, <2>6, <2>7 DEF VerificationNext, verificationVars
<1>3. TypeAndRows /\ ResumedOrWaiting => ResumedAtMostOnce
  <2> SUFFICES ASSUME TypeAndRows, ResumedOrWaiting PROVE ResumedAtMostOnce
    OBVIOUS
  <2>1. Cardinality(WaitingSockets) \in Nat
    BY VerificationAssumption, FS_Subset, FS_CardinalityType DEF WaitingSockets
  <2>2. QED
    BY <2>1 DEF ResumedOrWaiting, ResumedAtMostOnce, TypeAndRows, VerificationTypeOK
<1>4. QED
  BY <1>1, <1>2, <1>3, TypeInit, TypeStep, PTL DEF VerificationSpec

-----------------------------------------------------------------------------
(***************************************************************************)
(* Cases and takeovers                                                     *)
(***************************************************************************)
Statuses == ActiveStatuses \union ClosedStatuses

\* The room a shopper's turn checked is still there for the assistant's answer.
AnswerHasRoom == shopperTurn \in {"stored", "assistant"} => Len(ticket) <= MaxTicketMessages

-----------------------------------------------------------------------------
(***************************************************************************)
(* Cases: type correctness                                                 *)
(***************************************************************************)

LEMMA WrittenType ==
    ASSUME DeskTypeOK, NEW from \in {"shopper", "agent", "assistant"},
           NEW a \in Admins \union {NoAdmin}, NEW x \in Texts
    PROVE  Written(from, a, x) \in TicketMessage
BY DEF Written, TicketMessage, DeskTypeOK

\* A message is appended only while the ticket has room, or by the assistant.
LEMMA AppendType ==
    ASSUME DeskTypeOK, NEW m \in TicketMessage
    PROVE  /\ Append(ticket, m) \in Seq(TicketMessage)
           /\ Len(Append(ticket, m)) = Len(ticket) + 1
BY DEF DeskTypeOK

LEMMA MutatedType ==
    ASSUME DeskTypeOK, NEW i \in DOMAIN ticket, NEW x \in Texts
    PROVE  /\ [ticket EXCEPT ![i].text = x] \in Seq(TicketMessage)
           /\ Len([ticket EXCEPT ![i].text = x]) = Len(ticket)
           /\ [ticket EXCEPT ![i].deleted = TRUE] \in Seq(TicketMessage)
           /\ Len([ticket EXCEPT ![i].deleted = TRUE]) = Len(ticket)
<1>1. ticket \in Seq(TicketMessage) /\ ticket[i] \in TicketMessage
  BY DEF DeskTypeOK
<1>2. [ticket[i] EXCEPT !.text = x] \in TicketMessage
  BY <1>1 DEF TicketMessage
<1>3. [ticket[i] EXCEPT !.deleted = TRUE] \in TicketMessage
  BY <1>1 DEF TicketMessage
<1>4. QED
  BY <1>1, <1>2, <1>3

LEMMA NoLease == 0 \in 0..(MaxTime + TakeoverLife)
BY DeskAssumption

LEMMA DeskTypeLocked ==
    ASSUME DeskTypeOK, NEW a \in Admins, Claim(a) \/ ReleaseCase(a) \/ ReplyToCase(a)
    PROVE  DeskTypeOK'
<1> USE DeskAssumption
<1>1. CASE Claim(a)
  <2>1. now + TakeoverLife \in 0..(MaxTime + TakeoverLife)
    BY DEF DeskTypeOK
  <2>2. case' \in Case
    BY <1>1, <2>1 DEF Claim, Case, ActiveStatuses
  <2>3. QED
    BY <1>1, <2>2 DEF Claim, DeskTypeOK
<1>2. CASE ReleaseCase(a)
  <2>1. case' \in Case
    BY <1>2, NoLease DEF ReleaseCase, Case, ActiveStatuses, DeskTypeOK
  <2>2. QED
    BY <1>2, <2>1 DEF ReleaseCase, DeskTypeOK
<1>3. CASE ReplyToCase(a)
  <2>1. case' \in Case
    BY <1>3 DEF ReplyToCase, Case, ActiveStatuses, DeskTypeOK
  <2>2. PICK x \in Texts : ticket' = Append(ticket, Written("agent", a, x))
    BY <1>3 DEF ReplyToCase
  <2>3. Written("agent", a, x) \in TicketMessage
    BY WrittenType
  <2>4. ticket' \in Seq(TicketMessage) /\ Len(ticket') <= MaxTicketMessages + 1
    BY <1>3, <2>2, <2>3, AppendType DEF ReplyToCase, TicketHasRoom, DeskTypeOK
  <2>5. QED
    BY <1>3, <2>1, <2>4 DEF ReplyToCase, DeskTypeOK
<1>4. QED
  BY <1>1, <1>2, <1>3

LEMMA DeskTypeMutates ==
    ASSUME DeskTypeOK, NEW from, NEW a, Mutates(from, a)
    PROVE  DeskTypeOK'
<1>1. PICK i \in DOMAIN ticket :
         \/ \E x \in Texts : ticket' = [ticket EXCEPT ![i].text = x]
         \/ ticket' = [ticket EXCEPT ![i].deleted = TRUE]
  BY DEF Mutates
<1>2. Texts # {}
  BY <1>1 DEF DeskTypeOK, TicketMessage
<1>3. ticket' \in Seq(TicketMessage) /\ Len(ticket') = Len(ticket)
  <2>1. CASE \E x \in Texts : ticket' = [ticket EXCEPT ![i].text = x]
    <3>1. PICK x \in Texts : ticket' = [ticket EXCEPT ![i].text = x]
      BY <2>1
    <3>2. QED
      BY <3>1, MutatedType
  <2>2. CASE ticket' = [ticket EXCEPT ![i].deleted = TRUE]
    BY <1>2, <2>2, MutatedType
  <2>3. QED
    BY <1>1, <2>1, <2>2
<1>4. QED
  BY <1>3 DEF Mutates, DeskTypeOK

LEMMA MassSetType ==
    ASSUME DeskTypeOK, NEW row \in Case, NEW a \in Admins, NEW s \in Statuses
    PROVE  MassSet(row, a, s) \in Case
<1>1. row.admin \in Admins \union {NoAdmin} /\ row.takeover \in {"active", "inactive"}
      /\ row.lease \in 0..(MaxTime + TakeoverLife)
  BY DEF Case
<1>2. QED
  BY <1>1, NoLease DEF MassSet, Case, Statuses

LEMMA DeskTypeUnlocked ==
    ASSUME DeskTypeOK, NEW a \in Admins,
           HeartbeatReadsClock(a) \/ Heartbeat(a) \/ MassStatusReads(a) \/ MassStatusSaves(a)
    PROVE  DeskTypeOK'
<1> USE DeskAssumption
<1>1. CASE HeartbeatReadsClock(a)
  BY <1>1 DEF HeartbeatReadsClock, DeskTypeOK
<1>2. CASE Heartbeat(a)
  <2>1. beating[a] + TakeoverLife \in 0..(MaxTime + TakeoverLife)
    BY DEF DeskTypeOK
  <2>2. case' \in Case
    BY <1>2, <2>1 DEF Heartbeat, Case, DeskTypeOK
  <2>3. QED
    BY <1>2, <2>2 DEF Heartbeat, DeskTypeOK
<1>3. CASE MassStatusReads(a)
  <2>1. PICK s \in Statuses : massUpdate' = [massUpdate EXCEPT ![a] = <<case, s>>]
    BY <1>3 DEF MassStatusReads, Statuses
  <2>2. <<case, s>> \in Case \X Statuses
    BY DEF DeskTypeOK
  <2>3. massUpdate' \in [Admins -> {NoUpdate} \union (Case \X Statuses)]
    BY <2>1, <2>2 DEF DeskTypeOK, Statuses
  <2>4. QED
    BY <1>3, <2>3 DEF MassStatusReads, DeskTypeOK, Statuses
<1>4. CASE MassStatusSaves(a)
  <2>1. massUpdate[a] \in Case \X Statuses
    BY <1>4 DEF MassStatusSaves, DeskTypeOK, Statuses
  <2>2. PICK row \in {case, massUpdate[a][1]} : case' = MassSet(row, a, massUpdate[a][2])
    BY <1>4 DEF MassStatusSaves
  <2>3. row \in Case /\ massUpdate[a][2] \in Statuses
    BY <2>1 DEF DeskTypeOK
  <2>4. case' \in Case
    BY <2>2, <2>3, MassSetType
  <2>5. QED
    BY <1>4, <2>4 DEF MassStatusSaves, DeskTypeOK
<1>5. QED
  BY <1>1, <1>2, <1>3, <1>4

LEMMA DeskTypeShopper ==
    ASSUME DeskTypeOK, AnswerHasRoom, ShopperSteps
    PROVE  DeskTypeOK'
<1> USE DeskAssumption
<1>1. CASE ShopperTurnReads
  BY <1>1 DEF ShopperTurnReads, DeskTypeOK
<1>2. CASE ShopperMessageStored
  <2>1. case' \in Case
    BY <1>2 DEF ShopperMessageStored, Case, ActiveStatuses, DeskTypeOK
  <2>2. PICK x \in Texts : ticket' = Append(ticket, Written("shopper", NoAdmin, x))
    BY <1>2 DEF ShopperMessageStored
  <2>3. Written("shopper", NoAdmin, x) \in TicketMessage
    BY WrittenType
  <2>4. ticket' \in Seq(TicketMessage) /\ Len(ticket') <= MaxTicketMessages + 1
    BY <1>2, <2>2, <2>3, AppendType DEF ShopperMessageStored, TicketHasRoom, DeskTypeOK
  <2>5. QED
    BY <1>2, <2>1, <2>4 DEF ShopperMessageStored, DeskTypeOK
<1>3. CASE ShopperTurnReadsAgain
  BY <1>3 DEF ShopperTurnReadsAgain, DeskTypeOK
<1>4. CASE ShopperTurnEnds
  BY <1>4 DEF ShopperTurnEnds, DeskTypeOK
<1>5. CASE CloseByConversationId
  <2>1. case' \in Case
    BY <1>5, NoLease DEF CloseByConversationId, Case, ClosedStatuses, DeskTypeOK
  <2>2. QED
    BY <1>5, <2>1 DEF CloseByConversationId, DeskTypeOK
<1>6. CASE Mutates("shopper", NoAdmin)
  BY <1>6, DeskTypeMutates
<1>7. CASE AssistantAnswers
  <2>1. PICK x \in Texts : ticket' = Append(ticket, Written("assistant", NoAdmin, x))
    BY <1>7 DEF AssistantAnswers
  <2>2. Written("assistant", NoAdmin, x) \in TicketMessage
    BY WrittenType
  <2>3. ticket' \in Seq(TicketMessage) /\ Len(ticket') <= MaxTicketMessages + 1
    BY <1>7, <2>1, <2>2, AppendType DEF AssistantAnswers, AnswerHasRoom, DeskTypeOK
  <2>4. QED
    BY <1>7, <2>3 DEF AssistantAnswers, DeskTypeOK
<1>8. QED
  BY <1>1, <1>2, <1>3, <1>4, <1>5, <1>6, <1>7 DEF ShopperSteps

LEMMA AnswerHasRoomStep ==
    ASSUME DeskTypeOK, AnswerHasRoom, DeskNext
    PROVE  AnswerHasRoom'
<1> USE DeskAssumption
<1>1. CASE TimePasses
  BY <1>1 DEF TimePasses, AnswerHasRoom
<1>2. CASE ShopperMessageStored
  <2>1. PICK x \in Texts : ticket' = Append(ticket, Written("shopper", NoAdmin, x))
    BY <1>2 DEF ShopperMessageStored
  <2>2. Written("shopper", NoAdmin, x) \in TicketMessage
    BY WrittenType
  <2>3. QED
    BY <1>2, <2>1, <2>2, AppendType DEF ShopperMessageStored, TicketHasRoom, AnswerHasRoom, DeskTypeOK
<1>3. CASE ShopperTurnReads \/ ShopperTurnReadsAgain \/ AssistantAnswers \/ ShopperTurnEnds
           \/ CloseByConversationId
  BY <1>3 DEF ShopperTurnReads, ShopperTurnReadsAgain, AssistantAnswers, ShopperTurnEnds,
              CloseByConversationId, AnswerHasRoom
<1>4. ASSUME NEW from, NEW a, Mutates(from, a)
      PROVE  AnswerHasRoom'
  <2>1. PICK i \in DOMAIN ticket :
           \/ \E x \in Texts : ticket' = [ticket EXCEPT ![i].text = x]
           \/ ticket' = [ticket EXCEPT ![i].deleted = TRUE]
    BY <1>4 DEF Mutates
  <2>2. Texts # {}
    BY <2>1 DEF DeskTypeOK, TicketMessage
  <2>3. Len(ticket') = Len(ticket)
    BY <2>1, <2>2, MutatedType
  <2>4. QED
    BY <1>4, <2>3 DEF Mutates, AnswerHasRoom
<1>5. ASSUME NEW a \in Admins, ReplyToCase(a)
      PROVE  AnswerHasRoom'
  <2>1. PICK x \in Texts : ticket' = Append(ticket, Written("agent", a, x))
    BY <1>5 DEF ReplyToCase
  <2>2. Written("agent", a, x) \in TicketMessage
    BY WrittenType
  <2>3. QED
    BY <1>5, <2>1, <2>2, AppendType DEF ReplyToCase, TicketHasRoom, AnswerHasRoom, DeskTypeOK
<1>6. ASSUME NEW a \in Admins,
             \/ Claim(a) \/ ReleaseCase(a) \/ HeartbeatReadsClock(a) \/ Heartbeat(a)
             \/ MassStatusReads(a) \/ MassStatusSaves(a)
      PROVE  AnswerHasRoom'
  BY <1>6 DEF Claim, ReleaseCase, HeartbeatReadsClock, Heartbeat, MassStatusReads,
              MassStatusSaves, AnswerHasRoom
<1>7. QED
  BY <1>1, <1>2, <1>3, <1>4, <1>5, <1>6 DEF DeskNext, ShopperSteps, AgentSteps

LEMMA DeskTypeStep ==
    DeskTypeOK /\ AnswerHasRoom /\ [DeskNext]_deskVars => (DeskTypeOK /\ AnswerHasRoom)'
<1> SUFFICES ASSUME DeskTypeOK, AnswerHasRoom, [DeskNext]_deskVars
             PROVE  (DeskTypeOK /\ AnswerHasRoom)'
  OBVIOUS
<1>1. CASE UNCHANGED deskVars
  BY <1>1 DEF deskVars, DeskTypeOK, AnswerHasRoom
<1>2. CASE DeskNext
  <2>1. CASE TimePasses
    <3>1. now' \in 1..MaxTime
      BY <2>1, DeskAssumption DEF TimePasses, DeskTypeOK
    <3>2. QED
      BY <2>1, <3>1 DEF TimePasses, DeskTypeOK, AnswerHasRoom
  <2>2. ASSUME NEW a \in Admins, AgentSteps(a)
        PROVE  DeskTypeOK'
    BY <2>2, DeskTypeLocked, DeskTypeMutates, DeskTypeUnlocked DEF AgentSteps
  <2>3. QED
    BY <1>2, <2>1, <2>2, DeskTypeShopper, AnswerHasRoomStep DEF DeskNext
<1>3. QED
  BY <1>1, <1>2

LEMMA DeskTypeInit == DeskInit => DeskTypeOK /\ AnswerHasRoom
<1> SUFFICES ASSUME DeskInit PROVE DeskTypeOK /\ AnswerHasRoom
  OBVIOUS
<1> USE DeskAssumption
<1>1. PICK x \in Texts : ticket = <<Written("shopper", NoAdmin, x)>>
  BY DEF DeskInit
<1>2. Written("shopper", NoAdmin, x) \in TicketMessage
  BY DEF Written, TicketMessage, DeskInit
<1>3. ticket \in Seq(TicketMessage) /\ Len(ticket) = 1
  BY <1>1, <1>2
<1>4. case \in Case
  BY DEF DeskInit, Case, ActiveStatuses
<1>5. QED
  BY <1>3, <1>4 DEF DeskInit, DeskTypeOK, AnswerHasRoom

LEMMA DeskTypeAndRoom == DeskSpec => [](DeskTypeOK /\ AnswerHasRoom)
BY DeskTypeInit, DeskTypeStep, PTL DEF DeskSpec

\* The type invariant of the support desk: a ticket's row and messages stay
\* within their columns whatever agents and shopper do to it.
THEOREM DeskTypeCorrect == DeskSpec => []DeskTypeOK
BY DeskTypeAndRoom, PTL

-----------------------------------------------------------------------------
(***************************************************************************)
(* A closed case.                                                          *)
(***************************************************************************)

LEMMA NoTakeoverAgents ==
    ASSUME DeskTypeOK, ClosedCaseHasNoTakeover, NEW a \in Admins, AgentSteps(a)
    PROVE  ClosedCaseHasNoTakeover'
<1> USE DEF ClosedCaseHasNoTakeover, Closed, ClosedStatuses
<1>1. CASE Claim(a)
  BY <1>1 DEF Claim
<1>2. CASE ReleaseCase(a)
  <2>1. case'.status = "waiting_customer"
    BY <1>2 DEF ReleaseCase, DeskTypeOK, Case
  <2>2. QED
    BY <2>1
<1>3. CASE ReplyToCase(a)
  <2>1. case'.status = "waiting_customer"
    BY <1>3 DEF ReplyToCase, DeskTypeOK, Case
  <2>2. QED
    BY <2>1
<1>4. CASE Mutates("agent", a)
  BY <1>4 DEF Mutates
\* A closed case has no active takeover whose lease a heartbeat could extend.
<1>5. CASE Heartbeat(a)
  <2>1. CASE Closed
    BY <1>5, <2>1 DEF Heartbeat
  <2>2. CASE ~Closed
    <3>1. case'.status = case.status
      BY <1>5 DEF Heartbeat, DeskTypeOK, Case
    <3>2. QED
      BY <2>2, <3>1
  <2>3. QED
    BY <2>1, <2>2
<1>6. CASE HeartbeatReadsClock(a) \/ MassStatusReads(a)
  BY <1>6 DEF HeartbeatReadsClock, MassStatusReads
\* Whichever row is saved, its status is written together with the takeover.
<1>7. CASE MassStatusSaves(a)
  <2>1. massUpdate[a] \in Case \X Statuses
    BY <1>7 DEF MassStatusSaves, DeskTypeOK, Statuses
  <2>2. PICK row \in Case : case' = MassSet(row, a, massUpdate[a][2])
    BY <1>7, <2>1 DEF MassStatusSaves, DeskTypeOK
  <2>3. PICK s \in Statuses : s = massUpdate[a][2]
    BY <2>1
  <2>4. /\ case'.status = s
        /\ case'.takeover = IF EndsTakeover(s) THEN "inactive" ELSE row.takeover
        /\ case'.lease = IF EndsTakeover(s) THEN 0 ELSE row.lease
    BY <2>2, <2>3 DEF MassSet, Case
  <2>5. QED
    BY <2>4 DEF EndsTakeover
<1>8. QED
  BY <1>1, <1>2, <1>3, <1>4, <1>5, <1>6, <1>7 DEF AgentSteps

LEMMA NoTakeoverStep ==
    DeskTypeOK /\ ClosedCaseHasNoTakeover /\ [DeskNext]_deskVars => ClosedCaseHasNoTakeover'
<1> SUFFICES ASSUME DeskTypeOK, ClosedCaseHasNoTakeover, [DeskNext]_deskVars
             PROVE  ClosedCaseHasNoTakeover'
  OBVIOUS
<1>1. CASE UNCHANGED case
  BY <1>1 DEF ClosedCaseHasNoTakeover, Closed
<1>2. CASE ShopperMessageStored
  <2>1. CASE Closed
    BY <1>2, <1>1, <2>1 DEF ShopperMessageStored
  <2>2. CASE ~Closed
    <3>1. case'.status = "open"
      BY <1>2, <2>2 DEF ShopperMessageStored, DeskTypeOK, Case
    <3>2. QED
      BY <3>1 DEF ClosedCaseHasNoTakeover, Closed, ClosedStatuses
  <2>3. QED
    BY <2>1, <2>2
<1>3. CASE CloseByConversationId
  <2>1. case'.takeover = "inactive" /\ case'.lease = 0
    BY <1>3 DEF CloseByConversationId, DeskTypeOK, Case
  <2>2. QED
    BY <2>1 DEF ClosedCaseHasNoTakeover
<1>4. CASE TimePasses \/ ShopperTurnReads \/ ShopperTurnReadsAgain \/ AssistantAnswers
           \/ ShopperTurnEnds \/ Mutates("shopper", NoAdmin)
  BY <1>1, <1>4 DEF TimePasses, ShopperTurnReads, ShopperTurnReadsAgain, AssistantAnswers,
                    ShopperTurnEnds, Mutates
<1>5. QED
  BY <1>1, <1>2, <1>3, <1>4, NoTakeoverAgents DEF DeskNext, ShopperSteps, deskVars

\* A closed case is taken over by nobody, whoever closed it and whatever claim,
\* heartbeat or mass update was under way.
THEOREM ClosedCaseCorrect == DeskSpec => []ClosedCaseHasNoTakeover
<1>1. DeskInit => ClosedCaseHasNoTakeover
  BY DEF DeskInit, ClosedCaseHasNoTakeover, Closed, ClosedStatuses
<1>2. QED
  BY <1>1, DeskTypeAndRoom, NoTakeoverStep, PTL DEF DeskSpec

\* What a step appends comes from no agent, and it leaves the other messages.
LEMMA AppendsOnly ==
    ASSUME DeskTypeOK, NEW from \in {"shopper", "assistant"}, NEW x \in Texts,
           ticket' = Append(ticket, Written(from, NoAdmin, x))
    PROVE  /\ \A i \in DOMAIN ticket : ticket'[i] = ticket[i]
           /\ \A i \in DOMAIN ticket' \ DOMAIN ticket : ticket'[i].from # "agent"
<1>1. Written(from, NoAdmin, x) \in TicketMessage /\ Written(from, NoAdmin, x).from = from
  BY WrittenType DEF Written
<1>2. ticket \in Seq(TicketMessage)
  BY DEF DeskTypeOK
<1>3. \A i \in DOMAIN ticket : ticket'[i] = ticket[i]
  BY <1>1, <1>2
<1>4. \A i \in DOMAIN ticket' \ DOMAIN ticket : ticket'[i] = Written(from, NoAdmin, x)
  BY <1>1, <1>2
<1>5. QED
  BY <1>1, <1>3, <1>4

\* A closed ticket is edited by nobody and answered by no agent.
THEOREM ClosedReadOnlyCorrect == DeskSpec => ClosedCaseIsReadOnly
<1>1. ASSUME DeskTypeOK, [DeskNext]_deskVars
      PROVE  [Closed =>
                /\ \A i \in DOMAIN ticket : ticket'[i] = ticket[i]
                /\ \A i \in DOMAIN ticket' \ DOMAIN ticket : ticket'[i].from # "agent"]_deskVars
  <2> SUFFICES ASSUME Closed, DeskNext
               PROVE  /\ \A i \in DOMAIN ticket : ticket'[i] = ticket[i]
                      /\ \A i \in DOMAIN ticket' \ DOMAIN ticket : ticket'[i].from # "agent"
    BY <1>1
  <2>1. CASE UNCHANGED ticket
    BY <2>1
  <2>2. CASE ShopperMessageStored
    BY <1>1, <2>2, AppendsOnly DEF ShopperMessageStored
  <2>3. CASE AssistantAnswers
    BY <1>1, <2>3, AppendsOnly DEF AssistantAnswers
  <2>4. ASSUME NEW a \in Admins, AgentSteps(a)
        PROVE  UNCHANGED ticket
    BY <2>4 DEF AgentSteps, Claim, ReleaseCase, ReplyToCase, Answerable, Mutates,
                HeartbeatReadsClock, Heartbeat, MassStatusReads, MassStatusSaves
  <2>5. CASE TimePasses \/ ShopperTurnReads \/ ShopperTurnReadsAgain \/ ShopperTurnEnds
             \/ CloseByConversationId \/ Mutates("shopper", NoAdmin)
    BY <2>1, <2>5 DEF TimePasses, ShopperTurnReads, ShopperTurnReadsAgain, ShopperTurnEnds,
                      CloseByConversationId, Mutates
  <2>6. QED
    BY <2>1, <2>2, <2>3, <2>4, <2>5 DEF DeskNext, ShopperSteps
<1>2. QED
  BY <1>1, DeskTypeAndRoom, PTL DEF DeskSpec, ClosedCaseIsReadOnly

\* The services beside each other do what each of them does alone.
LEMMA ServicesParts ==
    ServicesSpec => AdmissionSpec /\ HistorySpec /\ DeskSpec /\ VerificationSpec /\ CartSpec /\ Spec
<1>1. ServicesInit => AdmissionInit /\ HistoryInit /\ DeskInit /\ VerificationInit /\ CartInit /\ Init
  BY DEF ServicesInit
<1>2. [ServicesNext]_<<part, servicesVars>> =>
         /\ [AdmissionNext]_admissionVars /\ [HistoryNext]_historyVars /\ [DeskNext]_deskVars
         /\ [VerificationNext]_verificationVars /\ [CartNext]_cartVars /\ [Next]_vars
  BY DEF ServicesNext, servicesVars, AdmissionPart, HistoryPart, DeskPart, VerificationPart,
         CartPart, CapacityPart
<1>3. QED
  BY <1>1, <1>2, PTL
     DEF ServicesSpec, AdmissionSpec, HistorySpec, DeskSpec, VerificationSpec, CartSpec, Spec

\* The state of every service is well typed while all of them work beside
\* each other.
THEOREM ServicesTypeCorrect == ServicesSpec => []ServicesTypeOK
<1>1. /\ AdmissionTypeOK /\ HistoryTypeOK /\ DeskTypeOK
      /\ VerificationTypeOK /\ CartTypeOK /\ TypeOK
      => ServicesTypeOK
  BY DEF ServicesTypeOK
<1>2. QED
  BY <1>1, ServicesParts, AdmissionTypeCorrect, HistoryTypeCorrect, DeskTypeCorrect,
     VerificationTypeCorrect, CartTypeCorrect, TypeCorrect, PTL
=============================================================================
