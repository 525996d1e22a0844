--------------------------- MODULE GatewayCapacity ---------------------------
(***************************************************************************)
(* Admission to the model providers: a queue and a semaphore of leases,    *)
(* two sorted sets in Redis that every gateway replica shares.  Each       *)
(* request carries a fresh token; the scripts run atomically in Redis, and *)
(* between two calls of one request any other request, the clock, a failed *)
(* call or a crash of the replica can come in.                             *)
(***************************************************************************)
EXTENDS Integers, FiniteSets

CONSTANTS
    Req,            \* requests; the number is the order of their tokens
    Concurrency,    \* leases the semaphore gives out
    MaxQueue,       \* entries the queue holds
    QueueWait,      \* how long a request waits, and its entry counts
    Lease,          \* life of a lease that is not renewed
    SendDelay       \* how late a registration reaches Redis after startedAt

ASSUME CapacityAssumption ==
    /\ IsFiniteSet(Req) /\ Req \subseteq Nat
    /\ Concurrency \in Nat \ {0}
    /\ MaxQueue \in Nat
    /\ QueueWait \in Nat \ {0}
    /\ Lease \in Nat \ {0, 1}
    /\ SendDelay \in Nat

VARIABLES
    pc,         \* where each request is
    wait,       \* time since its startedAt
    queue,      \* tokens in the queue's sorted set (its score is startedAt)
    sem,        \* tokens in the semaphore's sorted set
    lease,      \* time until their score, the expiry; 0: expired
    aborted     \* requests whose abort signal has fired

vars == <<pc, wait, queue, sem, lease, aborted>>

Step == {"new", "arriving", "queued", "polling", "head", "granted", "running",
         "done",    \* settled, every Redis call answered
         "lost"}    \* crashed, or settled after a call that failed
WaitCap == QueueWait + SendDelay

Waiting(r) == pc[r] \in {"arriving", "queued", "polling", "head"}

TypeOK ==
    /\ pc \in [Req -> Step]
    /\ wait \in [Req -> 0..WaitCap]
    /\ queue \subseteq Req
    /\ sem \subseteq Req
    /\ lease \in [Req -> 0..Lease]
    /\ aborted \subseteq Req

Init ==
    /\ pc = [r \in Req |-> "new"]
    /\ wait = [r \in Req |-> 0]
    /\ queue = {}
    /\ sem = {}
    /\ lease = [r \in Req |-> 0]
    /\ aborted = {}

Goto(r, step) == pc' = [pc EXCEPT ![r] = step]

\* startedAt is read; the registration is on its way to Redis.
Arrive(r) ==
    /\ pc[r] = "new"
    /\ wait' = [wait EXCEPT ![r] = 0]
    /\ Goto(r, "arriving")
    /\ UNCHANGED <<queue, sem, lease, aborted>>

\* Mutant: a registration takes entries for stale one unit of time too soon.
StaleTooSoon(r) == {q \in queue : wait[q] - wait[r] >= QueueWait - 1}

\* Entries QueueWait older than r's startedAt.
Stale(r) == {q \in queue : wait[q] - wait[r] >= QueueWait}

HasPlace(entries) == Cardinality(entries) < MaxQueue

\* QUEUE_REGISTER_SCRIPT.
Registered(r) ==
    LET kept == queue \ Stale(r) IN
    queue' = IF HasPlace(kept) THEN kept \union {r} ELSE kept

\* A full queue answers QUEUE_FULL.
Register(r) ==
    /\ pc[r] = "arriving"
    /\ Registered(r)
    /\ Goto(r, IF r \in queue' THEN "queued" ELSE "done")
    /\ UNCHANGED <<wait, sem, lease, aborted>>

\* The finally block: the entry is removed, whatever ended the wait.
LeaveQueue(r) ==
    /\ queue' = queue \ {r}
    /\ Goto(r, "done")
    /\ UNCHANGED <<wait, sem, lease, aborted>>

\* Mutant: only an abort ends the wait.
OnlyAborted(r) == r \in aborted

GivesUp(r) == wait[r] >= QueueWait \/ r \in aborted

\* The top of the loop: QUEUE_TIMEOUT, ABORTED or one more poll.
CheckWait(r) ==
    /\ pc[r] = "queued"
    /\ \/ GivesUp(r) /\ LeaveQueue(r)
       \/ ~GivesUp(r) /\ Goto(r, "polling") /\ UNCHANGED <<wait, queue, sem, lease, aborted>>

\* The order of the sorted set: the earlier startedAt, then the token.
Before(q, r) == wait[q] > wait[r] \/ (wait[q] = wait[r] /\ q < r)
RankZero(r)  == \A q \in queue : ~Before(q, r)

\* zrank: null answers QUEUE_EXPIRED, any rank but 0 sleeps and polls again.
Poll(r) ==
    /\ pc[r] = "polling"
    /\ \/ r \notin queue /\ LeaveQueue(r)
       \/ /\ r \in queue
          /\ Goto(r, IF RankZero(r) THEN "head" ELSE "queued")
          /\ UNCHANGED <<wait, queue, sem, lease, aborted>>

\* Mutant: a lease is purged in its last unit of time.
UnexpiredTooSoon == {s \in sem : lease[s] > 1}

Unexpired == {s \in sem : lease[s] > 0}
HasSlot   == Cardinality(Unexpired) < Concurrency

\* SEMAPHORE_ACQUIRE_SCRIPT: expired leases go first; then there is room or not.
Acquired(r) ==
    IF HasSlot
    THEN sem' = Unexpired \union {r} /\ lease' = [lease EXCEPT ![r] = Lease]
    ELSE sem' = Unexpired /\ UNCHANGED lease

TryAcquire(r) ==
    /\ pc[r] = "head"
    /\ Acquired(r)
    /\ Goto(r, IF HasSlot THEN "granted" ELSE "queued")
    /\ UNCHANGED <<wait, queue, aborted>>

\* The entry is removed and the run starts, with its heartbeat.
Dequeue(r) ==
    /\ pc[r] = "granted"
    /\ queue' = queue \ {r}
    /\ Goto(r, "running")
    /\ UNCHANGED <<wait, sem, lease, aborted>>

\* zrem is refused after the lease was granted: the request ends with an
\* error and nobody holds its lease; the finally block may remove the entry.
DequeueFails(r) ==
    /\ pc[r] = "granted"
    /\ queue' \in {queue, queue \ {r}}
    /\ Goto(r, "lost")
    /\ UNCHANGED <<wait, sem, lease, aborted>>

\* SEMAPHORE_RENEW_SCRIPT; the heartbeat ignores the answer "not a member".
Renewed(r) == lease' = [lease EXCEPT ![r] = IF r \in sem THEN Lease ELSE @]

\* Mutant: the heartbeat is not cleared when the handler ends.
RenewForever(r) ==
    /\ pc[r] \in {"running", "done", "lost"}
    /\ Renewed(r)
    /\ UNCHANGED <<pc, wait, queue, sem, aborted>>

Renew(r) ==
    /\ pc[r] = "running"
    /\ Renewed(r)
    /\ UNCHANGED <<pc, wait, queue, sem, aborted>>

\* The call is refused: the heartbeat aborts the run.
RenewFails(r) ==
    /\ pc[r] = "running"
    /\ aborted' = aborted \union {r}
    /\ UNCHANGED <<pc, wait, queue, sem, lease>>

\* The run ends, in whatever way: heartbeat and lease are given up.
Release(r) ==
    /\ pc[r] = "running"
    /\ sem' = sem \ {r}
    /\ Goto(r, "done")
    /\ UNCHANGED <<wait, queue, lease, aborted>>

\* ... and a release that is refused is ignored.
ReleaseFails(r) ==
    /\ pc[r] = "running"
    /\ sem' \in {sem, sem \ {r}}
    /\ Goto(r, "lost")
    /\ UNCHANGED <<wait, queue, lease, aborted>>

\* The shopper, or the loss of her connection, cancels the turn.
Cancel(r) ==
    /\ Waiting(r) \/ pc[r] \in {"granted", "running"}
    /\ aborted' = aborted \union {r}
    /\ UNCHANGED <<pc, wait, queue, sem, lease>>

\* A call fails before Redis ran it, or its answer is lost: acquireCapacity
\* throws, and once r is registered the finally block tries to remove it.
RegisterFails(r) ==
    /\ pc[r] = "arriving"
    /\ Registered(r) \/ UNCHANGED queue
    /\ Goto(r, "lost")
    /\ UNCHANGED <<wait, sem, lease, aborted>>

AcquireFails(r) ==
    /\ \/ pc[r] = "head" /\ Acquired(r)
       \/ pc[r] \in {"polling", "head"} /\ UNCHANGED <<sem, lease>>
       \/ pc[r] = "queued" /\ GivesUp(r) /\ UNCHANGED <<sem, lease>>
    /\ queue' \in {queue, queue \ {r}}
    /\ Goto(r, "lost")
    /\ UNCHANGED <<wait, aborted>>

\* The replica dies; what it wrote to Redis stays.
Crash(r) ==
    /\ Waiting(r) \/ pc[r] \in {"granted", "running"}
    /\ Goto(r, "lost")
    /\ UNCHANGED <<wait, queue, sem, lease, aborted>>

\* PEXPIRE: Redis drops a whole sorted set once every member is past its time.
KeyExpires ==
    /\ \/ /\ queue # {} /\ \A q \in queue : wait[q] = WaitCap
          /\ queue' = {} /\ UNCHANGED sem
       \/ /\ sem # {} /\ Unexpired = {}
          /\ sem' = {} /\ UNCHANGED queue
    /\ UNCHANGED <<pc, wait, lease, aborted>>

\* Timing assumptions: the heartbeat (every third of a lease) renews before
\* the lease runs out, as does the zrem before it; a registration is not
\* delayed by more than SendDelay.
OnTime(r) ==
    /\ pc[r] \in {"granted", "running"} /\ r \notin aborted => lease[r] > 1
    /\ pc[r] = "arriving" => wait[r] < SendDelay

\* One unit of time.  Ages stop counting where no guard tells them apart.
Tick ==
    /\ \A r \in Req : OnTime(r)
    /\ wait' = [r \in Req |-> IF (Waiting(r) \/ r \in queue) /\ wait[r] < WaitCap
                              THEN wait[r] + 1 ELSE wait[r]]
    /\ lease' = [r \in Req |-> IF lease[r] > 0 THEN lease[r] - 1 ELSE 0]
    /\ UNCHANGED <<pc, queue, sem, aborted>>

Work(r) == CheckWait(r) \/ Poll(r) \/ TryAcquire(r) \/ Dequeue(r) \/ Register(r)
Fault(r) ==
    \/ RegisterFails(r) \/ AcquireFails(r) \/ DequeueFails(r)
    \/ RenewFails(r) \/ ReleaseFails(r) \/ Crash(r)

Next ==
    \/ \E r \in Req : \/ Work(r) \/ Fault(r) \/ Arrive(r)
                      \/ Renew(r) \/ Release(r) \/ Cancel(r)
    \/ KeyExpires
    \/ Tick

Spec == Init /\ [][Next]_vars

\* Redis answers, time passes, a heartbeat beats and a run comes to its end.
FairSpec ==
    /\ Spec
    /\ WF_vars(Tick)
    /\ \A r \in Req : WF_vars(Work(r)) /\ WF_vars(Renew(r)) /\ WF_vars(Release(r))

-----------------------------------------------------------------------------
(***************************************************************************)
(* Properties.                                                             *)
(***************************************************************************)

LiveRuns == {r \in Req : pc[r] \in {"granted", "running"} /\ r \notin aborted}

\* No more runs talk to a provider than the semaphore has leases, whatever
\* replicas crashed, calls failed or leases expired before.
RunsWithinConcurrency == Cardinality(LiveRuns) <= Concurrency

\* A run that has not been told to stop holds a lease that has not expired.
LiveRunHoldsLease == \A r \in LiveRuns : r \in sem /\ lease[r] > 0

\* The queue never holds more entries than it may, dead ones included.
QueueBounded == Cardinality(queue) <= MaxQueue

\* A request keeps its place until its own wait is over: no other
\* registration takes a live entry for a stale one.
PlaceKept ==
    \A r \in Req : pc[r] \in {"queued", "polling", "head"} /\ wait[r] < QueueWait
                       => r \in queue

\* A request that ends without a failed call leaves neither a queue entry
\* that others would wait behind nor a lease.
CleanExit == \A r \in Req : pc[r] = "done" => r \notin queue /\ r \notin sem

\* Every waiting request is let in or refused, even behind a dead entry at
\* the head of the queue that nothing removes.
WaiterSettles == \A r \in Req : Waiting(r) ~> ~Waiting(r)

\* Every lease is given up or expires: none is kept by a run that is gone.
LeaseEnds == \A r \in Req : (r \in sem /\ lease[r] > 0) ~> (r \notin sem \/ lease[r] = 0)
=============================================================================
