--------------------------- MODULE AttachmentUpload ---------------------------
(***************************************************************************)
(* The ticketed attachment upload: initiate, upload and complete, as run   *)
(* by concurrent PHP workers, and the quota reconciler the cron runs       *)
(* beside them.  The durable state is three MySQL tables (attachment,      *)
(* reservation, quota) and the files under var/afd_ai/chat.                *)
(*                                                                         *)
(* A database transaction is one step.  Everything between two             *)
(* transactions is a place where another worker, the reconciler, the clock *)
(* or a crash can come in.                                                 *)
(***************************************************************************)
EXTENDS Integers, FiniteSets

CONSTANTS
    Att,            \* attachment ids, each with the reservation made for it
    Owner,          \* owner paths
    OwnerOf,        \* [Att -> Owner]: the shopper whose ticket it is
    Module,         \* the scope key of the global quota row
    Worker,         \* PHP workers
    NoAtt,          \* "this worker serves no attachment"
    MaxImage,       \* bytes a single image may have
    OwnerLimit, GlobalLimit,
    TicketTTL,      \* life of a ticket and of its reservation (300 s)
    FinalizeLease,  \* a finalizer younger than this is left alone (30 s)
    StaleLease,     \* the reconciler recovers older finalizers (60 s)
    ReaperGrace     \* how long past its expiry a reservation is reaped (600 s)

ASSUME AttachmentAssumption ==
    /\ OwnerOf \in [Att -> Owner]
    /\ IsFiniteSet(Att) /\ IsFiniteSet(Worker)
    /\ Module \notin Owner
    /\ NoAtt \notin Att
    /\ {MaxImage, OwnerLimit, GlobalLimit} \subseteq Nat
    /\ {FinalizeLease, StaleLease, TicketTTL, ReaperGrace} \subseteq Nat
    /\ FinalizeLease < StaleLease /\ StaleLease < TicketTTL

VARIABLES
    state,      \* afd_ai_attachment.state; "none" before the row exists
    path,       \* afd_ai_attachment.final_path: the directory it names
    since,      \* age of updated_at, kept while the row is finalizing
    res,        \* afd_ai_attachment_reservation.state
    granted,    \* its reserved_bytes
    age,        \* time since the ticket was signed
    dir,        \* the directory that holds the attachment's file
    size,       \* and the size of that file
    used, reserved,     \* afd_ai_attachment_quota, one row per scope
    pc, job, amount,    \* workers: next step, attachment, bytes at hand
    rec         \* reconciler: the rows in its snapshot, while it runs

rows     == <<state, path, since, res, granted, age>>
disk     == <<dir, size>>
quota    == <<used, reserved>>
workers  == <<pc, job, amount>>
vars     == <<rows, disk, quota, workers, rec>>

Scope       == Owner \union {Module}
ScopesOf(a) == {OwnerOf[a], Module}
Limit(s)    == IF s = Module THEN GlobalLimit ELSE OwnerLimit

AgeCap   == TicketTTL + ReaperGrace + 1
SinceCap == StaleLease + 1

AttState == {"none", "issued", "uploading", "staged", "finalizing",
             "committed", "failed", "expired"}
ResState == {"none", "active", "committed", "released", "expired"}
Dir      == {"none", "staged", "final"}
Step     == {"idle", "reserved", "issued",          \* initiate
             "received", "claimed", "renamed",      \* upload
             "marked", "moving", "located"}         \* complete

TypeOK ==
    /\ state \in [Att -> AttState]
    /\ path \in [Att -> Dir]
    /\ since \in [Att -> 0..SinceCap]
    /\ res \in [Att -> ResState]
    /\ granted \in [Att -> 0..MaxImage]
    /\ age \in [Att -> 0..AgeCap]
    /\ dir \in [Att -> Dir]
    /\ size \in [Att -> 0..MaxImage]
    /\ used \in [Scope -> Nat]
    /\ reserved \in [Scope -> Nat]
    /\ pc \in [Worker -> Step]
    /\ job \in [Worker -> Att \union {NoAtt}]
    /\ amount \in [Worker -> 0..MaxImage]
    /\ rec \in [on: BOOLEAN, owners: SUBSET Owner, stale: SUBSET Att]

RecIdle == [on |-> FALSE, owners |-> {}, stale |-> {}]

Init ==
    /\ state = [a \in Att |-> "none"]
    /\ path = [a \in Att |-> "none"]
    /\ since = [a \in Att |-> 0]
    /\ res = [a \in Att |-> "none"]
    /\ granted = [a \in Att |-> 0]
    /\ age = [a \in Att |-> 0]
    /\ dir = [a \in Att |-> "none"]
    /\ size = [a \in Att |-> 0]
    /\ used = [s \in Scope |-> 0]
    /\ reserved = [s \in Scope |-> 0]
    /\ pc = [w \in Worker |-> "idle"]
    /\ job = [w \in Worker |-> NoAtt]
    /\ amount = [w \in Worker |-> 0]
    /\ rec = RecIdle

Idle(w) == pc[w] = "idle"

\* Worker w goes on with attachment a and b bytes, or is done with its request.
Goto(w, step, a, b) ==
    /\ pc' = [pc EXCEPT ![w] = step]
    /\ job' = [job EXCEPT ![w] = a]
    /\ amount' = [amount EXCEPT ![w] = b]

Done(w) == Goto(w, "idle", NoAtt, 0)

\* The quota counter never goes below zero: max(0, reserved - bytes).
Minus(n, b) == IF b \in 0..n THEN n - b ELSE 0

(***************************************************************************)
(* initiate: the quota, the attachment row and the reservation row are     *)
(* written by three transactions.                                          *)
(***************************************************************************)

HasRoom(a, b) == \A s \in ScopesOf(a) : used[s] + reserved[s] + b <= Limit(s)

Reserve(w, a, b) ==
    /\ Idle(w)
    /\ state[a] = "none"
    /\ \A v \in Worker : job[v] # a             \* the id is fresh
    /\ HasRoom(a, b)
    /\ reserved' = [s \in Scope |->
                      IF s \in ScopesOf(a) THEN reserved[s] + b ELSE reserved[s]]
    /\ Goto(w, "reserved", a, b)
    /\ UNCHANGED <<rows, disk, used, rec>>

RecordIssued(w) ==
    LET a == job[w] IN
    /\ pc[w] = "reserved"
    /\ state' = [state EXCEPT ![a] = "issued"]
    /\ age' = [age EXCEPT ![a] = 0]
    /\ Goto(w, "issued", a, amount[w])
    /\ UNCHANGED <<path, since, res, granted, disk, quota, rec>>

RecordReservation(w) ==
    LET a == job[w] IN
    /\ pc[w] = "issued"
    /\ res' = [res EXCEPT ![a] = "active"]
    /\ granted' = [granted EXCEPT ![a] = amount[w]]
    /\ Done(w)
    /\ UNCHANGED <<state, path, since, age, disk, quota, rec>>

\* The shopper holds a signed ticket for a that has not expired.
TicketValid(a) == res[a] # "none" /\ age[a] <= TicketTTL

(***************************************************************************)
(* upload: the body is streamed to a temporary file of at most MaxImage    *)
(* bytes, whatever size the ticket declared; the ticket is then claimed.   *)
(* A request refused before the claim removes its temporary file and       *)
(* changes nothing.                                                        *)
(***************************************************************************)

Receive(w, a, b) ==
    /\ Idle(w)
    /\ TicketValid(a)
    /\ Goto(w, "received", a, b)
    /\ UNCHANGED <<rows, disk, quota, rec>>

\* Mutant: the claim forgets that the ticket must still be unused.
ReplayedClaim(w) ==
    /\ pc[w] = "received"
    /\ state' = [state EXCEPT ![job[w]] = "uploading"]
    /\ Goto(w, "claimed", job[w], amount[w])
    /\ UNCHANGED <<path, since, res, granted, age, disk, quota, rec>>

ClaimForUpload(w) ==
    LET a == job[w] IN
    /\ pc[w] = "received"
    /\ IF state[a] = "issued" /\ age[a] <= TicketTTL
       THEN /\ state' = [state EXCEPT ![a] = "uploading"]
            /\ Goto(w, "claimed", a, amount[w])
       ELSE /\ Done(w)
            /\ UNCHANGED state
    /\ UNCHANGED <<path, since, res, granted, age, disk, quota, rec>>

StageFile(w) ==
    LET a == job[w] IN
    /\ pc[w] = "claimed"
    /\ dir' = [dir EXCEPT ![a] = "staged"]
    /\ size' = [size EXCEPT ![a] = amount[w]]
    /\ Goto(w, "renamed", a, amount[w])
    /\ UNCHANGED <<rows, quota, rec>>

\* The rename fails: releaseUploadClaim gives the ticket back.
StageFileFails(w) ==
    LET a == job[w] IN
    /\ pc[w] = "claimed"
    /\ state' = [state EXCEPT ![a] = IF @ = "uploading" THEN "issued" ELSE @]
    /\ Done(w)
    /\ UNCHANGED <<path, since, res, granted, age, disk, quota, rec>>

\* A refused update removes the file; the claim is then no longer ours.
RecordStaged(w) ==
    LET a == job[w] IN
    /\ pc[w] = "renamed"
    /\ IF state[a] = "uploading"
       THEN /\ state' = [state EXCEPT ![a] = "staged"]
            /\ UNCHANGED disk
       ELSE /\ dir' = [dir EXCEPT ![a] = "none"]
            /\ size' = [size EXCEPT ![a] = 0]
            /\ UNCHANGED state
    /\ Done(w)
    /\ UNCHANGED <<path, since, res, granted, age, quota, rec>>

(***************************************************************************)
(* complete: take the finalizing lease, find the file and move it to       *)
(* final/, then settle attachment, reservation and quota in one            *)
(* transaction.                                                            *)
(***************************************************************************)

CanFinalize(a) ==
    \/ state[a] \in {"issued", "staged"}
    \/ state[a] = "finalizing" /\ since[a] > FinalizeLease

\* A request that may not finalize only reports "committed" or "in progress".
TryMarkFinalizing(w, a) ==
    /\ Idle(w)
    /\ TicketValid(a)
    /\ CanFinalize(a)
    /\ state' = [state EXCEPT ![a] = "finalizing"]
    /\ since' = [since EXCEPT ![a] = 0]
    /\ Goto(w, "marked", a, 0)
    /\ UNCHANGED <<path, res, granted, age, disk, quota, rec>>

\* isFile is asked of final/ and then of staged/; with no file the request
\* fails and leaves the row finalizing.
FindFile(w) ==
    LET a == job[w] IN
    /\ pc[w] = "marked"
    /\ \/ dir[a] = "final"  /\ Goto(w, "located", a, size[a])
       \/ dir[a] = "staged" /\ Goto(w, "moving", a, size[a])
       \/ dir[a] = "none"   /\ Done(w)
    /\ UNCHANGED <<rows, disk, quota, rec>>

MoveToFinal(w) ==
    LET a == job[w] IN
    /\ pc[w] = "moving"
    /\ dir[a] = "staged"
    /\ dir' = [dir EXCEPT ![a] = "final"]
    /\ Goto(w, "located", a, amount[w])
    /\ UNCHANGED <<rows, size, quota, rec>>

\* The path complete hands to the commit: staged/ when its own move failed,
\* be it by an I/O error or because another finalizer moved the file first.
\* A worker whose move failed stays in "moving" and commits from there.
FoundIn(w) == IF pc[w] = "moving" THEN "staged" ELSE "final"

CommitAllowed(a) ==
    /\ res[a] = "active"
    /\ age[a] <= TicketTTL
    /\ state[a] = "finalizing"

\* Mutant: the commit gives back the file's size, not what was reserved.
SettleFileSize(a, b) ==
    /\ reserved' = [s \in Scope |->
          IF s \in ScopesOf(a) THEN Minus(reserved[s], b) ELSE reserved[s]]
    /\ used' = [s \in Scope |-> IF s \in ScopesOf(a) THEN used[s] + b ELSE used[s]]

\* Mutant: and without the floor at zero.
SettleUnfloored(a, b) ==
    /\ reserved' = [s \in Scope |->
          IF s \in ScopesOf(a) THEN reserved[s] - b ELSE reserved[s]]
    /\ used' = [s \in Scope |-> IF s \in ScopesOf(a) THEN used[s] + b ELSE used[s]]

\* Mutant: the commit charges the bytes the ticket declared.
SettleDeclared(a, b) ==
    /\ reserved' = [s \in Scope |->
          IF s \in ScopesOf(a) THEN Minus(reserved[s], granted[a]) ELSE reserved[s]]
    /\ used' = [s \in Scope |->
          IF s \in ScopesOf(a) THEN used[s] + granted[a] ELSE used[s]]

Settle(a, b) ==
    /\ reserved' = [s \in Scope |->
          IF s \in ScopesOf(a) THEN Minus(reserved[s], granted[a]) ELSE reserved[s]]
    /\ used' = [s \in Scope |-> IF s \in ScopesOf(a) THEN used[s] + b ELSE used[s]]

CommitFinalAttachment(w) ==
    LET a == job[w] IN
    /\ pc[w] \in {"moving", "located"}
    /\ IF CommitAllowed(a)
       THEN /\ res' = [res EXCEPT ![a] = "committed"]
            /\ state' = [state EXCEPT ![a] = "committed"]
            /\ since' = [since EXCEPT ![a] = 0]
            /\ path' = [path EXCEPT ![a] = FoundIn(w)]
            /\ Settle(a, amount[w])
       ELSE UNCHANGED <<res, state, since, path, quota>>    \* rolled back
    /\ Done(w)
    /\ UNCHANGED <<granted, age, disk, rec>>

\* A worker dies, or its request is aborted, between two steps.
Crash(w) ==
    /\ ~Idle(w)
    /\ Done(w)
    /\ UNCHANGED <<rows, disk, quota, rec>>

(***************************************************************************)
(* The reconciler, serialised by the write lock (which uploads do not      *)
(* take).  It reads the owners' quota rows and the stale finalizing rows   *)
(* first; its updates of the other two tables are conditional on the state *)
(* they find, and all of them commit together.                             *)
(* The branch for a recorded final_path cannot be taken: final_path is     *)
(* written only together with "committed".                                 *)
(***************************************************************************)

\* The owner's quota row is made by her first reservation.
HasRow(o) == reserved[o] > 0 \/ \E a \in Att : OwnerOf[a] = o /\ state[a] # "none"

ReconcileBegin ==
    /\ ~rec.on
    /\ rec' = [on |-> TRUE,
               owners |-> {o \in Owner : HasRow(o)},
               stale |-> {a \in Att : state[a] = "finalizing" /\ since[a] > StaleLease}]
    /\ UNCHANGED <<rows, disk, quota, workers>>

\* Mutant: recovery trusts its snapshot and overwrites a fresh commit.
RecoveredFromSnapshot(a) ==
    IF a \in rec.stale
    THEN IF dir[a] = "staged" THEN "staged" ELSE "failed"
    ELSE state[a]

\* A stale finalizer with a staged file goes back to staged; any other fails
\* and its reservation is marked released.
RecoveredState(a) ==
    IF a \in rec.stale /\ state[a] = "finalizing"
    THEN IF dir[a] = "staged" THEN "staged" ELSE "failed"
    ELSE state[a]

RecoveredRes(a) ==
    IF a \in rec.stale /\ dir[a] # "staged" /\ res[a] = "active"
    THEN "released" ELSE res[a]

\* Mutant: the reaper passes over uploads whose worker died.
OverdueUnclaimed == {a \in Att : /\ RecoveredRes(a) = "active"
                                 /\ age[a] > TicketTTL + ReaperGrace
                                 /\ RecoveredState(a) \in {"issued", "staged"}}

\* Reservations expired for more than ReaperGrace, unless being finalized.
Overdue == {a \in Att : /\ RecoveredRes(a) = "active"
                        /\ age[a] > TicketTTL + ReaperGrace
                        /\ RecoveredState(a) # "finalizing"}

\* The sum of f over S, byte by byte, and the members of S that count in scope s.
Bytes(f, S) == Cardinality({u \in S \X (1..MaxImage) : u[2] <= f[u[1]]})
In(s, S)    == {a \in S : s \in ScopesOf(a)}

\* What the reaper gives back to scope s.
Reaped(s) == Bytes(granted, In(s, Overdue))

\* The scan of each owner's files sees conversation files only; an upload's
\* staged/ and final/ files do not match its pattern, so it counts 0 here.
ReconcileCommit ==
    /\ rec.on
    /\ used' = [s \in Scope |-> IF s \in Owner \ rec.owners THEN used[s] ELSE 0]
    /\ res' = [a \in Att |-> IF a \in Overdue THEN "expired" ELSE RecoveredRes(a)]
    /\ state' = [a \in Att |->
                   IF a \in Overdue /\ RecoveredState(a) \in {"issued", "staged"}
                   THEN "expired" ELSE RecoveredState(a)]
    /\ since' = [a \in Att |-> IF state'[a] = "finalizing" THEN since[a] ELSE 0]
    /\ reserved' = [s \in Scope |-> Minus(reserved[s], Reaped(s))]
    /\ rec' = RecIdle
    /\ UNCHANGED <<path, granted, age, disk, workers>>

\* The process dies or the transaction is rolled back: the lock is freed.
ReconcileAborts ==
    /\ rec.on
    /\ rec' = RecIdle
    /\ UNCHANGED <<rows, disk, quota, workers>>

\* One unit of time.  The ages stop counting where no guard tells them apart.
Tick ==
    /\ age' = [a \in Att |-> IF state[a] # "none" /\ age[a] < AgeCap
                             THEN age[a] + 1 ELSE age[a]]
    /\ since' = [a \in Att |-> IF state[a] = "finalizing" /\ since[a] < SinceCap
                               THEN since[a] + 1 ELSE since[a]]
    /\ UNCHANGED <<state, path, res, granted, disk, quota, workers, rec>>

Request(w, a) ==
    \/ \E b \in 1..MaxImage : Reserve(w, a, b)
    \/ \E b \in 1..MaxImage : Receive(w, a, b)
    \/ TryMarkFinalizing(w, a)

Continue(w) ==
    \/ RecordIssued(w) \/ RecordReservation(w)
    \/ ClaimForUpload(w) \/ StageFile(w) \/ StageFileFails(w) \/ RecordStaged(w)
    \/ FindFile(w) \/ MoveToFinal(w) \/ CommitFinalAttachment(w)

Next ==
    \/ \E w \in Worker : Continue(w) \/ Crash(w) \/ \E a \in Att : Request(w, a)
    \/ ReconcileBegin \/ ReconcileCommit \/ ReconcileAborts
    \/ Tick

Spec == Init /\ [][Next]_vars

\* The cron starts the reconciler again and again, and it gets through.
FairSpec ==
    /\ Spec
    /\ WF_vars(Tick)
    /\ WF_vars(ReconcileBegin)
    /\ SF_vars(ReconcileCommit)

-----------------------------------------------------------------------------
(***************************************************************************)
(* Properties.                                                             *)
(***************************************************************************)

\* Every live reservation, and every one an initiate in progress has not
\* written yet, is covered by the reserved bytes of its owner and of the
\* module: no commit, reaping or recovery gives the same bytes back twice.
ReservedCoversActive ==
    \A s \in Scope :
        reserved[s] >=
            Bytes(granted, In(s, {a \in Att : res[a] = "active"}))
            + Bytes(amount, {w \in Worker : pc[w] \in {"reserved", "issued"}
                                            /\ s \in ScopesOf(job[w])})

\* The used bytes never count more than the committed files hold: a commit
\* charges the file's own size, once, whatever size the ticket declared.
UsedNeverOvercounts ==
    \A s \in Scope :
        used[s] <= Bytes(size, In(s, {a \in Att : state[a] = "committed"}))

\* An upload past its claim is the only one for its attachment, and the row
\* stays "uploading" under it: neither a replay of the ticket, nor complete,
\* nor the reconciler gets in between the claim and the staged record.
Uploading(w) == pc[w] \in {"claimed", "renamed"}

UploadClaimExclusive ==
    \A w \in Worker : Uploading(w) =>
        /\ state[job[w]] = "uploading"
        /\ \A v \in Worker \ {w} : Uploading(v) => job[v] # job[w]

\* Once a file is staged its bytes never change, in staged/ or in final/:
\* the recorded checksum and size keep describing what is served.
StagedBytesImmutable ==
    [][\A a \in Att : dir[a] # "none" => dir'[a] # "none" /\ size'[a] = size[a]]_vars

\* The ledger an attachment's reservation and row add up to.
GrantOf == [none |-> "none", active |-> "held", committed |-> "used",
            released |-> "returned", expired |-> "returned"]

Ledger == INSTANCE AttachmentLedger WITH
            grant   <- [a \in Att |-> GrantOf[res[a]]],
            durable <- {a \in Att : state[a] = "committed"}

\* The upload implements the ledger: a reservation is settled exactly once,
\* and it is used exactly when, and only if, the attachment is committed.
LedgerSpec == Ledger!Spec

\* Every reservation is eventually settled, whichever workers crash: the
\* reconciler recovers or fails stale finalizers and reaps the rest.
ReservationSettles ==
    \A a \in Att : res[a] = "active" ~> res[a] # "active"

\* The migration plan's quota invariant: what is used and what is reserved
\* stays within the owner's and the module's limit.
WithinLimits == \A s \in Scope : used[s] + reserved[s] <= Limit(s)

\* A committed attachment is served from final_path: the file is there.
CommittedFileIsServed ==
    \A a \in Att : state[a] = "committed" => path[a] = dir[a]

\* A reservation that is marked released gives its bytes back.
ReleaseReturnsQuota ==
    [][\A a \in Att : res[a] = "active" /\ res'[a] = "released"
           => \A s \in ScopesOf(a) : reserved'[s] < reserved[s]]_vars
=============================================================================
