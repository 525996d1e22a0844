------------------------ MODULE AttachmentUploadProofs ------------------------
(***************************************************************************)
(* Proofs about AttachmentUpload, for every set of attachments, owners and *)
(* workers and every value of the limits and timers.                       *)
(***************************************************************************)
EXTENDS AttachmentUpload, FiniteSetTheorems, TLAPS

-----------------------------------------------------------------------------
(***************************************************************************)
(* Type correctness.                                                       *)
(***************************************************************************)

\* Giving back more than a counter holds leaves it at zero, never below.
LEMMA MinusType == \A n \in Nat : \A b : Minus(n, b) \in Nat
BY DEF Minus

\* A worker that is in the middle of a request serves an attachment.
JobOK == \A w \in Worker : pc[w] # "idle" => job[w] \in Att

TypeInv == TypeOK /\ JobOK

LEMMA TypeInit == Init => TypeInv
BY AttachmentAssumption
   DEF Init, TypeInv, TypeOK, JobOK, AttState, ResState, Dir, Step, RecIdle,
       SinceCap, AgeCap

LEMMA TypeRequest ==
    ASSUME TypeInv, NEW w \in Worker, NEW a \in Att, Request(w, a)
    PROVE  TypeInv'
<1> USE AttachmentAssumption
    DEF TypeInv, TypeOK, JobOK, Goto, rows, disk, quota, workers
<1>1. CASE \E b \in 1..MaxImage : Reserve(w, a, b)
  BY <1>1 DEF Reserve, Idle, Step
<1>2. CASE \E b \in 1..MaxImage : Receive(w, a, b)
  BY <1>2 DEF Receive, Idle, Step
<1>3. CASE TryMarkFinalizing(w, a)
  BY <1>3 DEF TryMarkFinalizing, Idle, Step, AttState, SinceCap
<1>4. QED
  BY <1>1, <1>2, <1>3 DEF Request

LEMMA TypeContinue ==
    ASSUME TypeInv, NEW w \in Worker, Continue(w) \/ Crash(w)
    PROVE  TypeInv'
<1> USE AttachmentAssumption
    DEF TypeInv, TypeOK, JobOK, Goto, Done, rows, disk, quota, workers
<1>1. CASE RecordIssued(w)
  BY <1>1 DEF RecordIssued, AttState, Step, AgeCap
<1>2. CASE RecordReservation(w)
  BY <1>2 DEF RecordReservation, ResState, Step
<1>3. CASE ClaimForUpload(w)
  BY <1>3 DEF ClaimForUpload, AttState, Step
<1>4. CASE StageFile(w)
  BY <1>4 DEF StageFile, Dir, Step
<1>5. CASE StageFileFails(w)
  BY <1>5 DEF StageFileFails, AttState, Step
<1>6. CASE RecordStaged(w)
  BY <1>6 DEF RecordStaged, AttState, Dir, Step
<1>7. CASE FindFile(w)
  BY <1>7 DEF FindFile, Dir, Step
<1>8. CASE MoveToFinal(w)
  BY <1>8 DEF MoveToFinal, Dir, Step
<1>9. CASE CommitFinalAttachment(w)
  <2>1. CASE CommitAllowed(job[w])
    BY <1>9, <2>1, MinusType
       DEF CommitFinalAttachment, Settle, FoundIn, AttState, ResState, Dir, Step,
           SinceCap
  <2>2. CASE ~CommitAllowed(job[w])
    BY <1>9, <2>2 DEF CommitFinalAttachment, Step
  <2>3. QED
    BY <2>1, <2>2
<1>10. CASE Crash(w)
  BY <1>10 DEF Crash, Idle, Step
<1>11. QED
  BY <1>1, <1>2, <1>3, <1>4, <1>5, <1>6, <1>7, <1>8, <1>9, <1>10 DEF Continue

LEMMA TypeReconcile ==
    ASSUME TypeInv, ReconcileBegin \/ ReconcileCommit \/ ReconcileAborts \/ Tick
    PROVE  TypeInv'
<1> USE AttachmentAssumption
    DEF TypeInv, TypeOK, JobOK, rows, disk, quota, workers
<1>1. CASE ReconcileBegin
  BY <1>1 DEF ReconcileBegin
<1>2. CASE ReconcileCommit
  <2>1. res' \in [Att -> ResState]
    BY <1>2 DEF ReconcileCommit, RecoveredRes, ResState
  <2>2. state' \in [Att -> AttState]
    BY <1>2 DEF ReconcileCommit, RecoveredState, AttState
  <2>3. since' \in [Att -> 0..SinceCap]
    BY <1>2 DEF ReconcileCommit, SinceCap
  <2>4. reserved' \in [Scope -> Nat] /\ used' \in [Scope -> Nat]
    BY <1>2, MinusType DEF ReconcileCommit
  <2>5. QED
    BY <1>2, <2>1, <2>2, <2>3, <2>4 DEF ReconcileCommit, RecIdle
<1>3. CASE ReconcileAborts
  BY <1>3 DEF ReconcileAborts, RecIdle
<1>4. CASE Tick
  BY <1>4 DEF Tick, AgeCap, SinceCap
<1>5. QED
  BY <1>1, <1>2, <1>3, <1>4

LEMMA TypeStep == TypeInv /\ [Next]_vars => TypeInv'
<1> SUFFICES ASSUME TypeInv, [Next]_vars PROVE TypeInv'
  OBVIOUS
<1>1. CASE UNCHANGED vars
  BY <1>1 DEF TypeInv, TypeOK, JobOK, vars, rows, disk, quota, workers
<1>2. CASE Next
  BY <1>2, TypeRequest, TypeContinue, TypeReconcile DEF Next
<1>3. QED
  BY <1>1, <1>2

\* Every table, file and worker keeps its type, whatever the interleaving; in
\* particular no quota counter ever becomes negative.
THEOREM TypeCorrect == Spec => []TypeOK
<1>1. Spec => []TypeInv
  BY TypeInit, TypeStep, PTL DEF Spec
<1>2. TypeInv => TypeOK
  BY DEF TypeInv
<1>3. QED
  BY <1>1, <1>2, PTL

-----------------------------------------------------------------------------
(***************************************************************************)
(* The upload claim is exclusive.  The invariant is not inductive alone: a *)
(* ticket must not exist before the rows it is checked against, and an     *)
(* initiate in progress must be the only request that knows its id.        *)
(***************************************************************************)

Initiating(w) == pc[w] \in {"reserved", "issued"}

FreshInitiate ==
    \A w \in Worker : Initiating(w) =>
        /\ res[job[w]] = "none"
        /\ pc[w] = "reserved" <=> state[job[w]] = "none"
        /\ \A v \in Worker \ {w} : job[v] # job[w]

RowBeforeTicket == \A a \in Att : state[a] = "none" => res[a] = "none"

ClaimInv ==
    /\ TypeInv
    /\ FreshInitiate
    /\ RowBeforeTicket
    /\ UploadClaimExclusive

LEMMA ClaimInit == Init => ClaimInv
BY TypeInit, AttachmentAssumption
   DEF Init, ClaimInv, FreshInitiate, Initiating, RowBeforeTicket,
       UploadClaimExclusive, Uploading

LEMMA ClaimRequest ==
    ASSUME ClaimInv, NEW w \in Worker, NEW a \in Att, Request(w, a)
    PROVE  ClaimInv'
<1> USE AttachmentAssumption
    DEF ClaimInv, FreshInitiate, Initiating, RowBeforeTicket,
        UploadClaimExclusive, Uploading, Goto, Idle, rows, disk, quota, workers
<1>0. TypeInv'
  BY TypeRequest
<1>t. TypeOK /\ JobOK
  BY DEF TypeInv
<1>1. CASE \E b \in 1..MaxImage : Reserve(w, a, b)
  BY <1>0, <1>t, <1>1 DEF Reserve, TypeOK, JobOK
<1>2. CASE \E b \in 1..MaxImage : Receive(w, a, b)
  BY <1>0, <1>t, <1>2 DEF Receive, TicketValid, TypeOK, JobOK
<1>3. CASE TryMarkFinalizing(w, a)
  BY <1>0, <1>t, <1>3
     DEF TryMarkFinalizing, TicketValid, CanFinalize, TypeOK, JobOK
<1>4. QED
  BY <1>1, <1>2, <1>3 DEF Request

LEMMA ClaimContinue ==
    ASSUME ClaimInv, NEW w \in Worker, Continue(w) \/ Crash(w)
    PROVE  ClaimInv'
<1> USE AttachmentAssumption
    DEF ClaimInv, FreshInitiate, Initiating, RowBeforeTicket,
        UploadClaimExclusive, Uploading, Goto, Done, rows, disk, quota, workers
<1>0. TypeInv'
  BY TypeContinue
<1>t. TypeOK /\ JobOK
  BY DEF TypeInv
<1>1. CASE RecordIssued(w)
  BY <1>0, <1>t, <1>1 DEF RecordIssued, TypeOK, JobOK
<1>2. CASE RecordReservation(w)
  <2>1. PICK a \in Att : a = job[w]
    BY <1>t, <1>2 DEF RecordReservation, JobOK
  <2>2. state[a] # "none"
    BY <1>t, <1>2, <2>1 DEF RecordReservation
  <2>3. QED
    BY <1>0, <1>t, <1>2, <2>1, <2>2 DEF RecordReservation, TypeOK, JobOK
<1>3. CASE ClaimForUpload(w)
  BY <1>0, <1>t, <1>3 DEF ClaimForUpload, TypeOK, JobOK
<1>4. CASE StageFile(w)
  BY <1>0, <1>t, <1>4 DEF StageFile, TypeOK, JobOK
<1>5. CASE StageFileFails(w)
  BY <1>0, <1>t, <1>5 DEF StageFileFails, TypeOK, JobOK
<1>6. CASE RecordStaged(w)
  BY <1>0, <1>t, <1>6 DEF RecordStaged, TypeOK, JobOK
<1>7. CASE FindFile(w)
  BY <1>0, <1>t, <1>7 DEF FindFile, TypeOK, JobOK
<1>8. CASE MoveToFinal(w)
  BY <1>0, <1>t, <1>8 DEF MoveToFinal, TypeOK, JobOK
<1>9. CASE CommitFinalAttachment(w)
  <2>1. CASE CommitAllowed(job[w])
    BY <1>0, <1>t, <1>9, <2>1
       DEF CommitFinalAttachment, CommitAllowed, TypeOK, JobOK
  <2>2. CASE ~CommitAllowed(job[w])
    BY <1>0, <1>t, <1>9, <2>2 DEF CommitFinalAttachment, TypeOK, JobOK
  <2>3. QED
    BY <2>1, <2>2
<1>10. CASE Crash(w)
  BY <1>0, <1>t, <1>10 DEF Crash, Idle, TypeOK, JobOK
<1>11. QED
  BY <1>1, <1>2, <1>3, <1>4, <1>5, <1>6, <1>7, <1>8, <1>9, <1>10 DEF Continue

LEMMA ClaimReconcile ==
    ASSUME ClaimInv, ReconcileBegin \/ ReconcileCommit \/ ReconcileAborts \/ Tick
    PROVE  ClaimInv'
<1> USE AttachmentAssumption
    DEF ClaimInv, FreshInitiate, Initiating, RowBeforeTicket,
        UploadClaimExclusive, Uploading, rows, disk, quota, workers
<1>0. TypeInv'
  BY TypeReconcile
<1>t. TypeOK /\ JobOK
  BY DEF TypeInv
<1>1. CASE ReconcileBegin \/ ReconcileAborts \/ Tick
  BY <1>0, <1>t, <1>1 DEF ReconcileBegin, ReconcileAborts, Tick
<1>2. CASE ReconcileCommit
  <2>1. ASSUME NEW a \in Att, state[a] \in {"none", "uploading"}
        PROVE  state'[a] = state[a]
    BY <1>2, <2>1 DEF ReconcileCommit, RecoveredState
  <2>2. ASSUME NEW a \in Att, res[a] = "none"
        PROVE  res'[a] = "none"
    BY <1>2, <2>2 DEF ReconcileCommit, RecoveredRes, Overdue
  <2>3. ASSUME NEW a \in Att, state'[a] = "none"
        PROVE  state[a] = "none"
    BY <1>2, <2>3 DEF ReconcileCommit, RecoveredState
  <2>4. UNCHANGED <<pc, job>>
    BY <1>2 DEF ReconcileCommit
  <2>5. QED
    BY <1>0, <1>t, <2>1, <2>2, <2>3, <2>4 DEF JobOK
<1>3. QED
  BY <1>1, <1>2

LEMMA ClaimStep == ClaimInv /\ [Next]_vars => ClaimInv'
<1> SUFFICES ASSUME ClaimInv, [Next]_vars PROVE ClaimInv'
  OBVIOUS
<1>1. CASE UNCHANGED vars
  <2>1. TypeInv'
    BY <1>1, TypeStep DEF ClaimInv
  <2>2. QED
    BY <1>1, <2>1
       DEF ClaimInv, FreshInitiate, Initiating, RowBeforeTicket,
           UploadClaimExclusive, Uploading, vars, rows, workers
<1>2. CASE Next
  BY <1>2, ClaimRequest, ClaimContinue, ClaimReconcile DEF Next
<1>3. QED
  BY <1>1, <1>2

LEMMA ClaimCorrect == Spec => []ClaimInv
BY ClaimInit, ClaimStep, PTL DEF Spec

\* A ticket is claimed by one upload at a time, and nothing else changes the
\* attachment's row between the claim and the staged record.
THEOREM ClaimIsExclusive == Spec => []UploadClaimExclusive
<1>1. ClaimInv => UploadClaimExclusive
  BY DEF ClaimInv
<1>2. QED
  BY <1>1, ClaimCorrect, PTL

-----------------------------------------------------------------------------
(***************************************************************************)
(* The upload implements the ledger.                                       *)
(***************************************************************************)

\* Settling or opening one reservation changes that entry of the ledger only.
LEMMA GrantUpdate ==
    ASSUME res \in [Att -> ResState], NEW a \in Att, NEW r \in ResState,
           res' = [res EXCEPT ![a] = r]
    PROVE  [b \in Att |-> GrantOf[res'[b]]]
             = [[b \in Att |-> GrantOf[res[b]]] EXCEPT ![a] = GrantOf[r]]
OBVIOUS

\* A step that neither commits, reserves nor reconciles leaves the ledger be.
LEMMA LedgerStutter ==
    ASSUME res' = res,
           \A a \in Att : state'[a] = "committed" <=> state[a] = "committed"
    PROVE  UNCHANGED Ledger!vars
BY DEF Ledger!vars

LEMMA LedgerContinue ==
    ASSUME ClaimInv, NEW w \in Worker, Continue(w)
    PROVE  Ledger!Next \/ UNCHANGED Ledger!vars
<1> USE AttachmentAssumption DEF Goto, Done, rows, disk, quota, workers
<1>t. TypeOK /\ JobOK /\ ClaimInv
  BY DEF ClaimInv, TypeInv
<1>1. CASE RecordIssued(w)
  BY <1>t, <1>1, LedgerStutter
     DEF RecordIssued, TypeOK, JobOK, ClaimInv, FreshInitiate, Initiating
<1>2. CASE RecordReservation(w)
  <2>1. PICK a \in Att : a = job[w]
    BY <1>t, <1>2 DEF RecordReservation, JobOK
  <2>2. res[a] = "none"
    BY <1>t, <1>2, <2>1 DEF RecordReservation, ClaimInv, FreshInitiate, Initiating
  <2>3. res' = [res EXCEPT ![a] = "active"] /\ state' = state
    BY <1>2, <2>1 DEF RecordReservation
  <2>4. Ledger!Give(a)
    <3>1. GrantOf["none"] = "none" /\ GrantOf["active"] = "held"
      BY DEF GrantOf
    <3>2. QED
      BY <1>t, <2>2, <2>3, <3>1, GrantUpdate DEF Ledger!Give, TypeOK, ResState
  <2>5. QED
    BY <2>4 DEF Ledger!Next
<1>3. CASE ClaimForUpload(w) \/ StageFile(w) \/ StageFileFails(w) \/ RecordStaged(w)
  BY <1>t, <1>3, LedgerStutter
     DEF ClaimForUpload, StageFile, StageFileFails, RecordStaged, TypeOK, JobOK
<1>4. CASE FindFile(w) \/ MoveToFinal(w)
  BY <1>4, LedgerStutter DEF FindFile, MoveToFinal
<1>5. CASE CommitFinalAttachment(w)
  <2>1. CASE CommitAllowed(job[w])
    <3>1. PICK a \in Att : a = job[w]
      BY <1>t, <1>5 DEF CommitFinalAttachment, JobOK
    <3>2. /\ res' = [res EXCEPT ![a] = "committed"]
          /\ state' = [state EXCEPT ![a] = "committed"]
      BY <1>5, <2>1, <3>1 DEF CommitFinalAttachment
    <3>3. Ledger!Use(a)
      <4>1. GrantOf["active"] = "held" /\ GrantOf["committed"] = "used"
        BY DEF GrantOf
      <4>2. {b \in Att : state'[b] = "committed"}
              = {b \in Att : state[b] = "committed"} \union {a}
        BY <1>t, <3>2 DEF TypeOK
      <4>3. QED
        BY <1>t, <2>1, <3>1, <3>2, <4>1, <4>2, GrantUpdate
           DEF CommitAllowed, Ledger!Use, TypeOK, ResState
    <3>4. QED
      BY <3>3 DEF Ledger!Next
  <2>2. CASE ~CommitAllowed(job[w])
    BY <1>5, <2>2, LedgerStutter DEF CommitFinalAttachment
  <2>3. QED
    BY <2>1, <2>2
<1>6. QED
  BY <1>1, <1>2, <1>3, <1>4, <1>5 DEF Continue

LEMMA LedgerReconcile ==
    ASSUME ClaimInv, ReconcileCommit
    PROVE  Ledger!Next
<1>0. PICK S \in SUBSET Att : S = {a \in Att : res'[a] # res[a]}
  OBVIOUS
<1>1. TypeOK
  BY DEF ClaimInv, TypeInv
<1>2. \A a \in S : res[a] = "active" /\ res'[a] \in {"released", "expired"}
  BY <1>0, <1>1 DEF ReconcileCommit, RecoveredRes, Overdue, TypeOK
<1>3. \A a \in Att : state'[a] = "committed" <=> state[a] = "committed"
  BY <1>1 DEF ReconcileCommit, RecoveredState, TypeOK
<1>4. Ledger!Return(S)
  BY <1>0, <1>1, <1>2, <1>3 DEF ReconcileCommit, Ledger!Return, GrantOf, TypeOK, ResState
<1>5. QED
  BY <1>4 DEF Ledger!Next

LEMMA LedgerStep ==
    ASSUME ClaimInv, [Next]_vars
    PROVE  [Ledger!Next]_Ledger!vars
<1>1. CASE UNCHANGED vars
  BY <1>1, LedgerStutter DEF vars, rows
<1>2. CASE \E w \in Worker : Continue(w)
  BY <1>2, LedgerContinue
<1>3. CASE \E w \in Worker : Crash(w)
  BY <1>3, LedgerStutter DEF Crash, rows
<1>4. CASE \E w \in Worker : \E a \in Att : Request(w, a)
  BY <1>4, LedgerStutter
     DEF Request, Reserve, Receive, TryMarkFinalizing, CanFinalize, rows,
         ClaimInv, TypeInv, TypeOK
<1>5. CASE ReconcileBegin \/ ReconcileAborts \/ Tick
  BY <1>5, LedgerStutter DEF ReconcileBegin, ReconcileAborts, Tick, rows
<1>6. CASE ReconcileCommit
  BY <1>6, LedgerReconcile
<1>7. QED
  BY <1>1, <1>2, <1>3, <1>4, <1>5, <1>6 DEF Next

\* The detailed upload implements the abstract ledger: every reservation is
\* settled exactly once, in the step that commits its attachment or in one
\* after which the attachment is never committed.
THEOREM UploadImplementsLedger == Spec => LedgerSpec
<1>1. Init => Ledger!Init
  BY DEF Init, Ledger!Init, GrantOf
<1>2. ClaimInv /\ [Next]_vars => [Ledger!Next]_Ledger!vars
  BY LedgerStep
<1>3. QED
  BY <1>1, <1>2, ClaimCorrect, PTL DEF Spec, LedgerSpec, Ledger!Spec

-----------------------------------------------------------------------------
(***************************************************************************)
(* Staged bytes: an attachment whose ticket is unused has no file, nor has *)
(* one that was claimed and not staged yet; so no staging meets a file.    *)
(***************************************************************************)

FileInv ==
    /\ \A a \in Att : state[a] \in {"none", "issued"} => dir[a] = "none"
    /\ \A w \in Worker : pc[w] = "claimed" => dir[job[w]] = "none"

LEMMA FileInit == Init => FileInv
BY DEF Init, FileInv

LEMMA FileContinue ==
    ASSUME ClaimInv, FileInv, NEW w \in Worker, Continue(w)
    PROVE  FileInv'
<1> USE DEF ClaimInv, TypeInv, TypeOK, JobOK, FileInv, Goto, Done, rows, disk
<1>1. CASE RecordIssued(w) \/ RecordReservation(w)
  BY <1>1 DEF RecordIssued, RecordReservation, FreshInitiate, Initiating
<1>2. CASE ClaimForUpload(w)
  BY <1>2 DEF ClaimForUpload
<1>3. CASE StageFile(w)
  BY <1>3 DEF StageFile, UploadClaimExclusive, Uploading
<1>4. CASE StageFileFails(w)
  BY <1>4 DEF StageFileFails
<1>5. CASE RecordStaged(w)
  BY <1>5 DEF RecordStaged, UploadClaimExclusive, Uploading
<1>6. CASE FindFile(w)
  BY <1>6 DEF FindFile
<1>7. CASE MoveToFinal(w)
  BY <1>7 DEF MoveToFinal
<1>8. CASE CommitFinalAttachment(w)
  BY <1>8 DEF CommitFinalAttachment
<1>9. QED
  BY <1>1, <1>2, <1>3, <1>4, <1>5, <1>6, <1>7, <1>8 DEF Continue

LEMMA FileStep == ClaimInv /\ FileInv /\ [Next]_vars => FileInv'
<1> SUFFICES ASSUME ClaimInv, FileInv, [Next]_vars PROVE FileInv'
  OBVIOUS
<1>t. TypeOK /\ JobOK
  BY DEF ClaimInv, TypeInv
<1>1. CASE \E w \in Worker : Continue(w)
  BY <1>1, FileContinue
<1>2. ASSUME NEW w \in Worker, NEW a \in Att, Request(w, a) PROVE FileInv'
  BY <1>t, <1>2 DEF Request, Reserve, Receive, TryMarkFinalizing, FileInv, TypeOK,
       Goto, rows, disk
<1>3. ASSUME NEW w \in Worker, Crash(w) PROVE FileInv'
  BY <1>t, <1>3 DEF Crash, Done, Goto, FileInv, TypeOK, rows, disk
<1>4. CASE ReconcileCommit
  BY <1>t, <1>4 DEF ReconcileCommit, RecoveredState, FileInv, TypeOK, workers, disk
<1>5. CASE ReconcileBegin \/ ReconcileAborts \/ Tick \/ UNCHANGED vars
  BY <1>5 DEF ReconcileBegin, ReconcileAborts, Tick, vars, rows, disk, workers, FileInv
<1>6. QED
  BY <1>1, <1>2, <1>3, <1>4, <1>5 DEF Next

LEMMA StagedKept ==
    ASSUME ClaimInv, FileInv, [Next]_vars, NEW a \in Att, dir[a] # "none"
    PROVE  dir'[a] # "none" /\ size'[a] = size[a]
<1>t. TypeOK /\ JobOK
  BY DEF ClaimInv, TypeInv
<1>1. ASSUME NEW w \in Worker, StageFile(w) PROVE dir'[a] # "none" /\ size'[a] = size[a]
  BY <1>t, <1>1 DEF StageFile, FileInv, TypeOK
<1>2. ASSUME NEW w \in Worker, RecordStaged(w) PROVE dir'[a] # "none" /\ size'[a] = size[a]
  BY <1>t, <1>2 DEF RecordStaged, ClaimInv, UploadClaimExclusive, Uploading, TypeOK, disk
<1>3. ASSUME NEW w \in Worker, MoveToFinal(w) PROVE dir'[a] # "none" /\ size'[a] = size[a]
  BY <1>t, <1>3 DEF MoveToFinal, TypeOK
<1>4. ASSUME NEW w \in Worker, Continue(w), ~StageFile(w), ~RecordStaged(w), ~MoveToFinal(w)
      PROVE  UNCHANGED disk
  BY <1>4 DEF Continue, RecordIssued, RecordReservation, ClaimForUpload, StageFileFails,
       FindFile, CommitFinalAttachment
<1>5. ASSUME NEW w \in Worker, Crash(w) \/ \E b \in Att : Request(w, b)
      PROVE  UNCHANGED disk
  BY <1>5 DEF Crash, Request, Reserve, Receive, TryMarkFinalizing
<1>6. CASE ReconcileBegin \/ ReconcileCommit \/ ReconcileAborts \/ Tick \/ UNCHANGED vars
  BY <1>6 DEF ReconcileBegin, ReconcileCommit, ReconcileAborts, Tick, vars, disk
<1>7. QED
  BY <1>1, <1>2, <1>3, <1>4, <1>5, <1>6 DEF Next, disk

\* No step touches the bytes of a file that was staged, in any directory.
THEOREM BytesStayAsStaged == Spec => StagedBytesImmutable
<1>1. ClaimInv /\ FileInv /\ [Next]_vars
        => [\A a \in Att : dir[a] # "none" => dir'[a] # "none" /\ size'[a] = size[a]]_vars
  BY StagedKept
<1>2. QED
  BY <1>1, ClaimInit, ClaimStep, FileInit, FileStep, PTL DEF Spec, StagedBytesImmutable

-----------------------------------------------------------------------------
(***************************************************************************)
(* Sums of bytes.  A sum is the number of its bytes, so that the facts     *)
(* about finite sets give those about sums.                                *)
(***************************************************************************)

LEMMA UnitsFinite ==
    ASSUME NEW S, IsFiniteSet(S), NEW f
    PROVE  IsFiniteSet({u \in S \X (1..MaxImage) : u[2] <= f[u[1]]})
<1>1. IsFiniteSet(1..MaxImage)
  BY AttachmentAssumption, FS_Interval
<1>2. IsFiniteSet(S \X (1..MaxImage))
  BY <1>1, FS_Product, Zenon
<1>3. QED
  BY <1>2, FS_Subset

LEMMA BytesType ==
    ASSUME NEW S, IsFiniteSet(S), NEW f
    PROVE  Bytes(f, S) \in Nat
BY UnitsFinite, FS_CardinalityType DEF Bytes

LEMMA BytesOfOne ==
    ASSUME NEW x, NEW f, f[x] \in 0..MaxImage
    PROVE  Bytes(f, {x}) = f[x]
<1>1. {u \in {x} \X (1..MaxImage) : u[2] <= f[u[1]]} = {x} \X (1..f[x])
  BY AttachmentAssumption
<1>2. IsFiniteSet({x}) /\ Cardinality({x}) = 1
  BY FS_Singleton
<1>3. IsFiniteSet(1..f[x]) /\ Cardinality(1..f[x]) = f[x]
  BY FS_Interval
<1>4. Cardinality({x} \X (1..f[x])) = Cardinality({x}) * Cardinality(1..f[x])
  BY <1>2, <1>3, FS_Product, Zenon
<1>5. Cardinality({x}) * Cardinality(1..f[x]) = f[x]
  BY <1>2, <1>3
<1>6. QED
  BY <1>1, <1>4, <1>5 DEF Bytes

LEMMA BytesDisjoint ==
    ASSUME NEW S, NEW T, IsFiniteSet(S), IsFiniteSet(T), S \intersect T = {}, NEW f
    PROVE  Bytes(f, S \union T) = Bytes(f, S) + Bytes(f, T)
<1> DEFINE Units(X) == {u \in X \X (1..MaxImage) : u[2] <= f[u[1]]}
<1>1. IsFiniteSet(Units(S)) /\ IsFiniteSet(Units(T))
  BY UnitsFinite
<1>2. Units(S \union T) = Units(S) \union Units(T)
  OBVIOUS
<1>3. Units(S) \intersect Units(T) = {}
  OBVIOUS
<1>4. Cardinality(Units(S) \union Units(T))
        = Cardinality(Units(S)) + Cardinality(Units(T)) - Cardinality({})
  BY <1>1, <1>3, FS_Union
<1>5. Cardinality({}) = 0 /\ Cardinality(Units(S)) \in Nat /\ Cardinality(Units(T)) \in Nat
  BY <1>1, FS_EmptySet, FS_CardinalityType
<1>6. /\ Bytes(f, S) = Cardinality(Units(S)) /\ Bytes(f, T) = Cardinality(Units(T))
      /\ Bytes(f, S \union T) = Cardinality(Units(S \union T))
  BY DEF Bytes
<1>7. Cardinality(Units(S \union T)) = Cardinality(Units(S) \union Units(T))
  BY <1>2
<1> HIDE DEF Units
<1>8. QED
  BY <1>4, <1>5, <1>6, <1>7

LEMMA BytesMonotone ==
    ASSUME NEW S, NEW T, IsFiniteSet(T), S \subseteq T, NEW f, NEW g,
           \A x \in S : f[x] = g[x]
    PROVE  Bytes(f, S) <= Bytes(g, T)
<1>1. {u \in S \X (1..MaxImage) : u[2] <= f[u[1]]}
        \subseteq {u \in T \X (1..MaxImage) : u[2] <= g[u[1]]}
  OBVIOUS
<1>2. QED
  BY <1>1, UnitsFinite, FS_Subset DEF Bytes

LEMMA BytesEqual ==
    ASSUME NEW S, NEW f, NEW g, \A x \in S : f[x] = g[x]
    PROVE  Bytes(f, S) = Bytes(g, S)
<1>1. {u \in S \X (1..MaxImage) : u[2] <= f[u[1]]}
        = {u \in S \X (1..MaxImage) : u[2] <= g[u[1]]}
  OBVIOUS
<1>2. QED
  BY <1>1 DEF Bytes

\* A new member adds its bytes.
LEMMA BytesAdd ==
    ASSUME NEW S, IsFiniteSet(S), NEW x, x \notin S, NEW f, NEW g, g[x] \in 0..MaxImage,
           \A y \in S : f[y] = g[y]
    PROVE  Bytes(g, S \union {x}) = Bytes(f, S) + g[x]
<1>1. IsFiniteSet({x})
  BY FS_Singleton
<1>2. Bytes(g, S \union {x}) = Bytes(g, S) + Bytes(g, {x})
  BY <1>1, BytesDisjoint
<1>3. QED
  BY <1>2, BytesOfOne, BytesEqual

\* A member that leaves takes its bytes away.
LEMMA BytesDrop ==
    ASSUME NEW S, IsFiniteSet(S), NEW x \in S, NEW f, NEW g, f[x] \in 0..MaxImage,
           \A y \in S \ {x} : f[y] = g[y]
    PROVE  Bytes(f, S) = Bytes(g, S \ {x}) + f[x]
<1>1. IsFiniteSet(S \ {x}) /\ S = (S \ {x}) \union {x}
  BY FS_RemoveElement
<1>2. QED
  BY <1>1, BytesAdd

-----------------------------------------------------------------------------
(***************************************************************************)
(* The reserved bytes cover what is reserved.  The inductive invariant is  *)
(* the property itself beside ClaimInv, which says that an initiate in     *)
(* progress has no reservation row yet and is alone with its id: writing   *)
(* the row then moves its bytes from one sum to the other.                 *)
(***************************************************************************)

Active(s) == In(s, {a \in Att : res[a] = "active"})
Making(s) == {w \in Worker : pc[w] \in {"reserved", "issued"} /\ s \in ScopesOf(job[w])}

CoverInv == ClaimInv /\ ReservedCoversActive

LEMMA CoverByScope ==
    ReservedCoversActive <=>
        \A s \in Scope : reserved[s] >= Bytes(granted, Active(s)) + Bytes(amount, Making(s))
BY DEF ReservedCoversActive, Active, Making

LEMMA ScopesFinite ==
    \A s : /\ IsFiniteSet(Active(s)) /\ IsFiniteSet(Active(s)')
           /\ IsFiniteSet(Making(s)) /\ IsFiniteSet(Making(s)')
BY AttachmentAssumption, FS_Subset DEF Active, Making, In

LEMMA CoverInit == Init => CoverInv
<1> SUFFICES ASSUME Init PROVE ReservedCoversActive
  BY ClaimInit DEF CoverInv
<1>1. \A s \in Scope : Active(s) = {} /\ Making(s) = {}
  BY DEF Init, Active, Making, In
<1>2. \A f : Bytes(f, {}) = 0
  <2>1. \A f : {u \in {} \X (1..MaxImage) : u[2] <= f[u[1]]} = {}
    OBVIOUS
  <2>2. QED
    BY <2>1, FS_EmptySet DEF Bytes
<1>3. QED
  BY <1>1, <1>2, CoverByScope DEF Init

\* A step that reserves no less, and moves no worker or reservation into the sums.
LEMMA CoverKept ==
    ASSUME CoverInv, TypeInv',
           \A s \in Scope : reserved'[s] >= reserved[s],
           \A a \in Att : res'[a] = "active" => res[a] = "active" /\ granted'[a] = granted[a],
           \A w \in Worker : Initiating(w)' => /\ Initiating(w) /\ job'[w] = job[w]
                                              /\ amount'[w] = amount[w]
    PROVE  ReservedCoversActive'
<1> SUFFICES ASSUME NEW s \in Scope
             PROVE  reserved'[s] >= Bytes(granted', Active(s)') + Bytes(amount', Making(s)')
  BY DEF ReservedCoversActive, Active, Making
<1>1. Active(s)' \subseteq Active(s) /\ \A a \in Active(s)' : granted'[a] = granted[a]
  BY DEF Active, In
<1>2. Making(s)' \subseteq Making(s) /\ \A w \in Making(s)' : amount'[w] = amount[w]
  BY DEF Making, Initiating
<1>3. Bytes(granted', Active(s)') <= Bytes(granted, Active(s))
  BY <1>1, ScopesFinite, BytesMonotone
<1>4. Bytes(amount', Making(s)') <= Bytes(amount, Making(s))
  BY <1>2, ScopesFinite, BytesMonotone
<1>5. /\ Bytes(granted, Active(s)) \in Nat /\ Bytes(granted', Active(s)') \in Nat
      /\ Bytes(amount, Making(s)) \in Nat /\ Bytes(amount', Making(s)') \in Nat
  BY ScopesFinite, BytesType
<1>6. reserved[s] \in Nat /\ reserved'[s] \in Nat
  BY DEF CoverInv, ClaimInv, TypeInv, TypeOK
<1>7. reserved[s] >= Bytes(granted, Active(s)) + Bytes(amount, Making(s))
  BY CoverByScope DEF CoverInv
<1>8. reserved'[s] >= reserved[s]
  OBVIOUS
<1>9. QED
  BY <1>3, <1>4, <1>5, <1>6, <1>7, <1>8

\* The bytes of an initiate are reserved before anything names its attachment.
LEMMA CoverReserve ==
    ASSUME CoverInv, NEW w \in Worker, NEW a \in Att, NEW b \in 1..MaxImage, Reserve(w, a, b)
    PROVE  ReservedCoversActive'
<1> SUFFICES ASSUME NEW s \in Scope
             PROVE  reserved'[s] >= Bytes(granted', Active(s)') + Bytes(amount', Making(s)')
  BY DEF ReservedCoversActive, Active, Making
<1>t. TypeOK
  BY DEF CoverInv, ClaimInv, TypeInv
<1>1. w \notin Making(s)
  BY DEF Reserve, Idle, Making
<1>2. Active(s)' = Active(s) /\ granted' = granted
  BY DEF Reserve, rows, Active, In
<1>3. /\ pc' = [pc EXCEPT ![w] = "reserved"] /\ job' = [job EXCEPT ![w] = a]
      /\ amount' = [amount EXCEPT ![w] = b]
  BY DEF Reserve, Goto
<1>4. amount'[w] = b /\ b \in 0..MaxImage /\ \A v \in Making(s) : amount[v] = amount'[v]
  BY <1>t, <1>1, <1>3, AttachmentAssumption DEF TypeOK, Making
<1>5. /\ Bytes(granted, Active(s)) \in Nat /\ Bytes(amount, Making(s)) \in Nat
      /\ reserved[s] \in Nat /\ b \in Nat
  BY <1>t, <1>4, ScopesFinite, BytesType, AttachmentAssumption DEF TypeOK
<1>6. reserved[s] >= Bytes(granted, Active(s)) + Bytes(amount, Making(s))
  BY CoverByScope DEF CoverInv
<1>7. CASE s \in ScopesOf(a)
  <2>1. Making(s)' = Making(s) \union {w}
    BY <1>t, <1>3, <1>7 DEF TypeOK, Making
  <2>2. Bytes(amount', Making(s)') = Bytes(amount, Making(s)) + b
    BY <2>1, <1>1, <1>4, ScopesFinite, BytesAdd
  <2>3. reserved'[s] = reserved[s] + b
    BY <1>7 DEF Reserve
  <2>4. QED
    BY <1>2, <1>5, <1>6, <2>2, <2>3
<1>8. CASE s \notin ScopesOf(a)
  <2>1. Making(s)' = Making(s)
    BY <1>t, <1>1, <1>3, <1>8 DEF TypeOK, Making
  <2>2. Bytes(amount', Making(s)') = Bytes(amount, Making(s))
    BY <2>1, <1>4, BytesEqual
  <2>3. reserved'[s] = reserved[s]
    BY <1>8 DEF Reserve
  <2>4. QED
    BY <1>2, <1>6, <2>2, <2>3
<1>9. QED
  BY <1>7, <1>8

\* The reservation row takes over the bytes of its initiate.
LEMMA CoverRecord ==
    ASSUME CoverInv, NEW w \in Worker, RecordReservation(w)
    PROVE  ReservedCoversActive'
<1> SUFFICES ASSUME NEW s \in Scope
             PROVE  reserved'[s] >= Bytes(granted', Active(s)') + Bytes(amount', Making(s)')
  BY DEF ReservedCoversActive, Active, Making
<1>t. TypeOK /\ JobOK
  BY DEF CoverInv, ClaimInv, TypeInv
<1>1. PICK a \in Att : a = job[w]
  BY <1>t DEF RecordReservation, JobOK
<1>2. res[a] = "none"
  BY <1>1 DEF RecordReservation, CoverInv, ClaimInv, FreshInitiate, Initiating
<1>3. /\ res' = [res EXCEPT ![a] = "active"] /\ granted' = [granted EXCEPT ![a] = amount[w]]
      /\ pc' = [pc EXCEPT ![w] = "idle"] /\ job' = [job EXCEPT ![w] = NoAtt]
      /\ amount' = [amount EXCEPT ![w] = 0] /\ reserved' = reserved
  BY <1>1 DEF RecordReservation, Done, Goto, quota
<1>4. a \notin Active(s) /\ \A x \in Active(s) : granted[x] = granted'[x]
  BY <1>t, <1>2, <1>3 DEF TypeOK, Active, In
<1>5. granted'[a] = amount[w] /\ amount[w] \in 0..MaxImage
  BY <1>t, <1>3 DEF TypeOK
<1>6. Making(s)' = Making(s) \ {w} /\ \A v \in Making(s) \ {w} : amount[v] = amount'[v]
  BY <1>t, <1>3 DEF TypeOK, Making
<1>7. /\ Bytes(granted, Active(s)) \in Nat /\ Bytes(amount, Making(s)) \in Nat
      /\ Bytes(amount', Making(s)') \in Nat /\ reserved[s] \in Nat
  BY <1>t, ScopesFinite, BytesType DEF TypeOK
<1>8. reserved[s] >= Bytes(granted, Active(s)) + Bytes(amount, Making(s))
  BY CoverByScope DEF CoverInv
<1>9. CASE s \in ScopesOf(a)
  <2>1. Active(s)' = Active(s) \union {a}
    BY <1>t, <1>3, <1>9 DEF TypeOK, Active, In
  <2>2. Bytes(granted', Active(s)') = Bytes(granted, Active(s)) + amount[w]
    BY <2>1, <1>4, <1>5, ScopesFinite, BytesAdd
  <2>3. w \in Making(s)
    BY <1>1, <1>9 DEF RecordReservation, Making
  <2>4. Bytes(amount, Making(s)) = Bytes(amount', Making(s)') + amount[w]
    BY <2>3, <1>5, <1>6, ScopesFinite, BytesDrop
  <2>5. QED
    BY <1>3, <1>5, <1>7, <1>8, <2>2, <2>4
<1>10. CASE s \notin ScopesOf(a)
  <2>1. Active(s)' = Active(s)
    BY <1>t, <1>2, <1>3, <1>10 DEF TypeOK, Active, In
  <2>2. Bytes(granted', Active(s)') = Bytes(granted, Active(s))
    BY <2>1, <1>4, BytesEqual
  <2>3. Bytes(amount', Making(s)') <= Bytes(amount, Making(s))
    BY <1>6, ScopesFinite, BytesMonotone
  <2>4. QED
    BY <1>3, <1>7, <1>8, <2>2, <2>3
<1>11. QED
  BY <1>9, <1>10

\* A commit gives back exactly what was granted: the counter holds at least that.
LEMMA CoverCommit ==
    ASSUME CoverInv, NEW w \in Worker, CommitFinalAttachment(w), CommitAllowed(job[w])
    PROVE  ReservedCoversActive'
<1> SUFFICES ASSUME NEW s \in Scope
             PROVE  reserved'[s] >= Bytes(granted', Active(s)') + Bytes(amount', Making(s)')
  BY DEF ReservedCoversActive, Active, Making
<1>t. TypeOK /\ JobOK
  BY DEF CoverInv, ClaimInv, TypeInv
<1>1. PICK a \in Att : a = job[w]
  BY <1>t DEF CommitFinalAttachment, JobOK
<1>2. /\ res[a] = "active" /\ res' = [res EXCEPT ![a] = "committed"]
      /\ granted' = granted /\ Settle(a, amount[w]) /\ Done(w)
  BY <1>1 DEF CommitFinalAttachment, CommitAllowed
<1>3. Making(s)' = Making(s) /\ \A v \in Making(s) : amount[v] = amount'[v]
  BY <1>t, <1>2 DEF CommitFinalAttachment, Done, Goto, TypeOK, Making
<1>4. Bytes(amount', Making(s)') = Bytes(amount, Making(s))
  BY <1>3, BytesEqual
<1>5. Active(s)' = Active(s) \ {a}
  BY <1>t, <1>2 DEF TypeOK, Active, In
<1>6. /\ Bytes(granted, Active(s)) \in Nat /\ Bytes(granted, Active(s)') \in Nat
      /\ Bytes(amount, Making(s)) \in Nat /\ reserved[s] \in Nat /\ granted[a] \in 0..MaxImage
      /\ MaxImage \in Nat
  BY <1>t, ScopesFinite, BytesType, AttachmentAssumption DEF TypeOK
<1>7. reserved[s] >= Bytes(granted, Active(s)) + Bytes(amount, Making(s))
  BY CoverByScope DEF CoverInv
<1>8. CASE s \in ScopesOf(a)
  <2>1. a \in Active(s)
    BY <1>2, <1>8 DEF Active, In
  <2>2. Bytes(granted, Active(s)) = Bytes(granted, Active(s)') + granted[a]
    BY <2>1, <1>5, <1>6, ScopesFinite, BytesDrop
  <2>3. reserved'[s] = Minus(reserved[s], granted[a])
    BY <1>2, <1>8 DEF Settle
  <2>4. QED
    BY <1>2, <1>4, <1>6, <1>7, <2>2, <2>3 DEF Minus
<1>9. CASE s \notin ScopesOf(a)
  <2>1. Bytes(granted, Active(s)') <= Bytes(granted, Active(s))
    BY <1>5, ScopesFinite, BytesMonotone
  <2>2. reserved'[s] = reserved[s]
    BY <1>2, <1>9 DEF Settle
  <2>3. QED
    BY <1>2, <1>4, <1>6, <1>7, <2>1, <2>2
<1>10. QED
  BY <1>8, <1>9

\* The reaper gives back what the reservations it ends were granted, together; what
\* recovery released is not given back at all.
LEMMA CoverReconcile ==
    ASSUME CoverInv, ReconcileCommit
    PROVE  ReservedCoversActive'
<1> SUFFICES ASSUME NEW s \in Scope
             PROVE  reserved'[s] >= Bytes(granted', Active(s)') + Bytes(amount', Making(s)')
  BY DEF ReservedCoversActive, Active, Making
<1>t. TypeOK
  BY DEF CoverInv, ClaimInv, TypeInv
<1>1. Making(s)' = Making(s) /\ amount' = amount /\ granted' = granted
  BY DEF ReconcileCommit, workers, Making
<1>2. Active(s)' \intersect In(s, Overdue) = {}
  BY DEF ReconcileCommit, Active, In
<1>3. Active(s)' \union In(s, Overdue) \subseteq Active(s)
  BY <1>t DEF ReconcileCommit, Overdue, RecoveredRes, Active, In, TypeOK
<1>4. IsFiniteSet(In(s, Overdue))
  BY <1>3, ScopesFinite, FS_Subset
<1>5. Bytes(granted, Active(s)' \union In(s, Overdue))
        = Bytes(granted, Active(s)') + Bytes(granted, In(s, Overdue))
  BY <1>2, <1>4, ScopesFinite, BytesDisjoint
<1>6. Bytes(granted, Active(s)' \union In(s, Overdue)) <= Bytes(granted, Active(s))
  BY <1>3, ScopesFinite, BytesMonotone
<1>7. /\ Bytes(granted, Active(s)) \in Nat /\ Bytes(granted, Active(s)') \in Nat
      /\ Bytes(granted, In(s, Overdue)) \in Nat /\ Bytes(amount, Making(s)) \in Nat
      /\ reserved[s] \in Nat
  BY <1>t, <1>4, ScopesFinite, BytesType DEF TypeOK
<1>8. reserved[s] >= Bytes(granted, Active(s)) + Bytes(amount, Making(s))
  BY CoverByScope DEF CoverInv
<1>9. reserved'[s] = Minus(reserved[s], Bytes(granted, In(s, Overdue)))
  BY DEF ReconcileCommit, Reaped
<1>10. QED
  BY <1>1, <1>5, <1>6, <1>7, <1>8, <1>9 DEF Minus

LEMMA CoverStep == CoverInv /\ [Next]_vars => CoverInv'
<1> SUFFICES ASSUME CoverInv, [Next]_vars PROVE ReservedCoversActive'
  BY ClaimStep DEF CoverInv
<1>t. TypeOK /\ JobOK
  BY DEF CoverInv, ClaimInv, TypeInv
<1>0. TypeInv'
  BY TypeStep DEF CoverInv, ClaimInv
<1> USE DEF rows, quota, workers
<1>1. ASSUME NEW w \in Worker, NEW a \in Att, Request(w, a) PROVE ReservedCoversActive'
  <2>1. CASE \E b \in 1..MaxImage : Reserve(w, a, b)
    BY <2>1, CoverReserve
  <2>2. CASE (\E b \in 1..MaxImage : Receive(w, a, b)) \/ TryMarkFinalizing(w, a)
    <3>1. reserved' = reserved /\ res' = res /\ granted' = granted
      BY <2>2 DEF Receive, TryMarkFinalizing
    <3>2. ASSUME NEW v \in Worker, Initiating(v)'
          PROVE  Initiating(v) /\ job'[v] = job[v] /\ amount'[v] = amount[v]
      BY <1>t, <2>2, <3>2 DEF Receive, TryMarkFinalizing, Goto, Initiating, TypeOK
    <3>3. QED
      BY <1>t, <1>0, <3>1, <3>2, CoverKept DEF TypeOK
  <2>3. QED
    BY <1>1, <2>1, <2>2 DEF Request
<1>2. ASSUME NEW w \in Worker, RecordReservation(w) PROVE ReservedCoversActive'
  BY <1>2, CoverRecord
<1>3. ASSUME NEW w \in Worker, CommitFinalAttachment(w), CommitAllowed(job[w])
      PROVE  ReservedCoversActive'
  BY <1>3, CoverCommit
<1>4. ASSUME NEW w \in Worker, Continue(w) \/ Crash(w), ~RecordReservation(w),
             ~(CommitFinalAttachment(w) /\ CommitAllowed(job[w]))
      PROVE  ReservedCoversActive'
  <2>1. reserved' = reserved /\ res' = res /\ granted' = granted
    BY <1>4 DEF Continue, Crash, RecordIssued, ClaimForUpload, StageFile, StageFileFails,
         RecordStaged, FindFile, MoveToFinal, CommitFinalAttachment
  <2>2. /\ \/ pc' = [pc EXCEPT ![w] = "issued"] /\ pc[w] = "reserved"
              /\ job' = [job EXCEPT ![w] = job[w]] /\ amount' = [amount EXCEPT ![w] = amount[w]]
           \/ \E step \in Step \ {"reserved", "issued"} : \E a, b :
                 pc' = [pc EXCEPT ![w] = step] /\ job' = [job EXCEPT ![w] = a]
                 /\ amount' = [amount EXCEPT ![w] = b]
    BY <1>4 DEF Continue, Crash, RecordIssued, ClaimForUpload, StageFile, StageFileFails,
         RecordStaged, FindFile, MoveToFinal, CommitFinalAttachment, Done, Goto, Step
  <2>3. ASSUME NEW v \in Worker, Initiating(v)'
        PROVE  Initiating(v) /\ job'[v] = job[v] /\ amount'[v] = amount[v]
    BY <1>t, <2>2, <2>3 DEF Initiating, TypeOK
  <2>4. QED
    BY <1>t, <1>0, <2>1, <2>3, CoverKept DEF TypeOK
<1>5. CASE ReconcileCommit
  BY <1>5, CoverReconcile
<1>6. CASE ReconcileBegin \/ ReconcileAborts \/ Tick \/ UNCHANGED vars
  <2>1. UNCHANGED <<reserved, res, granted, pc, job, amount>>
    BY <1>6 DEF ReconcileBegin, ReconcileAborts, Tick, vars
  <2>2. QED
    BY <1>t, <1>0, <2>1, CoverKept DEF Initiating, TypeOK
<1>7. QED
  BY <1>1, <1>2, <1>3, <1>4, <1>5, <1>6 DEF Next

\* No commit, reaping, recovery or crash gives the same bytes back twice: what the quota
\* rows hold as reserved covers every live reservation and every one being made.
THEOREM ReservedCorrect == Spec => []ReservedCoversActive
<1>1. CoverInv => ReservedCoversActive
  BY DEF CoverInv
<1>2. QED
  BY <1>1, CoverInit, CoverStep, PTL DEF Spec

-----------------------------------------------------------------------------
(***************************************************************************)
(* The used bytes never overcount.  The commit charges what the worker     *)
(* read when it found the file; the file, once found, is neither lost nor  *)
(* changed before the commit, nor after it.                                *)
(***************************************************************************)

FoundInv ==
    /\ \A w \in Worker : pc[w] \in {"moving", "located"} =>
          dir[job[w]] # "none" /\ size[job[w]] = amount[w]
    /\ \A a \in Att : state[a] = "committed" => dir[a] # "none"

Committed(s) == In(s, {a \in Att : state[a] = "committed"})

UsedInv == ClaimInv /\ FileInv /\ FoundInv /\ UsedNeverOvercounts

LEMMA CommittedFinite == \A s : IsFiniteSet(Committed(s)) /\ IsFiniteSet(Committed(s)')
BY AttachmentAssumption, FS_Subset DEF Committed, In

LEMMA UsedInit == Init => UsedInv
<1> SUFFICES ASSUME Init PROVE FoundInv /\ UsedNeverOvercounts
  BY ClaimInit, FileInit DEF UsedInv
<1>1. FoundInv
  BY DEF Init, FoundInv
<1>2. \A s \in Scope : Bytes(size, Committed(s)) \in Nat
  BY CommittedFinite, BytesType
<1>3. QED
  BY <1>1, <1>2 DEF Init, UsedNeverOvercounts, Committed

LEMMA FoundStep ==
    ASSUME UsedInv, [Next]_vars
    PROVE  FoundInv'
<1>t. TypeOK /\ JobOK
  BY DEF UsedInv, ClaimInv, TypeInv
<1>k. \A a \in Att : dir[a] # "none" => dir'[a] # "none" /\ size'[a] = size[a]
  BY StagedKept DEF UsedInv
<1>f. FoundInv
  BY DEF UsedInv
\* A worker that goes on as it was, or is done, still has its file.
<1>1. ASSUME NEW w \in Worker,
             pc'[w] \in {"moving", "located"} =>
                pc[w] \in {"moving", "located"} /\ job'[w] = job[w] /\ amount'[w] = amount[w]
      PROVE  pc'[w] \in {"moving", "located"} => dir'[job'[w]] # "none" /\ size'[job'[w]] = amount'[w]
  BY <1>t, <1>k, <1>f, <1>1 DEF FoundInv, JobOK
<1> USE DEF rows, disk, workers
<1>2. ASSUME NEW w \in Worker, Continue(w) \/ Crash(w) \/ \E a \in Att : Request(w, a)
      PROVE  \A v \in Worker \ {w} : pc'[v] = pc[v] /\ job'[v] = job[v] /\ amount'[v] = amount[v]
  <2>1. \E step, a, b : Goto(w, step, a, b)
    BY <1>2 DEF Continue, Crash, Request, RecordIssued, RecordReservation, ClaimForUpload,
         StageFile, StageFileFails, RecordStaged, FindFile, MoveToFinal,
         CommitFinalAttachment, Reserve, Receive, TryMarkFinalizing, Done
  <2>2. QED
    BY <1>t, <2>1 DEF Goto, TypeOK
<1>3. ASSUME NEW w \in Worker, FindFile(w)
      PROVE  pc'[w] \in {"moving", "located"} => dir'[job'[w]] # "none" /\ size'[job'[w]] = amount'[w]
  BY <1>t, <1>3 DEF FindFile, Goto, Done, TypeOK
<1>4. ASSUME NEW w \in Worker, MoveToFinal(w)
      PROVE  pc'[w] \in {"moving", "located"} => dir'[job'[w]] # "none" /\ size'[job'[w]] = amount'[w]
  BY <1>t, <1>4, <1>1 DEF MoveToFinal, Goto, TypeOK
<1>5. ASSUME NEW w \in Worker, Continue(w) \/ Crash(w) \/ \E a \in Att : Request(w, a),
             ~FindFile(w), ~MoveToFinal(w)
      PROVE  pc'[w] \notin {"moving", "located"}
  <2>1. \E step \in Step \ {"moving", "located"} : \E a, b : Goto(w, step, a, b)
    BY <1>5 DEF Continue, Crash, Request, RecordIssued, RecordReservation, ClaimForUpload,
         StageFile, StageFileFails, RecordStaged, CommitFinalAttachment, Reserve, Receive,
         TryMarkFinalizing, Done, Step
  <2>2. QED
    BY <1>t, <2>1 DEF Goto, TypeOK
<1>6. \A w \in Worker : pc'[w] \in {"moving", "located"} =>
          dir'[job'[w]] # "none" /\ size'[job'[w]] = amount'[w]
  <2>1. CASE \E w \in Worker : Continue(w) \/ Crash(w) \/ \E a \in Att : Request(w, a)
    BY <2>1, <1>1, <1>2, <1>3, <1>4, <1>5
  <2>2. CASE ReconcileBegin \/ ReconcileCommit \/ ReconcileAborts \/ Tick \/ UNCHANGED vars
    <3>1. UNCHANGED workers
      BY <2>2 DEF ReconcileBegin, ReconcileCommit, ReconcileAborts, Tick, vars
    <3>2. QED
      BY <1>1, <3>1
  <2>3. QED
    BY <2>1, <2>2 DEF Next
<1>7. ASSUME NEW a \in Att, state'[a] = "committed" PROVE dir'[a] # "none"
  <2>1. CASE state[a] = "committed"
    BY <1>k, <1>f, <2>1 DEF FoundInv
  <2>2. CASE state[a] # "committed"
    <3>1. PICK w \in Worker : CommitFinalAttachment(w) /\ CommitAllowed(job[w]) /\ job[w] = a
      BY <1>t, <1>7, <2>2 DEF Next, vars, Continue, Crash, Request, RecordIssued,
           RecordReservation, ClaimForUpload, StageFile, StageFileFails, RecordStaged,
           FindFile, MoveToFinal, CommitFinalAttachment, Reserve, Receive,
           TryMarkFinalizing, ReconcileBegin, ReconcileCommit, ReconcileAborts, Tick,
           RecoveredState, TypeOK
    <3>2. pc[w] \in {"moving", "located"}
      BY <3>1 DEF CommitFinalAttachment
    <3>3. QED
      BY <1>k, <1>f, <3>1, <3>2 DEF FoundInv
  <2>3. QED
    BY <2>1, <2>2
<1>8. QED
  BY <1>6, <1>7 DEF FoundInv

LEMMA UsedCommit ==
    ASSUME UsedInv, NEW w \in Worker, CommitFinalAttachment(w), CommitAllowed(job[w])
    PROVE  UsedNeverOvercounts'
<1> SUFFICES ASSUME NEW s \in Scope
             PROVE  used'[s] <= Bytes(size', Committed(s)')
  BY DEF UsedNeverOvercounts, Committed
<1>t. TypeOK /\ JobOK
  BY DEF UsedInv, ClaimInv, TypeInv
<1>1. PICK a \in Att : a = job[w]
  BY <1>t DEF CommitFinalAttachment, JobOK
<1>2. /\ state[a] = "finalizing" /\ state' = [state EXCEPT ![a] = "committed"]
      /\ size' = size /\ Settle(a, amount[w])
  BY <1>1 DEF CommitFinalAttachment, CommitAllowed, disk
<1>3. size[a] = amount[w] /\ size[a] \in 0..MaxImage
  BY <1>t, <1>1 DEF CommitFinalAttachment, UsedInv, FoundInv, TypeOK
<1>4. /\ Bytes(size, Committed(s)) \in Nat /\ used[s] \in Nat /\ MaxImage \in Nat
  BY <1>t, CommittedFinite, BytesType, AttachmentAssumption DEF TypeOK
<1>5. used[s] <= Bytes(size, Committed(s))
  BY DEF UsedInv, UsedNeverOvercounts, Committed
<1>6. CASE s \in ScopesOf(a)
  <2>1. a \notin Committed(s) /\ Committed(s)' = Committed(s) \union {a}
    BY <1>t, <1>2, <1>6 DEF TypeOK, Committed, In
  <2>2. Bytes(size', Committed(s)') = Bytes(size, Committed(s)) + size[a]
    BY <1>2, <1>3, <2>1, CommittedFinite, BytesAdd
  <2>3. used'[s] = used[s] + amount[w]
    BY <1>2, <1>6 DEF Settle
  <2>4. QED
    BY <1>3, <1>4, <1>5, <2>2, <2>3
<1>7. CASE s \notin ScopesOf(a)
  <2>1. Committed(s)' = Committed(s)
    BY <1>t, <1>2, <1>7 DEF TypeOK, Committed, In
  <2>2. used'[s] = used[s]
    BY <1>2, <1>7 DEF Settle
  <2>3. QED
    BY <1>2, <1>5, <2>1, <2>2
<1>8. QED
  BY <1>6, <1>7

\* A step that charges nothing takes no committed file away.
LEMMA UsedKept ==
    ASSUME UsedInv, [Next]_vars,
           ~\E w \in Worker : CommitFinalAttachment(w) /\ CommitAllowed(job[w])
    PROVE  UsedNeverOvercounts'
<1> SUFFICES ASSUME NEW s \in Scope
             PROVE  used'[s] <= Bytes(size', Committed(s)')
  BY DEF UsedNeverOvercounts, Committed
<1>t. TypeOK /\ JobOK
  BY DEF UsedInv, ClaimInv, TypeInv
<1> USE DEF rows, disk, quota, workers
<1>1. used'[s] = used[s] \/ used'[s] = 0
  BY DEF Next, vars, Continue, Crash, Request, RecordIssued, RecordReservation,
     ClaimForUpload, StageFile, StageFileFails, RecordStaged, FindFile, MoveToFinal,
     CommitFinalAttachment, Reserve, Receive, TryMarkFinalizing, ReconcileBegin,
     ReconcileCommit, ReconcileAborts, Tick
<1>2. ASSUME NEW a \in Att, state[a] = "committed" PROVE state'[a] = "committed"
  <2>1. CASE \E w \in Worker : Continue(w)
    BY <1>t, <1>2, <2>1 DEF Continue, RecordIssued, RecordReservation, ClaimForUpload,
       StageFile, StageFileFails, RecordStaged, FindFile, MoveToFinal,
       CommitFinalAttachment, UsedInv, ClaimInv, FreshInitiate, Initiating,
       UploadClaimExclusive, Uploading, TypeOK
  <2>2. CASE ~\E w \in Worker : Continue(w)
    BY <1>t, <1>2, <2>2 DEF Next, vars, Crash, Request, Reserve, Receive,
       TryMarkFinalizing, CanFinalize, ReconcileBegin, ReconcileCommit, ReconcileAborts,
       Tick, RecoveredState, TypeOK
  <2>3. QED
    BY <2>1, <2>2
<1>3. Committed(s) \subseteq Committed(s)'
  BY <1>2 DEF Committed, In
<1>4. \A a \in Committed(s) : size[a] = size'[a]
  BY StagedKept DEF UsedInv, FoundInv, Committed, In
<1>5. Bytes(size, Committed(s)) <= Bytes(size', Committed(s)')
  BY <1>3, <1>4, CommittedFinite, BytesMonotone
<1>6. /\ Bytes(size, Committed(s)) \in Nat /\ Bytes(size', Committed(s)') \in Nat
      /\ used[s] \in Nat
  BY <1>t, CommittedFinite, BytesType DEF TypeOK
<1>7. used[s] <= Bytes(size, Committed(s))
  BY DEF UsedInv, UsedNeverOvercounts, Committed
<1>8. QED
  BY <1>1, <1>5, <1>6, <1>7

LEMMA UsedStep == UsedInv /\ [Next]_vars => UsedInv'
<1> SUFFICES ASSUME UsedInv, [Next]_vars PROVE UsedNeverOvercounts'
  BY ClaimStep, FileStep, FoundStep DEF UsedInv
<1>1. QED
  BY UsedCommit, UsedKept

\* Every byte of used quota is a byte of a committed file, whichever crashes, retries,
\* recoveries and rescans come in: a commit charges once, and what it charges is there.
THEOREM UsedCorrect == Spec => []UsedNeverOvercounts
<1>1. UsedInv => UsedNeverOvercounts
  BY DEF UsedInv
<1>2. QED
  BY <1>1, UsedInit, UsedStep, PTL DEF Spec
=============================================================================
