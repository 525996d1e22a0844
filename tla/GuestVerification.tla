-------------------------- MODULE GuestVerification --------------------------
(***************************************************************************)
(* Verification of a guest's e-mail with a one-time code, and the request  *)
(* that waits for it.  Magento keeps one row per e-mail and session and    *)
(* works on it under a lock per e-mail; the gateway keeps the access it    *)
(* was granted per connection and in the session's cache, and resumes what *)
(* the shopper had asked.  A call is one socket message under way: those   *)
(* of one connection overlap.  Time is left out: what depends on it (a     *)
(* code or an access that expired, a send that is refused) may happen at   *)
(* any time.                                                               *)
(***************************************************************************)
EXTENDS Integers, FiniteSets

CONSTANTS
    Emails, Sessions, GuestSockets, Calls,
    SessionOf,      \* the session of a connection
    ConnectionOf,   \* the connection of a call
    NoCall,
    MaxAttempts,    \* MAX_ATTEMPTS
    MaxCodes,       \* bounds the codes that are sent
    MaxRemembered,  \* bounds the requests that wait for a verification
    MaxLost         \* bounds the outcomes that are not written, of each code

ASSUME VerificationAssumption ==
    /\ SessionOf \in [GuestSockets -> Sessions] /\ ConnectionOf \in [Calls -> GuestSockets]
    /\ NoCall \notin Calls /\ IsFiniteSet(GuestSockets)
    /\ MaxAttempts \in Nat \ {0} /\ MaxCodes \in Nat
    /\ MaxRemembered \in Nat /\ MaxLost \in Nat

VARIABLES
    challenge,      \* the rows of afd_ai_guest_order_access
    codeLock,       \* who works on an e-mail's challenges
    call,           \* what each call is doing
    access,         \* the code that granted a connection's access, 0 for none
    cachedAccess,   \* the same in the session's cache
    pending,        \* pendingVerificationAction: a request waits
    sent,           \* codes sent
    guesses, grants,            \* of each code, how often it was compared and granted,
    lost,                       \* and how often the outcome was not written
    remembered, resumed         \* requests that waited and that went on

verificationVars == <<challenge, codeLock, call, access, cachedAccess, pending, sent, guesses,
                      grants, lost, remembered, resumed>>

Codes == 1..MaxCodes
Challenge == [code : 0..MaxCodes, attempts : 0..MaxAttempts]
NoChallenge == [code |-> 0, attempts |-> 0]
Keys == Emails \X Sessions
Phases == {"idle", "request", "verify", "sending", "checking", "wrong", "right",
           "remembering", "verified", "admitted"}
Call == [phase : Phases, email : Emails, row : Challenge]

VerificationTypeOK ==
    /\ challenge \in [Keys -> Challenge]
    /\ codeLock \in [Emails -> Calls \union {NoCall}]
    /\ call \in [Calls -> Call]
    /\ access \in [GuestSockets -> 0..MaxCodes] /\ cachedAccess \in [Sessions -> 0..MaxCodes]
    /\ pending \in [GuestSockets -> BOOLEAN]
    /\ sent \in 0..MaxCodes
    /\ guesses \in [Codes -> Nat] /\ grants \in [Codes -> Nat]
    /\ lost \in [Codes -> 0..MaxLost]
    /\ remembered \in 0..MaxRemembered /\ resumed \in Nat

VerificationInit ==
    /\ challenge = [k \in Keys |-> NoChallenge]
    /\ codeLock = [e \in Emails |-> NoCall]
    /\ \E e \in Emails : call = [c \in Calls |-> [phase |-> "idle", email |-> e, row |-> NoChallenge]]
    /\ access = [n \in GuestSockets |-> 0] /\ cachedAccess = [s \in Sessions |-> 0]
    /\ pending = [n \in GuestSockets |-> FALSE]
    /\ sent = 0 /\ guesses = [d \in Codes |-> 0] /\ grants = [d \in Codes |-> 0]
    /\ lost = [d \in Codes |-> 0]
    /\ remembered = 0 /\ resumed = 0

Of(c) == ConnectionOf[c]
SessionOfCall(c) == SessionOf[ConnectionOf[c]]
KeyOf(c) == <<call[c].email, SessionOfCall(c)>>
Doing(c, phase) == call[c].phase = phase
Goes(c, phase) == call' = [call EXCEPT ![c].phase = phase]
OnlyCalls == UNCHANGED <<challenge, access, cachedAccess, pending, sent, guesses, grants,
                         lost, remembered, resumed>>

(***************************************************************************)
(* A request that needs verification                                       *)
(***************************************************************************)
\* guest_order_access_required: the request waits, the rejected access is dropped.
RememberPendingVerificationAction(n) ==
    /\ remembered < MaxRemembered
    /\ remembered' = remembered + 1
    /\ pending' = [pending EXCEPT ![n] = TRUE]
    /\ access' = [access EXCEPT ![n] = 0]
    /\ cachedAccess' = [cachedAccess EXCEPT ![SessionOf[n]] = 0]
    /\ UNCHANGED <<challenge, codeLock, call, sent, guesses, grants, lost, resumed>>

\* It expires, or the shopper sends another message.
ClearPendingVerificationAction(n) ==
    /\ pending[n] /\ pending' = [pending EXCEPT ![n] = FALSE]
    /\ UNCHANGED <<challenge, codeLock, call, access, cachedAccess, sent, guesses, grants,
                   lost, remembered, resumed>>

\* hydrateGuestOrderAccess: an access that expired is dropped, with the cache; a
\* connection without one takes the cached one.
HydrateGuestOrderAccess(n) ==
    /\ \/ /\ access' = [access EXCEPT ![n] = 0]
          /\ cachedAccess' = [cachedAccess EXCEPT ![SessionOf[n]] = 0]
       \/ /\ access[n] = 0 /\ access' = [access EXCEPT ![n] = cachedAccess[SessionOf[n]]]
          /\ UNCHANGED cachedAccess
    /\ UNCHANGED <<challenge, codeLock, call, pending, sent, guesses, grants, lost,
                   remembered, resumed>>

(***************************************************************************)
(* guest_order_request_otp and guest_order_verify_otp                      *)
(***************************************************************************)
RequestOtp(c) ==
    /\ Doing(c, "idle")
    /\ \E e \in Emails : call' = [call EXCEPT ![c] = [@ EXCEPT !.phase = "request", !.email = e]]
    /\ access' = [access EXCEPT ![Of(c)] = 0]
    /\ cachedAccess' = [cachedAccess EXCEPT ![SessionOfCall(c)] = 0]
    /\ UNCHANGED <<challenge, codeLock, pending, sent, guesses, grants, lost, remembered, resumed>>

VerifyOtp(c) ==
    /\ Doing(c, "idle")
    /\ \E e \in Emails : call' = [call EXCEPT ![c] = [@ EXCEPT !.phase = "verify", !.email = e]]
    /\ UNCHANGED codeLock /\ OnlyCalls

\* Mutant: the lock is not waited for.
AnyLock(e) == TRUE
LockFree(e) == codeLock[e] = NoCall

\* withLock: it is taken, or the shopper has to wait.
WithLock(c, from, to) ==
    /\ Doing(c, from) /\ LockFree(call[c].email)
    /\ codeLock' = [codeLock EXCEPT ![call[c].email] = c]
    /\ call' = [call EXCEPT ![c] = [@ EXCEPT !.phase = to, !.row = challenge[KeyOf(c)]]]
    /\ OnlyCalls

LockRefused(c) ==
    /\ Doing(c, "request") \/ Doing(c, "verify")
    /\ ~LockFree(call[c].email) /\ Goes(c, "idle")
    /\ UNCHANGED codeLock /\ OnlyCalls

Unlocks(c) == codeLock' = [codeLock EXCEPT ![call[c].email] = NoCall]

\* createChallenge: the row starts again with a new code; the e-mail is sent.
CreateChallenge(c) ==
    /\ Doing(c, "sending") /\ sent < MaxCodes
    /\ sent' = sent + 1
    /\ challenge' = [challenge EXCEPT ![KeyOf(c)] = [code |-> sent + 1, attempts |-> 0]]
    /\ Goes(c, "idle") /\ Unlocks(c)
    /\ UNCHANGED <<access, cachedAccess, pending, guesses, grants, lost, remembered, resumed>>

\* The e-mail could not be sent: the row goes.
SendFails(c) ==
    /\ Doing(c, "sending")
    /\ challenge' = [challenge EXCEPT ![KeyOf(c)] = NoChallenge]
    /\ Goes(c, "idle") /\ Unlocks(c)
    /\ UNCHANGED <<access, cachedAccess, pending, sent, guesses, grants, lost,
                   remembered, resumed>>

\* Too many sends, or one a moment ago.
SendRefused(c) ==
    /\ Doing(c, "sending") /\ Goes(c, "idle") /\ Unlocks(c)
    /\ OnlyCalls

\* Mutant: one attempt too many.
AttemptsUpToMax(row) == row.code # 0 /\ row.attempts <= MaxAttempts
AttemptsLeft(row) == row.code # 0 /\ row.attempts < MaxAttempts

\* completeChallenge: the code is compared with the row that was read.
CheckCode(c) ==
    /\ Doing(c, "checking") /\ AttemptsLeft(call[c].row)
    /\ guesses' = [guesses EXCEPT ![call[c].row.code] = @ + 1]
    /\ Goes(c, "wrong") \/ Goes(c, "right")
    /\ UNCHANGED <<challenge, codeLock, access, cachedAccess, pending, sent, grants,
                   lost, remembered, resumed>>

\* No row, too many attempts, or the code expired.
CodeRefused(c) ==
    /\ Doing(c, "checking") /\ Goes(c, "idle") /\ Unlocks(c)
    /\ OnlyCalls

\* incrementAttempts
CountAttempt(c) ==
    /\ Doing(c, "wrong")
    /\ challenge' = [challenge EXCEPT ![KeyOf(c)].attempts = call[c].row.attempts + 1]
    /\ Goes(c, "idle") /\ Unlocks(c)
    /\ UNCHANGED <<access, cachedAccess, pending, sent, guesses, grants, lost,
                   remembered, resumed>>

\* grantAccess: the row is used up.
GrantAccess(c) ==
    /\ Doing(c, "right")
    /\ challenge' = [challenge EXCEPT ![KeyOf(c)].attempts = MaxAttempts]
    /\ grants' = [grants EXCEPT ![call[c].row.code] = @ + 1]
    /\ Goes(c, "remembering") /\ Unlocks(c)
    /\ UNCHANGED <<access, cachedAccess, pending, sent, guesses, lost, remembered, resumed>>

\* The row cannot be written, or the process dies before it is: it stays as it was, and
\* the lock is free again.
OutcomeNotWritten(c) ==
    /\ Doing(c, "wrong") \/ Doing(c, "right")
    /\ lost[call[c].row.code] < MaxLost
    /\ lost' = [lost EXCEPT ![call[c].row.code] = @ + 1]
    /\ Goes(c, "idle") /\ Unlocks(c)
    /\ UNCHANGED <<challenge, access, cachedAccess, pending, sent, guesses, grants,
                   remembered, resumed>>

\* The answer of Magento is lost or late: nothing is remembered of it.
AnswerLost(c) ==
    /\ Doing(c, "remembering") /\ Goes(c, "idle")
    /\ UNCHANGED codeLock /\ OnlyCalls

\* rememberGuestOrderAccess
RememberGuestOrderAccess(c) ==
    /\ Doing(c, "remembering") /\ Goes(c, "verified")
    /\ access' = [access EXCEPT ![Of(c)] = call[c].row.code]
    /\ cachedAccess' = [cachedAccess EXCEPT ![SessionOfCall(c)] = call[c].row.code]
    /\ UNCHANGED <<challenge, codeLock, pending, sent, guesses, grants, lost, remembered, resumed>>

\* hasPendingVerificationAction, before the throttle is asked.
AdmitResumption(c) ==
    /\ Doing(c, "verified")
    /\ (pending[Of(c)] /\ Goes(c, "admitted")) \/ Goes(c, "idle")
    /\ UNCHANGED codeLock /\ OnlyCalls

\* Mutant: the waiting request is looked at and not taken.
OnlyReadPending(n) == UNCHANGED pending
\* consumePendingVerificationAction
TakePending(n) == pending' = [pending EXCEPT ![n] = FALSE]

\* The throttle let the resumed turn through.
ResumePendingAction(c) ==
    /\ Doing(c, "admitted") /\ Goes(c, "idle")
    /\ TakePending(Of(c))
    /\ resumed' = IF pending[Of(c)] THEN resumed + 1 ELSE resumed
    /\ UNCHANGED <<challenge, codeLock, access, cachedAccess, sent, guesses, grants,
                   lost, remembered>>

MagentoSteps(c) ==
    \/ WithLock(c, "request", "sending") \/ WithLock(c, "verify", "checking") \/ LockRefused(c)
    \/ CreateChallenge(c) \/ SendFails(c) \/ SendRefused(c)
    \/ CheckCode(c) \/ CodeRefused(c) \/ CountAttempt(c) \/ GrantAccess(c)
    \/ OutcomeNotWritten(c)
GatewaySteps(c) ==
    \/ RequestOtp(c) \/ VerifyOtp(c) \/ AnswerLost(c) \/ RememberGuestOrderAccess(c)
    \/ AdmitResumption(c) \/ ResumePendingAction(c)
VerificationNext ==
    \/ \E c \in Calls : MagentoSteps(c) \/ GatewaySteps(c)
    \/ \E n \in GuestSockets : RememberPendingVerificationAction(n)
                              \/ ClearPendingVerificationAction(n) \/ HydrateGuestOrderAccess(n)
VerificationSpec == VerificationInit /\ [][VerificationNext]_verificationVars

(***************************************************************************)
(* Properties                                                              *)
(***************************************************************************)
\* However the calls of a shopper's tabs overlap, a code is tried at most MaxAttempts
\* times, and once more for each outcome that was not written, and lets in at most once.
CodesAreBounded == \A d \in Codes : guesses[d] <= MaxAttempts + lost[d] /\ grants[d] <= 1

\* A request that waited for a verification goes on at most once, although two
\* verifications of the connection may both have seen it waiting before they
\* awaited the throttle.
ResumedAtMostOnce == resumed <= remembered
=============================================================================
