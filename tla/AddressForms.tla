---------------------------- MODULE AddressForms ----------------------------
(***************************************************************************)
(* The forms with which a shopper changes the address of an order, or of   *)
(* her account, in one conversation that is open in several tabs.          *)
(*                                                                         *)
(* A tool's result makes the gateway issue a form: a frame of the answer   *)
(* that is being written, and the key that names the conversation's newest *)
(* form, written without being awaited.  The tab keeps the frame until the *)
(* answer is complete.  Forms are numbered as they are issued and expire   *)
(* in that order.  What a tab shows of a form is copied between tabs with  *)
(* the messages.                                                           *)
(*                                                                         *)
(* A submission passes the gateway's admission (the form's token, the      *)
(* newest form, limits, a lock per shopper), then the shop changes the     *)
(* address, then the lock is released and the result is sent.  The shop    *)
(* may still carry out a change whose call the gateway has given up.       *)
(***************************************************************************)
EXTENDS Integers, Sequences, SequencesExt

CONSTANTS
    Tabs,             \* the tabs that show the conversation
    MaxForms,         \* bound: forms issued
    MaxSubmissions    \* bound: submissions

ASSUME AddressAssumption ==
    Tabs # {} /\ MaxForms \in Nat \ {0} /\ MaxSubmissions \in Nat \ {0}

VARIABLES
    formKind,       \* what the forms change: "order" or "customer_account"
    formsIssued,    \* how many forms were issued
    formsGone,      \* how many of them are past their expiry
    answeringTab,   \* the tab that receives an answer, {} if none does
    pendingForms,   \* the frames of forms that tab keeps
    activating,     \* writes of the newest form's key that are on their way
    activeForm,     \* the form the key names, 0 if none
    formParts,      \* formParts[t]: the forms in the messages tab t shows
    submissions,    \* what became of each submission
    updateLock,     \* the submissions that hold the lock
    admitted,       \* the submissions that got the lock, in that order
    landed          \* the submissions the shop carried out, in that order

addressVars == <<formKind, formsIssued, formsGone, answeringTab, pendingForms, activating,
                 activeForm, formParts, submissions, updateLock, admitted, landed>>
turnVars == <<formsIssued, answeringTab, pendingForms, activating>>
shopVars == <<updateLock, admitted, landed>>

Forms == 1..MaxForms
Updates == 1..MaxSubmissions

FormParts == [form : Forms, busy : BOOLEAN, signed : BOOLEAN, updated : 0..MaxSubmissions,
              status : {"editing", "verification_required", "success", "expired"}]
\* "lost": nobody waits for the call any more, and the shop may still carry it out.
Stages == {"no", "checking", "admitting", "calling", "releasing", "answering", "over"}
Results == {"none", "success", "refused", "verify"}
Submission == [form : 0..MaxForms, tab : Tabs, signed : BOOLEAN, at : Stages,
               lost : BOOLEAN, heard : BOOLEAN, result : Results]
Unsent == [form |-> 0, tab |-> CHOOSE t \in Tabs : TRUE, signed |-> FALSE, at |-> "no",
           lost |-> FALSE, heard |-> FALSE, result |-> "none"]

AddressTypeOK ==
    /\ formKind \in {"order", "customer_account"}
    /\ formsIssued \in 0..MaxForms /\ formsGone \in 0..formsIssued
    /\ answeringTab = {} \/ \E t \in Tabs : answeringTab = {t}
    /\ pendingForms \in Seq(1..formsIssued) /\ activating \in Seq(1..formsIssued)
    /\ activeForm \in 0..formsIssued
    /\ formParts \in [Tabs -> Seq(FormParts)]
    /\ submissions \in [Updates -> Submission]
    /\ admitted \in Seq(Updates) /\ landed \in Seq(Updates)
    /\ updateLock \subseteq Range(admitted) /\ Range(landed) \subseteq Range(admitted)

AddressInit ==
    /\ formKind \in {"order", "customer_account"}
    /\ formsIssued = 0 /\ formsGone = 0 /\ answeringTab = {} /\ pendingForms = <<>>
    /\ activating = <<>> /\ activeForm = 0 /\ formParts = [t \in Tabs |-> <<>>]
    /\ submissions = [s \in Updates |-> Unsent]
    /\ updateLock = {} /\ admitted = <<>> /\ landed = <<>>

Unexpired(f) == f > formsGone   \* form f has not expired

\* Token, address and timer of the form go.
Expired(p) == [p EXCEPT !.status = "expired", !.busy = FALSE, !.signed = FALSE, !.updated = 0]
ExpiredOthers(parts, f) ==
    [i \in DOMAIN parts |-> IF parts[i].form # f /\ parts[i].status # "expired"
                            THEN Expired(parts[i]) ELSE parts[i]]

\* Made of the frame, or of what another tab's part says: its status and whether it is
\* busy are not said.
NewPart(f, signed) ==
    [form |-> f, busy |-> FALSE, signed |-> signed, updated |-> 0,
     status |-> IF Unexpired(f) THEN "editing" ELSE "expired"]

\* ---- The answer that brings a form ----

StartAnswer(t) ==
    /\ answeringTab = {} /\ formsIssued < MaxForms
    /\ answeringTab' = {t} /\ pendingForms' = <<>>
    /\ UNCHANGED <<formKind, formsIssued, formsGone, activating, activeForm, formParts,
                   submissions, shopVars>>

IssueForm ==
    /\ answeringTab # {} /\ formsIssued < MaxForms
    /\ formsIssued' = formsIssued + 1
    /\ pendingForms' = Append(pendingForms, formsIssued')
    /\ activating' = Append(activating, formsIssued')
    /\ UNCHANGED <<formKind, formsGone, answeringTab, activeForm, formParts, submissions, shopVars>>

\* The write may fail, which is only logged; a form that has expired is not written.
Activate ==
    /\ activating # <<>> /\ activating' = Tail(activating)
    /\ activeForm' \in {activeForm} \union {f \in {Head(activating)} : Unexpired(f)}
    /\ UNCHANGED <<formKind, formsIssued, formsGone, answeringTab, pendingForms, formParts,
                   submissions, shopVars>>

\* Each form that is added expires the others on the page, those added before it too.
Added(parts, forms) ==
    IF forms = <<>> THEN parts
    ELSE ExpiredOthers(parts \o [i \in DOMAIN forms |-> NewPart(forms[i], Unexpired(forms[i]))],
                       Last(forms))
AnswerDone ==
    /\ answeringTab # {} /\ answeringTab' = {} /\ pendingForms' = <<>>
    /\ formParts' = [t \in Tabs |-> IF t \in answeringTab
                                    THEN Added(formParts[t], pendingForms)
                                    ELSE formParts[t]]
    /\ UNCHANGED <<formKind, formsIssued, formsGone, activating, activeForm, submissions, shopVars>>

\* Stopped, failed, or without a connection for too long.
AnswerDropped ==
    /\ answeringTab # {} /\ answeringTab' = {} /\ pendingForms' = <<>>
    /\ UNCHANGED <<formKind, formsIssued, formsGone, activating, activeForm, formParts,
                   submissions, shopVars>>

\* ---- The page ----

\* Only the last form may stay open.
SingleActive(parts) ==
    IF parts # <<>> /\ Last(parts).status # "expired"
    THEN ExpiredOthers(parts, Last(parts).form)
    ELSE ExpiredOthers(parts, 0)
Copied(parts) == SingleActive([i \in DOMAIN parts |-> NewPart(parts[i].form, parts[i].signed)])

\* What comes for the socket of tab t so far is lost with it.
Unheard(t) == [s \in Updates |-> IF submissions[s].tab = t
                                 THEN [submissions[s] EXCEPT !.heard = FALSE]
                                 ELSE submissions[s]]

\* Tab u takes over what tab t shows.
CopyPage(t, u) ==
    /\ t # u /\ u \notin answeringTab
    /\ formParts[t] # <<>> /\ formParts' = [formParts EXCEPT ![u] = Copied(formParts[t])]
    /\ UNCHANGED <<formKind, formsGone, turnVars, activeForm, submissions, shopVars>>

\* A guest's page is loaded anew and restores what it had kept of itself.
ReloadPage(t) ==
    /\ t \notin answeringTab
    /\ formParts[t] # <<>> /\ formParts' = [formParts EXCEPT ![t] = Copied(formParts[t])]
    /\ submissions' = Unheard(t)
    /\ UNCHANGED <<formKind, formsGone, turnVars, activeForm, shopVars>>

\* The socket closes, and another is opened.
TabLosesSocket(t) ==
    /\ \E s \in Updates : submissions[s].tab = t /\ submissions[s].heard
    /\ submissions' = Unheard(t)
    /\ UNCHANGED <<formKind, formsGone, turnVars, activeForm, formParts, shopVars>>

\* The timer of a part that is still open, and the lifetime of the key.
FormExpires ==
    /\ formsGone < formsIssued /\ formsGone' = formsGone + 1
    /\ activeForm' = IF activeForm = formsGone' THEN 0 ELSE activeForm
    /\ formParts' = [t \in Tabs |-> [i \in DOMAIN formParts[t] |->
           LET p == formParts[t][i] IN
           IF p.form = formsGone' /\ p.signed /\ p.status # "success" THEN Expired(p) ELSE p]]
    /\ UNCHANGED <<formKind, turnVars, submissions, shopVars>>

\* A form that is complete is sent; one found to have expired is closed.
Submit(t, i, s) ==
    LET p == formParts[t][i] IN
    /\ ~p.busy /\ p.status \notin {"success", "expired"}
    /\ submissions[s].at = "no" /\ (s > 1 => submissions[s - 1].at # "no")
    /\ IF Unexpired(p.form)
       THEN /\ formParts' = [formParts EXCEPT ![t][i].busy = TRUE, ![t][i].updated = 0]
            /\ submissions' = [submissions EXCEPT ![s] =
                   [form |-> p.form, tab |-> t, signed |-> p.signed, at |-> "checking",
                    lost |-> FALSE, heard |-> TRUE, result |-> "none"]]
       ELSE /\ formParts' = [formParts EXCEPT ![t][i] = Expired(p)]
            /\ UNCHANGED submissions
    /\ UNCHANGED <<formKind, formsGone, turnVars, activeForm, shopVars>>

\* ---- The gateway ----

Moves(s, at, result) ==
    submissions' = [submissions EXCEPT ![s].at = at, ![s].result = result]

\* The token, and the key that is read.
CheckForm(s) ==
    /\ submissions[s].at = "checking"
    /\ IF /\ submissions[s].signed /\ Unexpired(submissions[s].form)
          /\ activeForm = submissions[s].form
       THEN Moves(s, "admitting", "none")
       ELSE Moves(s, "answering", "refused")
    /\ UNCHANGED <<formKind, formsGone, turnVars, activeForm, formParts, shopVars>>

\* The lock of each form.
SameLockOfForm(s, u) == submissions[s].form = submissions[u].form

\* The lock is the shopper's, whatever the form.
SameLock(s, u) == TRUE
LockFree(s) == \A u \in updateLock : ~SameLock(s, u)

\* The limits are asked, then the lock.
Admit(s) ==
    /\ submissions[s].at = "admitting"
    /\ \/ /\ LockFree(s) /\ updateLock' = updateLock \union {s} /\ admitted' = Append(admitted, s)
          /\ Moves(s, "calling", "none")
       \/ Moves(s, "answering", "refused") /\ UNCHANGED <<updateLock, admitted>>
    /\ UNCHANGED <<formKind, formsGone, turnVars, activeForm, formParts, landed>>

\* The frame is refused for its rate, or the admission fails: nothing is answered.
AdmissionFails(s) ==
    /\ submissions[s].at \in {"checking", "admitting"} /\ Moves(s, "over", "none")
    /\ UNCHANGED <<formKind, formsGone, turnVars, activeForm, formParts, shopVars>>

Landed(s) == s \in Range(landed)

\* The shop changes the address, for the gateway or after it has given up.
Land(s) ==
    /\ ~Landed(s) /\ (submissions[s].at = "calling" \/ submissions[s].lost)
    /\ landed' = Append(landed, s)
    /\ UNCHANGED <<formKind, formsGone, turnVars, activeForm, formParts, submissions, updateLock,
                   admitted>>

\* The shop answers; it may have refused, or ask a guest to verify her e-mail again.
CallReturns(s) ==
    /\ submissions[s].at = "calling"
    /\ IF Landed(s) THEN Moves(s, "releasing", "success")
       ELSE \/ Moves(s, "releasing", "refused")
            \/ formKind = "order" /\ Moves(s, "releasing", "verify")
    /\ UNCHANGED <<formKind, formsGone, turnVars, activeForm, formParts, shopVars>>

\* The time for the call is over, or its answer is lost.
CallFails(s) ==
    /\ submissions[s].at = "calling"
    /\ submissions' = [submissions EXCEPT ![s].at = "releasing", ![s].result = "refused",
                                          ![s].lost = ~Landed(s)]
    /\ UNCHANGED <<formKind, formsGone, turnVars, activeForm, formParts, shopVars>>

\* The release may fail, which is ignored.
ReleaseLock(s) ==
    /\ submissions[s].at = "releasing" /\ updateLock' \in {updateLock, updateLock \ {s}}
    /\ Moves(s, "answering", submissions[s].result)
    /\ UNCHANGED <<formKind, formsGone, turnVars, activeForm, formParts, admitted, landed>>

\* The lock lapses later than the call's time is over.
LockLapses(s) ==
    /\ s \in updateLock /\ submissions[s].at \in {"answering", "over"}
    /\ updateLock' = updateLock \ {s}
    /\ UNCHANGED <<formKind, formsGone, turnVars, activeForm, formParts, submissions, admitted,
                   landed>>

\* Nothing that was under way is answered; the sockets are opened anew.
GatewayStops ==
    /\ \E s \in Updates : submissions[s].at \notin {"no", "over"}
    /\ submissions' = [s \in Updates |->
           IF submissions[s].at \in {"no", "over"} THEN submissions[s]
           ELSE [submissions[s] EXCEPT !.at = "over", !.heard = FALSE,
                     !.lost = @ \/ (submissions[s].at = "calling" /\ ~Landed(s))]]
    /\ answeringTab' = {} /\ pendingForms' = <<>> /\ activating' = <<>>
    /\ UNCHANGED <<formKind, formsIssued, formsGone, activeForm, formParts, shopVars>>

\* ---- The result ----

ResultShown(p, s) ==
    LET result == submissions[s].result IN
    [p EXCEPT !.busy = FALSE,
              !.updated = IF result = "success" THEN s ELSE 0,
              !.status = IF result = "success"
                         THEN IF formKind = "order" THEN "success" ELSE "editing"
                         ELSE IF result = "verify" THEN "verification_required" ELSE @]
\* The last message's part of that form, whatever its status is by now.
ReceiveResult(s) ==
    LET t == submissions[s].tab
        named == {i \in DOMAIN formParts[t] : formParts[t][i].form = submissions[s].form} IN
    /\ submissions[s].at = "answering"
    /\ Moves(s, "over", submissions[s].result)
    /\ IF submissions[s].heard /\ named # {}
       THEN LET i == CHOOSE j \in named : \A k \in named : k <= j IN
            formParts' = [formParts EXCEPT ![t][i] = ResultShown(@, s)]
       ELSE UNCHANGED formParts
    /\ UNCHANGED <<formKind, formsGone, turnVars, activeForm, shopVars>>

AddressNext ==
    \/ IssueForm \/ Activate \/ AnswerDone \/ AnswerDropped \/ FormExpires \/ GatewayStops
    \/ \E t \in Tabs : StartAnswer(t) \/ ReloadPage(t) \/ TabLosesSocket(t)
    \/ \E t \in Tabs, u \in Tabs : CopyPage(t, u)
    \/ \E t \in Tabs, s \in Updates : \E i \in DOMAIN formParts[t] : Submit(t, i, s)
    \/ \E s \in Updates :
           \/ CheckForm(s) \/ Admit(s) \/ AdmissionFails(s) \/ Land(s) \/ CallReturns(s)
           \/ CallFails(s) \/ ReleaseLock(s) \/ LockLapses(s) \/ ReceiveResult(s)
AddressSpec == AddressInit /\ [][AddressNext]_addressVars

-----------------------------------------------------------------------------
\* The shop carries out the changes in the order in which the gateway admitted them, except
\* those the gateway had given up, and a form is shown as updated only by a change that was
\* carried out: submissions of two tabs, and of an older form and its successor, do not
\* overtake each other (address-update-admission.js:76, server.js:742).
UpdatesLandInOrder ==
    /\ \A i, j \in DOMAIN landed :
           i < j /\ ~submissions[landed[i]].lost /\ ~submissions[landed[j]].lost
           => \E k, l \in DOMAIN admitted :
                  k < l /\ admitted[k] = landed[i] /\ admitted[l] = landed[j]
    /\ \A t \in Tabs : \A i \in DOMAIN formParts[t] :
           formParts[t][i].updated # 0 => Landed(formParts[t][i].updated)
=============================================================================
