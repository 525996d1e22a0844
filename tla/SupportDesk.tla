---------------------------- MODULE SupportDesk ----------------------------
(***************************************************************************)
(* One support ticket in Magento's database: the case row with its status  *)
(* and the agents' takeover of it, and the messages of its private         *)
(* conversation.  Agents claim, answer and edit under the lock of the      *)
(* case's row; heartbeats, mass updates, the shopper's closing and the     *)
(* shopper's messages do not take it, or read before they wait for it.     *)
(* Notifications, unread counters, e-mails and the first text of an edited *)
(* message, which nothing reads, are left out.                             *)
(***************************************************************************)
EXTENDS Integers, Sequences

CONSTANTS
    Admins, NoAdmin,
    Texts,
    TakeoverLife,          \* LEASE_SECONDS
    RepeatWindow,       \* a repeated reply within it is a duplicate
    MaxTime,            \* bounds the clock
    MaxTicketMessages   \* bounds the conversation

ASSUME DeskAssumption ==
    /\ NoAdmin \notin Admins
    /\ TakeoverLife \in Nat \ {0} /\ RepeatWindow \in Nat
    /\ MaxTime \in Nat \ {0} /\ MaxTicketMessages \in Nat \ {0}

VARIABLES
    case,           \* the row of afd_ai_support_case
    ticket,         \* its messages in afd_ai_message
    now,            \* the clock of the servers
    beating,        \* per agent: when its waiting heartbeat read the clock, 0 for none
    massUpdate,     \* per agent: the row its mass update has read and the new status
    shopperTurn     \* what a chat turn in the ticket has read of the case

deskVars == <<case, ticket, now, beating, massUpdate, shopperTurn>>

ActiveStatuses == {"open", "in_progress", "waiting_customer"}
ClosedStatuses == {"resolved", "closed"}
Case == [status : ActiveStatuses \union ClosedStatuses, takeover : {"active", "inactive"},
         admin : Admins \union {NoAdmin}, lease : 0..(MaxTime + TakeoverLife)]   \* 0 is NULL
TicketMessage == [from : {"shopper", "agent", "assistant"}, admin : Admins \union {NoAdmin},
                  text : Texts, deleted : BOOLEAN, at : 1..MaxTime]
NoUpdate == <<>>

DeskTypeOK ==
    /\ case \in Case
    /\ ticket \in Seq(TicketMessage) /\ Len(ticket) <= MaxTicketMessages + 1
    /\ now \in 1..MaxTime
    /\ beating \in [Admins -> 0..MaxTime]
    /\ massUpdate \in [Admins -> {NoUpdate} \union (Case \X (ActiveStatuses \union ClosedStatuses))]
    /\ shopperTurn \in {"none", "open", "closed", "unread", "stored", "assistant"}

Closed == case.status \in ClosedStatuses
Written(from, a, x) == [from |-> from, admin |-> a, text |-> x, deleted |-> FALSE, at |-> now]
TicketHasRoom == Len(ticket) < MaxTicketMessages

\* SupportCaseService::create, its transaction committed.
DeskInit ==
    /\ now = 1
    /\ case = [status |-> "open", takeover |-> "active", admin |-> NoAdmin, lease |-> 0]
    /\ \E x \in Texts : ticket = <<Written("shopper", NoAdmin, x)>>
    /\ beating = [a \in Admins |-> 0]
    /\ massUpdate = [a \in Admins |-> NoUpdate]
    /\ shopperTurn = "none"

TimePasses ==
    /\ now < MaxTime /\ now' = now + 1
    /\ UNCHANGED <<case, ticket, beating, massUpdate, shopperTurn>>

(***************************************************************************)
(* Agents, under the lock of the row                                       *)
(***************************************************************************)
HeldByAnother(a) == case.takeover = "active" /\ case.lease > now /\ case.admin # a

Claim(a) ==
    /\ ~Closed /\ ~HeldByAnother(a)
    /\ case' = [status |-> "in_progress", takeover |-> "active", admin |-> a,
                lease |-> now + TakeoverLife]
    /\ UNCHANGED <<ticket, now, beating, massUpdate, shopperTurn>>

ReleaseCase(a) ==
    /\ ~Closed /\ ~HeldByAnother(a)
    /\ case' = [case EXCEPT !.status = "waiting_customer", !.takeover = "inactive", !.lease = 0]
    /\ UNCHANGED <<ticket, now, beating, massUpdate, shopperTurn>>

\* findRecentDuplicate: the last answer in the ticket.
Answers(m) == m.from # "shopper"
Repeats(a, x) ==
    \E i \in DOMAIN ticket :
        /\ Answers(ticket[i]) /\ \A j \in (i + 1)..Len(ticket) : ~Answers(ticket[j])
        /\ ticket[i].from = "agent" /\ ticket[i].admin = a /\ ticket[i].text = x
        /\ ticket[i].at >= now - RepeatWindow

\* Mutant: a resolved case is still answered.
AnswerableUntilClosed(a, x) == case.status # "closed" /\ ~Repeats(a, x)
Answerable(a, x) == ~Closed /\ ~Repeats(a, x)

ReplyToCase(a) ==
    /\ TicketHasRoom
    /\ \E x \in Texts :
          /\ Answerable(a, x)
          /\ ticket' = Append(ticket, Written("agent", a, x))
    /\ case' = [case EXCEPT !.status = "waiting_customer", !.takeover = "active", !.admin = a]
    /\ UNCHANGED <<now, beating, massUpdate, shopperTurn>>

\* SupportMessageMutationService: the author edits or deletes.
Mutates(from, a) ==
    /\ ~Closed
    /\ \E i \in DOMAIN ticket :
          /\ ticket[i].from = from /\ ticket[i].admin = a /\ ~ticket[i].deleted
          /\ \/ \E x \in Texts : ticket' = [ticket EXCEPT ![i].text = x]
             \/ ticket' = [ticket EXCEPT ![i].deleted = TRUE]
    /\ UNCHANGED <<case, now, beating, massUpdate, shopperTurn>>

(***************************************************************************)
(* Agents, without it                                                      *)
(***************************************************************************)
HeartbeatReadsClock(a) ==
    /\ beating[a] = 0 /\ beating' = [beating EXCEPT ![a] = now]
    /\ UNCHANGED <<case, ticket, now, massUpdate, shopperTurn>>

Heartbeat(a) ==
    /\ beating[a] # 0 /\ beating' = [beating EXCEPT ![a] = 0]
    /\ case' = IF case.admin = a /\ case.takeover = "active" /\ case.lease > beating[a]
               THEN [case EXCEPT !.lease = beating[a] + TakeoverLife]
               ELSE case
    /\ UNCHANGED <<ticket, now, massUpdate, shopperTurn>>

\* MassStatus: the collection is read, and saved case by case.
MassStatusReads(a) ==
    /\ massUpdate[a] = NoUpdate
    /\ \E s \in ActiveStatuses \union ClosedStatuses :
          massUpdate' = [massUpdate EXCEPT ![a] = <<case, s>>]
    /\ UNCHANGED <<case, ticket, now, beating, shopperTurn>>

\* Mutant: a resolved case keeps its takeover.
EndsTakeoverWhenClosed(s) == s = "closed"
EndsTakeover(s) == s \in ClosedStatuses

\* What a mass update sets in a row.
MassSet(row, a, s) ==
    [row EXCEPT !.status = s,
                !.admin = IF s = "in_progress" THEN a ELSE @,
                !.takeover = IF EndsTakeover(s) THEN "inactive" ELSE @,
                !.lease = IF EndsTakeover(s) THEN 0 ELSE @]

\* Magento's save writes back the columns it was given or the whole row it read.
MassStatusSaves(a) ==
    /\ massUpdate[a] # NoUpdate
    /\ \E row \in {case, massUpdate[a][1]} : case' = MassSet(row, a, massUpdate[a][2])
    /\ massUpdate' = [massUpdate EXCEPT ![a] = NoUpdate]
    /\ UNCHANGED <<ticket, now, beating, shopperTurn>>

(***************************************************************************)
(* The shopper                                                             *)
(***************************************************************************)
CloseByConversationId ==
    /\ case' = [case EXCEPT !.status = "closed", !.takeover = "inactive", !.lease = 0]
    /\ UNCHANGED <<ticket, now, beating, massUpdate, shopperTurn>>

\* supportConversationState, read before the message is stored; it may fail.
ShopperTurnReads ==
    /\ shopperTurn = "none"
    /\ shopperTurn' \in {IF Closed THEN "closed" ELSE "open", "unread"}
    /\ UNCHANGED <<case, ticket, now, beating, massUpdate>>

\* The message is stored, and the inbox moves an active case to open.
ShopperMessageStored ==
    /\ shopperTurn \in {"open", "unread"} /\ TicketHasRoom
    /\ \E x \in Texts : ticket' = Append(ticket, Written("shopper", NoAdmin, x))
    /\ case' = IF Closed THEN case ELSE [case EXCEPT !.status = "open"]
    /\ shopperTurn' = IF shopperTurn = "unread" THEN "stored" ELSE "none"
    /\ UNCHANGED <<now, beating, massUpdate>>

\* A state that could not be read is read again, and decides who answers.
ShopperTurnReadsAgain ==
    /\ shopperTurn = "stored"
    /\ shopperTurn' \in {IF Closed THEN "assistant" ELSE "none", "assistant"}
    /\ UNCHANGED <<case, ticket, now, beating, massUpdate>>

\* The assistant answers in the ticket.
AssistantAnswers ==
    /\ shopperTurn = "assistant"
    /\ \E x \in Texts : ticket' = Append(ticket, Written("assistant", NoAdmin, x))
    /\ shopperTurn' = "none"
    /\ UNCHANGED <<case, now, beating, massUpdate>>

\* A closed ticket is not written to, or the message could not be stored.
ShopperTurnEnds ==
    /\ shopperTurn # "none" /\ shopperTurn' = "none"
    /\ UNCHANGED <<case, ticket, now, beating, massUpdate>>

ShopperSteps == ShopperTurnReads \/ ShopperMessageStored \/ ShopperTurnReadsAgain
                \/ AssistantAnswers \/ ShopperTurnEnds \/ CloseByConversationId
                \/ Mutates("shopper", NoAdmin)
AgentSteps(a) == Claim(a) \/ ReleaseCase(a) \/ ReplyToCase(a) \/ Mutates("agent", a)
                 \/ HeartbeatReadsClock(a) \/ Heartbeat(a)
                 \/ MassStatusReads(a) \/ MassStatusSaves(a)
DeskNext == TimePasses \/ ShopperSteps \/ \E a \in Admins : AgentSteps(a)
DeskSpec == DeskInit /\ [][DeskNext]_deskVars

(***************************************************************************)
(* Properties                                                              *)
(***************************************************************************)
\* Whoever closes a case, and whatever claim, heartbeat or mass update read it
\* before, a closed case is taken over by nobody.
ClosedCaseHasNoTakeover == Closed => case.takeover = "inactive" /\ case.lease = 0

\* While a case is closed no message of its conversation is edited or deleted and
\* no agent answers, although the replies and edits race the closing; a shopper's
\* turn that read the case before may still end in it.
ClosedCaseIsReadOnly ==
    [][Closed =>
          /\ \A i \in DOMAIN ticket : ticket'[i] = ticket[i]
          /\ \A i \in DOMAIN ticket' \ DOMAIN ticket : ticket'[i].from # "agent"]_deskVars
=============================================================================
