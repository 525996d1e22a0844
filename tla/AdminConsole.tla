---------------------------- MODULE AdminConsole ----------------------------
(***************************************************************************)
(* The support console in an agent's browser: the dialog over the list of  *)
(* tickets, or the page of one ticket.  It shows the messages of the       *)
(* selected case, polls for newer ones, reloads them when a ticket is      *)
(* selected or a change of a message it does not show is announced, and    *)
(* posts replies, edits and deletions.  Any of these requests can be       *)
(* overtaken by another selection.  Typing signals, unread badges, themes  *)
(* and scrolling are left out.                                             *)
(***************************************************************************)
EXTENDS Integers, FiniteSets

CONSTANTS
    Cases, NoCase,
    Fetches,            \* requests for messages that can be under way at once
    PageLimit,          \* messages of one answer
    MaxCaseMessages,    \* bounds a conversation
    MaxReloads          \* bounds requestVersion

ASSUME ConsoleAssumption ==
    /\ NoCase \notin Cases
    /\ PageLimit \in Nat \ {0} /\ MaxCaseMessages \in Nat \ {0} /\ MaxReloads \in Nat

VARIABLES
    surface,        \* "dialog" (support-modal.js) or "page" (support-chat.js)
    written,        \* per case: how many messages its conversation has
    struck,         \* per case: the messages that were deleted
    selected,       \* currentCaseId
    addressee,      \* the composer's entity_id
    subscribedTo,   \* the case of currentConversationId
    served,         \* the case the gateway sends events of, while the socket is open
    listed,          \* per case: the messages in the list
    newest,         \* lastMessageId
    requestVersion,
    polling,
    fetch,          \* per request for messages: where it is and what it was asked for
    mixed,          \* history: a poll was asked during the reload that is, or was last, shown
    reply           \* the case a reply is under way to

consoleVars == <<surface, written, struck, selected, addressee, subscribedTo, served, listed,
                 newest, requestVersion, polling, fetch, mixed, reply>>

NoFetch == [at |-> "idle", case |-> NoCase, version |-> 0, after |-> 0, replace |-> FALSE,
            upTo |-> 0]

ConsoleTypeOK ==
    /\ surface \in {"dialog", "page"}
    /\ written \in [Cases -> 0..MaxCaseMessages]
    /\ struck \in [Cases -> SUBSET (1..MaxCaseMessages)]
    /\ {selected, addressee, subscribedTo, served, reply} \subseteq Cases \union {NoCase}
    /\ listed \in [Cases -> SUBSET (1..MaxCaseMessages)]
    /\ newest \in 0..MaxCaseMessages /\ requestVersion \in 0..MaxReloads /\ polling \in BOOLEAN
    /\ mixed \in BOOLEAN
    /\ fetch \in [Fetches -> [at : {"idle", "asked", "read"}, case : Cases \union {NoCase},
                              version : 0..MaxReloads, after : 0..MaxCaseMessages,
                              replace : BOOLEAN, upTo : 0..MaxCaseMessages]]

\* The page is rendered with its case, the dialog opens on none.
ConsoleInit ==
    /\ surface \in {"dialog", "page"}
    /\ written = [c \in Cases |-> 1] /\ struck = [c \in Cases |-> {}]
    /\ selected \in IF surface = "page" THEN Cases ELSE {NoCase}
    /\ addressee = selected /\ subscribedTo = selected
    /\ listed = [c \in Cases |-> IF c = selected THEN 1..written[c] ELSE {}]
    /\ newest = IF selected = NoCase THEN 0 ELSE written[selected]
    /\ served = NoCase /\ requestVersion = 0 /\ polling = FALSE /\ mixed = FALSE /\ reply = NoCase
    /\ fetch = [f \in Fetches |-> NoFetch]

InDatabase == <<written, struck>>
OnScreen == <<listed, newest>>
Requests == <<requestVersion, polling, fetch, mixed>>

\* Only the answer of the version that is current is shown (the mutant does not ask).
AnyVersion(f) == TRUE
CurrentVersion(f) == fetch[f].version = requestVersion

UnderWay(f) == fetch[f].at # "idle" /\ fetch[f].version = requestVersion

\* loadMessages up to its fetch: a reload of case c, or a poll after what is shown.
\* Both work in the same way in the dialog and on the page.
Reload(c) ==
    /\ requestVersion < MaxReloads /\ requestVersion' = requestVersion + 1
    /\ polling' = TRUE
    /\ \E f \in Fetches :
        /\ fetch[f] = NoFetch
        /\ fetch' = [fetch EXCEPT ![f] = [at |-> "asked", case |-> c, replace |-> TRUE,
                         version |-> requestVersion + 1, after |-> 0, upTo |-> 0]]
    /\ UNCHANGED mixed
LoadMessages ==
    /\ selected # NoCase /\ ~polling
    /\ polling' = TRUE
    /\ mixed' = (mixed \/ \E f \in Fetches : UnderWay(f) /\ fetch[f].replace)
    /\ \E f \in Fetches :
        /\ fetch[f] = NoFetch
        /\ fetch' = [fetch EXCEPT ![f] = [at |-> "asked", case |-> selected, replace |-> FALSE,
                         version |-> requestVersion, after |-> newest, upTo |-> 0]]
    /\ UNCHANGED requestVersion

\* The interval's poll, or the one a support_message event asks for.
Poll ==
    /\ LoadMessages
    /\ UNCHANGED <<surface, InDatabase, selected, addressee, subscribedTo, served, OnScreen, reply>>

\* Magento reads the case's transcript: at most PageLimit messages after the one named.
ReadTranscript(f) ==
    /\ fetch[f].at = "asked"
    /\ fetch' = [fetch EXCEPT ![f].at = "read",
           ![f].upTo = IF written[fetch[f].case] > fetch[f].after + PageLimit
                         THEN fetch[f].after + PageLimit ELSE written[fetch[f].case]]
    /\ UNCHANGED <<surface, InDatabase, selected, addressee, subscribedTo, served, OnScreen,
                   requestVersion, polling, mixed, reply>>

\* appendMessage for each message of an answer; one that is in the list is left alone.
Answer(f) == (fetch[f].after + 1)..fetch[f].upTo
LatestOf(S) == IF S = {} THEN 0 ELSE CHOOSE n \in S : \A m \in S : m <= n
AppendMessages(f, base, last) ==
    /\ listed' = [base EXCEPT ![fetch[f].case] = @ \union Answer(f)]
    /\ newest' = LatestOf({last} \union (Answer(f) \ base[fetch[f].case]))

\* updateCase: the dialog's composer and subscription follow the case that was loaded.
UpdateCase(c) == IF surface = "dialog"
                 THEN /\ selected' = c /\ addressee' = c /\ subscribedTo' = c
                      /\ served' = IF served = NoCase THEN NoCase ELSE c
                 ELSE UNCHANGED <<selected, addressee, subscribedTo, served>>

\* loadMessages, answered: a reload clears the list first.
MessagesLoaded(f) ==
    /\ fetch[f].at = "read" /\ CurrentVersion(f)
    /\ fetch' = [fetch EXCEPT ![f] = NoFetch] /\ polling' = FALSE
    /\ IF fetch[f].replace
       THEN /\ AppendMessages(f, [c \in Cases |-> {}], 0) /\ UpdateCase(fetch[f].case)
            /\ mixed' = \E g \in Fetches \ {f} : UnderWay(g)
       ELSE /\ AppendMessages(f, listed, newest)
            /\ UNCHANGED <<selected, addressee, subscribedTo, served, mixed>>
    /\ UNCHANGED <<surface, InDatabase, requestVersion, reply>>

\* An answer of an older version, or none: only the polling flag is cleared.
NotLoaded(f) ==
    /\ fetch[f].at # "idle"
    /\ fetch' = [fetch EXCEPT ![f] = NoFetch] /\ polling' = FALSE
    /\ UNCHANGED <<surface, InDatabase, selected, addressee, subscribedTo, served, OnScreen,
                   requestVersion, mixed, reply>>

\* realtime.subscribe
Subscribe(c) ==
    /\ subscribedTo' = c /\ served' = IF served = NoCase THEN NoCase ELSE c

\* The dialog opens a case from the list of tickets and clears the messages.
OpenCase(c) ==
    /\ surface = "dialog"
    /\ selected' = c /\ newest' = 0 /\ listed' = [d \in Cases |-> {}]
    /\ Subscribe(NoCase) /\ Reload(c)
    /\ UNCHANGED <<surface, InDatabase, addressee, reply>>

\* Another ticket of the same customer: the messages stay until it is loaded.  The
\* dialog's composer is addressed when the case is loaded, the page's at once.
SelectTicket(c) ==
    /\ surface = "dialog" /\ selected # NoCase
    /\ selected' = c /\ newest' = 0
    /\ Subscribe(c) /\ Reload(c)
    /\ UNCHANGED <<surface, InDatabase, listed, addressee, reply>>
TicketClicked(c) ==
    /\ surface = "page" /\ c # selected
    /\ selected' = c /\ newest' = 0 /\ addressee' = c
    /\ Subscribe(c) /\ Reload(c)
    /\ UNCHANGED <<surface, InDatabase, listed, reply>>

\* submitReply: one at a time, to the composer's case; success polls.
SubmitReply ==
    /\ addressee # NoCase /\ reply = NoCase
    /\ reply' = addressee
    /\ UNCHANGED <<surface, InDatabase, selected, addressee, subscribedTo, served, OnScreen,
                   Requests>>
ReplyStored ==
    /\ reply # NoCase /\ written[reply] < MaxCaseMessages
    /\ written' = [written EXCEPT ![reply] = @ + 1]
    /\ reply' = NoCase
    /\ IF polling THEN UNCHANGED Requests ELSE LoadMessages
    /\ UNCHANGED <<surface, struck, selected, addressee, subscribedTo, served, OnScreen>>
ReplyFails ==
    /\ reply # NoCase /\ reply' = NoCase
    /\ UNCHANGED <<surface, InDatabase, selected, addressee, subscribedTo, served, OnScreen,
                   Requests>>

\* submitMessageMutation of a message that is shown; Magento refuses one of another case.
DeleteMessage(n) ==
    /\ surface = "dialog" /\ selected # NoCase /\ n \in listed[selected]
    /\ struck' = [struck EXCEPT ![selected] = @ \union {n}]
    /\ UNCHANGED <<surface, written, selected, addressee, subscribedTo, served, OnScreen,
                   Requests, reply>>

\* applyMessageMutation, told of a change of message n: one that is not in the list
\* reloads the list.
MutationAnnounced(n) ==
    /\ surface = "dialog" /\ served # NoCase /\ served = subscribedTo
    /\ n \in struck[served] /\ n \notin listed[served]
    /\ Reload(selected)
    /\ UNCHANGED <<surface, InDatabase, selected, addressee, subscribedTo, served, OnScreen, reply>>

\* The realtime socket: on opening it subscribes again.
ConsoleSocketOpens ==
    /\ served = NoCase /\ subscribedTo # NoCase /\ served' = subscribedTo
    /\ UNCHANGED <<surface, InDatabase, selected, addressee, subscribedTo, OnScreen,
                   Requests, reply>>
SocketCloses ==
    /\ served # NoCase /\ served' = NoCase
    /\ UNCHANGED <<surface, InDatabase, selected, addressee, subscribedTo, OnScreen,
                   Requests, reply>>

\* The shopper or another agent writes, or another agent deletes.
OthersWrite(c) ==
    /\ written[c] < MaxCaseMessages /\ written' = [written EXCEPT ![c] = @ + 1]
    /\ UNCHANGED <<surface, struck, selected, addressee, subscribedTo, served, OnScreen,
                   Requests, reply>>

ConsoleNext ==
    \/ Poll \/ SubmitReply \/ ReplyStored \/ ReplyFails \/ ConsoleSocketOpens \/ SocketCloses
    \/ \E f \in Fetches : ReadTranscript(f) \/ MessagesLoaded(f) \/ NotLoaded(f)
    \/ \E c \in Cases : OpenCase(c) \/ SelectTicket(c) \/ TicketClicked(c) \/ OthersWrite(c)
    \/ \E n \in 1..MaxCaseMessages : DeleteMessage(n) \/ MutationAnnounced(n)

ConsoleSpec == ConsoleInit /\ [][ConsoleNext]_consoleVars
-----------------------------------------------------------------------------
\* Of the selected case no message is skipped: those in the list are the first ones, up
\* to the one the next poll asks after, however polls, reloads and selections of tickets
\* overtake each other.  Unless polls were asked during a reload, after a request that the
\* reload overtook had cleared the polling flag: the reload's answer, read before theirs,
\* then takes from the list what they do not ask for again.
NoMessageIsSkipped ==
    selected # NoCase /\ ~mixed =>
        /\ 1..newest \subseteq listed[selected]
        /\ \A n \in listed[selected] : 1..n \subseteq listed[selected]
=============================================================================
