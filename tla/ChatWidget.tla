------------------------------ MODULE ChatWidget ------------------------------
(***************************************************************************)
(* The storefront chat of one browser tab: the visible transcript, the one *)
(* answer that streams into it, and the history pages, cross-tab snapshots *)
(* and switches of conversation that arrive or happen meanwhile.  The      *)
(* answer is found by its position in the transcript.  The gateway, other  *)
(* tabs and the shopper are arbitrary; there is one socket at a time.  A   *)
(* message is described by where it was loaded from and by the turns whose *)
(* text was streamed into it.                                              *)
(***************************************************************************)
EXTENDS Sequences, Integers, SequencesExt

CONSTANTS
    Conversations, NoneActive,
    MaxTurns,           \* bounds the shopper's requests
    MaxShown,           \* bounds the transcript
    MaxPages            \* bounds the history requests under way

ASSUME WidgetAssumption ==
    /\ NoneActive \notin Conversations
    /\ MaxTurns \in Nat \ {0} /\ MaxShown \in Nat \ {0} /\ MaxPages \in Nat \ {0}

VARIABLES
    messages,       \* the transcript
    active,         \* activeConversationId
    loading,        \* isLoading: the composer shows Stop
    request,        \* activeRequestId, 0 for none
    answer,         \* currentAiMessageIndex, 0 for none
    cancelled,      \* cancelledRequestIds
    watchdog,       \* responseWatchdogTimer is running
    older,          \* hasOlderMessages and isLoadingOlderMessages
    branch,         \* pendingBranchReplacement: its request and conversation, or <<>>
    turn,           \* where each request is
    replies,        \* history pages on their way
    connected,      \* wsConnected
    relabelled      \* history: what is shown was given another conversation's id

widgetVars == <<messages, active, loading, request, answer, cancelled, watchdog, older,
                branch, turn, replies, connected, relabelled>>

Turns == 1..MaxTurns
NoTurn == 0
Homes == Conversations \union {NoneActive}
Message == [home : Homes, from : {"user", "assistant"}, holds : SUBSET Turns]

Loaded(c) == [home |-> c, from |-> "assistant", holds |-> {}]
Question == [home |-> NoneActive, from |-> "user", holds |-> {}]
\* An assistant's message with the text of a turn, or with a notice or an error.
Answered(r) == [home |-> NoneActive, from |-> "assistant", holds |-> {r}]
Notice == [home |-> NoneActive, from |-> "assistant", holds |-> {}]

\* A passive request merges, an older page is put in front, a support reload has
\* no token; fresh: its token, if it has one, is activeHistoryLoadToken.
Page == [kind : {"open", "passive", "older", "support"}, conv : Conversations, fresh : BOOLEAN]

WidgetTypeOK ==
    /\ messages \in Seq(Message)
    /\ active \in Homes
    /\ loading \in BOOLEAN /\ watchdog \in BOOLEAN /\ connected \in BOOLEAN
    /\ relabelled \in BOOLEAN
    /\ request \in Turns \union {NoTurn}
    /\ answer \in Nat
    /\ cancelled \subseteq Turns
    /\ older \in {"none", "available", "loading"}
    /\ branch = <<>> \/ branch \in Turns \X Conversations
    /\ turn \in [Turns -> {"unused", "preparing", "connecting", "running", "over"}]
    /\ replies \subseteq Page

WidgetInit ==
    /\ messages = <<>> /\ active = NoneActive
    /\ loading = FALSE /\ request = NoTurn /\ answer = 0
    /\ cancelled = {} /\ watchdog = FALSE
    /\ older = "none" /\ branch = <<>>
    /\ turn = [r \in Turns |-> "unused"]
    /\ replies = {} /\ connected = TRUE /\ relabelled = FALSE

HasRoomFor(n) == Len(messages) + n <= MaxShown
Popped(s) == IF s = <<>> THEN s ELSE Front(s)

(***************************************************************************)
(* The shopper sends, edits, stops and continues                           *)
(***************************************************************************)
NextTurn(r) == turn[r] = "unused" /\ \A q \in Turns : q < r => turn[q] # "unused"

\* What a new turn sets up before it awaits its attachments.
Opens(r, kept, pending) ==
    /\ messages' = Append(kept, Question)
    /\ loading' = TRUE /\ request' = r /\ answer' = 0
    /\ watchdog' = TRUE /\ branch' = pending
    /\ turn' = [turn EXCEPT ![r] = "preparing"]
    /\ UNCHANGED <<active, cancelled, older, replies, connected, relabelled>>

SendMessage ==
    /\ ~loading /\ HasRoomFor(1)
    /\ \E r \in Turns : NextTurn(r) /\ Opens(r, messages, branch)

\* An edited or regenerated turn drops the branch below it; when the message was
\* saved, the conversation can be loaded again.
ResendMessage ==
    /\ ~loading
    /\ \E r \in Turns, i \in DOMAIN messages :
          /\ NextTurn(r)
          /\ \/ active # NoneActive /\ Opens(r, SubSeq(messages, 1, i - 1), <<r, active>>)
             \/ messages[i] = Question /\ Opens(r, SubSeq(messages, 1, i - 1), branch)

\* continueStoppedResponse: without a socket only the watchdog ends it.
ContinueStoppedResponse ==
    /\ ~loading
    /\ \E r \in Turns, i \in DOMAIN messages :
          /\ NextTurn(r)
          /\ messages[i].from = "assistant"
          /\ \A j \in DOMAIN messages : messages[j].from = "assistant" => j <= i
          /\ answer' = i /\ request' = r
          /\ turn' = [turn EXCEPT ![r] = IF connected THEN "running" ELSE "over"]
    /\ loading' = TRUE /\ watchdog' = TRUE
    /\ UNCHANGED <<messages, active, cancelled, older, branch, replies, connected, relabelled>>

\* verification_action_resuming: the gateway resumes, as a turn of its own, what
\* waited for the shopper's code; during another turn the frame is ignored.
VerificationResumes ==
    /\ connected /\ request = NoTurn
    /\ \E r \in Turns :
          /\ NextTurn(r)
          /\ request' = r /\ turn' = [turn EXCEPT ![r] = "running"]
    /\ loading' = TRUE /\ answer' = 0 /\ watchdog' = TRUE
    /\ UNCHANGED <<messages, active, cancelled, older, branch, replies, connected, relabelled>>

\* The message cannot be sent: the last message of the transcript is dropped.
Withdraw(r, timer) ==
    /\ messages' = Popped(messages)
    /\ loading' = FALSE /\ request' = NoTurn /\ watchdog' = timer
    /\ turn' = [turn EXCEPT ![r] = "over"]

UploadFails ==
    /\ \E r \in Turns : turn[r] = "preparing" /\ Withdraw(r, watchdog)
    /\ UNCHANGED <<active, answer, cancelled, older, branch, replies, connected, relabelled>>

\* The attachments are there; the payload is built, and may be too large.
PayloadReady ==
    /\ \E r \in Turns :
          /\ turn[r] = "preparing"
          /\ turn' = [turn EXCEPT ![r] = IF connected THEN "running" ELSE "connecting"]
    /\ UNCHANGED <<messages, active, loading, request, answer, cancelled, watchdog, older,
                   branch, replies, connected, relabelled>>

PayloadTooLarge ==
    /\ \E r \in Turns : turn[r] = "preparing" /\ Withdraw(r, FALSE)
    /\ answer' = 0
    /\ UNCHANGED <<active, cancelled, older, branch, replies, connected, relabelled>>

SendsLate ==
    /\ connected
    /\ \E r \in Turns : turn[r] = "connecting" /\ turn' = [turn EXCEPT ![r] = "running"]
    /\ UNCHANGED <<messages, active, loading, request, answer, cancelled, watchdog, older,
                   branch, replies, connected, relabelled>>

GatewayUnavailable ==
    /\ \E r \in Turns : turn[r] = "connecting" /\ Withdraw(r, FALSE)
    /\ UNCHANGED <<active, answer, cancelled, older, branch, replies, connected, relabelled>>

Answering == loading \/ answer # 0
\* stopCurrentResponse, as far as it does not concern the transcript.
Stops ==
    /\ cancelled' = IF Answering THEN cancelled \union ({request} \ {NoTurn}) ELSE cancelled
    /\ request' = IF Answering THEN NoTurn ELSE request
    /\ watchdog' = (watchdog /\ ~Answering)

\* recordInterruptedResponse: the answer, or else a new message, is marked.
Interrupted ==
    IF answer \in DOMAIN messages /\ messages[answer].from = "assistant" THEN messages
    ELSE Append(messages, Notice)

StopCurrentResponse ==
    /\ Answering /\ HasRoomFor(1)
    /\ Stops
    /\ messages' = Interrupted
    /\ loading' = FALSE /\ answer' = 0
    /\ UNCHANGED <<active, older, branch, turn, replies, connected, relabelled>>

\* Mutant: without a socket the timer only stops.
WatchdogWhileConnected ==
    /\ watchdog
    /\ IF loading /\ request # NoTurn /\ connected
       THEN /\ Stops /\ messages' = Interrupted /\ loading' = FALSE /\ answer' = 0
       ELSE /\ watchdog' = FALSE /\ UNCHANGED <<messages, loading, request, answer, cancelled>>
    /\ UNCHANGED <<active, older, branch, turn, replies, connected, relabelled>>
WatchdogFires ==
    /\ watchdog
    /\ IF loading /\ request # NoTurn
       THEN /\ Stops /\ messages' = Interrupted /\ loading' = FALSE /\ answer' = 0
       ELSE /\ watchdog' = FALSE /\ UNCHANGED <<messages, loading, request, answer, cancelled>>
    /\ UNCHANGED <<active, older, branch, turn, replies, connected, relabelled>>

(***************************************************************************)
(* Conversations and their history                                         *)
(***************************************************************************)
\* A new load makes every other token stale.
Requested(kind, c) ==
    {[q EXCEPT !.fresh = @ /\ q.kind \notin {"open", "passive"}] : q \in replies}
        \union {[kind |-> kind, conv |-> c, fresh |-> TRUE]}

\* switchConversation to see c: clicked, restored or forced by another tab.
Opened(c) ==
    /\ Stops
    /\ messages' = <<>> /\ active' = c
    /\ loading' = TRUE /\ answer' = 0 /\ older' = "none"
    /\ replies' = Requested("open", c) /\ relabelled' = FALSE

SwitchConversation ==
    /\ \E c \in Conversations :
          Cardinality(Requested("open", c)) <= MaxPages /\ Opened(c)
    /\ UNCHANGED <<branch, turn, connected>>

\* switchConversation after another tab's empty snapshot: what is seen is kept.
RefreshPassively ==
    /\ active # NoneActive /\ messages # <<>>
    /\ Cardinality(Requested("passive", active)) <= MaxPages
    /\ replies' = Requested("passive", active)
    /\ loading' = FALSE
    /\ UNCHANGED <<messages, active, request, answer, cancelled, watchdog, older, branch,
                   turn, connected, relabelled>>

StartNewChat ==
    /\ Stops
    /\ messages' = <<>> /\ active' = NoneActive
    /\ loading' = FALSE /\ answer' = 0 /\ older' = "none" /\ relabelled' = FALSE
    /\ UNCHANGED <<branch, turn, replies, connected>>

LoadOlderMessages ==
    /\ active # NoneActive /\ older = "available" /\ ~loading
    /\ Cardinality(replies) < MaxPages
    /\ replies' = replies \union {[kind |-> "older", conv |-> active, fresh |-> TRUE]}
    /\ older' = "loading"
    /\ UNCHANGED <<messages, active, loading, request, answer, cancelled, watchdog, branch,
                   turn, connected, relabelled>>

\* A support agent's message, while no answer streams.
RefreshSupportConversation ==
    /\ active # NoneActive /\ ~loading
    /\ Cardinality(replies) < MaxPages
    /\ replies' = replies \union {[kind |-> "support", conv |-> active, fresh |-> TRUE]}
    /\ UNCHANGED <<messages, active, loading, request, answer, cancelled, watchdog, older,
                   branch, turn, connected, relabelled>>

\* Mutant: the token is not looked at.
CurrentByToken(q) == q.fresh
\* isCurrentConversationResponse
Current(q) == q.fresh /\ q.conv = active

\* applyConversationMessagePage: the whole transcript, merged, or put in front.
PageShown(q) ==
    \/ q.kind = "open" /\ messages' = <<Loaded(q.conv)>> /\ relabelled' = FALSE
    \/ /\ q.kind \in {"passive", "support"}
       /\ messages' \in {messages} \union
             (IF request # NoTurn /\ answer # 0 THEN {} ELSE {Append(messages, Loaded(q.conv))})
       /\ UNCHANGED relabelled
    \/ q.kind = "older" /\ messages' = <<Loaded(q.conv)>> \o messages /\ UNCHANGED relabelled

ConversationMessages ==
    /\ HasRoomFor(0)
    /\ \E q \in replies :
          /\ Current(q)
          /\ replies' = replies \ {q}
          /\ loading' = FALSE
          /\ \/ PageShown(q) /\ older' \in {"none", "available"}
             \/ older' = (IF older = "loading" THEN "available" ELSE older)
                /\ UNCHANGED <<messages, relabelled>>
    /\ UNCHANGED <<active, request, answer, cancelled, watchdog, branch, turn, connected>>

\* A page of another conversation, or of an earlier load.
StaleMessages ==
    /\ \E q \in replies :
          /\ ~Current(q)
          /\ replies' = replies \ {q}
          /\ older' = IF q.kind = "older" /\ older = "loading" THEN "available" ELSE older
    /\ UNCHANGED <<messages, active, loading, request, answer, cancelled, watchdog, branch,
                   turn, connected, relabelled>>

\* The id of the active conversation changes while the transcript stays.
Renamed ==
    /\ active' \in Conversations
    /\ relabelled' = (relabelled \/ active \notin {NoneActive, active'})

\* applyCrossTabMessageSnapshot: the other tab took the id when it planned to publish,
\* or from a support event, and its messages when it published: they may be of two
\* conversations, or of none that was saved yet.
CrossTabSnapshot ==
    /\ ~(request # NoTurn /\ Answering)
    /\ \E c \in Homes :
          /\ messages' = <<Loaded(c)>> /\ active' \in Homes
          /\ relabelled' = (c \notin {NoneActive, active'})
    /\ loading' = FALSE
    /\ UNCHANGED <<request, answer, cancelled, watchdog, older, branch, turn, replies, connected>>

\* A voice call runs beside the turns: its words are pushed, and the save of one of
\* its turns tells the conversation that it went to.
VoiceWords ==
    /\ HasRoomFor(1) /\ messages' \in {Append(messages, Question), Append(messages, Notice)}
    /\ UNCHANGED <<active, loading, request, answer, cancelled, watchdog, older, branch, turn,
                   replies, connected, relabelled>>

VoiceTurnSaved ==
    /\ connected /\ Renamed
    /\ UNCHANGED <<messages, loading, request, answer, cancelled, watchdog, older, branch,
                   turn, replies, connected>>

(***************************************************************************)
(* Frames of the running turns                                             *)
(***************************************************************************)
\* Mutant: frames of a stopped turn go through while no other turn is active.
ListensAlsoIdle(r) == turn[r] = "running" /\ request \in {r, NoTurn}
\* shouldIgnoreStreamMessage
Listens(r) == turn[r] = "running" /\ request = r /\ r \notin cancelled
\* What is no lifecycle frame is also heard while no turn is active.
Hears(r) == turn[r] = "running" /\ request \in {r, NoTurn} /\ r \notin cancelled

Ignored ==
    /\ \E r \in Turns :
          /\ turn[r] = "running" /\ ~Listens(r)
          /\ turn' = [turn EXCEPT ![r] = "over"]
    /\ UNCHANGED <<messages, active, loading, request, answer, cancelled, watchdog, older,
                   branch, replies, connected, relabelled>>

\* conversation_id: a new conversation, also one instead of a requested one that is
\* unavailable.
ConversationCreated ==
    /\ \E r \in Turns : Hears(r)
    /\ Renamed
    /\ UNCHANGED <<messages, loading, request, answer, cancelled, watchdog, older, branch,
                   turn, replies, connected>>

\* Text, cards or forms of a turn: into the answer, or into a new message.
WithText(r) ==
    IF answer = 0 THEN Append(messages, Answered(r))
    ELSE IF answer \in DOMAIN messages /\ messages[answer].from = "assistant"
    THEN [messages EXCEPT ![answer].holds = @ \union {r}]
    ELSE messages

Chunk ==
    /\ HasRoomFor(1)
    /\ \E r \in Turns : Listens(r) /\ messages' = WithText(r)
    /\ answer' = IF answer = 0 THEN Len(messages) + 1 ELSE answer
    /\ watchdog' = loading
    /\ UNCHANGED <<active, loading, request, cancelled, older, branch, turn, replies, connected,
                   relabelled>>

\* status, tool_activity and the start of an image show Stop again.
Activity ==
    /\ \E r \in Turns : Listens(r)
    /\ loading' = TRUE /\ watchdog' = loading
    /\ UNCHANGED <<messages, active, request, answer, cancelled, older, branch, turn, replies,
                   connected, relabelled>>

Ends(r) ==
    /\ turn' = [turn EXCEPT ![r] = "over"]
    /\ request' = NoTurn /\ watchdog' = FALSE
    /\ loading' = FALSE

\* done: the cards that were kept back follow the text.
Done ==
    /\ HasRoomFor(1)
    /\ \E r \in Turns : Listens(r) /\ Ends(r) /\ messages' \in {messages, WithText(r)}
    /\ answer' = 0
    /\ UNCHANGED <<active, cancelled, older, branch, replies, connected, relabelled>>

\* error: its position in the transcript is kept.
Error ==
    /\ HasRoomFor(1)
    /\ \E r \in Turns : Listens(r) /\ Ends(r) /\ messages' = Append(messages, Notice)
    /\ UNCHANGED <<active, answer, cancelled, older, branch, replies, connected, relabelled>>

\* REPLACE_ANCHOR_UNAVAILABLE: the conversation of the branch is loaded again (it
\* is known, the edited message was saved in it).
RestoreFailedBranchReplacement ==
    /\ \E r \in Turns :
          /\ Listens(r) /\ branch # <<>> /\ branch[1] = r
          /\ turn' = [turn EXCEPT ![r] = "over"]
          /\ Cardinality(Requested("open", branch[2])) <= MaxPages
          /\ replies' = Requested("open", branch[2]) /\ active' = branch[2]
    /\ branch' = <<>> /\ messages' = <<>> /\ older' = "none" /\ loading' = TRUE
    /\ relabelled' = FALSE
    /\ request' = NoTurn /\ watchdog' = FALSE /\ answer' = 0
    /\ UNCHANGED <<cancelled, connected>>

Busy ==
    /\ \E r \in Turns : Listens(r) /\ Ends(r)
    /\ answer' = 0
    /\ UNCHANGED <<messages, active, cancelled, older, branch, replies, connected, relabelled>>

\* cancelled, for a turn that the shopper did not stop here.
CancelledElsewhere ==
    /\ HasRoomFor(1)
    /\ \E r \in Turns : Listens(r) /\ Ends(r) /\ messages' = Interrupted
    /\ answer' = 0
    /\ UNCHANGED <<active, cancelled, older, branch, replies, connected, relabelled>>

\* message_saved: the branch was replaced.
MessageSaved ==
    /\ branch # <<>> /\ branch' = <<>>
    /\ turn[branch[1]] \in {"running", "over"}
    /\ UNCHANGED <<messages, active, loading, request, answer, cancelled, watchdog, older,
                   turn, replies, connected, relabelled>>

(***************************************************************************)
(* The socket                                                              *)
(***************************************************************************)
\* handleActiveRequestDisconnect; pages asked for over HTTP still arrive.
SocketDrops ==
    /\ connected /\ connected' = FALSE
    /\ turn' = [r \in Turns |-> IF turn[r] = "running" THEN "over" ELSE turn[r]]
    /\ IF loading /\ request # NoTurn
       THEN loading' = FALSE /\ request' = NoTurn /\ answer' = 0 /\ watchdog' = FALSE
       ELSE UNCHANGED <<loading, request, answer, watchdog>>
    /\ replies' \in SUBSET replies
    /\ UNCHANGED <<messages, active, cancelled, older, branch, relabelled>>

SocketOpens ==
    /\ ~connected /\ connected' = TRUE
    /\ UNCHANGED <<messages, active, loading, request, answer, cancelled, watchdog, older,
                   branch, turn, replies, relabelled>>

SendSteps == UploadFails \/ PayloadReady \/ PayloadTooLarge \/ SendsLate \/ GatewayUnavailable
Frames == Chunk \/ Activity \/ Done \/ Error \/ RestoreFailedBranchReplacement \/ Busy
          \/ CancelledElsewhere \/ Ignored \/ ConversationCreated \/ MessageSaved
TabSteps ==
    \/ SendMessage \/ ResendMessage \/ ContinueStoppedResponse \/ StopCurrentResponse
    \/ VerificationResumes \/ SendSteps \/ WatchdogFires
    \/ SwitchConversation \/ RefreshPassively \/ StartNewChat \/ LoadOlderMessages
    \/ RefreshSupportConversation \/ ConversationMessages \/ StaleMessages
    \/ Frames \/ SocketDrops \/ SocketOpens
Elsewhere == CrossTabSnapshot \/ VoiceWords \/ VoiceTurnSaved
WidgetNext == TabSteps \/ Elsewhere

WidgetSpec == WidgetInit /\ [][WidgetNext]_widgetVars

\* Uploads and connection attempts settle, the gateway ends a turn that it runs,
\* and the watchdog's time passes while no frame of the active turn can come.
TurnSettles == Done \/ Error \/ Busy \/ CancelledElsewhere \/ RestoreFailedBranchReplacement
TimeRunsOut == (\A r \in Turns : ~Listens(r)) /\ WatchdogFires
WidgetFairness ==
    /\ WF_widgetVars(SendSteps)
    /\ WF_widgetVars(TurnSettles)
    /\ WF_widgetVars(TimeRunsOut)
WidgetFairSpec == WidgetSpec /\ WidgetFairness

(***************************************************************************)
(* Properties                                                              *)
(***************************************************************************)
\* A page of one conversation is never part of the transcript while another is active,
\* whatever was switched, restored, replaced by another tab or saved while it was on its
\* way (isCurrentConversationResponse), until the code itself gives what is shown another
\* id: by a snapshot whose id and messages differ, by the id of a replacement for an
\* unavailable conversation, or by a voice turn saved elsewhere.
LoadedPagesInOwnConversation ==
    ~relabelled => \A i \in DOMAIN messages : messages[i].home \in {NoneActive, active}

\* No frame of a turn that the shopper stopped adds its text to a message,
\* however long the gateway goes on sending (cancelledRequestIds).
StoppedAnswerNeverGrows ==
    [][\A r \in cancelled, i \in DOMAIN messages' :
          r \in messages'[i].holds => \E j \in DOMAIN messages : r \in messages[j].holds]_widgetVars

\* A turn that keeps the composer busy ends: by its last frame, the loss of the
\* socket, a message that cannot be sent, or the watchdog.
TurnBusy == loading /\ request # NoTurn
LoadingTurnEnds == (TurnBusy /\ (turn[request] # "over" \/ watchdog)) ~> ~TurnBusy
=============================================================================
