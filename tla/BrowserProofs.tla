---------------------------- MODULE BrowserProofs ----------------------------
(***************************************************************************)
(* Proofs about what runs in a browser: the widget, for every set of       *)
(* conversations and number of turns; a voice call, for every length of it; *)
(* the address forms, for every number of tabs, forms and submissions; the *)
(* support agent's console, for every number of cases and messages; and all of *)
(* these beside what MessageProofs and TranscriptProofs are about.         *)
(***************************************************************************)
EXTENDS MCBrowser, MessageProofs, TranscriptProofs,
        SequenceTheorems, WellFoundedInduction, TLAPS

-----------------------------------------------------------------------------
(***************************************************************************)
(* The widget: the shape of the transcript and of the pages on their way.  *)
(***************************************************************************)

WidgetShape ==
    /\ messages \in Seq(Message)
    /\ active \in Homes
    /\ branch = <<>> \/ branch \in Turns \X Conversations
    /\ replies \subseteq Page

LEMMA StalePage ==
    ASSUME NEW q \in Page, NEW b \in BOOLEAN
    PROVE  [q EXCEPT !.fresh = b] \in Page
BY DEF Page

LEMMA RequestedPages ==
    ASSUME WidgetShape, NEW kind \in {"open", "passive"}, NEW c \in Conversations
    PROVE  Requested(kind, c) \subseteq Page
<1>1. [kind |-> kind, conv |-> c, fresh |-> TRUE] \in Page
  BY DEF Page
<1>2. \A q \in replies : [q EXCEPT !.fresh = @ /\ q.kind \notin {"open", "passive"}] \in Page
  <2> TAKE q \in replies
  <2>1. q \in Page
    BY DEF WidgetShape
  <2>2. QED
    BY <2>1, StalePage
<1>3. QED
  BY <1>1, <1>2 DEF Requested

\* New messages of every kind.
LEMMA NewMessages ==
    /\ Question \in Message /\ Question.home = NoneActive /\ Question.holds = {}
    /\ Notice \in Message /\ Notice.home = NoneActive /\ Notice.holds = {}
    /\ \A r \in Turns : /\ Answered(r) \in Message
                        /\ Answered(r).home = NoneActive /\ Answered(r).holds = {r}
    /\ \A c \in Homes : /\ Loaded(c) \in Message
                        /\ Loaded(c).home = c /\ Loaded(c).holds = {}
BY DEF Question, Notice, Answered, Loaded, Message, Homes

-----------------------------------------------------------------------------
(***************************************************************************)
(* Where the messages of the next transcript come from: from a message of  *)
(* this one, with text of a turn that is listened to at most, or from the  *)
(* step.                                                                   *)
(***************************************************************************)

Stems(m) ==
    \E i \in DOMAIN messages :
        /\ messages[i].home = m.home
        /\ \A r \in m.holds : r \in messages[i].holds \/ Listens(r)
New(m) == (m.home \in {NoneActive, active'} \/ relabelled') /\ \A r \in m.holds : Listens(r)

\* What is shown keeps its conversation, or this is recorded.
KeepsConversation ==
    /\ relabelled => relabelled'
    /\ active' = active \/ active = NoneActive \/ relabelled'

Accounted ==
    /\ messages' \in Seq(Message)
    /\ \A j \in DOMAIN messages' :
          (Stems(messages'[j]) /\ KeepsConversation) \/ New(messages'[j])

LEMMA Kept ==
    ASSUME WidgetShape, UNCHANGED messages, KeepsConversation
    PROVE  Accounted
BY DEF WidgetShape, Accounted, Stems

LEMMA Emptied ==
    ASSUME messages' = <<>>
    PROVE  Accounted
BY DEF Accounted

LEMMA FirstMessages ==
    ASSUME NEW n \in Int, WidgetShape, n <= Len(messages)
    PROVE  /\ SubSeq(messages, 1, n) \in Seq(Message)
           /\ \A i \in DOMAIN SubSeq(messages, 1, n) : Stems(SubSeq(messages, 1, n)[i])
<1>1. /\ SubSeq(messages, 1, n) \in Seq(Message)
      /\ DOMAIN SubSeq(messages, 1, n) \subseteq 1..n
      /\ \A i \in 1..n : SubSeq(messages, 1, n)[i] = messages[i]
  BY SubSeqProperties DEF WidgetShape
<1>2. \A i \in 1..n : Stems(messages[i])
  BY DEF Stems, WidgetShape
<1>3. QED
  BY <1>1, <1>2

LEMMA Dropped ==
    ASSUME WidgetShape, messages' = Popped(messages), KeepsConversation
    PROVE  Accounted
<1>1. CASE messages = <<>>
  BY <1>1, Kept DEF Popped
<1>2. CASE messages # <<>>
  <2>1. messages' = SubSeq(messages, 1, Len(messages) - 1)
    BY <1>2 DEF Popped, Front
  <2>2. Len(messages) \in Nat
    BY DEF WidgetShape
  <2>3. /\ messages' \in Seq(Message)
        /\ \A i \in DOMAIN messages' : Stems(messages'[i])
    <3>1. Len(messages) - 1 \in Int /\ Len(messages) - 1 <= Len(messages)
      BY <2>2
    <3>2. QED
      BY <2>1, <3>1, FirstMessages
  <2>4. QED
    BY <2>3 DEF Accounted
<1>3. QED
  BY <1>1, <1>2

LEMMA Extended ==
    ASSUME WidgetShape, NEW n \in Int, n <= Len(messages), NEW m \in Message,
           messages' = Append(SubSeq(messages, 1, n), m), KeepsConversation, New(m)
    PROVE  Accounted
<1> DEFINE stay == SubSeq(messages, 1, n)
<1>1. stay \in Seq(Message) /\ \A i \in DOMAIN stay : Stems(stay[i])
  BY FirstMessages
<1> HIDE DEF stay
<1>2. /\ messages' \in Seq(Message)
      /\ \A j \in DOMAIN messages' : messages'[j] = m
                                     \/ (j \in DOMAIN stay /\ messages'[j] = stay[j])
  BY <1>1 DEF stay
<1>3. QED
  BY <1>1, <1>2 DEF Accounted

LEMMA Appended ==
    ASSUME WidgetShape, NEW m \in Message, messages' = Append(messages, m),
           KeepsConversation, New(m)
    PROVE  Accounted
<1>1. messages = SubSeq(messages, 1, Len(messages)) /\ Len(messages) \in Nat
  BY SubSeqFull DEF WidgetShape
<1>2. QED
  BY <1>1, Extended

-----------------------------------------------------------------------------
(***************************************************************************)
(* The widget: every step accounts for its transcript.                     *)
(***************************************************************************)

LEMMA FreshNotices ==
    /\ New(Question) /\ New(Notice)
    /\ \A r \in Turns : Listens(r) => New(Answered(r))
    /\ \A c \in Homes : c \in {NoneActive, active'} \/ relabelled' => New(Loaded(c))
BY NewMessages DEF New

LEMMA InterruptedAccounted ==
    ASSUME WidgetShape, messages' = Interrupted, KeepsConversation
    PROVE  Accounted
<1>1. CASE messages' = messages
  BY <1>1, Kept
<1>2. CASE messages' = Append(messages, Notice)
  BY <1>2, Appended, NewMessages, FreshNotices
<1>3. QED
  BY <1>1, <1>2 DEF Interrupted

LEMMA ShopperAccounted ==
    ASSUME WidgetShape,
           \/ SendMessage \/ ResendMessage \/ ContinueStoppedResponse \/ StopCurrentResponse
           \/ SendSteps \/ WatchdogFires
    PROVE  Accounted
<1>1. CASE SendMessage
  <2>1. messages' = Append(messages, Question) /\ KeepsConversation
    BY <1>1 DEF SendMessage, Opens, KeepsConversation
  <2>2. QED
    BY <2>1, Appended, NewMessages, FreshNotices
<1>2. CASE ResendMessage
  <2>1. PICK i \in DOMAIN messages :
           /\ messages' = Append(SubSeq(messages, 1, i - 1), Question)
           /\ active' = active /\ relabelled' = relabelled
    BY <1>2 DEF ResendMessage, Opens
  <2>2. i - 1 \in Int /\ i - 1 <= Len(messages)
    BY DEF WidgetShape
  <2>3. KeepsConversation
    BY <2>1 DEF KeepsConversation
  <2>4. QED
    BY <2>1, <2>2, <2>3, Extended, NewMessages, FreshNotices
<1>3. CASE ContinueStoppedResponse
  BY <1>3, Kept DEF ContinueStoppedResponse, KeepsConversation
<1>4. CASE StopCurrentResponse
  BY <1>4, InterruptedAccounted DEF StopCurrentResponse, KeepsConversation
<1>5. CASE SendSteps
  BY <1>5, Dropped, Kept
     DEF SendSteps, UploadFails, PayloadReady, PayloadTooLarge, SendsLate,
         GatewayUnavailable, Withdraw, KeepsConversation
<1>6. CASE WatchdogFires
  BY <1>6, InterruptedAccounted, Kept DEF WatchdogFires, KeepsConversation
<1>7. QED
  BY <1>1, <1>2, <1>3, <1>4, <1>5, <1>6

LEMMA OpenedAccounted ==
    ASSUME WidgetShape,
           \/ SwitchConversation \/ RefreshPassively \/ StartNewChat \/ LoadOlderMessages
           \/ RefreshSupportConversation \/ StaleMessages \/ SocketDrops \/ SocketOpens
           \/ VerificationResumes
    PROVE  Accounted
BY Kept, Emptied
   DEF SwitchConversation, Opened, RefreshPassively, StartNewChat, LoadOlderMessages,
       RefreshSupportConversation, StaleMessages, SocketDrops, SocketOpens,
       VerificationResumes, KeepsConversation

LEMMA VoiceAccounted ==
    ASSUME WidgetShape, VoiceWords \/ VoiceTurnSaved
    PROVE  Accounted
<1>1. CASE VoiceWords
  <2>1. KeepsConversation
    BY <1>1 DEF VoiceWords, KeepsConversation
  <2>2. QED
    BY <1>1, <2>1, Appended, NewMessages, FreshNotices DEF VoiceWords
<1>2. CASE VoiceTurnSaved
  BY <1>2, Kept DEF VoiceTurnSaved, Renamed, KeepsConversation
<1>3. QED
  BY <1>1, <1>2

\* A page is shown in the conversation it was asked for.
LEMMA PageAccounted ==
    ASSUME WidgetShape, ConversationMessages
    PROVE  Accounted
<1>1. PICK q \in replies : Current(q) /\ (PageShown(q) \/ UNCHANGED <<messages, relabelled>>)
  BY DEF ConversationMessages
<1>2. active' = active /\ q.conv = active /\ q.conv \in Homes
  BY <1>1 DEF ConversationMessages, Current, WidgetShape, Page, Homes
<1>3. Loaded(q.conv) \in Message /\ New(Loaded(q.conv))
  BY <1>2, NewMessages, FreshNotices
<1> DEFINE stays == UNCHANGED relabelled
<1>4. CASE UNCHANGED messages /\ stays
  BY <1>2, <1>4, Kept DEF KeepsConversation
<1>5. CASE messages' = <<Loaded(q.conv)>>
  BY <1>3, <1>5 DEF Accounted
<1>6. CASE messages' = Append(messages, Loaded(q.conv)) /\ stays
  BY <1>2, <1>3, <1>6, Appended DEF KeepsConversation
<1>7. CASE messages' = <<Loaded(q.conv)>> \o messages /\ stays
  <2>1. messages \in Seq(Message)
    BY DEF WidgetShape
  <2>2. /\ messages' \in Seq(Message)
        /\ \A j \in DOMAIN messages' :
              messages'[j] = Loaded(q.conv) \/ \E i \in DOMAIN messages : messages'[j] = messages[i]
    BY <1>3, <1>7, <2>1
  <2>3. QED
    BY <1>2, <1>3, <1>7, <2>2 DEF Accounted, Stems, KeepsConversation
<1>8. QED
  BY <1>1, <1>4, <1>5, <1>6, <1>7 DEF PageShown

LEMMA SnapshotAccounted ==
    ASSUME WidgetShape, CrossTabSnapshot
    PROVE  Accounted
<1>1. PICK c \in Homes : /\ messages' = <<Loaded(c)>>
                        /\ relabelled' = (c \notin {NoneActive, active'})
  BY DEF CrossTabSnapshot
<1>2. New(Loaded(c))
  BY <1>1, FreshNotices
<1>3. Loaded(c) \in Message
  BY NewMessages
<1>4. QED
  BY <1>1, <1>2, <1>3 DEF Accounted

LEMMA TextAccounted ==
    ASSUME WidgetShape, NEW r \in Turns, Listens(r), messages' = WithText(r),
           KeepsConversation
    PROVE  Accounted
<1>1. CASE messages' = messages
  BY <1>1, Kept
<1>2. CASE messages' = Append(messages, Answered(r))
  BY <1>2, Appended, NewMessages, FreshNotices
<1>3. CASE /\ answer \in DOMAIN messages
           /\ messages' = [messages EXCEPT ![answer].holds = @ \union {r}]
  <2>1. messages \in Seq(Message) /\ messages[answer] \in Message
    BY <1>3 DEF WidgetShape
  <2>2. PICK m : m = [messages[answer] EXCEPT !.holds = @ \union {r}]
    OBVIOUS
  <2>3. /\ m \in Message /\ m.home = messages[answer].home
        /\ m.holds = messages[answer].holds \union {r}
    BY <2>1, <2>2 DEF Message
  <2>4. messages' = [messages EXCEPT ![answer] = m]
    BY <1>3, <2>2
  <2>5. /\ messages' \in Seq(Message) /\ DOMAIN messages' = DOMAIN messages
        /\ \A j \in DOMAIN messages : messages'[j] = IF j = answer THEN m ELSE messages[j]
    <3>1. messages' \in Seq(Message)
      <4>1. answer \in 1..Len(messages) /\ Len(messages) \in Nat
        BY <1>3, <2>1
      <4>2. messages' \in [1..Len(messages) -> Message]
        BY <2>1, <2>3, <2>4, <4>1
      <4>3. QED
        BY <4>1, <4>2
    <3>2. DOMAIN messages' = DOMAIN messages
      BY <2>4
    <3>3. \A j \in DOMAIN messages : messages'[j] = IF j = answer THEN m ELSE messages[j]
      BY <2>4
    <3>4. QED
      BY <3>1, <3>2, <3>3
  <2>6. Stems(m)
    BY <1>3, <2>3 DEF Stems
  <2>7. \A j \in DOMAIN messages : Stems(messages[j])
    BY DEF Stems
  <2>8. QED
    BY <2>5, <2>6, <2>7 DEF Accounted
<1>4. QED
  BY <1>1, <1>2, <1>3 DEF WithText

LEMMA FramesAccounted ==
    ASSUME WidgetShape, Frames
    PROVE  Accounted
<1>1. CASE Chunk
  BY <1>1, TextAccounted DEF Chunk, KeepsConversation
<1>2. CASE Done
  BY <1>2, TextAccounted, Kept DEF Done, KeepsConversation
<1>3. CASE Error
  BY <1>3, Appended, NewMessages, FreshNotices DEF Error, KeepsConversation
<1>4. CASE CancelledElsewhere
  BY <1>4, InterruptedAccounted DEF CancelledElsewhere, KeepsConversation
<1>5. CASE RestoreFailedBranchReplacement
  BY <1>5, Emptied DEF RestoreFailedBranchReplacement
<1>6. CASE Activity \/ Busy \/ Ignored \/ MessageSaved
  <2>1. UNCHANGED <<messages, active, relabelled>>
    BY <1>6 DEF Activity, Busy, Ignored, MessageSaved
  <2>2. QED
    BY <2>1, Kept DEF KeepsConversation
<1>7. CASE ConversationCreated
  BY <1>7, Kept DEF ConversationCreated, Renamed, KeepsConversation
<1>8. QED
  BY <1>1, <1>2, <1>3, <1>4, <1>5, <1>6, <1>7 DEF Frames

LEMMA StepAccounted ==
    ASSUME WidgetShape, [WidgetNext]_widgetVars
    PROVE  Accounted
<1>1. CASE UNCHANGED widgetVars
  BY <1>1, Kept DEF widgetVars, KeepsConversation
<1>2. QED
  BY <1>1, ShopperAccounted, OpenedAccounted, VoiceAccounted, PageAccounted, SnapshotAccounted,
     FramesAccounted DEF WidgetNext, TabSteps, Elsewhere

-----------------------------------------------------------------------------
(***************************************************************************)
(* The widget: the theorems.                                               *)
(***************************************************************************)

LEMMA RequestShape ==
    ASSUME WidgetShape,
           \/ SwitchConversation \/ RefreshPassively \/ LoadOlderMessages
           \/ RefreshSupportConversation \/ RestoreFailedBranchReplacement
    PROVE  active' \in Homes /\ replies' \subseteq Page /\ branch' \in {branch, <<>>}
<1>1. CASE SwitchConversation
  BY <1>1, RequestedPages DEF SwitchConversation, Opened, Homes
<1>2. CASE RefreshPassively
  <2>1. active \in Conversations
    BY <1>2 DEF RefreshPassively, WidgetShape, Homes
  <2>2. QED
    BY <1>2, <2>1, RequestedPages DEF RefreshPassively, WidgetShape
<1>3. CASE LoadOlderMessages
  <2>1. [kind |-> "older", conv |-> active, fresh |-> TRUE] \in Page
    BY <1>3 DEF LoadOlderMessages, WidgetShape, Homes, Page
  <2>2. QED
    BY <1>3, <2>1 DEF LoadOlderMessages, WidgetShape
<1>4. CASE RefreshSupportConversation
  <2>1. [kind |-> "support", conv |-> active, fresh |-> TRUE] \in Page
    BY <1>4 DEF RefreshSupportConversation, WidgetShape, Homes, Page
  <2>2. QED
    BY <1>4, <2>1 DEF RefreshSupportConversation, WidgetShape
<1>5. CASE RestoreFailedBranchReplacement
  <2>1. branch[2] \in Conversations
    BY <1>5 DEF RestoreFailedBranchReplacement, WidgetShape
  <2>2. QED
    BY <1>5, <2>1, RequestedPages DEF RestoreFailedBranchReplacement, Homes
<1>6. QED
  BY <1>1, <1>2, <1>3, <1>4, <1>5

LEMMA ResendShape ==
    ASSUME WidgetShape, ResendMessage
    PROVE  active' \in Homes /\ replies' \subseteq Page
           /\ (branch' = <<>> \/ branch' \in Turns \X Conversations)
<1>1. PICK r \in Turns, i \in DOMAIN messages :
         /\ active' = active /\ replies' = replies
         /\ (active # NoneActive /\ branch' = <<r, active>>) \/ branch' = branch
  BY DEF ResendMessage, Opens
<1>2. active # NoneActive => <<r, active>> \in Turns \X Conversations
  BY DEF WidgetShape, Homes
<1>3. QED
  BY <1>1, <1>2 DEF WidgetShape

LEMMA ShapeStep == WidgetShape /\ [WidgetNext]_widgetVars => WidgetShape'
<1> SUFFICES ASSUME WidgetShape, [WidgetNext]_widgetVars PROVE WidgetShape'
  OBVIOUS
<1>1. messages' \in Seq(Message)
  BY StepAccounted DEF Accounted
<1>2. CASE UNCHANGED <<active, branch, replies>>
  BY <1>1, <1>2 DEF WidgetShape
<1>3. CASE \/ SwitchConversation \/ RefreshPassively \/ LoadOlderMessages
           \/ RefreshSupportConversation \/ RestoreFailedBranchReplacement
  BY <1>1, <1>3, RequestShape DEF WidgetShape
<1>4. CASE ResendMessage
  BY <1>1, <1>4, ResendShape DEF WidgetShape
<1>5. CASE StartNewChat \/ ConversationMessages \/ StaleMessages \/ CrossTabSnapshot
           \/ VoiceTurnSaved \/ ConversationCreated \/ MessageSaved \/ SocketDrops
  BY <1>1, <1>5
     DEF StartNewChat, ConversationMessages, StaleMessages, CrossTabSnapshot,
         VoiceTurnSaved, ConversationCreated, Renamed, MessageSaved, SocketDrops, WidgetShape,
         Homes
<1>6. CASE SendMessage \/ ContinueStoppedResponse \/ StopCurrentResponse \/ SendSteps
           \/ WatchdogFires \/ SocketOpens \/ VerificationResumes \/ VoiceWords
  BY <1>2, <1>6
     DEF SendMessage, Opens, ContinueStoppedResponse, StopCurrentResponse, SendSteps,
         UploadFails, PayloadReady, PayloadTooLarge, SendsLate, GatewayUnavailable, Withdraw,
         WatchdogFires, SocketOpens, VerificationResumes, VoiceWords
<1>7. CASE Chunk \/ Activity \/ Done \/ Error \/ Busy \/ CancelledElsewhere \/ Ignored
  BY <1>2, <1>7 DEF Chunk, Activity, Done, Error, Busy, CancelledElsewhere, Ignored, Ends
<1>8. QED
  BY <1>2, <1>3, <1>4, <1>5, <1>6, <1>7 DEF WidgetNext, TabSteps, Elsewhere, Frames, widgetVars

LEMMA ShapeHolds == WidgetSpec => []WidgetShape
<1>1. WidgetInit => WidgetShape
  BY DEF WidgetInit, WidgetShape, Homes
<1>2. QED
  BY <1>1, ShapeStep, PTL DEF WidgetSpec

LEMMA OwnConversationStep ==
    WidgetShape /\ LoadedPagesInOwnConversation /\ [WidgetNext]_widgetVars
        => LoadedPagesInOwnConversation'
<1> SUFFICES ASSUME WidgetShape, LoadedPagesInOwnConversation, [WidgetNext]_widgetVars,
                    ~relabelled', NEW j \in DOMAIN messages'
             PROVE  messages'[j].home \in {NoneActive, active'}
  BY DEF LoadedPagesInOwnConversation
<1>1. CASE New(messages'[j])
  BY <1>1 DEF New
<1>2. CASE Stems(messages'[j]) /\ KeepsConversation
  BY <1>2 DEF Stems, KeepsConversation, LoadedPagesInOwnConversation
<1>3. QED
  BY <1>1, <1>2, StepAccounted DEF Accounted

WidgetFlags ==
    /\ loading \in BOOLEAN /\ watchdog \in BOOLEAN /\ connected \in BOOLEAN
    /\ relabelled \in BOOLEAN
WidgetMarks ==
    /\ request \in Turns \union {NoTurn} /\ answer \in Nat /\ cancelled \subseteq Turns
    /\ older \in {"none", "available", "loading"}
    /\ turn \in [Turns -> {"unused", "preparing", "connecting", "running", "over"}]

LEMMA FlagsStep == WidgetFlags /\ [WidgetNext]_widgetVars => WidgetFlags'
<1> SUFFICES ASSUME WidgetFlags, [WidgetNext]_widgetVars PROVE WidgetFlags'
  OBVIOUS
<1>1. ASSUME Stops PROVE watchdog' \in BOOLEAN
  BY <1>1 DEF Stops
<1>2. ASSUME SendMessage \/ ResendMessage \/ ContinueStoppedResponse \/ VerificationResumes
      PROVE  WidgetFlags'
  BY <1>2 DEF SendMessage, ResendMessage, Opens, ContinueStoppedResponse, VerificationResumes, WidgetFlags
<1>3. ASSUME SendSteps
      PROVE  WidgetFlags'
  BY <1>3 DEF SendSteps, UploadFails, PayloadReady, PayloadTooLarge, SendsLate, GatewayUnavailable,
              Withdraw, WidgetFlags
<1>4. ASSUME StopCurrentResponse \/ WatchdogFires \/ SwitchConversation \/ StartNewChat
      PROVE  WidgetFlags'
  BY <1>1, <1>4 DEF StopCurrentResponse, WatchdogFires, SwitchConversation, Opened, StartNewChat, WidgetFlags
<1>5. ASSUME \/ RefreshPassively \/ LoadOlderMessages \/ RefreshSupportConversation
             \/ ConversationMessages \/ StaleMessages \/ CrossTabSnapshot \/ SocketOpens \/ SocketDrops
             \/ VoiceWords \/ VoiceTurnSaved
      PROVE  WidgetFlags'
  BY <1>5 DEF RefreshPassively, LoadOlderMessages, RefreshSupportConversation, ConversationMessages,
              PageShown, StaleMessages, CrossTabSnapshot, SocketOpens, SocketDrops, VoiceWords,
              VoiceTurnSaved, Renamed, WidgetFlags
<1>6. ASSUME Frames
      PROVE  WidgetFlags'
  BY <1>6 DEF Frames, Chunk, Activity, Done, Error, Busy, CancelledElsewhere, Ends, Ignored,
              RestoreFailedBranchReplacement, ConversationCreated, Renamed, MessageSaved, WidgetFlags
<1>7. ASSUME UNCHANGED widgetVars
      PROVE  WidgetFlags'
  BY <1>7 DEF widgetVars, WidgetFlags
<1>8. QED
  BY <1>2, <1>3, <1>4, <1>5, <1>6, <1>7 DEF WidgetNext, TabSteps, Elsewhere

LEMMA MarksStep == WidgetMarks /\ WidgetShape /\ [WidgetNext]_widgetVars => WidgetMarks'
<1> SUFFICES ASSUME WidgetMarks, WidgetShape, [WidgetNext]_widgetVars PROVE WidgetMarks'
  OBVIOUS
<1>1. Len(messages) \in Nat /\ DOMAIN messages \subseteq Nat /\ 0 \in Nat /\ NoTurn = 0
  BY LenProperties DEF WidgetShape, NoTurn
<1>2. ASSUME Stops PROVE request' \in Turns \union {NoTurn} /\ cancelled' \subseteq Turns
  BY <1>2 DEF Stops, WidgetMarks
<1>3. ASSUME NEW r \in Turns, NEW how \in {"unused", "preparing", "connecting", "running", "over"},
             turn' = [turn EXCEPT ![r] = how]
      PROVE  turn' \in [Turns -> {"unused", "preparing", "connecting", "running", "over"}]
  BY <1>3 DEF WidgetMarks
<1>4. ASSUME SendMessage \/ ResendMessage \/ ContinueStoppedResponse \/ VerificationResumes
      PROVE  WidgetMarks'
  BY <1>1, <1>3, <1>4
     DEF SendMessage, ResendMessage, Opens, ContinueStoppedResponse, VerificationResumes, WidgetMarks
<1>5. ASSUME SendSteps
      PROVE  WidgetMarks'
  BY <1>1, <1>3, <1>5
     DEF SendSteps, UploadFails, PayloadReady, PayloadTooLarge, SendsLate, GatewayUnavailable,
         Withdraw, WidgetMarks
<1>6. ASSUME StopCurrentResponse \/ WatchdogFires \/ SwitchConversation \/ StartNewChat
      PROVE  WidgetMarks'
  BY <1>1, <1>2, <1>6
     DEF StopCurrentResponse, WatchdogFires, SwitchConversation, Opened, StartNewChat, WidgetMarks
<1>7. ASSUME \/ RefreshPassively \/ LoadOlderMessages \/ RefreshSupportConversation
             \/ ConversationMessages \/ StaleMessages \/ CrossTabSnapshot \/ SocketOpens
             \/ VoiceWords \/ VoiceTurnSaved
      PROVE  WidgetMarks'
  BY <1>7 DEF RefreshPassively, LoadOlderMessages, RefreshSupportConversation, ConversationMessages,
              StaleMessages, CrossTabSnapshot, SocketOpens, VoiceWords, VoiceTurnSaved, WidgetMarks
<1>8. ASSUME SocketDrops
      PROVE  WidgetMarks'
  BY <1>1, <1>8 DEF SocketDrops, WidgetMarks
<1>9. ASSUME Chunk
      PROVE  WidgetMarks'
  BY <1>1, <1>9 DEF Chunk, WidgetMarks
<1>10. ASSUME Done \/ Error \/ Busy \/ CancelledElsewhere
      PROVE  WidgetMarks'
  BY <1>1, <1>3, <1>10 DEF Done, Error, Busy, CancelledElsewhere, Ends, WidgetMarks
<1>11. ASSUME \/ Activity \/ Ignored \/ RestoreFailedBranchReplacement \/ ConversationCreated
              \/ MessageSaved
      PROVE  WidgetMarks'
  BY <1>1, <1>3, <1>11
     DEF Activity, Ignored, RestoreFailedBranchReplacement, ConversationCreated, MessageSaved, WidgetMarks
<1>12. ASSUME UNCHANGED widgetVars
      PROVE  WidgetMarks'
  BY <1>12 DEF widgetVars, WidgetMarks
<1>13. QED
  BY <1>4, <1>5, <1>6, <1>7, <1>8, <1>9, <1>10, <1>11, <1>12 DEF WidgetNext, TabSteps, Elsewhere, Frames

\* The transcript, the pages on their way and the widget's flags are well typed.
THEOREM WidgetTypeCorrect == WidgetSpec => []WidgetTypeOK
<1>1. WidgetInit => WidgetFlags
  BY DEF WidgetInit, WidgetFlags
<1>2. WidgetInit => WidgetMarks
  BY DEF WidgetInit, WidgetMarks, NoTurn
<1>3. WidgetShape /\ WidgetFlags /\ WidgetMarks => WidgetTypeOK
  BY DEF WidgetShape, WidgetFlags, WidgetMarks, WidgetTypeOK
<1>4. QED
  BY <1>1, <1>2, <1>3, ShapeHolds, FlagsStep, MarksStep, PTL DEF WidgetSpec

\* However switches, restores, replacements and saves overtake the pages that are on their
\* way, none of them comes into another conversation's transcript: a page is amid messages
\* of another conversation only when the code itself gave what is shown another id.
THEOREM OwnConversationCorrect == WidgetSpec => []LoadedPagesInOwnConversation
<1>1. WidgetInit => LoadedPagesInOwnConversation
  BY DEF WidgetInit, LoadedPagesInOwnConversation
<1>2. QED
  BY <1>1, ShapeHolds, OwnConversationStep, PTL DEF WidgetSpec

\* A stopped turn's frames, however many are on their way, add its text to no
\* message of the transcript.
THEOREM StoppedAnswerCorrect == WidgetSpec => StoppedAnswerNeverGrows
<1>1. ASSUME WidgetShape, [WidgetNext]_widgetVars
      PROVE  [\A r \in cancelled, i \in DOMAIN messages' :
                r \in messages'[i].holds
                    => \E j \in DOMAIN messages : r \in messages[j].holds]_widgetVars
  <2> SUFFICES ASSUME NEW r \in cancelled, NEW i \in DOMAIN messages', r \in messages'[i].holds
               PROVE  \E j \in DOMAIN messages : r \in messages[j].holds
    OBVIOUS
  <2>1. ~Listens(r)
    BY DEF Listens
  <2>2. ~New(messages'[i])
    BY <2>1 DEF New
  <2>3. Stems(messages'[i])
    BY <1>1, <2>2, StepAccounted DEF Accounted
  <2>4. QED
    BY <2>1, <2>3 DEF Stems
<1>2. QED
  BY <1>1, ShapeHolds, PTL DEF WidgetSpec, StoppedAnswerNeverGrows

-----------------------------------------------------------------------------
(***************************************************************************)
(* Live voice                                                              *)
(***************************************************************************)
VoiceRow == [chat : 1..chats, turn : Spoken, role : {"user", "assistant"}, said : 0..MaxSaid]
SpokenTurn == [begun : BOOLEAN, known : BOOLEAN, said : 0..MaxSaid, saveRequested : BOOLEAN]
Saving == [at : {"none", "sent", "resolved", "half", "whole", "saved", "failed", "over"},
           chat : 0..chats, said : 0..MaxSaid, answered : BOOLEAN]

\* What is spoken and what was sent of it.
TurnsInv ==
    /\ \A t \in Spoken :
          /\ ~spoken[t].begun => spoken[t].said = 0 /\ saving[t].at = "none"
          /\ spoken[t].saveRequested <=> saving[t].at # "none"
          /\ saving[t].at # "none" => saving[t].said \in 1..spoken[t].said
          /\ saving[t].at \in {"resolved", "half"} => saving[t].chat # 0
    /\ current # 0 => /\ spoken[current].begun
                      /\ spoken[current].known \/ saving[current].at # "none"

\* What is stored of a turn, and where the gateway is with it.
RowsInv ==
    /\ StoredAsSent
    /\ \A t \in Spoken :
          /\ saving[t].at \in {"none", "sent", "resolved"} => StoredOf(t) = {}
          /\ saving[t].at = "half" =>
                /\ \A j \in StoredOf(t) : voiceRows[j].role = "user"
                /\ \E i \in StoredOf(t) : voiceRows[i].chat = saving[t].chat
          /\ saving[t].at = "whole" => \E j \in StoredOf(t) : voiceRows[j].role = "assistant"

VoiceInv == VoiceTypeOK /\ TurnsInv /\ RowsInv

\* The turns, typed.
TurnsTyped ==
    /\ chats \in Nat /\ chat \in 0..chats /\ current \in 0..MaxSpoken
    /\ spoken \in [Spoken -> SpokenTurn] /\ saving \in [Spoken -> Saving]
    /\ voiceRows \in Seq(VoiceRow)

LEMMA VoiceTyped ==
    VoiceTypeOK <=>
        /\ TurnsTyped
        /\ shopper \in {"customer", "guest_database", "guest_session"} /\ online \in BOOLEAN
        /\ callState \in {"idle", "connecting", "connected", "error"}
        /\ callRequest \in 0..MaxDials /\ peer \in 0..MaxDials
        /\ dialled \in [Dials -> {"no", "asked", "permission", "signalling", "broken", "open",
                                 "over"}]
BY DEF VoiceTypeOK, TurnsTyped, SpokenTurn, Saving, VoiceRow

LEMMA PlaceChanges ==
    ASSUME TurnsTyped, NEW t \in Spoken,
           NEW place \in {"sent", "resolved", "half", "whole", "saved", "failed", "over"}
    PROVE  /\ At(t, place) \in [Spoken -> Saving]
           /\ At(t, place)[t].at = place /\ At(t, place)[t].chat = saving[t].chat
           /\ At(t, place)[t].said = saving[t].said
           /\ \A u \in Spoken \ {t} : At(t, place)[u] = saving[u]
<1>1. saving[t] \in Saving
  BY DEF TurnsTyped
<1>2. /\ [saving[t] EXCEPT !.at = place] \in Saving
      /\ [saving[t] EXCEPT !.at = place].at = place
      /\ [saving[t] EXCEPT !.at = place].chat = saving[t].chat
      /\ [saving[t] EXCEPT !.at = place].said = saving[t].said
  BY <1>1 DEF Saving
<1>3. At(t, place) = [saving EXCEPT ![t] = [saving[t] EXCEPT !.at = place]]
  BY DEF At, TurnsTyped
<1>4. QED
  BY <1>2, <1>3 DEF TurnsTyped

\* Rows stay as they are while no half of a turn is stored.
LEMMA RowsStay ==
    ASSUME TurnsTyped, RowsInv, voiceRows' = voiceRows, TurnsTyped',
           \A t \in Spoken :
              /\ saving[t].at # "none" => /\ saving'[t].said = saving[t].said
                                          /\ spoken[t].said <= spoken'[t].said
              /\ \/ saving'[t].at = saving[t].at /\ saving'[t].chat = saving[t].chat
                 \/ saving[t].at \in {"none", "sent"} /\ saving'[t].at \in {"sent", "resolved"}
                 \/ saving[t].at = "whole" /\ saving'[t].at = "saved"
                 \/ saving'[t].at \in {"failed", "over"} /\ saving[t].at # "none"
    PROVE  RowsInv'
<1>1. \A t \in Spoken : StoredOf(t)' = StoredOf(t)
  BY DEF StoredOf
<1>2. \A t \in Spoken : spoken[t].said \in Nat /\ spoken'[t].said \in Nat
  BY DEF TurnsTyped, SpokenTurn
<1>3. ASSUME NEW t \in Spoken, NEW j \in StoredOf(t), AnswerAsSent(t, j) PROVE AnswerAsSent(t, j)'
  <2>1. saving[t].at # "none"
    BY DEF RowsInv
  <2>2. voiceRows[j].said = saving'[t].said /\ voiceRows[j].said \in 1..spoken'[t].said
    BY <1>2, <1>3, <2>1 DEF AnswerAsSent
  <2>3. QED
    BY <1>1, <1>3, <2>2 DEF AnswerAsSent
<1>4. StoredAsSent'
  <2> SUFFICES ASSUME NEW t \in Spoken
               PROVE  /\ \A i, j \in StoredOf(t) : voiceRows[i].role = voiceRows[j].role => i = j
                      /\ \A j \in StoredOf(t) : voiceRows[j].role = "assistant" => AnswerAsSent(t, j)'
                      /\ saving'[t].at = "saved"
                            => \E j \in StoredOf(t) : voiceRows[j].role = "assistant"
    BY <1>1 DEF StoredAsSent
  <2>1. /\ \A i, j \in StoredOf(t) : voiceRows[i].role = voiceRows[j].role => i = j
        /\ \A j \in StoredOf(t) : voiceRows[j].role = "assistant" => AnswerAsSent(t, j)
    BY DEF RowsInv, StoredAsSent
  <2>2. saving'[t].at = "saved" => saving[t].at \in {"saved", "whole"}
    OBVIOUS
  <2>3. saving'[t].at = "saved" => \E j \in StoredOf(t) : voiceRows[j].role = "assistant"
    BY <2>2 DEF RowsInv, StoredAsSent
  <2>4. QED
    BY <1>3, <2>1, <2>3
<1>5. ASSUME NEW t \in Spoken
      PROVE  /\ saving'[t].at \in {"none", "sent", "resolved"} => StoredOf(t) = {}
             /\ saving'[t].at = "half" =>
                   /\ \A j \in StoredOf(t) : voiceRows[j].role = "user"
                   /\ \E i \in StoredOf(t) : voiceRows[i].chat = saving'[t].chat
             /\ saving'[t].at = "whole" => \E j \in StoredOf(t) : voiceRows[j].role = "assistant"
  BY <1>5 DEF RowsInv
<1>6. QED
  BY <1>1, <1>4, <1>5 DEF RowsInv

\* A row is added to those of its turn.
LEMMA RowAdded ==
    ASSUME TurnsTyped, NEW row \in VoiceRow, voiceRows' = Append(voiceRows, row)
    PROVE  /\ voiceRows' \in Seq(VoiceRow)
           /\ Len(voiceRows) + 1 \in Nat /\ voiceRows'[Len(voiceRows) + 1] = row
           /\ \A i \in DOMAIN voiceRows : /\ voiceRows'[i] = voiceRows[i]
                                          /\ i < Len(voiceRows) + 1
           /\ StoredOf(row.turn)' = StoredOf(row.turn) \union {Len(voiceRows) + 1}
           /\ \A t \in Spoken \ {row.turn} : StoredOf(t)' = StoredOf(t)
<1>1. voiceRows \in Seq(VoiceRow)
  BY DEF TurnsTyped
<1>2. /\ voiceRows' \in Seq(VoiceRow) /\ Len(voiceRows) \in Nat
      /\ DOMAIN voiceRows' = DOMAIN voiceRows \union {Len(voiceRows) + 1}
      /\ DOMAIN voiceRows = 1..Len(voiceRows)
      /\ voiceRows'[Len(voiceRows) + 1] = row
      /\ \A i \in DOMAIN voiceRows : voiceRows'[i] = voiceRows[i]
  BY <1>1, AppendProperties, LenProperties
<1>3. \A i \in DOMAIN voiceRows : i < Len(voiceRows) + 1
  BY <1>2
<1>4. \A t : StoredOf(t)' = {i \in DOMAIN voiceRows' : voiceRows'[i].turn = t}
  BY DEF StoredOf
<1>5. \A t : StoredOf(t) = {i \in DOMAIN voiceRows : voiceRows[i].turn = t}
  BY DEF StoredOf
<1>6. StoredOf(row.turn)' = StoredOf(row.turn) \union {Len(voiceRows) + 1}
  <2>1. \A i : i \in DOMAIN voiceRows' <=> i \in DOMAIN voiceRows \/ i = Len(voiceRows) + 1
    BY <1>2
  <2>2. \A i : i \in StoredOf(row.turn)'
                 <=> i \in StoredOf(row.turn) \/ i = Len(voiceRows) + 1
    BY <1>2, <1>4, <1>5, <2>1
  <2>3. QED
    BY <2>2
<1>7. ASSUME NEW t \in Spoken \ {row.turn} PROVE StoredOf(t)' = StoredOf(t)
  <2>1. \A i : i \in StoredOf(t)' <=> i \in StoredOf(t)
    BY <1>2, <1>4, <1>5
  <2>2. QED
    BY <2>1
<1>8. QED
  BY <1>2, <1>3, <1>6, <1>7

\* The other turns, while a row is added to one.
LEMMA OthersStay ==
    ASSUME TurnsTyped, RowsInv, NEW t \in Spoken, NEW row \in VoiceRow, row.turn = t,
           voiceRows' = Append(voiceRows, row), UNCHANGED spoken,
           \A u \in Spoken \ {t} : saving'[u] = saving[u], NEW u \in Spoken \ {t}
    PROVE  /\ StoredOf(u)' = StoredOf(u)
           /\ \A i \in StoredOf(u) : voiceRows'[i] = voiceRows[i]
           /\ \A j \in StoredOf(u) : AnswerAsSent(u, j) => AnswerAsSent(u, j)'
<1>1. StoredOf(u)' = StoredOf(u) /\ \A i \in DOMAIN voiceRows : voiceRows'[i] = voiceRows[i]
  BY RowAdded
<1>2. \A i \in StoredOf(u) : voiceRows'[i] = voiceRows[i]
  BY <1>1 DEF StoredOf
<1>3. QED
  BY <1>1, <1>2 DEF AnswerAsSent

\* Its question, before which nothing of a turn is stored.
LEMMA QuestionStored ==
    ASSUME VoiceInv, NEW t \in Spoken, SaveUserText(t)
    PROVE  TurnsTyped' /\ RowsInv'
<1> DEFINE row == [chat |-> saving[t].chat, turn |-> t, role |-> "user", said |-> 0]
           n == Len(voiceRows) + 1
<1>0. TurnsTyped /\ RowsInv /\ MaxSaid \in Nat
  BY VoiceTyped, VoiceAssumption DEF VoiceInv
<1>1. /\ saving[t].at = "resolved" /\ saving' = At(t, "half") /\ voiceRows' = Append(voiceRows, row)
      /\ UNCHANGED <<spoken, current, chat, chats>>
  BY DEF SaveUserText, SaveHalf, OnGateway
<1>2. row \in VoiceRow
  BY <1>0, <1>1 DEF VoiceInv, TurnsInv, TurnsTyped, Saving, VoiceRow
<1>3. /\ saving' \in [Spoken -> Saving] /\ saving'[t].at = "half" /\ saving'[t].chat = saving[t].chat
      /\ \A u \in Spoken \ {t} : saving'[u] = saving[u]
  BY <1>0, <1>1, PlaceChanges
<1>4. StoredOf(t) = {}
  BY <1>0, <1>1 DEF RowsInv
<1>5. voiceRows' \in Seq(VoiceRow) /\ voiceRows'[n] = row /\ StoredOf(t)' = {n}
  BY <1>0, <1>1, <1>2, <1>4, RowAdded
<1>6. TurnsTyped'
  BY <1>0, <1>1, <1>3, <1>5 DEF TurnsTyped, VoiceRow, Saving
<1>7. \A u \in Spoken \ {t} :
         /\ StoredOf(u)' = StoredOf(u)
         /\ \A i \in StoredOf(u) : voiceRows'[i] = voiceRows[i]
         /\ \A j \in StoredOf(u) : AnswerAsSent(u, j) => AnswerAsSent(u, j)'
  BY <1>0, <1>1, <1>2, <1>3, OthersStay
<1> HIDE DEF n
<1>8. StoredAsSent'
  <2> SUFFICES ASSUME NEW u \in Spoken
               PROVE  /\ \A i, j \in StoredOf(u)' : voiceRows'[i].role = voiceRows'[j].role => i = j
                      /\ \A j \in StoredOf(u)' : voiceRows'[j].role = "assistant"
                                                    => AnswerAsSent(u, j)'
                      /\ saving'[u].at = "saved"
                            => \E j \in StoredOf(u)' : voiceRows'[j].role = "assistant"
    BY DEF StoredAsSent
  <2>1. CASE u = t
    BY <1>3, <1>5, <2>1
  <2>2. CASE u # t
    BY <1>0, <1>3, <1>7, <2>2 DEF RowsInv, StoredAsSent
  <2>3. QED
    BY <2>1, <2>2
<1>9. ASSUME NEW u \in Spoken
      PROVE  /\ saving'[u].at \in {"none", "sent", "resolved"} => StoredOf(u)' = {}
             /\ saving'[u].at = "half" =>
                   /\ \A j \in StoredOf(u)' : voiceRows'[j].role = "user"
                   /\ \E i \in StoredOf(u)' : voiceRows'[i].chat = saving'[u].chat
             /\ saving'[u].at = "whole" => \E j \in StoredOf(u)' : voiceRows'[j].role = "assistant"
  <2>1. CASE u = t
    BY <1>3, <1>5, <2>1
  <2>2. CASE u # t
    BY <1>0, <1>3, <1>7, <2>2 DEF RowsInv
  <2>3. QED
    BY <2>1, <2>2
<1>10. QED
  BY <1>6, <1>8, <1>9 DEF RowsInv

\* Its answer, when only the question is.
LEMMA AnswerStored ==
    ASSUME VoiceInv, NEW t \in Spoken, SaveAssistantText(t)
    PROVE  TurnsTyped' /\ RowsInv'
<1> DEFINE row == [chat |-> saving[t].chat, turn |-> t, role |-> "assistant",
                   said |-> saving[t].said]
<1>0. TurnsTyped /\ RowsInv
  BY VoiceTyped DEF VoiceInv
<1>1. /\ saving[t].at = "half" /\ saving' = At(t, "whole") /\ voiceRows' = Append(voiceRows, row)
      /\ UNCHANGED <<spoken, current, chat, chats>>
  BY DEF SaveAssistantText, SaveHalf, OnGateway
<1>2. row \in VoiceRow
  BY <1>0, <1>1 DEF VoiceInv, TurnsInv, TurnsTyped, Saving, VoiceRow
<1>3. /\ saving' \in [Spoken -> Saving] /\ saving'[t].at = "whole"
      /\ saving'[t].said = saving[t].said
      /\ \A u \in Spoken \ {t} : saving'[u] = saving[u]
  BY <1>0, <1>1, PlaceChanges
<1>4. PICK i \in StoredOf(t) : voiceRows[i].chat = saving[t].chat
  BY <1>0, <1>1 DEF RowsInv
<1>5. /\ \A j \in StoredOf(t) : voiceRows[j].role = "user"
      /\ \A k, j \in StoredOf(t) : k = j
  BY <1>0, <1>1 DEF RowsInv, StoredAsSent
<1>6. i \in DOMAIN voiceRows
  BY DEF StoredOf
<1>7. PICK n \in Nat : /\ voiceRows' \in Seq(VoiceRow) /\ voiceRows'[n] = row
                       /\ StoredOf(t)' = StoredOf(t) \union {n}
                       /\ voiceRows'[i] = voiceRows[i] /\ i < n
  BY <1>0, <1>1, <1>2, <1>6, RowAdded
<1>8. TurnsTyped'
  BY <1>0, <1>1, <1>3, <1>7 DEF TurnsTyped, VoiceRow, Saving
<1>9. \A u \in Spoken \ {t} :
         /\ StoredOf(u)' = StoredOf(u)
         /\ \A k \in StoredOf(u) : voiceRows'[k] = voiceRows[k]
         /\ \A j \in StoredOf(u) : AnswerAsSent(u, j) => AnswerAsSent(u, j)'
  BY <1>0, <1>1, <1>2, <1>3, OthersStay
<1>10. saving'[t].said \in 1..spoken'[t].said
  BY <1>1, <1>3 DEF VoiceInv, TurnsInv
<1>11. StoredOf(t)' = {i, n} /\ voiceRows'[i].role = "user" /\ voiceRows'[n].role = "assistant"
  BY <1>4, <1>5, <1>7
<1>12. AnswerAsSent(t, n)'
  BY <1>3, <1>4, <1>7, <1>10, <1>11 DEF AnswerAsSent
<1>13. StoredAsSent'
  <2> SUFFICES ASSUME NEW u \in Spoken
               PROVE  /\ \A k, j \in StoredOf(u)' : voiceRows'[k].role = voiceRows'[j].role => k = j
                      /\ \A j \in StoredOf(u)' : voiceRows'[j].role = "assistant"
                                                    => AnswerAsSent(u, j)'
                      /\ saving'[u].at = "saved"
                            => \E j \in StoredOf(u)' : voiceRows'[j].role = "assistant"
    BY DEF StoredAsSent
  <2>1. CASE u = t
    BY <1>11, <1>12, <2>1
  <2>2. CASE u # t
    BY <1>0, <1>3, <1>9, <2>2 DEF RowsInv, StoredAsSent
  <2>3. QED
    BY <2>1, <2>2
<1>14. ASSUME NEW u \in Spoken
       PROVE  /\ saving'[u].at \in {"none", "sent", "resolved"} => StoredOf(u)' = {}
              /\ saving'[u].at = "half" =>
                    /\ \A j \in StoredOf(u)' : voiceRows'[j].role = "user"
                    /\ \E k \in StoredOf(u)' : voiceRows'[k].chat = saving'[u].chat
              /\ saving'[u].at = "whole" => \E j \in StoredOf(u)' : voiceRows'[j].role = "assistant"
  <2>1. CASE u = t
    BY <1>3, <1>11, <2>1
  <2>2. CASE u # t
    BY <1>0, <1>3, <1>9, <2>2 DEF RowsInv
  <2>3. QED
    BY <2>1, <2>2
<1>15. QED
  BY <1>8, <1>13, <1>14 DEF RowsInv

\* Sending a turn marks it, and only if it was not sent before.
LEMMA PersistKeeps ==
    ASSUME VoiceInv, PersistTurn(current), chats' = chats
    PROVE  /\ Marked(current) \in [Spoken -> SpokenTurn] /\ saving' \in [Spoken -> Saving]
           /\ \A t \in Spoken :
                 /\ Marked(current)[t].begun = spoken[t].begun
                 /\ Marked(current)[t].known = spoken[t].known
                 /\ Marked(current)[t].said = spoken[t].said
                 /\ Marked(current)[t].saveRequested <=> saving'[t].at # "none"
                 /\ saving'[t] = saving[t] \/ (saving[t].at = "none" /\ saving'[t].at = "sent")
                 /\ saving'[t].at # "none" => saving'[t].said \in 1..spoken[t].said
           /\ online /\ current # 0 /\ spoken[current].said > 0 => saving'[current].at # "none"
<1>0. TurnsTyped /\ TurnsInv
  BY VoiceTyped DEF VoiceInv
<1>1. CASE ~(HasText(current) /\ online)
  <2>1. saving' = saving /\ Marked(current) = spoken
    BY <1>1 DEF PersistTurn, Marked
  <2>2. online /\ current # 0 /\ spoken[current].said > 0 => saving[current].at # "none"
    <3>1. current # 0 => current \in Spoken
      BY <1>0, VoiceAssumption DEF TurnsTyped, Spoken
    <3>2. QED
      BY <1>0, <1>1, <3>1 DEF HasText, TurnsInv
  <2>3. QED
    BY <1>0, <2>1, <2>2 DEF TurnsTyped, TurnsInv
<1>2. CASE HasText(current) /\ online
  <2> DEFINE now == spoken[current]
             sent == [at |-> "sent", chat |-> chat, said |-> now.said, answered |-> TRUE]
             marked == [now EXCEPT !.saveRequested = TRUE]
  <2>1. current \in Spoken /\ now \in SpokenTurn /\ now.said > 0 /\ ~now.saveRequested
    BY <1>0, <1>2, VoiceAssumption DEF TurnsTyped, Spoken, HasText
  <2>2. saving' = [saving EXCEPT ![current] = sent]
    BY <1>2 DEF PersistTurn
  <2>3. Marked(current) = [spoken EXCEPT ![current] = marked]
    BY <1>0, <1>2 DEF Marked, TurnsTyped
  <2>4. sent \in Saving /\ sent.at = "sent" /\ sent.said \in 1..now.said
    BY <1>0, <2>1 DEF TurnsTyped, SpokenTurn, Saving
  <2>5. /\ marked \in SpokenTurn /\ marked.begun = now.begun /\ marked.known = now.known
        /\ marked.said = now.said /\ marked.saveRequested = TRUE
    <3> HIDE DEF now
    <3> QED BY <2>1 DEF SpokenTurn
  <2>6. saving[current].at = "none"
    BY <1>0, <2>1 DEF TurnsInv
  <2> HIDE DEF sent, marked
  <2>7. /\ saving' \in [Spoken -> Saving] /\ saving'[current] = sent
        /\ \A t \in Spoken \ {current} : saving'[t] = saving[t]
    BY <1>0, <2>1, <2>2, <2>4 DEF TurnsTyped
  <2>8. /\ Marked(current) \in [Spoken -> SpokenTurn] /\ Marked(current)[current] = marked
        /\ \A t \in Spoken \ {current} : Marked(current)[t] = spoken[t]
    BY <1>0, <2>1, <2>3, <2>5 DEF TurnsTyped
  <2>9. ASSUME NEW t \in Spoken
        PROVE  /\ Marked(current)[t].begun = spoken[t].begun
               /\ Marked(current)[t].known = spoken[t].known
               /\ Marked(current)[t].said = spoken[t].said
               /\ Marked(current)[t].saveRequested <=> saving'[t].at # "none"
               /\ saving'[t] = saving[t] \/ (saving[t].at = "none" /\ saving'[t].at = "sent")
               /\ saving'[t].at # "none" => saving'[t].said \in 1..spoken[t].said
    <3>1. CASE t = current
      BY <2>4, <2>5, <2>6, <2>7, <2>8, <3>1
    <3>2. CASE t # current
      BY <1>0, <2>7, <2>8, <3>2 DEF TurnsInv
    <3>3. QED
      BY <3>1, <3>2
  <2>10. QED
    BY <2>4, <2>7, <2>8, <2>9
<1>3. QED
  BY <1>1, <1>2

\* The end of a call.
LEMMA EndKeeps ==
    ASSUME VoiceInv, NEW dialled_, EndLiveVoice(dialled_)
    PROVE  TurnsTyped' /\ TurnsInv' /\ RowsInv'
<1>0. TurnsTyped /\ TurnsInv /\ RowsInv
  BY VoiceTyped DEF VoiceInv
<1>1. /\ PersistTurn(current) /\ spoken' = Marked(current) /\ current' = 0
      /\ UNCHANGED <<chat, voiceRows, chats>>
  BY DEF EndLiveVoice, Stored
<1>2. /\ spoken' \in [Spoken -> SpokenTurn] /\ saving' \in [Spoken -> Saving]
      /\ \A t \in Spoken :
            /\ spoken'[t].begun = spoken[t].begun /\ spoken'[t].said = spoken[t].said
            /\ spoken'[t].saveRequested <=> saving'[t].at # "none"
            /\ saving'[t] = saving[t] \/ (saving[t].at = "none" /\ saving'[t].at = "sent")
            /\ saving'[t].at # "none" => saving'[t].said \in 1..spoken[t].said
  BY <1>1, PersistKeeps
<1>3. TurnsTyped'
  BY <1>0, <1>1, <1>2, VoiceAssumption DEF TurnsTyped, Saving, VoiceRow
<1>4. TurnsInv'
  BY <1>0, <1>1, <1>2 DEF TurnsInv, TurnsTyped, SpokenTurn
<1>5. RowsInv'
  BY <1>0, <1>1, <1>2, <1>3, RowsStay DEF TurnsTyped, SpokenTurn
<1>6. QED
  BY <1>3, <1>4, <1>5

\* The provider's events.
LEMMA EventKeeps ==
    ASSUME VoiceInv, (\E t \in Spoken : UserTranscript(t)) \/ AssistantText \/ ResponseDone
    PROVE  TurnsTyped' /\ TurnsInv' /\ RowsInv'
<1>0. /\ TurnsTyped /\ TurnsInv /\ RowsInv
      /\ MaxSpoken \in Nat /\ MaxSaid \in Nat
      /\ current # 0 => current \in Spoken
  BY VoiceTyped, VoiceAssumption DEF VoiceInv, TurnsTyped, Spoken
<1>1. ASSUME NEW t \in Spoken, UserTranscript(t) PROVE TurnsTyped' /\ TurnsInv' /\ RowsInv'
  <2> DEFINE begun == [Unspoken EXCEPT !.begun = TRUE, !.known = TRUE]
  <2>1. /\ ~spoken[t].begun /\ PersistTurn(current) /\ current' = t
        /\ spoken' = [Marked(current) EXCEPT ![t] = begun] /\ UNCHANGED <<chat, voiceRows, chats>>
    BY <1>1 DEF UserTranscript, Stored
  <2>2. /\ begun \in SpokenTurn /\ begun.begun /\ begun.known /\ begun.said = 0
        /\ ~begun.saveRequested
    <3>1. Unspoken \in SpokenTurn /\ Unspoken.said = 0 /\ Unspoken.saveRequested = FALSE
      BY <1>0 DEF Unspoken, SpokenTurn
    <3>2. QED
      BY <3>1 DEF SpokenTurn
  <2>3. /\ Marked(current) \in [Spoken -> SpokenTurn] /\ saving' \in [Spoken -> Saving]
        /\ \A u \in Spoken :
              /\ Marked(current)[u].begun = spoken[u].begun
              /\ Marked(current)[u].said = spoken[u].said
              /\ Marked(current)[u].saveRequested <=> saving'[u].at # "none"
              /\ saving'[u] = saving[u] \/ (saving[u].at = "none" /\ saving'[u].at = "sent")
              /\ saving'[u].at # "none" => saving'[u].said \in 1..spoken[u].said
    BY <2>1, PersistKeeps
  <2> HIDE DEF begun
  <2>4. /\ spoken' \in [Spoken -> SpokenTurn] /\ spoken'[t] = begun
        /\ \A u \in Spoken \ {t} : spoken'[u] = Marked(current)[u]
    BY <2>1, <2>2, <2>3
  <2>5. saving[t].at = "none" /\ spoken[t].said = 0
    BY <1>0, <2>1 DEF TurnsInv
  <2>6. saving'[t].at = "none"
    BY <2>3, <2>5
  <2>7. TurnsTyped'
    <3>1. t \in 0..MaxSpoken
      BY <1>0 DEF Spoken
    <3>2. QED
      BY <1>0, <2>1, <2>3, <2>4, <3>1 DEF TurnsTyped, Saving, VoiceRow
  <2>8. TurnsInv'
    <3>1. ASSUME NEW u \in Spoken
          PROVE  /\ ~spoken'[u].begun => spoken'[u].said = 0 /\ saving'[u].at = "none"
                 /\ spoken'[u].saveRequested <=> saving'[u].at # "none"
                 /\ saving'[u].at # "none" => saving'[u].said \in 1..spoken'[u].said
                 /\ saving'[u].at \in {"resolved", "half"} => saving'[u].chat # 0
      <4>1. CASE u = t
        BY <2>2, <2>4, <2>6, <4>1
      <4>2. CASE u # t
        BY <1>0, <2>3, <2>4, <4>2 DEF TurnsInv
      <4>3. QED
        BY <4>1, <4>2
    <3>2. QED
      BY <2>1, <2>2, <2>4, <3>1 DEF TurnsInv
  <2>9. RowsInv'
    <3>1. ASSUME NEW u \in Spoken, saving[u].at # "none"
          PROVE  saving'[u].said = saving[u].said /\ spoken[u].said <= spoken'[u].said
      BY <1>0, <2>3, <2>4, <2>5, <3>1 DEF TurnsTyped, SpokenTurn
    <3>2. QED
      BY <1>0, <2>1, <2>3, <2>7, <3>1, RowsStay
  <2>10. QED
    BY <2>7, <2>8, <2>9
<1>2. CASE AssistantText
  <2> DEFINE now == spoken[current]
             longer == [now EXCEPT !.said = now.said + 1]
  <2>1. /\ current \in Spoken /\ now.said < MaxSaid /\ now.known /\ now.begun
        /\ UNCHANGED <<current, saving, chat, voiceRows, chats>>
    <3>1. /\ current # 0 /\ spoken[current].said < MaxSaid /\ spoken[current].known
          /\ UNCHANGED <<current, saving, chat, voiceRows, chats>>
      BY <1>2 DEF AssistantText, Stored
    <3>2. spoken[current].begun
      BY <1>0, <3>1 DEF TurnsInv
    <3>3. QED
      BY <1>0, <3>1, <3>2
  <2>2. now \in SpokenTurn
    BY <1>0, <2>1 DEF TurnsTyped
  <2>3. spoken' = [spoken EXCEPT ![current] = longer]
    BY <1>0, <1>2 DEF AssistantText, TurnsTyped
  <2>4. /\ longer \in SpokenTurn /\ longer.said = now.said + 1 /\ longer.known = now.known
        /\ longer.begun = now.begun /\ longer.saveRequested = now.saveRequested
    <3>1. now.said + 1 \in 0..MaxSaid
      BY <1>0, <2>1, <2>2 DEF SpokenTurn
    <3> DEFINE n == now.said + 1
    <3>2. n \in 0..MaxSaid /\ longer = [now EXCEPT !.said = n]
      BY <3>1
    <3> HIDE DEF now, n, longer
    <3>3. /\ longer \in SpokenTurn /\ longer.said = n /\ longer.known = now.known
          /\ longer.begun = now.begun /\ longer.saveRequested = now.saveRequested
      BY <2>2, <3>2 DEF SpokenTurn
    <3>4. QED
      BY <3>3 DEF n
  <2> HIDE DEF longer
  <2>5. /\ spoken' \in [Spoken -> SpokenTurn] /\ spoken'[current] = longer
        /\ \A u \in Spoken \ {current} : spoken'[u] = spoken[u]
    BY <1>0, <2>1, <2>3, <2>4 DEF TurnsTyped
  <2>6. \A u \in Spoken : /\ spoken[u].said <= spoken'[u].said /\ spoken[u].said \in Nat
                          /\ spoken'[u].said \in Nat
                          /\ spoken'[u].begun = spoken[u].begun
                          /\ spoken'[u].known = spoken[u].known
                          /\ spoken'[u].saveRequested = spoken[u].saveRequested
                          /\ ~spoken[u].begun => spoken'[u].said = spoken[u].said
    <3> SUFFICES ASSUME NEW u \in Spoken
                 PROVE  /\ spoken[u].said <= spoken'[u].said /\ spoken[u].said \in Nat
                        /\ spoken'[u].said \in Nat
                        /\ spoken'[u].begun = spoken[u].begun
                        /\ spoken'[u].known = spoken[u].known
                        /\ spoken'[u].saveRequested = spoken[u].saveRequested
                        /\ ~spoken[u].begun => spoken'[u].said = spoken[u].said
      OBVIOUS
    <3>1. spoken[u] \in SpokenTurn /\ spoken[u].said \in Nat
      BY <1>0 DEF TurnsTyped, SpokenTurn
    <3>2. CASE u = current
      <4>1. /\ spoken'[u].said = spoken[u].said + 1 /\ spoken'[u].known = spoken[u].known
            /\ spoken'[u].begun = spoken[u].begun
            /\ spoken'[u].saveRequested = spoken[u].saveRequested
        BY <2>4, <2>5, <3>2, Zenon
      <4>2. spoken[u].begun
        BY <2>1, <3>2, Zenon
      <4>3. QED
        BY <3>1, <4>1, <4>2
    <3>3. CASE u # current
      BY <2>5, <3>1, <3>3
    <3>4. QED
      BY <3>2, <3>3
  <2>7. TurnsTyped'
    BY <1>0, <2>1, <2>5 DEF TurnsTyped, Saving, VoiceRow
  <2>8. TurnsInv'
    <3>1. ASSUME NEW u \in Spoken
          PROVE  /\ ~spoken'[u].begun => spoken'[u].said = 0 /\ saving'[u].at = "none"
                 /\ spoken'[u].saveRequested <=> saving'[u].at # "none"
                 /\ saving'[u].at # "none" => saving'[u].said \in 1..spoken'[u].said
                 /\ saving'[u].at \in {"resolved", "half"} => saving'[u].chat # 0
      BY <1>0, <2>1, <2>6 DEF TurnsInv
    <3>2. QED
      BY <2>1, <2>6, <3>1 DEF TurnsInv
  <2>9. RowsInv'
    BY <1>0, <2>1, <2>6, <2>7, RowsStay
  <2>10. QED
    BY <2>7, <2>8, <2>9
<1>3. CASE ResponseDone
  <2>1. /\ PersistTurn(current) /\ spoken' = Marked(current)
        /\ UNCHANGED <<current, chat, voiceRows, chats>>
    BY <1>3 DEF ResponseDone, Stored
  <2>2. /\ spoken' \in [Spoken -> SpokenTurn] /\ saving' \in [Spoken -> Saving]
        /\ \A t \in Spoken :
              /\ spoken'[t].begun = spoken[t].begun /\ spoken'[t].said = spoken[t].said
              /\ spoken'[t].known = spoken[t].known
              /\ spoken'[t].saveRequested <=> saving'[t].at # "none"
              /\ saving'[t] = saving[t] \/ (saving[t].at = "none" /\ saving'[t].at = "sent")
              /\ saving'[t].at # "none" => saving'[t].said \in 1..spoken[t].said
    BY <2>1, PersistKeeps
  <2>3. TurnsTyped'
    BY <1>0, <2>1, <2>2 DEF TurnsTyped, Saving, VoiceRow
  <2>4. TurnsInv'
    BY <1>0, <2>1, <2>2 DEF TurnsInv, TurnsTyped, SpokenTurn
  <2>5. RowsInv'
    BY <1>0, <2>1, <2>2, <2>3, RowsStay DEF TurnsTyped, SpokenTurn
  <2>6. QED
    BY <2>3, <2>4, <2>5
<1>4. QED
  BY <1>1, <1>2, <1>3

\* The gateway moves one turn on, within the conversations there are.
LEMMA PlaceKeeps ==
    ASSUME VoiceInv, NEW t \in Spoken, saving[t].at # "none",
           NEW place \in {"whole", "saved", "failed", "over"}, saving' = At(t, place),
           place = "whole" => saving[t].at = "whole",
           place = "saved" => saving[t].at = "whole",
           UNCHANGED <<current, voiceRows, chats>>, chat' \in 0..chats,
           spoken' = spoken \/ (place = "over" /\ spoken' = [spoken EXCEPT ![t].known = FALSE])
    PROVE  TurnsTyped' /\ TurnsInv' /\ RowsInv'
<1>0. TurnsTyped /\ TurnsInv /\ RowsInv
  BY VoiceTyped DEF VoiceInv
<1>1. /\ saving' \in [Spoken -> Saving]
      /\ saving'[t].at = place /\ saving'[t].chat = saving[t].chat
      /\ saving'[t].said = saving[t].said
      /\ \A u \in Spoken \ {t} : saving'[u] = saving[u]
  BY <1>0, PlaceChanges
<1>2. /\ spoken' \in [Spoken -> SpokenTurn]
      /\ \A u \in Spoken : /\ spoken'[u].begun = spoken[u].begun /\ spoken'[u].said = spoken[u].said
                           /\ spoken'[u].saveRequested = spoken[u].saveRequested
                           /\ u # t => spoken'[u].known = spoken[u].known
  <2>1. spoken[t] \in SpokenTurn
    BY <1>0 DEF TurnsTyped
  <2>2. /\ [spoken[t] EXCEPT !.known = FALSE] \in SpokenTurn
        /\ [spoken[t] EXCEPT !.known = FALSE].begun = spoken[t].begun
        /\ [spoken[t] EXCEPT !.known = FALSE].said = spoken[t].said
        /\ [spoken[t] EXCEPT !.known = FALSE].saveRequested = spoken[t].saveRequested
    BY <2>1 DEF SpokenTurn
  <2>3. spoken' = spoken \/ spoken' = [spoken EXCEPT ![t] = [spoken[t] EXCEPT !.known = FALSE]]
    BY <1>0 DEF TurnsTyped
  <2>4. QED
    BY <1>0, <2>2, <2>3 DEF TurnsTyped
<1>3. TurnsTyped'
  BY <1>0, <1>1, <1>2 DEF TurnsTyped, Saving, VoiceRow
<1>4. TurnsInv'
  <2>1. ASSUME NEW u \in Spoken
        PROVE  /\ ~spoken'[u].begun => spoken'[u].said = 0 /\ saving'[u].at = "none"
               /\ spoken'[u].saveRequested <=> saving'[u].at # "none"
               /\ saving'[u].at # "none" => saving'[u].said \in 1..spoken'[u].said
               /\ saving'[u].at \in {"resolved", "half"} => saving'[u].chat # 0
    <3>1. CASE u = t
      BY <1>0, <1>1, <1>2, <3>1 DEF TurnsInv
    <3>2. CASE u # t
      BY <1>0, <1>1, <1>2, <3>2 DEF TurnsInv
    <3>3. QED
      BY <3>1, <3>2
  <2>2. current' # 0 => /\ spoken'[current'].begun
                        /\ spoken'[current'].known \/ saving'[current'].at # "none"
    <3> SUFFICES ASSUME current # 0
                 PROVE  /\ spoken'[current].begun
                        /\ spoken'[current].known \/ saving'[current].at # "none"
      OBVIOUS
    <3>1. current \in Spoken /\ spoken[current].begun
          /\ (spoken[current].known \/ saving[current].at # "none")
      BY <1>0, VoiceAssumption DEF TurnsInv, TurnsTyped, Spoken
    <3>2. spoken'[current].begun
      BY <1>2, <3>1
    <3>3. CASE current = t
      BY <1>1, <3>2, <3>3
    <3>4. CASE current # t
      BY <1>1, <1>2, <3>1, <3>2, <3>4
    <3>5. QED
      BY <3>3, <3>4
  <2>3. QED
    BY <2>1, <2>2 DEF TurnsInv
<1>5. RowsInv'
  BY <1>0, <1>1, <1>2, <1>3, RowsStay DEF TurnsTyped, SpokenTurn
<1>6. QED
  BY <1>3, <1>4, <1>5

\* A turn finds its conversation, maybe a new one.
LEMMA ResolveKeeps ==
    ASSUME VoiceInv, NEW t \in Spoken, Resolve(t)
    PROVE  TurnsTyped' /\ TurnsInv' /\ RowsInv'
<1>0. TurnsTyped /\ TurnsInv /\ RowsInv
  BY VoiceTyped DEF VoiceInv
<1>1. PICK found \in ChatFor(t) :
         /\ saving[t].at = "sent"
         /\ saving' = [saving EXCEPT ![t].at = "resolved", ![t].chat = found]
         /\ chats' = IF found > chats THEN found ELSE chats
         /\ UNCHANGED <<spoken, current, chat, voiceRows>>
  BY DEF Resolve, OnGateway
<1>2. saving[t] \in Saving /\ chats \in Nat /\ chat \in 0..chats
  BY <1>0 DEF TurnsTyped
<1>3. found \in 1..(chats + 1)
  BY <1>2 DEF ChatFor, Saving
<1>4. chats' \in Nat /\ chats <= chats' /\ found \in 1..chats'
  BY <1>1, <1>2, <1>3
<1> DEFINE Saving2 == [at : {"none", "sent", "resolved", "half", "whole", "saved", "failed", "over"},
                       chat : 0..chats', said : 0..MaxSaid, answered : BOOLEAN]
           resolved == [saving[t] EXCEPT !.at = "resolved", !.chat = found]
<1>5. Saving \subseteq Saving2 /\ Saving' = Saving2
  <2>1. 0..chats \subseteq 0..chats'
    BY <1>2, <1>4
  <2>2. QED
    BY <2>1 DEF Saving
<1>6. /\ resolved \in Saving2 /\ resolved.at = "resolved" /\ resolved.chat = found
      /\ resolved.said = saving[t].said
  <2>1. saving[t] \in Saving2 /\ found \in 0..chats'
    BY <1>2, <1>4, <1>5
  <2>2. QED
    BY <2>1
<1>7. saving' = [saving EXCEPT ![t] = resolved]
  BY <1>0, <1>1 DEF TurnsTyped
<1> HIDE DEF resolved, Saving2
<1>8. /\ saving' \in [Spoken -> Saving2] /\ saving'[t] = resolved
      /\ \A u \in Spoken \ {t} : saving'[u] = saving[u]
  BY <1>0, <1>5, <1>6, <1>7 DEF TurnsTyped
<1>9. voiceRows' \in Seq(VoiceRow')
  <2>1. 1..chats \subseteq 1..chats'
    BY <1>2, <1>4
  <2>2. VoiceRow \subseteq VoiceRow'
    BY <2>1 DEF VoiceRow
  <2>3. voiceRows \in Seq(VoiceRow)
    BY <1>0 DEF TurnsTyped
  <2> HIDE DEF VoiceRow
  <2>4. QED
    BY <1>1, <2>2, <2>3, SeqMonotonic
<1>10. TurnsTyped'
  <2>1. chat' \in 0..chats' /\ current' = current /\ spoken' = spoken
    BY <1>1, <1>2, <1>4
  <2>2. QED
    BY <1>0, <1>4, <1>5, <1>8, <1>9, <2>1 DEF TurnsTyped, SpokenTurn
<1>11. TurnsInv'
  <2>1. ASSUME NEW u \in Spoken
        PROVE  /\ saving'[u].at # "none" <=> saving[u].at # "none"
               /\ saving'[u].said = saving[u].said
               /\ saving'[u].at \in {"resolved", "half"} => saving'[u].chat # 0
    <3>1. CASE u = t
      BY <1>1, <1>3, <1>6, <1>8, <3>1
    <3>2. CASE u # t
      BY <1>0, <1>8, <3>2 DEF TurnsInv
    <3>3. QED
      BY <3>1, <3>2
  <2>2. current # 0 => current \in Spoken
    BY <1>0, VoiceAssumption DEF TurnsTyped, Spoken
  <2>3. QED
    BY <1>0, <1>1, <2>1, <2>2 DEF TurnsInv
<1>12. RowsInv'
  BY <1>0, <1>1, <1>6, <1>8, <1>10, RowsStay DEF TurnsTyped, SpokenTurn
<1>13. QED
  BY <1>10, <1>11, <1>12

\* What does not touch the turns.
LEMMA TurnsUntouched ==
    ASSUME VoiceInv, UNCHANGED <<spoken, current, saving, voiceRows, chats>>, chat' \in 0..chats
    PROVE  TurnsTyped' /\ TurnsInv' /\ RowsInv'
<1>0. TurnsTyped /\ TurnsInv /\ RowsInv
  BY VoiceTyped DEF VoiceInv
<1>1. TurnsTyped'
  BY <1>0 DEF TurnsTyped, Saving, VoiceRow
<1>2. TurnsInv'
  BY <1>0 DEF TurnsInv
<1>3. RowsInv'
  BY <1>0, <1>1, RowsStay DEF TurnsTyped, SpokenTurn
<1>4. QED
  BY <1>1, <1>2, <1>3

\* A new call forgets which turns are its own.
LEMMA DialKeeps ==
    ASSUME VoiceInv, NEW c \in Dials, DialCall(c)
    PROVE  TurnsTyped' /\ TurnsInv' /\ RowsInv'
<1>0. TurnsTyped /\ TurnsInv /\ RowsInv
  BY VoiceTyped DEF VoiceInv
<1>1. /\ current' = 0 /\ spoken' = [t \in Spoken |-> [spoken[t] EXCEPT !.known = FALSE]]
      /\ UNCHANGED <<saving, chat, voiceRows, chats>>
  BY DEF DialCall, Stored
<1>2. ASSUME NEW t \in Spoken
      PROVE  /\ spoken'[t] \in SpokenTurn /\ spoken'[t].begun = spoken[t].begun
             /\ spoken'[t].said = spoken[t].said
             /\ spoken'[t].saveRequested = spoken[t].saveRequested
  <2>1. spoken[t] \in SpokenTurn
    BY <1>0 DEF TurnsTyped
  <2>2. spoken'[t] = [spoken[t] EXCEPT !.known = FALSE]
    BY <1>1
  <2>3. QED
    BY <2>1, <2>2 DEF SpokenTurn
<1>3. spoken' \in [Spoken -> SpokenTurn]
  BY <1>1, <1>2
<1>4. TurnsTyped'
  BY <1>0, <1>1, <1>3, VoiceAssumption DEF TurnsTyped, Saving, VoiceRow
<1>5. TurnsInv'
  BY <1>0, <1>1, <1>2 DEF TurnsInv
<1>6. RowsInv'
  BY <1>0, <1>1, <1>2, <1>4, RowsStay DEF TurnsTyped, SpokenTurn
<1>7. QED
  BY <1>4, <1>5, <1>6

\* The socket takes with it what the gateway has not begun.
LEMMA LossKeeps ==
    ASSUME VoiceInv, SocketLost
    PROVE  TurnsTyped' /\ TurnsInv' /\ RowsInv'
<1>0. TurnsTyped /\ TurnsInv /\ RowsInv
  BY VoiceTyped DEF VoiceInv
<1>1. UNCHANGED <<spoken, current, chat, voiceRows, chats>>
  BY DEF SocketLost, Stored
<1>2. PICK lost \in SUBSET {t \in Spoken : saving[t].at = "sent"} :
         saving' = [t \in Spoken |->
               IF t \in lost \/ saving[t].at \in {"saved", "failed"}
               THEN [saving[t] EXCEPT !.at = "over"]
               ELSE [saving[t] EXCEPT !.answered = @ /\ saving[t].at \in {"none", "over"}]]
  BY DEF SocketLost
<1>3. ASSUME NEW t \in Spoken
      PROVE  /\ saving'[t] \in Saving /\ saving'[t].chat = saving[t].chat
             /\ saving'[t].said = saving[t].said
             /\ saving'[t].at = saving[t].at \/ (saving'[t].at = "over" /\ saving[t].at # "none")
  <2>1. saving[t] \in Saving
    BY <1>0 DEF TurnsTyped
  <2>2. CASE t \in lost \/ saving[t].at \in {"saved", "failed"}
    <3>1. saving'[t] = [saving[t] EXCEPT !.at = "over"] /\ saving[t].at # "none"
      BY <1>2, <2>2
    <3>2. QED
      BY <2>1, <3>1 DEF Saving
  <2>3. CASE ~(t \in lost \/ saving[t].at \in {"saved", "failed"})
    <3> DEFINE answered == saving[t].answered /\ saving[t].at \in {"none", "over"}
    <3>1. saving'[t] = [saving[t] EXCEPT !.answered = answered] /\ answered \in BOOLEAN
      BY <1>2, <2>1, <2>3 DEF Saving
    <3> HIDE DEF answered
    <3>2. QED
      BY <2>1, <3>1 DEF Saving
  <2>4. QED
    BY <2>2, <2>3
<1>4. saving' \in [Spoken -> Saving]
  BY <1>2, <1>3
<1>5. TurnsTyped'
  BY <1>0, <1>1, <1>4 DEF TurnsTyped, Saving, VoiceRow
<1>6. TurnsInv'
  <2>1. ASSUME NEW t \in Spoken
        PROVE  /\ saving'[t].at # "none" <=> saving[t].at # "none"
               /\ saving'[t].said = saving[t].said
               /\ saving'[t].at \in {"resolved", "half"} => saving'[t].chat # 0
    BY <1>0, <1>3 DEF TurnsInv
  <2>2. current # 0 => current \in Spoken
    BY <1>0, VoiceAssumption DEF TurnsTyped, Spoken
  <2>3. QED
    BY <1>0, <1>1, <2>1, <2>2 DEF TurnsInv
<1>7. RowsInv'
  <2>1. \A t \in Spoken : spoken[t].said <= spoken'[t].said
    BY <1>0, <1>1 DEF TurnsTyped, SpokenTurn
  <2>2. QED
    BY <1>0, <1>1, <1>3, <1>5, <2>1, RowsStay
<1>8. QED
  BY <1>5, <1>6, <1>7

LEMMA VoiceInitInv ==
    VoiceInit => VoiceInv
<1> SUFFICES ASSUME VoiceInit PROVE VoiceInv
  OBVIOUS
<1>0. MaxSpoken \in Nat /\ MaxSaid \in Nat /\ MaxDials \in Nat
  BY VoiceAssumption
<1>1. /\ Unspoken \in SpokenTurn /\ ~Unspoken.begun /\ Unspoken.said = 0
      /\ Unspoken.saveRequested = FALSE
  BY <1>0 DEF Unspoken, SpokenTurn
<1>2. chats = 0 /\ NotSaving \in Saving /\ NotSaving.at = "none"
  BY <1>0 DEF VoiceInit, NotSaving, Saving
<1>3. voiceRows = <<>> /\ voiceRows \in Seq(VoiceRow) /\ DOMAIN voiceRows = {}
  BY EmptySeq DEF VoiceInit
<1>4. \A t \in Spoken : spoken[t] = Unspoken /\ saving[t] = NotSaving
  BY DEF VoiceInit
<1>5. VoiceTypeOK
  <2>1. TurnsTyped
    BY <1>0, <1>1, <1>2, <1>3 DEF VoiceInit, TurnsTyped
  <2>2. QED
    BY <1>0, <2>1, VoiceTyped DEF VoiceInit
<1>6. TurnsInv
  BY <1>1, <1>2, <1>4 DEF TurnsInv, VoiceInit
<1>7. RowsInv
  BY <1>2, <1>3, <1>4 DEF RowsInv, StoredAsSent, StoredOf
<1>8. QED
  BY <1>5, <1>6, <1>7 DEF VoiceInv

\* The rest of the variables: the calls and the socket.
CallsTyped ==
    /\ shopper \in {"customer", "guest_database", "guest_session"} /\ online \in BOOLEAN
    /\ callState \in {"idle", "connecting", "connected", "error"}
    /\ callRequest \in 0..MaxDials /\ peer \in 0..MaxDials
    /\ dialled \in [Dials -> {"no", "asked", "permission", "signalling", "broken", "open", "over"}]

LEMMA PeerClosedTyped ==
    ASSUME CallsTyped
    PROVE  PeerClosed \in [Dials -> {"no", "asked", "permission", "signalling", "broken", "open",
                                     "over"}]
BY DEF CallsTyped, PeerClosed

LEMMA VoiceStepInv ==
    VoiceInv /\ [VoiceNext]_voiceVars => VoiceInv'
<1> SUFFICES ASSUME VoiceInv, [VoiceNext]_voiceVars
             PROVE  (TurnsTyped' /\ TurnsInv' /\ RowsInv') /\ CallsTyped'
  BY VoiceTyped DEF VoiceInv, CallsTyped, VoiceTypeOK, TurnsTyped, SpokenTurn, Saving, VoiceRow
<1>0. /\ TurnsTyped /\ TurnsInv /\ RowsInv /\ CallsTyped
      /\ chat \in 0..chats /\ chats \in Nat /\ MaxDials \in Nat
  BY VoiceTyped, VoiceAssumption DEF VoiceInv, CallsTyped, TurnsTyped
<1>1. CASE ShopperHangsUp
  BY <1>0, <1>1, EndKeeps, PeerClosedTyped DEF ShopperHangsUp, EndLiveVoice, CallsTyped
<1>2. CASE AssistantText \/ ResponseDone \/ \E t \in Spoken : UserTranscript(t)
  <2>1. UNCHANGED <<shopper, online, callState, callRequest, dialled, peer>>
    BY <1>2 DEF AssistantText, ResponseDone, UserTranscript, Connections
  <2>2. QED
    BY <1>0, <1>2, <2>1, EventKeeps DEF CallsTyped
<1>3. CASE SocketLost
  BY <1>0, <1>3, LossKeeps DEF SocketLost, Connections, CallsTyped
<1>4. CASE SocketBack
  BY <1>0, <1>4, TurnsUntouched DEF SocketBack, Connections, Transcript, Stored, CallsTyped
<1>5. ASSUME NEW c \in Dials, DialCall(c)
      PROVE  TurnsTyped' /\ TurnsInv' /\ RowsInv' /\ CallsTyped'
  <2>1. c \in 0..MaxDials
    BY <1>0 DEF Dials
  <2>2. CallsTyped'
    BY <1>0, <1>5, <2>1 DEF DialCall, CallsTyped
  <2>3. QED
    BY <1>5, <2>2, DialKeeps
<1>6. ASSUME NEW c \in Dials,
             CredentialCame(c) \/ MicrophoneGranted(c) \/ CallConnected(c) \/ FailLiveVoice(c)
      PROVE  TurnsTyped' /\ TurnsInv' /\ RowsInv' /\ CallsTyped'
  <2>1. UNCHANGED <<spoken, current, saving, voiceRows, chats, chat, shopper, online>>
    BY <1>6 DEF CredentialCame, MicrophoneGranted, CallConnected, FailLiveVoice, Transcript, Stored
  <2>2. CallsTyped'
    BY <1>0, <1>6, PeerClosedTyped
       DEF CredentialCame, MicrophoneGranted, CallConnected, FailLiveVoice, CallsTyped, Dials
  <2>3. QED
    BY <1>0, <2>1, <2>2, TurnsUntouched
<1>7. ASSUME NEW c \in Dials, ChannelCloses(c)
      PROVE  TurnsTyped' /\ TurnsInv' /\ RowsInv' /\ CallsTyped'
  <2>1. CASE callState = "connected"
    <3>1. EndLiveVoice([PeerClosed EXCEPT ![c] = "over"])
      BY <1>7, <2>1 DEF ChannelCloses
    <3>2. CallsTyped'
      BY <1>0, <3>1, PeerClosedTyped DEF EndLiveVoice, CallsTyped
    <3>3. QED
      BY <3>1, <3>2, EndKeeps
  <2>2. CASE callState # "connected"
    BY <1>0, <1>7, <2>2, TurnsUntouched DEF ChannelCloses, Transcript, Stored, CallsTyped
  <2>3. QED
    BY <2>1, <2>2
<1>8. ASSUME NEW t \in Spoken, Resolve(t)
      PROVE  TurnsTyped' /\ TurnsInv' /\ RowsInv' /\ CallsTyped'
  BY <1>0, <1>8, ResolveKeeps DEF Resolve, OnGateway, Connections, CallsTyped
<1>9. ASSUME NEW t \in Spoken, SaveUserText(t) \/ SaveAssistantText(t)
      PROVE  TurnsTyped' /\ TurnsInv' /\ RowsInv' /\ CallsTyped'
  <2>1. CallsTyped'
    BY <1>0, <1>9 DEF SaveUserText, SaveAssistantText, SaveHalf, OnGateway, Connections, CallsTyped
  <2>2. TurnsTyped' /\ RowsInv'
    BY <1>9, QuestionStored, AnswerStored
  <2>3. PICK place \in {"half", "whole"} :
           /\ saving' = At(t, place) /\ UNCHANGED <<spoken, current>>
           /\ saving[t].at \in {"resolved", "half"}
    BY <1>9 DEF SaveUserText, SaveAssistantText, SaveHalf, OnGateway
  <2>4. /\ saving'[t].at = place /\ saving'[t].chat = saving[t].chat
        /\ saving'[t].said = saving[t].said
        /\ \A u \in Spoken \ {t} : saving'[u] = saving[u]
    BY <1>0, <2>3, PlaceChanges
  <2>5. ASSUME NEW u \in Spoken
        PROVE  /\ saving'[u].at # "none" <=> saving[u].at # "none"
               /\ saving'[u].said = saving[u].said
               /\ saving'[u].at \in {"resolved", "half"} => saving'[u].chat # 0
    <3>1. CASE u = t
      BY <1>0, <2>3, <2>4, <3>1 DEF TurnsInv
    <3>2. CASE u # t
      BY <1>0, <2>4, <3>2 DEF TurnsInv
    <3>3. QED
      BY <3>1, <3>2
  <2>6. current # 0 => current \in Spoken
    BY <1>0, VoiceAssumption DEF TurnsTyped, Spoken
  <2>7. TurnsInv'
    BY <1>0, <2>3, <2>5, <2>6 DEF TurnsInv
  <2>8. QED
    BY <2>1, <2>2, <2>7
<1>10. ASSUME NEW t \in Spoken,
              ReportSaved(t) \/ SaveFails(t) \/ ReceiveSaved(t) \/ ReceiveSaveError(t)
       PROVE  TurnsTyped' /\ TurnsInv' /\ RowsInv' /\ CallsTyped'
  <2>1. CallsTyped'
    BY <1>0, <1>10 DEF ReportSaved, SaveFails, ReceiveSaved, ReceiveSaveError, OnGateway,
                       Connections, CallsTyped
  <2>2. UNCHANGED <<current, voiceRows, chats>>
    BY <1>10 DEF ReportSaved, SaveFails, ReceiveSaved, ReceiveSaveError, OnGateway, Stored
  <2>3. /\ chat' \in 0..chats
        /\ saving[t].at # "none"
    BY <1>0, <1>10 DEF ReportSaved, SaveFails, ReceiveSaved, ReceiveSaveError, OnGateway,
                       TurnsTyped, Saving
  <2>4. \E place \in {"saved", "failed", "over"} :
           /\ saving' = At(t, place) /\ (place = "saved" => saving[t].at = "whole")
           /\ spoken' = spoken \/ (place = "over" /\ spoken' = [spoken EXCEPT ![t].known = FALSE])
    BY <1>10 DEF ReportSaved, SaveFails, ReceiveSaved, ReceiveSaveError, OnGateway
  <2>5. QED
    BY <2>1, <2>2, <2>3, <2>4, PlaceKeeps
<1>11. ASSUME NEW c \in 0..chats, SwitchChat(c)
       PROVE  TurnsTyped' /\ TurnsInv' /\ RowsInv' /\ CallsTyped'
  BY <1>0, <1>11, TurnsUntouched DEF SwitchChat, Connections, Transcript, Stored, CallsTyped
<1>12. CASE UNCHANGED voiceVars
  BY <1>0, <1>12, TurnsUntouched DEF voiceVars, CallsTyped
<1>13. QED
  BY <1>1, <1>2, <1>3, <1>4, <1>5, <1>6, <1>7, <1>8, <1>9, <1>10, <1>11, <1>12 DEF VoiceNext

THEOREM VoiceInvariant == VoiceSpec => []VoiceInv
BY VoiceInitInv, VoiceStepInv, PTL DEF VoiceSpec

\* The variables of live voice have their types.
THEOREM VoiceTypeCorrect == VoiceSpec => []VoiceTypeOK
BY VoiceInvariant, PTL DEF VoiceInv

LEMMA LeftIsSent ==
    VoiceInv /\ [VoiceNext]_voiceVars => LeftTurnIsSent
<1> SUFFICES ASSUME VoiceInv, [VoiceNext]_voiceVars, NEW t \in Spoken,
                    current = t, current' # t, spoken[t].said > 0, online,
                    callState' = "connecting" => callState = "connecting"
             PROVE  saving'[t].at # "none"
  BY DEF LeftTurnIsSent
<1>1. t # 0
  BY VoiceAssumption DEF Spoken
<1>2. PersistTurn(current) /\ chats' = chats
  <2>1. ~ \E c \in Dials : DialCall(c)
    BY DEF DialCall
  <2>2. CASE ShopperHangsUp
    BY <2>2 DEF ShopperHangsUp, EndLiveVoice, Stored
  <2>3. CASE \E c \in Dials : ChannelCloses(c)
    BY <2>3 DEF ChannelCloses, EndLiveVoice, Transcript, Stored
  <2>4. CASE \E u \in Spoken : UserTranscript(u)
    BY <2>4 DEF UserTranscript, Stored
  <2>5. QED
    BY <2>1, <2>2, <2>3, <2>4
       DEF VoiceNext, voiceVars, AssistantText, ResponseDone, SocketLost, SocketBack,
           CredentialCame, MicrophoneGranted, CallConnected, FailLiveVoice, Resolve, SaveUserText,
           SaveAssistantText, SaveHalf, ReportSaved, SaveFails, ReceiveSaved, ReceiveSaveError,
           SwitchChat, Transcript, OnGateway
<1>3. QED
  BY <1>1, <1>2, PersistKeeps

\* No spoken turn is forgotten, and each is stored once, question before answer, for every
\* number of calls and turns.
THEOREM VoiceCorrect == VoiceSpec => VoiceTurnsAreKept
<1>1. VoiceInv /\ VoiceInv' /\ [VoiceNext]_voiceVars => [LeftTurnIsSent /\ StoredAsSent']_voiceVars
  BY LeftIsSent DEF VoiceInv, RowsInv
<1>2. QED
  BY <1>1, VoiceInvariant, PTL DEF VoiceSpec, VoiceTurnsAreKept

-----------------------------------------------------------------------------
(***************************************************************************)
(* The forms on a page                                                     *)
(***************************************************************************)
LEMMA FunctionIsSeq ==
    ASSUME NEW S, NEW n \in Nat, NEW s \in [1..n -> S]
    PROVE  s \in Seq(S) /\ Len(s) = n
BY SeqDef

\* The parts of a page say nothing of a change that is not in done.
SoundParts(parts, done) ==
    /\ parts \in Seq(FormParts)
    /\ \A i \in DOMAIN parts : parts[i].updated # 0 => parts[i].updated \in done

LEMMA NewPartSound ==
    ASSUME NEW f \in Forms, NEW signed \in BOOLEAN
    PROVE  NewPart(f, signed) \in FormParts /\ NewPart(f, signed).updated = 0
BY AddressAssumption DEF NewPart, FormParts

LEMMA ExpiredSound ==
    ASSUME NEW p \in FormParts
    PROVE  Expired(p) \in FormParts /\ Expired(p).updated = 0
<1>1. 0 \in 0..MaxSubmissions
  BY AddressAssumption
<1>2. [p EXCEPT !.status = "expired", !.busy = FALSE] \in FormParts
  BY DEF FormParts
<1>3. \A q \in FormParts : [q EXCEPT !.signed = FALSE, !.updated = 0] \in FormParts
                           /\ [q EXCEPT !.signed = FALSE, !.updated = 0].updated = 0
  BY <1>1 DEF FormParts
<1>4. Expired(p) = [[p EXCEPT !.status = "expired", !.busy = FALSE]
                       EXCEPT !.signed = FALSE, !.updated = 0]
  BY DEF Expired
<1>5. QED
  BY <1>2, <1>3, <1>4

LEMMA ExpiredOthersSound ==
    ASSUME NEW done, NEW parts, SoundParts(parts, done), NEW f
    PROVE  SoundParts(ExpiredOthers(parts, f), done)
<1> DEFINE rest == ExpiredOthers(parts, f)
<1>1. Len(parts) \in Nat /\ DOMAIN parts = 1..Len(parts) /\ parts \in Seq(FormParts)
  BY LenProperties DEF SoundParts
<1>2. ASSUME NEW i \in 1..Len(parts)
      PROVE  /\ rest[i] \in FormParts
             /\ rest[i] = parts[i] \/ rest[i].updated = 0
  <2>1. parts[i] \in FormParts
    BY <1>1, ElementOfSeq
  <2>2. rest[i] = parts[i] \/ rest[i] = Expired(parts[i])
    BY <1>1 DEF ExpiredOthers
  <2>3. QED
    BY <2>1, <2>2, ExpiredSound
<1>3. DOMAIN rest = 1..Len(parts) /\ rest \in [1..Len(parts) -> FormParts]
  BY <1>1, <1>2 DEF ExpiredOthers
<1>4. rest \in Seq(FormParts)
  BY <1>1, <1>3, FunctionIsSeq
<1>5. QED
  BY <1>1, <1>2, <1>3, <1>4 DEF SoundParts

LEMMA SingleActiveSound ==
    ASSUME NEW done, NEW parts, SoundParts(parts, done)
    PROVE  SoundParts(SingleActive(parts), done)
BY ExpiredOthersSound DEF SingleActive

LEMMA CopiedSound ==
    ASSUME NEW done, NEW parts, SoundParts(parts, done)
    PROVE  SoundParts(Copied(parts), done)
<1> DEFINE anew == [i \in DOMAIN parts |-> NewPart(parts[i].form, parts[i].signed)]
<1>1. Len(parts) \in Nat /\ DOMAIN parts = 1..Len(parts) /\ parts \in Seq(FormParts)
  BY LenProperties DEF SoundParts
<1>2. ASSUME NEW i \in 1..Len(parts) PROVE anew[i] \in FormParts /\ anew[i].updated = 0
  <2>1. parts[i].form \in Forms /\ parts[i].signed \in BOOLEAN
    <3>1. parts[i] \in FormParts
      BY <1>1, ElementOfSeq
    <3>2. QED
      BY <3>1 DEF FormParts
  <2>2. QED
    BY <1>1, <2>1, NewPartSound
<1>3. anew \in [1..Len(parts) -> FormParts]
  BY <1>1, <1>2
<1>4. SoundParts(anew, done)
  <2> HIDE DEF anew
  <2>1. anew \in Seq(FormParts) /\ DOMAIN anew = 1..Len(parts)
    BY <1>1, <1>3, FunctionIsSeq
  <2>2. QED
    BY <1>2, <2>1 DEF SoundParts
<1>5. QED
  BY <1>4, SingleActiveSound DEF Copied

LEMMA AddedSound ==
    ASSUME NEW done, NEW parts, SoundParts(parts, done), NEW forms \in Seq(Forms)
    PROVE  SoundParts(Added(parts, forms), done)
<1> DEFINE anew == [i \in DOMAIN forms |-> NewPart(forms[i], Unexpired(forms[i]))]
           all == parts \o anew
<1>1. Len(forms) \in Nat /\ DOMAIN forms = 1..Len(forms) /\ parts \in Seq(FormParts)
  BY LenProperties DEF SoundParts
<1>2. ASSUME NEW i \in 1..Len(forms) PROVE anew[i] \in FormParts /\ anew[i].updated = 0
  <2>1. forms[i] \in Forms /\ Unexpired(forms[i]) \in BOOLEAN
    BY ElementOfSeq DEF Unexpired
  <2>2. QED
    BY <1>1, <2>1, NewPartSound
<1>3. anew \in [1..Len(forms) -> FormParts]
  BY <1>1, <1>2
<1> HIDE DEF anew
<1>4. anew \in Seq(FormParts) /\ Len(anew) = Len(forms)
  BY <1>1, <1>3, FunctionIsSeq
<1>5. /\ all \in Seq(FormParts) /\ Len(all) = Len(parts) + Len(forms)
      /\ \A i \in 1..Len(parts) + Len(forms) :
            all[i] = IF i <= Len(parts) THEN parts[i] ELSE anew[i - Len(parts)]
  <2>1. /\ parts \o anew \in Seq(FormParts) /\ Len(parts \o anew) = Len(parts) + Len(anew)
        /\ \A i \in 1..Len(parts) + Len(anew) :
              (parts \o anew)[i] = IF i <= Len(parts) THEN parts[i] ELSE anew[i - Len(parts)]
    BY <1>1, <1>4, ConcatProperties, Zenon
  <2>2. QED
    BY <1>4, <2>1
<1>6. DOMAIN all = 1..Len(parts) + Len(forms) /\ DOMAIN parts = 1..Len(parts) /\ Len(parts) \in Nat
  BY <1>1, <1>5, LenProperties
<1>7. ASSUME NEW i \in DOMAIN all PROVE all[i].updated # 0 => all[i].updated \in done
  <2>1. CASE i <= Len(parts)
    <3>1. i \in DOMAIN parts /\ all[i] = parts[i]
      BY <1>5, <1>6, <2>1
    <3>2. QED
      BY <3>1 DEF SoundParts
  <2>2. CASE i > Len(parts)
    <3>1. i - Len(parts) \in 1..Len(forms) /\ all[i] = anew[i - Len(parts)]
      BY <1>1, <1>5, <1>6, <2>2
    <3>2. QED
      BY <1>2, <3>1
  <2>3. QED
    BY <1>6, <2>1, <2>2
<1>8. SoundParts(all, done)
  BY <1>5, <1>7 DEF SoundParts
<1>9. QED
  BY <1>8, ExpiredOthersSound DEF Added, anew

\* One part is changed.
LEMMA ChangedSound ==
    ASSUME NEW done, NEW parts, SoundParts(parts, done), NEW i \in DOMAIN parts,
           NEW p \in FormParts, p.updated # 0 => p.updated \in done
    PROVE  SoundParts([parts EXCEPT ![i] = p], done)
<1>1. parts \in Seq(FormParts) /\ DOMAIN parts = 1..Len(parts)
  BY LenProperties DEF SoundParts
<1>2. [parts EXCEPT ![i] = p] \in Seq(FormParts)
  BY <1>1, ExceptSeq
<1>3. ASSUME NEW j \in DOMAIN parts
      PROVE  [parts EXCEPT ![i] = p][j] = IF j = i THEN p ELSE parts[j]
  BY <1>1, <1>3
<1>4. QED
  BY <1>2, <1>3 DEF SoundParts

-----------------------------------------------------------------------------
(***************************************************************************)
(* The inductive invariant.  The shop carries changes out in the order of  *)
(* admission because at most one submission holds the shopper's lock, it   *)
(* is the one admitted last, and it holds the lock as long as its call is  *)
(* under way; what lands later has been given up.                          *)
(***************************************************************************)
LockedInOrder ==
    /\ \A s \in updateLock : updateLock = {s} /\ admitted # <<>> /\ s = admitted[Len(admitted)]
    /\ \A s \in Updates :
          /\ submissions[s].at \in {"calling", "releasing"} => s \in updateLock
          /\ submissions[s].at \in {"no", "checking", "admitting"} => s \notin Range(admitted)
          /\ submissions[s].at \in {"no", "checking", "admitting", "calling"}
                => ~submissions[s].lost
          /\ submissions[s].lost => s \in Range(admitted)
          /\ submissions[s].result = "success" => s \in Range(landed)

LandedInOrder ==
    \A i, j \in DOMAIN landed :
        i < j /\ ~submissions[landed[i]].lost /\ ~submissions[landed[j]].lost
        => \E k, l \in DOMAIN admitted :
               k < l /\ admitted[k] = landed[i] /\ admitted[l] = landed[j]

PartsSound == \A t \in Tabs : SoundParts(formParts[t], Range(landed))

AddressInv == AddressTypeOK /\ LockedInOrder /\ LandedInOrder /\ PartsSound

LEMMA SeqAppended ==
    ASSUME NEW S, NEW s \in Seq(S), NEW x \in S
    PROVE  /\ Append(s, x) \in Seq(S) /\ Len(Append(s, x)) = Len(s) + 1
           /\ DOMAIN Append(s, x) = DOMAIN s \union {Len(s) + 1}
           /\ Append(s, x)[Len(s) + 1] = x
           /\ \A i \in DOMAIN s : Append(s, x)[i] = s[i]
           /\ Range(Append(s, x)) = Range(s) \union {x}
<1>1. Len(s) \in Nat /\ DOMAIN s = 1..Len(s)
  BY LenProperties
<1>2. Append(s, x) \in Seq(S) /\ Len(Append(s, x)) = Len(s) + 1
  OBVIOUS
<1>3. DOMAIN Append(s, x) = 1..Len(s) + 1
  BY <1>2, LenProperties
<1>4. DOMAIN Append(s, x) = DOMAIN s \union {Len(s) + 1}
  BY <1>1, <1>3
<1>5. Append(s, x)[Len(s) + 1] = x /\ \A i \in DOMAIN s : Append(s, x)[i] = s[i]
  BY <1>1
<1>6. Range(Append(s, x)) = Range(s) \union {x}
  BY <1>4, <1>5 DEF Range
<1>7. QED
  BY <1>2, <1>4, <1>5, <1>6

LEMMA LandedAreUpdates == AddressTypeOK => Range(landed) \subseteq Updates
<1> SUFFICES ASSUME AddressTypeOK, NEW i \in DOMAIN landed PROVE landed[i] \in Updates
  BY DEF Range
<1>1. landed \in Seq(Updates) /\ DOMAIN landed = 1..Len(landed)
  BY LenProperties DEF AddressTypeOK
<1>2. QED
  BY <1>1, ElementOfSeq

LEMMA SoundMore ==
    ASSUME NEW parts, NEW done, NEW more, SoundParts(parts, done), done \subseteq more
    PROVE  SoundParts(parts, more)
BY DEF SoundParts

LEMMA AddressInitInv == AddressInit => AddressInv
<1> SUFFICES ASSUME AddressInit PROVE AddressInv
  OBVIOUS
<1>1. Unsent \in Submission /\ Unsent.at = "no" /\ ~Unsent.lost /\ Unsent.result = "none"
  <2>1. (CHOOSE t \in Tabs : TRUE) \in Tabs /\ 0 \in 0..MaxForms
    BY AddressAssumption
  <2>2. QED
    BY <2>1 DEF Unsent, Submission, Stages, Results
<1>2. /\ <<>> \in Seq(1..formsIssued) /\ <<>> \in Seq(Updates) /\ <<>> \in Seq(FormParts)
      /\ DOMAIN <<>> = {} /\ Range(<<>>) = {}
  BY EmptySeq DEF Range
<1>3. AddressTypeOK
  BY <1>1, <1>2, AddressAssumption DEF AddressInit, AddressTypeOK
<1>4. LockedInOrder /\ LandedInOrder
  BY <1>1, <1>2 DEF AddressInit, LockedInOrder, LandedInOrder
<1>5. PartsSound
  BY <1>2 DEF AddressInit, PartsSound, SoundParts
<1>6. QED
  BY <1>3, <1>4, <1>5 DEF AddressInv

\* What has landed stays in order as long as nothing that was given up is taken back.
LEMMA OrderKept ==
    ASSUME AddressTypeOK, LandedInOrder, landed' = landed,
           admitted' = admitted \/ \E s \in Updates : admitted' = Append(admitted, s),
           \A s \in Range(landed) : submissions[s].lost => submissions'[s].lost
    PROVE  LandedInOrder'
<1>1. \A i \in DOMAIN admitted : i \in DOMAIN admitted' /\ admitted'[i] = admitted[i]
  <2>1. CASE admitted' = admitted
    BY <2>1
  <2>2. ASSUME NEW s \in Updates, admitted' = Append(admitted, s)
        PROVE  \A i \in DOMAIN admitted : i \in DOMAIN admitted' /\ admitted'[i] = admitted[i]
    <3>1. admitted \in Seq(Updates)
      BY DEF AddressTypeOK
    <3>2. QED
      BY <2>2, <3>1, SeqAppended
  <2>3. QED
    BY <2>1, <2>2
<1>2. \A i \in DOMAIN landed : landed[i] \in Range(landed)
  BY DEF Range
<1>3. QED
  BY <1>1, <1>2 DEF LandedInOrder

-----------------------------------------------------------------------------
\* The page, and the answer that brings a form.
PageActions ==
    \/ IssueForm \/ Activate \/ AnswerDone \/ AnswerDropped \/ FormExpires
    \/ \E t \in Tabs : StartAnswer(t)
    \/ \E t \in Tabs, u \in Tabs : CopyPage(t, u)

LEMMA PageStepInv ==
    ASSUME AddressInv, PageActions
    PROVE  AddressInv'
<1> USE DEF AddressInv
<1>1. UNCHANGED <<formKind, submissions, shopVars>>
  BY DEF PageActions, IssueForm, Activate, AnswerDone, AnswerDropped, FormExpires, StartAnswer,
         CopyPage, turnVars
<1>2. UNCHANGED <<updateLock, admitted, landed>>
  BY <1>1 DEF shopVars
<1>3. LockedInOrder' /\ LandedInOrder'
  BY <1>1, <1>2 DEF LockedInOrder, LandedInOrder
<1>4. /\ formsIssued' \in 0..MaxForms /\ formsGone' \in 0..formsIssued'
      /\ answeringTab' = {} \/ \E t \in Tabs : answeringTab' = {t}
      /\ activeForm' \in 0..formsIssued'
      /\ pendingForms' \in Seq(1..formsIssued') /\ activating' \in Seq(1..formsIssued')
  <2> USE AddressAssumption DEF AddressTypeOK
  <2>1. CASE IssueForm
    <3>1. formsIssued' = formsIssued + 1 /\ formsIssued' \in 0..MaxForms
      BY <2>1 DEF IssueForm
    <3>2. 1..formsIssued \subseteq 1..formsIssued' /\ formsIssued' \in 1..formsIssued'
      BY <3>1
    <3>3. pendingForms \in Seq(1..formsIssued') /\ activating \in Seq(1..formsIssued')
      BY <3>2, SeqMonotonic
    <3>4. pendingForms' \in Seq(1..formsIssued') /\ activating' \in Seq(1..formsIssued')
      BY <2>1, <3>2, <3>3, SeqAppended DEF IssueForm
    <3>5. QED
      BY <2>1, <3>1, <3>4 DEF IssueForm
  <2>2. CASE Activate
    <3>1. Head(activating) \in 1..formsIssued /\ Tail(activating) \in Seq(1..formsIssued)
      BY <2>2, HeadTailProperties DEF Activate
    <3>2. QED
      BY <2>2, <3>1 DEF Activate
  <2>3. CASE AnswerDone \/ AnswerDropped
    BY <2>3, EmptySeq DEF AnswerDone, AnswerDropped
  <2>4. CASE FormExpires
    BY <2>4 DEF FormExpires, turnVars
  <2>5. CASE \E t \in Tabs : StartAnswer(t)
    BY <2>5, EmptySeq DEF StartAnswer
  <2>6. CASE \E t \in Tabs, u \in Tabs : CopyPage(t, u)
    BY <2>6 DEF CopyPage, turnVars
  <2>7. QED
    BY <2>1, <2>2, <2>3, <2>4, <2>5, <2>6 DEF PageActions
<1>5. formParts' \in [Tabs -> Seq(FormParts)] /\ PartsSound'
  <2> DEFINE done == Range(landed)
  <2>1. \A t \in Tabs : SoundParts(formParts[t], done)
    BY DEF PartsSound
  <2>2. formParts \in [Tabs -> Seq(FormParts)]
    BY DEF AddressTypeOK
  <2>3. DOMAIN formParts' = Tabs /\ formParts' = [t \in Tabs |-> formParts'[t]]
    BY <2>2 DEF PageActions, IssueForm, Activate, AnswerDone, AnswerDropped, FormExpires,
                StartAnswer, CopyPage, turnVars
  <2>4. ASSUME NEW t \in Tabs PROVE SoundParts(formParts'[t], done)
    <3>1. CASE formParts'[t] = formParts[t]
      BY <2>1, <3>1
    <3>2. CASE AnswerDone
      <4>1. pendingForms \in Seq(Forms)
        <5>1. 1..formsIssued \subseteq Forms
          BY AddressAssumption DEF AddressTypeOK, Forms
        <5>2. QED
          BY <5>1, SeqMonotonic DEF AddressTypeOK
      <4>2. SoundParts(Added(formParts[t], pendingForms), done)
        BY <2>1, <4>1, AddedSound
      <4>3. QED
        BY <2>1, <3>2, <4>2 DEF AnswerDone
    <3>3. CASE FormExpires
      <4> DEFINE aged(p) == IF p.form = formsGone' /\ p.signed /\ p.status # "success"
                             THEN Expired(p) ELSE p
      <4>1. formParts'[t] = [i \in DOMAIN formParts[t] |-> aged(formParts[t][i])]
        BY <3>3 DEF FormExpires
      <4> HIDE DEF aged
      <4>2. formParts[t] \in Seq(FormParts) /\ Len(formParts[t]) \in Nat
            /\ DOMAIN formParts[t] = 1..Len(formParts[t])
        BY <2>2, LenProperties
      <4>3. ASSUME NEW i \in DOMAIN formParts[t]
            PROVE  /\ aged(formParts[t][i]) \in FormParts
                   /\ aged(formParts[t][i]) = formParts[t][i] \/ aged(formParts[t][i]).updated = 0
        BY <4>2, ElementOfSeq, ExpiredSound DEF aged
      <4>4. formParts'[t] \in [1..Len(formParts[t]) -> FormParts]
        BY <4>1, <4>2, <4>3
      <4>5. formParts'[t] \in Seq(FormParts)
        BY <4>2, <4>4, FunctionIsSeq
      <4>6. QED
        BY <2>1, <4>1, <4>3, <4>5 DEF SoundParts
    <3>4. CASE \E v \in Tabs, u \in Tabs : CopyPage(v, u)
      BY <2>1, <2>2, <3>4, CopiedSound DEF CopyPage
    <3>5. QED
      BY <3>1, <3>2, <3>3, <3>4
         DEF PageActions, IssueForm, Activate, AnswerDropped, StartAnswer
  <2>5. formParts' \in [Tabs -> Seq(FormParts)]
    BY <2>3, <2>4 DEF SoundParts
  <2>6. PartsSound'
    BY <1>2, <2>4 DEF PartsSound
  <2>7. QED
    BY <2>5, <2>6
<1>6. AddressTypeOK'
  BY <1>1, <1>2, <1>4, <1>5 DEF AddressTypeOK
<1>7. QED
  BY <1>3, <1>5, <1>6

-----------------------------------------------------------------------------
\* A submission moves on, and may be given up as it does.
LEMMA Moved ==
    ASSUME AddressTypeOK, NEW s \in Updates, NEW at \in Stages, NEW result \in Results,
           Moves(s, at, result)
    PROVE  /\ submissions' \in [Updates -> Submission]
           /\ submissions'[s].at = at /\ submissions'[s].result = result
           /\ submissions'[s].lost = submissions[s].lost
           /\ \A u \in Updates \ {s} : submissions'[u] = submissions[u]
<1> DEFINE now == submissions[s]
<1>1. submissions \in [Updates -> Submission] /\ now \in Submission
  BY DEF AddressTypeOK
<1>2. submissions' = [submissions EXCEPT ![s] = [now EXCEPT !.at = at, !.result = result]]
  BY <1>1 DEF Moves
<1> HIDE DEF now
<1>3. /\ [now EXCEPT !.at = at, !.result = result] \in Submission
      /\ [now EXCEPT !.at = at, !.result = result].at = at
      /\ [now EXCEPT !.at = at, !.result = result].result = result
      /\ [now EXCEPT !.at = at, !.result = result].lost = now.lost
  BY <1>1 DEF Submission
<1>4. QED
  BY <1>1, <1>2, <1>3 DEF now

LEMMA GivenUp ==
    ASSUME AddressTypeOK, NEW s \in Updates, NEW lost \in BOOLEAN,
           submissions' = [submissions EXCEPT ![s].at = "releasing", ![s].result = "refused",
                                              ![s].lost = lost]
    PROVE  /\ submissions' \in [Updates -> Submission]
           /\ submissions'[s].at = "releasing" /\ submissions'[s].result = "refused"
           /\ submissions'[s].lost = lost
           /\ \A u \in Updates \ {s} : submissions'[u] = submissions[u]
<1> DEFINE now == submissions[s]
           then == [now EXCEPT !.at = "releasing", !.result = "refused", !.lost = lost]
<1>1. submissions \in [Updates -> Submission] /\ now \in Submission
  BY DEF AddressTypeOK
<1>2. submissions' = [submissions EXCEPT ![s] = then]
  BY <1>1
<1> HIDE DEF now
<1>3. /\ then \in Submission /\ then.at = "releasing" /\ then.result = "refused"
      /\ then.lost = lost
  BY <1>1 DEF Submission, Stages, Results
<1>4. QED
  BY <1>1, <1>2, <1>3

GatewayActions ==
    \E s \in Updates :
       \/ CheckForm(s) \/ Admit(s) \/ AdmissionFails(s) \/ Land(s) \/ CallReturns(s)
       \/ CallFails(s) \/ ReleaseLock(s) \/ LockLapses(s)

\* What stays of the page while the gateway works.
LEMMA PageStays ==
    ASSUME AddressInv,
           UNCHANGED <<formKind, formsIssued, formsGone, answeringTab, pendingForms, activating,
                       activeForm, formParts>>,
           submissions' \in [Updates -> Submission], admitted' \in Seq(Updates),
           landed' \in Seq(Updates), updateLock' \subseteq Range(admitted'),
           Range(landed') \subseteq Range(admitted'), Range(landed) \subseteq Range(landed')
    PROVE  AddressTypeOK' /\ PartsSound'
<1>1. AddressTypeOK'
  BY DEF AddressInv, AddressTypeOK
<1>2. PartsSound'
  BY SoundMore DEF AddressInv, PartsSound
<1>3. QED
  BY <1>1, <1>2

LEMMA GatewayStepInv ==
    ASSUME AddressInv, GatewayActions
    PROVE  AddressInv'
<1> USE DEF AddressInv
<1>0. /\ AddressTypeOK /\ admitted \in Seq(Updates) /\ landed \in Seq(Updates)
      /\ updateLock \subseteq Range(admitted) /\ Range(landed) \subseteq Range(admitted)
      /\ submissions \in [Updates -> Submission]
  BY DEF AddressTypeOK
<1>1. ASSUME NEW s \in Updates, CheckForm(s) \/ AdmissionFails(s) \/ CallReturns(s) \/ CallFails(s)
      PROVE  AddressInv'
  <2>1. /\ UNCHANGED <<formKind, formsIssued, formsGone, answeringTab, pendingForms, activating,
                       activeForm, formParts>>
        /\ UNCHANGED <<updateLock, admitted, landed>>
    BY <1>1 DEF CheckForm, AdmissionFails, CallReturns, CallFails, turnVars, shopVars
  <2>2. ~submissions[s].lost
    BY <1>1 DEF CheckForm, AdmissionFails, CallReturns, CallFails, LockedInOrder
  <2>3. PICK at \in Stages, result \in Results :
           /\ submissions' \in [Updates -> Submission]
           /\ submissions'[s].at = at /\ submissions'[s].result = result
           /\ \A u \in Updates \ {s} : submissions'[u] = submissions[u]
           /\ \/ submissions[s].at \in {"checking", "admitting"} /\ ~submissions'[s].lost
                 /\ at \in {"admitting", "answering", "over"} /\ result # "success"
              \/ /\ submissions[s].at = "calling" /\ at = "releasing"
                 /\ result = "success" => s \in Range(landed)
    <3> USE DEF Stages, Results
    <3>1. CASE CheckForm(s) \/ AdmissionFails(s)
      <4>1. PICK at \in Stages, result \in Results :
               Moves(s, at, result) /\ at \in {"admitting", "answering", "over"}
               /\ result # "success" /\ submissions[s].at \in {"checking", "admitting"}
        BY <3>1 DEF CheckForm, AdmissionFails
      <4>2. QED
        BY <1>0, <2>2, <4>1, Moved
    <3>2. CASE CallReturns(s)
      <4>1. PICK result \in Results :
               Moves(s, "releasing", result) /\ (result = "success" => s \in Range(landed))
               /\ submissions[s].at = "calling"
        BY <3>2 DEF CallReturns, Landed
      <4>2. QED
        BY <1>0, <4>1, Moved
    <3>3. CASE CallFails(s)
      <4>1. (~Landed(s)) \in BOOLEAN
        BY DEF Landed
      <4>2. /\ submissions' \in [Updates -> Submission]
            /\ submissions'[s].at = "releasing" /\ submissions'[s].result = "refused"
            /\ \A u \in Updates \ {s} : submissions'[u] = submissions[u]
        BY <1>0, <3>3, <4>1, GivenUp DEF CallFails
      <4>3. QED
        BY <3>3, <4>2 DEF CallFails
    <3>4. QED
      BY <1>1, <3>1, <3>2, <3>3
  <2>4. AddressTypeOK' /\ PartsSound'
    BY <1>0, <2>1, <2>3, PageStays
  <2>5. LockedInOrder'
    BY <1>0, <2>1, <2>2, <2>3 DEF LockedInOrder
  <2>6. \A u \in Range(landed) : submissions[u].lost => submissions'[u].lost
    BY <1>0, <2>2, <2>3, LandedAreUpdates
  <2>7. LandedInOrder'
    BY <1>0, <2>1, <2>6, OrderKept
  <2>8. QED
    BY <2>4, <2>5, <2>7
<1>2. ASSUME NEW s \in Updates, Admit(s) PROVE AddressInv'
  <2>1. /\ UNCHANGED <<formKind, formsIssued, formsGone, answeringTab, pendingForms, activating,
                       activeForm, formParts>>
        /\ landed' = landed /\ submissions[s].at = "admitting"
    BY <1>2 DEF Admit, turnVars
  <2>2. s \notin Range(admitted) /\ ~submissions[s].lost /\ submissions[s].lost \in BOOLEAN
    BY <1>0, <2>1 DEF LockedInOrder, Submission
  <2>3. CASE /\ LockFree(s) /\ updateLock' = updateLock \union {s}
             /\ admitted' = Append(admitted, s) /\ Moves(s, "calling", "none")
    <3>1. updateLock' = {s}
      BY <2>3 DEF LockFree, SameLock
    <3>2. /\ submissions' \in [Updates -> Submission]
          /\ submissions'[s].at = "calling" /\ submissions'[s].result = "none"
          /\ ~submissions'[s].lost
          /\ \A u \in Updates \ {s} : submissions'[u] = submissions[u]
      <4>1. "calling" \in Stages /\ "none" \in Results
        BY DEF Stages, Results
      <4>2. QED
        BY <1>0, <2>2, <2>3, <4>1, Moved
    <3>3. /\ admitted' \in Seq(Updates) /\ Range(admitted') = Range(admitted) \union {s}
          /\ admitted' # <<>> /\ admitted'[Len(admitted')] = s
      <4>1. Len(admitted) \in Nat
        BY <1>0, LenProperties
      <4>2. /\ admitted' \in Seq(Updates) /\ Range(admitted') = Range(admitted) \union {s}
            /\ Len(admitted') = Len(admitted) + 1 /\ admitted'[Len(admitted) + 1] = s
        BY <1>0, <2>3, SeqAppended
      <4>3. QED
        BY <4>1, <4>2, EmptySeq
    <3>4. AddressTypeOK' /\ PartsSound'
      BY <1>0, <2>1, <3>1, <3>2, <3>3, PageStays
    <3>5. \A u \in Updates \ {s} : u \notin updateLock
      BY <2>3 DEF LockFree, SameLock
    <3>6. LockedInOrder'
      BY <1>0, <2>1, <3>1, <3>2, <3>3, <3>5 DEF LockedInOrder
    <3>7. LandedInOrder'
      BY <1>0, <2>1, <2>2, <2>3, <3>2, OrderKept DEF Range
    <3>8. QED
      BY <3>4, <3>6, <3>7
  <2>4. CASE Moves(s, "answering", "refused") /\ UNCHANGED <<updateLock, admitted>>
    <3>1. /\ submissions' \in [Updates -> Submission]
          /\ submissions'[s].at = "answering" /\ submissions'[s].result = "refused"
          /\ ~submissions'[s].lost
          /\ \A u \in Updates \ {s} : submissions'[u] = submissions[u]
      <4>1. "answering" \in Stages /\ "refused" \in Results
        BY DEF Stages, Results
      <4>2. QED
        BY <1>0, <2>2, <2>4, <4>1, Moved
    <3>2. AddressTypeOK' /\ PartsSound'
      BY <1>0, <2>1, <2>4, <3>1, PageStays
    <3>3. LockedInOrder'
      BY <1>0, <2>1, <2>2, <2>4, <3>1 DEF LockedInOrder
    <3>4. LandedInOrder'
      BY <1>0, <2>1, <2>2, <2>4, <3>1, OrderKept DEF Range
    <3>5. QED
      BY <3>2, <3>3, <3>4
  <2>5. QED
    BY <1>2, <2>3, <2>4 DEF Admit
\* The call of the lock's holder lands, or one that was given up.
<1>3. ASSUME NEW s \in Updates, Land(s) PROVE AddressInv'
  <2>1. /\ UNCHANGED <<formKind, formsIssued, formsGone, answeringTab, pendingForms, activating,
                       activeForm, formParts, submissions, updateLock, admitted>>
        /\ s \notin Range(landed) /\ landed' = Append(landed, s)
        /\ submissions[s].at = "calling" \/ submissions[s].lost
    BY <1>3 DEF Land, Landed, turnVars
  <2>2. s \in Range(admitted)
    BY <1>0, <2>1 DEF LockedInOrder
  <2>3. /\ landed' \in Seq(Updates) /\ Range(landed') = Range(landed) \union {s}
        /\ DOMAIN landed' = DOMAIN landed \union {Len(landed) + 1}
        /\ landed'[Len(landed) + 1] = s /\ \A i \in DOMAIN landed : landed'[i] = landed[i]
        /\ DOMAIN landed = 1..Len(landed) /\ Len(landed) \in Nat
    BY <1>0, <2>1, SeqAppended, LenProperties
  <2>4. AddressTypeOK' /\ PartsSound'
    BY <1>0, <2>1, <2>2, <2>3, PageStays
  <2>5. LockedInOrder'
    BY <1>0, <2>1, <2>3 DEF LockedInOrder
  <2>6. LandedInOrder'
    <3>1. SUFFICES ASSUME NEW i \in DOMAIN landed', NEW j \in DOMAIN landed', i < j,
                          ~submissions[landed'[i]].lost, ~submissions[landed'[j]].lost
                   PROVE  \E k, l \in DOMAIN admitted :
                             k < l /\ admitted[k] = landed'[i] /\ admitted[l] = landed'[j]
      BY <2>1 DEF LandedInOrder
    <3>2. CASE j \in DOMAIN landed
      <4>1. i \in DOMAIN landed
        BY <2>3, <3>1, <3>2
      <4>2. QED
        BY <2>3, <3>1, <3>2, <4>1 DEF LandedInOrder
    <3>3. CASE j \notin DOMAIN landed
      <4>1. j = Len(landed) + 1 /\ landed'[j] = s /\ i \in DOMAIN landed /\ landed'[i] = landed[i]
        BY <2>3, <3>1, <3>3
      <4>2. s \in updateLock
        BY <2>1, <3>1, <4>1 DEF LockedInOrder
      <4>3. admitted # <<>> /\ s = admitted[Len(admitted)]
        BY <4>2 DEF LockedInOrder
      <4>4. Len(admitted) \in Nat \ {0} /\ DOMAIN admitted = 1..Len(admitted)
        BY <1>0, <4>3, EmptySeq, LenProperties
      <4>5. landed[i] \in Range(admitted) /\ landed[i] # s
        BY <1>0, <2>1, <4>1 DEF Range
      <4>6. PICK k \in DOMAIN admitted : admitted[k] = landed[i]
        BY <4>5 DEF Range
      <4>7. k < Len(admitted)
        BY <4>3, <4>4, <4>5, <4>6
      <4>8. QED
        BY <4>1, <4>3, <4>4, <4>6, <4>7
    <3>4. QED
      BY <3>2, <3>3
  <2>7. QED
    BY <2>4, <2>5, <2>6
<1>4. ASSUME NEW s \in Updates, ReleaseLock(s) PROVE AddressInv'
  <2>1. /\ UNCHANGED <<formKind, formsIssued, formsGone, answeringTab, pendingForms, activating,
                       activeForm, formParts, admitted, landed>>
        /\ submissions[s].at = "releasing" /\ updateLock' \in {updateLock, updateLock \ {s}}
        /\ Moves(s, "answering", submissions[s].result)
    BY <1>4 DEF ReleaseLock, turnVars
  <2>2. /\ submissions' \in [Updates -> Submission]
        /\ submissions'[s].at = "answering" /\ submissions'[s].result = submissions[s].result
        /\ submissions'[s].lost = submissions[s].lost
        /\ \A u \in Updates \ {s} : submissions'[u] = submissions[u]
    <3>1. "answering" \in Stages /\ submissions[s].result \in Results
          /\ submissions[s].lost \in BOOLEAN
      BY <1>0 DEF Stages, Submission
    <3>2. QED
      BY <1>0, <2>1, <3>1, Moved
  <2>3. AddressTypeOK' /\ PartsSound'
    BY <1>0, <2>1, <2>2, PageStays
  <2>4. LockedInOrder'
    BY <1>0, <2>1, <2>2 DEF LockedInOrder
  <2>5. LandedInOrder'
    BY <1>0, <2>1, <2>2, OrderKept DEF Range
  <2>6. QED
    BY <2>3, <2>4, <2>5
<1>5. ASSUME NEW s \in Updates, LockLapses(s) PROVE AddressInv'
  <2>1. /\ UNCHANGED <<formKind, formsIssued, formsGone, answeringTab, pendingForms, activating,
                       activeForm, formParts, submissions, admitted, landed>>
        /\ submissions[s].at \in {"answering", "over"} /\ updateLock' = updateLock \ {s}
    BY <1>5 DEF LockLapses, turnVars
  <2>2. AddressTypeOK' /\ PartsSound'
    BY <1>0, <2>1, PageStays
  <2>3. LockedInOrder' /\ LandedInOrder'
    BY <1>0, <2>1 DEF LockedInOrder, LandedInOrder
  <2>4. QED
    BY <2>2, <2>3
<1>6. QED
  BY <1>1, <1>2, <1>3, <1>4, <1>5 DEF GatewayActions

-----------------------------------------------------------------------------
\* What the browser does with the submissions, and the gateway's end.
ResultActions ==
    \/ GatewayStops
    \/ \E t \in Tabs : ReloadPage(t) \/ TabLosesSocket(t)
    \/ \E t \in Tabs, s \in Updates : \E i \in DOMAIN formParts[t] : Submit(t, i, s)
    \/ \E s \in Updates : ReceiveResult(s)

LEMMA LastNamed ==
    ASSUME NEW parts \in Seq(FormParts), NEW f,
           {i \in DOMAIN parts : parts[i].form = f} # {}
    PROVE  (CHOOSE j \in {i \in DOMAIN parts : parts[i].form = f} :
               \A k \in {i \in DOMAIN parts : parts[i].form = f} : k <= j) \in DOMAIN parts
<1> DEFINE named == {i \in DOMAIN parts : parts[i].form = f}
<1>1. \E j \in named : \A k \in named : k <= j
  <2>1. Len(parts) \in Nat /\ named \subseteq 0..Len(parts)
    BY LenProperties
  <2> HIDE DEF named
  <2>2. QED
    BY <2>1, Largest DEF named
<1>2. QED
  BY <1>1

LEMMA ResultSound ==
    ASSUME NEW p \in FormParts, NEW s \in Updates
    PROVE  /\ ResultShown(p, s) \in FormParts
           /\ ResultShown(p, s).updated # 0
                 => ResultShown(p, s).updated = s /\ submissions[s].result = "success"
<1> DEFINE updated == IF submissions[s].result = "success" THEN s ELSE 0
           status == IF submissions[s].result = "success"
                     THEN IF formKind = "order" THEN "success" ELSE "editing"
                     ELSE IF submissions[s].result = "verify" THEN "verification_required"
                     ELSE p.status
<1>1. updated \in 0..MaxSubmissions
  BY AddressAssumption DEF Updates
<1>2. status \in {"editing", "verification_required", "success", "expired"}
  BY DEF FormParts
<1>3. ResultShown(p, s) = [p EXCEPT !.busy = FALSE, !.updated = updated, !.status = status]
  BY DEF ResultShown
<1> HIDE DEF updated, status
<1>4. ResultShown(p, s) \in FormParts /\ ResultShown(p, s).updated = updated
  BY <1>1, <1>2, <1>3 DEF FormParts
<1>5. QED
  BY <1>4 DEF updated

\* What stays of the shop while the browser works.
LEMMA ShopStays ==
    ASSUME AddressInv, UNCHANGED <<updateLock, admitted, landed>>,
           submissions' \in [Updates -> Submission],
           \A s \in Updates :
              \/ submissions[s].at = submissions'[s].at /\ submissions'[s].lost = submissions[s].lost
                 /\ submissions'[s].result = submissions[s].result
              \/ submissions[s].at = "no" /\ submissions'[s].at = "checking"
                 /\ submissions'[s].result = "none" /\ ~submissions'[s].lost
              \/ submissions'[s].at = "over" /\ submissions'[s].result = submissions[s].result
                 /\ (submissions[s].lost => submissions'[s].lost)
                 /\ (submissions'[s].lost => submissions[s].lost \/ submissions[s].at = "calling")
    PROVE  LockedInOrder' /\ LandedInOrder'
<1> USE DEF AddressInv
<1>1. LockedInOrder'
  BY DEF LockedInOrder, AddressTypeOK
<1>2. \A s \in Range(landed) : submissions[s].lost => submissions'[s].lost
  BY LandedAreUpdates DEF LockedInOrder
<1>3. LandedInOrder'
  BY <1>2, OrderKept
<1>4. QED
  BY <1>1, <1>3

LEMMA UnheardKeeps ==
    ASSUME AddressTypeOK, NEW t \in Tabs
    PROVE  /\ Unheard(t) \in [Updates -> Submission]
           /\ \A s \in Updates :
                 /\ Unheard(t)[s].at = submissions[s].at /\ Unheard(t)[s].lost = submissions[s].lost
                 /\ Unheard(t)[s].result = submissions[s].result
<1>1. ASSUME NEW s \in Updates
      PROVE  /\ [submissions[s] EXCEPT !.heard = FALSE] \in Submission
             /\ [submissions[s] EXCEPT !.heard = FALSE].at = submissions[s].at
             /\ [submissions[s] EXCEPT !.heard = FALSE].lost = submissions[s].lost
             /\ [submissions[s] EXCEPT !.heard = FALSE].result = submissions[s].result
  <2> DEFINE now == submissions[s]
  <2>1. now \in Submission
    BY DEF AddressTypeOK
  <2> HIDE DEF now
  <2>2. /\ [now EXCEPT !.heard = FALSE] \in Submission
        /\ [now EXCEPT !.heard = FALSE].at = now.at
        /\ [now EXCEPT !.heard = FALSE].lost = now.lost
        /\ [now EXCEPT !.heard = FALSE].result = now.result
    BY <2>1 DEF Submission
  <2>3. QED
    BY <2>2 DEF now
<1>2. QED
  BY <1>1 DEF Unheard, AddressTypeOK

LEMMA StoppedKeeps ==
    ASSUME AddressTypeOK, GatewayStops
    PROVE  /\ submissions' \in [Updates -> Submission]
           /\ \A s \in Updates :
                 \/ submissions'[s] = submissions[s]
                 \/ submissions'[s].at = "over" /\ submissions'[s].result = submissions[s].result
                    /\ (submissions[s].lost => submissions'[s].lost)
                    /\ (submissions'[s].lost => submissions[s].lost \/ submissions[s].at = "calling")
<1> DEFINE given(s) == submissions[s].lost \/ (submissions[s].at = "calling" /\ ~Landed(s))
           stopped(s) == [submissions[s] EXCEPT !.at = "over", !.heard = FALSE, !.lost = given(s)]
<1>1. ASSUME NEW s \in Updates
      PROVE  /\ stopped(s) \in Submission /\ stopped(s).at = "over"
             /\ stopped(s).result = submissions[s].result /\ stopped(s).lost = given(s)
  <2> DEFINE now == submissions[s]
             lost == given(s)
  <2>1. now \in Submission
    BY DEF AddressTypeOK
  <2>2. lost \in BOOLEAN
    BY <2>1 DEF Submission
  <2> HIDE DEF now, lost
  <2>3. /\ [now EXCEPT !.at = "over", !.heard = FALSE, !.lost = lost] \in Submission
        /\ [now EXCEPT !.at = "over", !.heard = FALSE, !.lost = lost].at = "over"
        /\ [now EXCEPT !.at = "over", !.heard = FALSE, !.lost = lost].result = now.result
        /\ [now EXCEPT !.at = "over", !.heard = FALSE, !.lost = lost].lost = lost
    BY <2>1, <2>2 DEF Submission, Stages
  <2>4. QED
    BY <2>3 DEF now, lost
<1>2. submissions' = [s \in Updates |-> IF submissions[s].at \in {"no", "over"}
                                        THEN submissions[s] ELSE stopped(s)]
  BY DEF GatewayStops
<1>3. \A s \in Updates : submissions[s] \in Submission
  BY DEF AddressTypeOK
<1>4. submissions' \in [Updates -> Submission]
  BY <1>1, <1>2, <1>3
<1>5. QED
  BY <1>1, <1>2, <1>4

LEMMA ResultStepInv ==
    ASSUME AddressInv, ResultActions
    PROVE  AddressInv'
<1> USE DEF AddressInv
<1>0. /\ submissions \in [Updates -> Submission] /\ formParts \in [Tabs -> Seq(FormParts)]
      /\ \A t \in Tabs : SoundParts(formParts[t], Range(landed))
  BY DEF AddressTypeOK, PartsSound
<1>1. UNCHANGED <<formKind, formsIssued, formsGone, activeForm, updateLock, admitted, landed>>
  BY DEF ResultActions, GatewayStops, ReloadPage, TabLosesSocket, Submit, ReceiveResult,
         turnVars, shopVars
<1>2. /\ answeringTab' = {} \/ \E t \in Tabs : answeringTab' = {t}
      /\ pendingForms' \in Seq(1..formsIssued) /\ activating' \in Seq(1..formsIssued)
  <2>1. \/ UNCHANGED <<answeringTab, pendingForms, activating>>
        \/ answeringTab' = {} /\ pendingForms' = <<>> /\ activating' = <<>>
    <3>1. CASE GatewayStops
      BY <3>1 DEF GatewayStops
    <3>2. ASSUME NEW t \in Tabs, ReloadPage(t) \/ TabLosesSocket(t)
          PROVE  UNCHANGED <<answeringTab, pendingForms, activating>>
      BY <3>2, Zenon DEF ReloadPage, TabLosesSocket, turnVars
    <3>3. ASSUME NEW t \in Tabs, NEW s \in Updates, NEW i \in DOMAIN formParts[t],
                 Submit(t, i, s)
          PROVE  UNCHANGED <<answeringTab, pendingForms, activating>>
      BY <3>3 DEF Submit, turnVars
    <3>4. ASSUME NEW s \in Updates, ReceiveResult(s)
          PROVE  UNCHANGED <<answeringTab, pendingForms, activating>>
      BY <3>4 DEF ReceiveResult, turnVars
    <3>5. QED
      BY <3>1, <3>2, <3>3, <3>4, Zenon DEF ResultActions
  <2>2. <<>> \in Seq(1..formsIssued)
    BY EmptySeq
  <2>3. QED
    BY <1>1, <2>1, <2>2 DEF AddressTypeOK
<1>3. SUFFICES /\ formParts' \in [Tabs -> Seq(FormParts)]
               /\ \A t \in Tabs : SoundParts(formParts'[t], Range(landed))
               /\ submissions' \in [Updates -> Submission]
               /\ LockedInOrder' /\ LandedInOrder'
  BY <1>1, <1>2 DEF AddressTypeOK, PartsSound
<1>4. CASE GatewayStops
  <2>1. UNCHANGED formParts
    BY <1>4 DEF GatewayStops
  <2>2. QED
    BY <1>0, <1>1, <1>4, <2>1, StoppedKeeps, ShopStays
<1>5. ASSUME NEW t \in Tabs, ReloadPage(t) \/ TabLosesSocket(t)
      PROVE  /\ formParts' \in [Tabs -> Seq(FormParts)]
             /\ \A u \in Tabs : SoundParts(formParts'[u], Range(landed))
             /\ submissions' \in [Updates -> Submission]
             /\ LockedInOrder' /\ LandedInOrder'
  <2>1. submissions' = Unheard(t)
    BY <1>5 DEF ReloadPage, TabLosesSocket
  <2>2. submissions' \in [Updates -> Submission] /\ LockedInOrder' /\ LandedInOrder'
    BY <1>1, <2>1, UnheardKeeps, ShopStays
  <2>3. SoundParts(Copied(formParts[t]), Range(landed))
    BY <1>0, CopiedSound
  <2>4. \/ formParts' = formParts
        \/ formParts' = [formParts EXCEPT ![t] = Copied(formParts[t])]
    BY <1>5 DEF ReloadPage, TabLosesSocket
  <2>5. QED
    BY <1>0, <2>2, <2>3, <2>4 DEF SoundParts
\* One part of one page, and one submission.
<1>6. ASSUME NEW t \in Tabs, NEW i \in DOMAIN formParts[t], NEW p \in FormParts,
             p.updated # 0 => p.updated \in Range(landed),
             formParts' = [formParts EXCEPT ![t] = [formParts[t] EXCEPT ![i] = p]]
      PROVE  /\ formParts' \in [Tabs -> Seq(FormParts)]
             /\ \A u \in Tabs : SoundParts(formParts'[u], Range(landed))
  <2>1. SoundParts([formParts[t] EXCEPT ![i] = p], Range(landed))
    BY <1>0, <1>6, ChangedSound
  <2>2. QED
    BY <1>0, <1>6, <2>1 DEF SoundParts
<1>7. ASSUME NEW t \in Tabs, NEW s \in Updates, NEW i \in DOMAIN formParts[t], Submit(t, i, s)
      PROVE  /\ formParts' \in [Tabs -> Seq(FormParts)]
             /\ \A u \in Tabs : SoundParts(formParts'[u], Range(landed))
             /\ submissions' \in [Updates -> Submission]
             /\ LockedInOrder' /\ LandedInOrder'
  <2> DEFINE form == formParts[t][i]
             sent == [form |-> form.form, tab |-> t, signed |-> form.signed, at |-> "checking",
                      lost |-> FALSE, heard |-> TRUE, result |-> "none"]
             pressed == [form EXCEPT !.busy = TRUE, !.updated = 0]
  <2>1. form \in FormParts
    BY <1>0, ElementOfSeq, LenProperties
  <2>2. 0 \in 0..MaxSubmissions /\ Forms \subseteq 0..MaxForms
    BY AddressAssumption DEF Forms
  <2>3. sent \in Submission
    BY <2>1, <2>2 DEF FormParts, Submission, Stages, Results
  <2>4. pressed \in FormParts /\ pressed.updated = 0
    <3> HIDE DEF form
    <3> QED BY <2>1, <2>2 DEF FormParts
  <2>5. CASE /\ formParts' = [formParts EXCEPT ![t] = [formParts[t] EXCEPT ![i] = pressed]]
             /\ submissions' = [submissions EXCEPT ![s] = sent] /\ submissions[s].at = "no"
    <3>1. /\ formParts' \in [Tabs -> Seq(FormParts)]
          /\ \A u \in Tabs : SoundParts(formParts'[u], Range(landed))
      BY <1>6, <2>4, <2>5
    <3>2. /\ submissions' \in [Updates -> Submission] /\ submissions'[s] = sent
          /\ \A u \in Updates \ {s} : submissions'[u] = submissions[u]
      BY <1>0, <2>3, <2>5
    <3>3. LockedInOrder' /\ LandedInOrder'
      BY <1>1, <2>5, <3>2, ShopStays
    <3>4. QED
      BY <3>1, <3>2, <3>3
  <2>6. CASE /\ formParts' = [formParts EXCEPT ![t] = [formParts[t] EXCEPT ![i] = Expired(form)]]
             /\ UNCHANGED submissions
    <3>1. /\ formParts' \in [Tabs -> Seq(FormParts)]
          /\ \A u \in Tabs : SoundParts(formParts'[u], Range(landed))
      BY <1>6, <2>1, <2>6, ExpiredSound
    <3>2. LockedInOrder' /\ LandedInOrder'
      BY <1>0, <1>1, <2>6, ShopStays
    <3>3. QED
      BY <1>0, <2>6, <3>1, <3>2
  <2>7. QED
    BY <1>7, <2>5, <2>6 DEF Submit
<1>8. ASSUME NEW s \in Updates, ReceiveResult(s)
      PROVE  /\ formParts' \in [Tabs -> Seq(FormParts)]
             /\ \A u \in Tabs : SoundParts(formParts'[u], Range(landed))
             /\ submissions' \in [Updates -> Submission]
             /\ LockedInOrder' /\ LandedInOrder'
  <2> DEFINE t == submissions[s].tab
             named == {i \in DOMAIN formParts[t] : formParts[t][i].form = submissions[s].form}
             last == CHOOSE j \in named : \A k \in named : k <= j
  <2>1. /\ submissions' \in [Updates -> Submission]
        /\ submissions'[s].at = "over" /\ submissions'[s].result = submissions[s].result
        /\ submissions'[s].lost = submissions[s].lost
        /\ \A u \in Updates \ {s} : submissions'[u] = submissions[u]
    <3>1. "over" \in Stages /\ submissions[s].result \in Results
      BY <1>0 DEF Stages, Submission
    <3>2. QED
      BY <1>8, <3>1, Moved DEF ReceiveResult
  <2>2. LockedInOrder' /\ LandedInOrder'
    BY <1>1, <2>1, ShopStays
  <2>3. t \in Tabs
    BY <1>0 DEF Submission
  <2>4. CASE UNCHANGED formParts
    BY <1>0, <2>1, <2>2, <2>4
  <2>5. CASE named # {} /\ formParts' = [formParts EXCEPT ![t][last] = ResultShown(@, s)]
    <3>1. last \in DOMAIN formParts[t]
      <4> DEFINE parts == formParts[t]
                 f == submissions[s].form
      <4>1. parts \in Seq(FormParts)
        BY <1>0, <2>3
      <4>2. {x \in DOMAIN parts : parts[x].form = f} # {}
        BY <2>5
      <4> HIDE DEF parts, f
      <4>3. (CHOOSE j \in {x \in DOMAIN parts : parts[x].form = f} :
                \A k \in {x \in DOMAIN parts : parts[x].form = f} : k <= j) \in DOMAIN parts
        BY <4>1, <4>2, LastNamed
      <4>4. QED
        BY <4>3 DEF parts, f
    <3>2. formParts[t][last] \in FormParts
      BY <1>0, <2>3, <3>1, ElementOfSeq, LenProperties
    <3>3. submissions[s].result = "success" => s \in Range(landed)
      BY DEF LockedInOrder
    <3> DEFINE p == ResultShown(formParts[t][last], s)
    <3>4. p \in FormParts /\ (p.updated # 0 => p.updated \in Range(landed))
      BY <3>2, <3>3, ResultSound
    <3>5. formParts' = [formParts EXCEPT ![t] = [formParts[t] EXCEPT ![last] = p]]
      BY <2>5
    <3> HIDE DEF p, last, named, t
    <3>6. /\ formParts' \in [Tabs -> Seq(FormParts)]
          /\ \A u \in Tabs : SoundParts(formParts'[u], Range(landed))
      BY <1>6, <2>3, <3>1, <3>4, <3>5
    <3>7. QED
      BY <2>1, <2>2, <3>6
  <2>6. QED
    BY <1>8, <2>4, <2>5 DEF ReceiveResult
<1>9. QED
  BY <1>4, <1>5, <1>7, <1>8 DEF ResultActions

LEMMA AddressStepInv == AddressInv /\ [AddressNext]_addressVars => AddressInv'
<1> SUFFICES ASSUME AddressInv, [AddressNext]_addressVars PROVE AddressInv'
  OBVIOUS
<1>1. CASE PageActions
  BY <1>1, PageStepInv
<1>2. CASE GatewayActions
  BY <1>2, GatewayStepInv
<1>3. CASE ResultActions
  BY <1>3, ResultStepInv
<1>4. CASE UNCHANGED addressVars
  BY <1>4 DEF AddressInv, AddressTypeOK, LockedInOrder, LandedInOrder, PartsSound, addressVars
<1>5. AddressNext => PageActions \/ GatewayActions \/ ResultActions
  BY DEF AddressNext, PageActions, GatewayActions, ResultActions
<1>6. QED
  BY <1>1, <1>2, <1>3, <1>4, <1>5

\* The forms, the pages that show them and the submissions keep their types: the key names a
\* form that was issued, what holds the lock and what lands was admitted.
THEOREM AddressTypeCorrect == AddressSpec => []AddressTypeOK
<1>1. AddressInv => AddressTypeOK
  BY DEF AddressInv
<1>2. QED
  BY <1>1, AddressInitInv, AddressStepInv, PTL DEF AddressSpec

\* The shop carries changes out in the order in which the gateway admitted them, for any
\* number of tabs, forms and submissions, except those it had given up, and a page shows a
\* form as updated only by a change that was carried out.
THEOREM UpdatesCorrect == AddressSpec => []UpdatesLandInOrder
<1>1. AddressInv => UpdatesLandInOrder
  <2> SUFFICES ASSUME AddressInv PROVE UpdatesLandInOrder
    OBVIOUS
  <2>1. \A t \in Tabs : \A i \in DOMAIN formParts[t] :
            formParts[t][i].updated # 0 => Landed(formParts[t][i].updated)
    BY DEF AddressInv, PartsSound, SoundParts, Landed
  <2>2. QED
    BY <2>1 DEF AddressInv, LandedInOrder, UpdatesLandInOrder
<1>2. QED
  BY <1>1, AddressInitInv, AddressStepInv, PTL DEF AddressSpec

-----------------------------------------------------------------------------
(***************************************************************************)
(* The support console                                                     *)
(***************************************************************************)
\* The latest of some messages is one of them.
LEMMA LatestIsOne ==
    ASSUME NEW n \in Nat, NEW numbers, numbers \subseteq 0..n, numbers # {}
    PROVE  LatestOf(numbers) \in numbers
<1>1. \E j \in numbers : \A k \in numbers : k <= j
  BY Largest
<1>2. QED
  BY <1>1 DEF LatestOf

Request == [at : {"idle", "asked", "read"}, case : Cases \union {NoCase},
            version : 0..MaxReloads, after : 0..MaxCaseMessages,
            replace : BOOLEAN, upTo : 0..MaxCaseMessages]

\* A list without a gap.
Unbroken(numbers) == \A n \in numbers : 1..n \subseteq numbers

\* Every request of the current version is one for the selected case.
RequestsInv ==
    /\ selected = NoCase => subscribedTo = NoCase
    /\ \A f \in Fetches : fetch[f].at # "idle" =>
          /\ fetch[f].case \in Cases /\ fetch[f].version <= requestVersion
          /\ fetch[f].version = requestVersion => fetch[f].case = selected
          /\ fetch[f].replace => fetch[f].after = 0

\* Unless polls were asked during a reload, lists have no gaps, and what a poll does not
\* ask for is in the list.
ListInv ==
    ~mixed =>
        /\ \A c \in Cases : Unbroken(listed[c])
        /\ selected # NoCase => 1..newest \subseteq listed[selected]
        /\ \A f \in Fetches : UnderWay(f) => 1..fetch[f].after \subseteq listed[selected]

ConsoleInv == ConsoleTypeOK /\ RequestsInv /\ ListInv

\* A list that is joined by an answer to what comes after a part of it.
LEMMA JoinUnbroken ==
    ASSUME NEW numbers \in SUBSET Nat, Unbroken(numbers), NEW after \in Nat, NEW upTo \in Nat,
           1..after \subseteq numbers
    PROVE  Unbroken(numbers \union ((after + 1)..upTo))
BY DEF Unbroken

LEMMA ConsoleInitInv ==
    ConsoleInit => ConsoleInv
<1> SUFFICES ASSUME ConsoleInit PROVE ConsoleInv
  OBVIOUS
<1> USE ConsoleAssumption
<1>1. 0 \in 0..MaxReloads /\ 0 \in 0..MaxCaseMessages /\ 1 \in 0..MaxCaseMessages
  OBVIOUS
<1>2. NoFetch \in Request
  BY <1>1 DEF NoFetch, Request
<1>3. ConsoleTypeOK
  <2>1. selected \in Cases \union {NoCase} /\ (selected # NoCase => selected \in Cases)
    BY DEF ConsoleInit
  <2>2. /\ written \in [Cases -> 0..MaxCaseMessages]
        /\ struck \in [Cases -> SUBSET (1..MaxCaseMessages)]
    BY <1>1 DEF ConsoleInit
  <2>3. \A c \in Cases : written[c] = 1
    BY DEF ConsoleInit
  <2>4. newest \in 0..MaxCaseMessages
    BY <1>1, <2>1, <2>3 DEF ConsoleInit
  <2>5. listed \in [Cases -> SUBSET (1..MaxCaseMessages)]
    BY <1>1, <2>3 DEF ConsoleInit
  <2>6. fetch \in [Fetches -> Request]
    BY <1>2 DEF ConsoleInit
  <2>7. QED
    BY <1>1, <2>1, <2>2, <2>4, <2>5, <2>6 DEF ConsoleInit, ConsoleTypeOK, Request
<1>4. RequestsInv
  BY DEF ConsoleInit, RequestsInv, NoFetch
<1>5. ListInv
  <2>1. \A c \in Cases : Unbroken(listed[c])
    BY DEF ConsoleInit, Unbroken
  <2>2. selected # NoCase => 1..newest \subseteq listed[selected]
    BY DEF ConsoleInit
  <2>3. QED
    BY <2>1, <2>2 DEF ListInv, UnderWay, ConsoleInit, NoFetch
<1>6. QED
  BY <1>3, <1>4, <1>5 DEF ConsoleInv

\* A reload of the selected case: no other request is current any more.
LEMMA ReloadKeeps ==
    ASSUME ConsoleInv, NEW c \in Cases, Reload(c), selected' = c,
           selected' = NoCase => subscribedTo' = NoCase,
           listed' = listed \/ listed' = [d \in Cases |-> {}],
           newest' = 0 \/ (newest' = newest /\ listed' = listed /\ selected' = selected)
    PROVE  /\ fetch' \in [Fetches -> Request] /\ requestVersion' \in 0..MaxReloads
           /\ polling' \in BOOLEAN /\ mixed' \in BOOLEAN
           /\ RequestsInv' /\ ListInv'
<1> USE ConsoleAssumption
<1>0. /\ fetch \in [Fetches -> Request] /\ requestVersion \in 0..MaxReloads /\ mixed \in BOOLEAN
      /\ listed \in [Cases -> SUBSET (1..MaxCaseMessages)]
  BY DEF ConsoleInv, ConsoleTypeOK, Request
<1>1. /\ requestVersion' = requestVersion + 1 /\ requestVersion' \in 0..MaxReloads
      /\ polling' = TRUE /\ mixed' = mixed
  BY <1>0 DEF Reload
<1> DEFINE asked == [at |-> "asked", case |-> c, replace |-> TRUE,
                     version |-> requestVersion + 1, after |-> 0, upTo |-> 0]
<1>2. PICK f \in Fetches : fetch[f] = NoFetch /\ fetch' = [fetch EXCEPT ![f] = asked]
  BY DEF Reload
<1>3. asked \in Request
  BY <1>1 DEF Request
<1>4. /\ fetch' \in [Fetches -> Request] /\ fetch'[f] = asked
      /\ \A g \in Fetches \ {f} : fetch'[g] = fetch[g]
  BY <1>0, <1>2, <1>3
<1>5. \A g \in Fetches \ {f} : fetch'[g].at # "idle" =>
          /\ fetch'[g].case \in Cases /\ fetch'[g].version < requestVersion'
          /\ fetch'[g].replace => fetch'[g].after = 0
  BY <1>0, <1>1, <1>4 DEF ConsoleInv, RequestsInv, Request
<1>6. RequestsInv'
  BY <1>0, <1>1, <1>4, <1>5 DEF RequestsInv, Request
<1>7. ListInv'
  <2>1. ~mixed => \A d \in Cases : Unbroken(listed'[d])
    BY <1>0 DEF ConsoleInv, ListInv, Unbroken
  <2>2. ~mixed /\ selected' # NoCase => 1..newest' \subseteq listed'[selected']
    BY <1>0 DEF ConsoleInv, ListInv
  <2>3. \A g \in Fetches : UnderWay(g)' => g = f
    BY <1>0, <1>1, <1>4, <1>5 DEF UnderWay, Request
  <2>4. \A g \in Fetches : UnderWay(g)' => 1..fetch'[g].after \subseteq listed'[selected']
    BY <1>4, <2>3
  <2>5. QED
    BY <1>1, <2>1, <2>2, <2>4 DEF ListInv
<1>8. QED
  BY <1>0, <1>1, <1>4, <1>6, <1>7

\* A poll of the selected case asks for what comes after the list.
LEMMA PollKeeps ==
    ASSUME ConsoleInv, LoadMessages, UNCHANGED <<selected, subscribedTo, listed, newest>>
    PROVE  /\ fetch' \in [Fetches -> Request] /\ requestVersion' \in 0..MaxReloads
           /\ polling' \in BOOLEAN /\ mixed' \in BOOLEAN
           /\ RequestsInv' /\ ListInv'
<1> USE ConsoleAssumption
<1>0. /\ fetch \in [Fetches -> Request] /\ requestVersion \in 0..MaxReloads /\ mixed \in BOOLEAN
      /\ selected \in Cases /\ newest \in 0..MaxCaseMessages
  BY DEF ConsoleInv, ConsoleTypeOK, Request, LoadMessages
<1>1. requestVersion' = requestVersion /\ polling' = TRUE /\ mixed' \in BOOLEAN /\ (mixed => mixed')
  BY <1>0 DEF LoadMessages
<1> DEFINE asked == [at |-> "asked", case |-> selected, replace |-> FALSE,
                     version |-> requestVersion, after |-> newest, upTo |-> 0]
<1>2. PICK f \in Fetches : fetch[f] = NoFetch /\ fetch' = [fetch EXCEPT ![f] = asked]
  BY DEF LoadMessages
<1>3. asked \in Request
  BY <1>0 DEF Request
<1>4. /\ fetch' \in [Fetches -> Request] /\ fetch'[f] = asked
      /\ \A g \in Fetches \ {f} : fetch'[g] = fetch[g]
  BY <1>0, <1>2, <1>3
<1>5. RequestsInv'
  BY <1>0, <1>1, <1>4 DEF ConsoleInv, RequestsInv
<1>6. ListInv'
  BY <1>0, <1>1, <1>4 DEF ConsoleInv, ListInv, UnderWay
<1>7. QED
  BY <1>0, <1>1, <1>4, <1>5, <1>6

\* A request that has ended, whatever came of it.
LEMMA EndedKeeps ==
    ASSUME ConsoleInv, NEW f \in Fetches, fetch' = [fetch EXCEPT ![f] = NoFetch],
           requestVersion' = requestVersion, selected' = selected,
           subscribedTo' = subscribedTo \/ selected # NoCase
    PROVE  /\ fetch' \in [Fetches -> Request] /\ RequestsInv'
           /\ \A g \in Fetches : UnderWay(g)' => g # f /\ UnderWay(g) /\ fetch'[g] = fetch[g]
<1> USE ConsoleAssumption
<1>0. fetch \in [Fetches -> Request] /\ requestVersion \in 0..MaxReloads
  BY DEF ConsoleInv, ConsoleTypeOK, Request
<1>1. NoFetch \in Request /\ NoFetch.at = "idle"
  BY DEF NoFetch, Request
<1>2. /\ fetch' \in [Fetches -> Request] /\ fetch'[f] = NoFetch
      /\ \A g \in Fetches \ {f} : fetch'[g] = fetch[g]
  BY <1>0, <1>1
<1>3. RequestsInv'
  BY <1>1, <1>2 DEF ConsoleInv, RequestsInv
<1>4. QED
  BY <1>1, <1>2, <1>3 DEF UnderWay

\* Its answer joins the list, which a reload has cleared.
LEMMA LoadedKeeps ==
    ASSUME ConsoleInv, NEW f \in Fetches, MessagesLoaded(f)
    PROVE  ConsoleInv'
<1> USE ConsoleAssumption
<1> DEFINE c == fetch[f].case
           base == IF fetch[f].replace THEN [d \in Cases |-> {}] ELSE listed
           last == IF fetch[f].replace THEN 0 ELSE newest
           came == (fetch[f].after + 1)..fetch[f].upTo
<1>0. /\ fetch \in [Fetches -> Request] /\ fetch[f] \in Request /\ newest \in 0..MaxCaseMessages
      /\ listed \in [Cases -> SUBSET (1..MaxCaseMessages)]
  BY DEF ConsoleInv, ConsoleTypeOK, Request
<1>1. /\ fetch[f].at = "read" /\ fetch[f].version = requestVersion
      /\ fetch' = [fetch EXCEPT ![f] = NoFetch] /\ polling' = FALSE
      /\ UNCHANGED <<surface, written, struck, requestVersion, reply>>
  BY DEF MessagesLoaded, CurrentVersion, InDatabase
<1>2. c \in Cases /\ c = selected /\ (fetch[f].replace => fetch[f].after = 0)
  BY <1>1 DEF ConsoleInv, RequestsInv
<1>3. /\ selected' = selected /\ selected # NoCase
      /\ {addressee', subscribedTo', served'} \subseteq Cases \union {NoCase}
  BY <1>2 DEF MessagesLoaded, UpdateCase, ConsoleInv, ConsoleTypeOK
<1>4. /\ listed' = [base EXCEPT ![c] = base[c] \union came]
      /\ newest' = LatestOf({last} \union (came \ base[c]))
  BY DEF MessagesLoaded, AppendMessages, Answer
<1>5. /\ base \in [Cases -> SUBSET (1..MaxCaseMessages)] /\ last \in 0..MaxCaseMessages
      /\ came \subseteq 1..MaxCaseMessages /\ fetch[f].after \in Nat /\ fetch[f].upTo \in Nat
  BY <1>0 DEF Request
<1>6. mixed' \in BOOLEAN
  BY DEF MessagesLoaded, ConsoleInv, ConsoleTypeOK
<1>7. /\ ~mixed' => ~mixed \/ fetch[f].replace
      /\ ~mixed' /\ fetch[f].replace => \A g \in Fetches \ {f} : ~UnderWay(g)
  BY DEF MessagesLoaded
<1>8. /\ ~mixed' => \A d \in Cases : Unbroken(base[d])
      /\ ~mixed' => 1..last \subseteq base[c]
      /\ ~mixed' => 1..fetch[f].after \subseteq base[c]
  <2>1. CASE fetch[f].replace
    BY <1>2, <2>1 DEF Unbroken
  <2>2. CASE ~fetch[f].replace
    BY <1>1, <1>2, <1>3, <1>7, <2>2 DEF ConsoleInv, ListInv, UnderWay
  <2>3. QED
    BY <2>1, <2>2
<1>9. base[c] \in SUBSET (1..MaxCaseMessages)
  BY <1>2, <1>5
<1>10. \A g \in Fetches : UnderWay(g)' => g # f /\ UnderWay(g) /\ fetch'[g] = fetch[g]
  BY <1>1, <1>3, EndedKeeps
<1>11. ~mixed' => \A g \in Fetches : UnderWay(g)' => 1..fetch'[g].after \subseteq base[c]
  <2> SUFFICES ASSUME ~mixed', NEW g \in Fetches, UnderWay(g)'
               PROVE  1..fetch'[g].after \subseteq base[c]
    OBVIOUS
  <2>1. g # f /\ UnderWay(g) /\ fetch'[g] = fetch[g]
    BY <1>10
  <2>2. ~fetch[f].replace /\ ~mixed
    BY <1>7, <2>1
  <2>3. QED
    BY <1>2, <2>1, <2>2 DEF ConsoleInv, ListInv
<1>12. fetch' \in [Fetches -> Request] /\ RequestsInv'
  BY <1>1, <1>3, EndedKeeps
<1> HIDE DEF base, last, came, c
<1>13. newest' \in {last} \union (came \ base[c])
  <2>1. {last} \union (came \ base[c]) \subseteq 0..MaxCaseMessages
    <3>1. 1..MaxCaseMessages \subseteq 0..MaxCaseMessages /\ MaxCaseMessages \in Nat
      OBVIOUS
    <3>2. last \in 0..MaxCaseMessages /\ came \subseteq 0..MaxCaseMessages
      BY <1>5, <3>1, Zenon
    <3>3. QED
      BY <3>2, Zenon
  <2>2. QED
    BY <1>4, <2>1, LatestIsOne
<1>14. /\ listed' \in [Cases -> SUBSET (1..MaxCaseMessages)] /\ listed'[c] = base[c] \union came
       /\ \A d \in Cases \ {c} : listed'[d] = base[d]
  BY <1>2, <1>4, <1>5, <1>9
<1>15. ~mixed' => \A d \in Cases : Unbroken(listed'[d])
  <2>1. ~mixed' => Unbroken(base[c] \union came)
    BY <1>2, <1>5, <1>8, <1>9, JoinUnbroken DEF came
  <2>2. QED
    BY <1>8, <1>14, <2>1
<1>16. ~mixed' => 1..newest' \subseteq listed'[c]
  <2>1. CASE newest' = last
    BY <1>8, <1>14, <2>1
  <2>2. CASE newest' \in came \ base[c]
    BY <1>2, <1>14, <1>15, <2>2 DEF Unbroken
  <2>3. QED
    BY <1>13, <2>1, <2>2
<1>17. ListInv'
  <2>1. ~mixed' => \A g \in Fetches : UnderWay(g)' => 1..fetch'[g].after \subseteq listed'[c]
    BY <1>11, <1>14
  <2>2. QED
    BY <1>2, <1>3, <1>15, <1>16, <2>1 DEF ListInv
<1>18. newest' \in 0..MaxCaseMessages
  BY <1>5, <1>13
<1>19. ConsoleTypeOK'
  BY <1>1, <1>3, <1>6, <1>12, <1>14, <1>18 DEF ConsoleInv, ConsoleTypeOK, Request
<1>20. QED
  BY <1>12, <1>17, <1>19 DEF ConsoleInv

\* What is not a matter of requests.
LEMMA ElsewhereKeeps ==
    ASSUME ConsoleInv, UNCHANGED <<selected, subscribedTo, OnScreen, Requests>>
    PROVE  RequestsInv' /\ ListInv'
BY DEF ConsoleInv, RequestsInv, ListInv, UnderWay, OnScreen, Requests

LEMMA ConsoleStepInv ==
    ConsoleInv /\ [ConsoleNext]_consoleVars => ConsoleInv'
<1> SUFFICES ASSUME ConsoleInv, [ConsoleNext]_consoleVars PROVE ConsoleInv'
  OBVIOUS
<1> USE ConsoleAssumption
<1>0. /\ ConsoleTypeOK
      /\ fetch \in [Fetches -> Request]
      /\ written \in [Cases -> 0..MaxCaseMessages]
  BY DEF ConsoleInv, ConsoleTypeOK, Request
<1>1. CASE Poll
  <2>1. LoadMessages /\ UNCHANGED <<selected, subscribedTo, listed, newest>>
    BY <1>1 DEF Poll, OnScreen
  <2>2. QED
    BY <1>0, <1>1, <2>1, PollKeeps DEF Poll, ConsoleInv, ConsoleTypeOK, Request, InDatabase, OnScreen
<1>2. CASE ReplyStored
  <2>1. UNCHANGED <<selected, subscribedTo, listed, newest>>
    BY <1>2 DEF ReplyStored, OnScreen
  <2>2. /\ fetch' \in [Fetches -> Request] /\ requestVersion' \in 0..MaxReloads
        /\ polling' \in BOOLEAN /\ mixed' \in BOOLEAN /\ RequestsInv' /\ ListInv'
    <3>1. CASE LoadMessages
      BY <2>1, <3>1, PollKeeps
    <3>2. CASE UNCHANGED Requests
      BY <1>0, <2>1, <3>2, ElsewhereKeeps DEF ConsoleTypeOK, Requests, OnScreen
    <3>3. QED
      BY <1>2, <3>1, <3>2 DEF ReplyStored
  <2>3. written' \in [Cases -> 0..MaxCaseMessages] /\ reply' = NoCase
    <3>1. reply \in Cases /\ written[reply] + 1 \in 0..MaxCaseMessages
      BY <1>0, <1>2 DEF ReplyStored, ConsoleTypeOK
    <3>2. QED
      BY <1>0, <1>2, <3>1 DEF ReplyStored
  <2>4. QED
    BY <1>0, <1>2, <2>1, <2>2, <2>3
       DEF ReplyStored, ConsoleInv, ConsoleTypeOK, Request, OnScreen
<1>3. CASE SubmitReply \/ ReplyFails \/ ConsoleSocketOpens \/ SocketCloses
  <2>1. /\ UNCHANGED <<surface, written, struck, selected, addressee, subscribedTo, listed, newest,
                       requestVersion, polling, fetch, mixed>>
        /\ {served', reply'} \subseteq Cases \union {NoCase}
    BY <1>0, <1>3 DEF SubmitReply, ReplyFails, ConsoleSocketOpens, SocketCloses, InDatabase,
                      OnScreen, Requests, ConsoleTypeOK
  <2>2. QED
    BY <1>0, <2>1, ElsewhereKeeps DEF ConsoleInv, ConsoleTypeOK, OnScreen, Requests
<1>4. ASSUME NEW f \in Fetches, ReadTranscript(f) PROVE ConsoleInv'
  <2> DEFINE last == IF written[fetch[f].case] > fetch[f].after + PageLimit
                     THEN fetch[f].after + PageLimit ELSE written[fetch[f].case]
  <2>1. fetch[f] \in Request /\ fetch[f].at = "asked" /\ fetch[f].case \in Cases
    BY <1>0, <1>4 DEF ReadTranscript, ConsoleInv, RequestsInv
  <2>2. last \in 0..MaxCaseMessages
    BY <1>0, <2>1 DEF Request
  <2>3. fetch' = [fetch EXCEPT ![f] = [fetch[f] EXCEPT !.at = "read", !.upTo = last]]
    BY <1>0, <1>4 DEF ReadTranscript
  <2> HIDE DEF last
  <2>4. /\ [fetch[f] EXCEPT !.at = "read", !.upTo = last] \in Request
        /\ [fetch[f] EXCEPT !.at = "read", !.upTo = last].at = "read"
        /\ [fetch[f] EXCEPT !.at = "read", !.upTo = last].case = fetch[f].case
        /\ [fetch[f] EXCEPT !.at = "read", !.upTo = last].version = fetch[f].version
        /\ [fetch[f] EXCEPT !.at = "read", !.upTo = last].after = fetch[f].after
        /\ [fetch[f] EXCEPT !.at = "read", !.upTo = last].replace = fetch[f].replace
    BY <2>1, <2>2 DEF Request
  <2>5. /\ fetch' \in [Fetches -> Request]
        /\ \A g \in Fetches : /\ fetch'[g].at = "idle" <=> fetch[g].at = "idle"
                              /\ fetch'[g].case = fetch[g].case
                              /\ fetch'[g].version = fetch[g].version
                              /\ fetch'[g].after = fetch[g].after
                              /\ fetch'[g].replace = fetch[g].replace
    BY <1>0, <2>1, <2>3, <2>4
  <2>6. UNCHANGED <<surface, written, struck, selected, addressee, subscribedTo, served, listed,
                    newest, requestVersion, polling, mixed, reply>>
    BY <1>4 DEF ReadTranscript, InDatabase, OnScreen
  <2>7. ConsoleTypeOK'
    BY <1>0, <2>5, <2>6 DEF ConsoleTypeOK, Request
  <2>8. RequestsInv'
    BY <2>5, <2>6 DEF ConsoleInv, RequestsInv
  <2>9. ListInv'
    BY <2>5, <2>6 DEF ConsoleInv, ListInv, UnderWay
  <2>10. QED
    BY <2>7, <2>8, <2>9 DEF ConsoleInv
<1>5. ASSUME NEW f \in Fetches, MessagesLoaded(f) PROVE ConsoleInv'
  BY <1>5, LoadedKeeps
<1>6. ASSUME NEW f \in Fetches, NotLoaded(f) PROVE ConsoleInv'
  <2>1. /\ fetch' = [fetch EXCEPT ![f] = NoFetch] /\ polling' = FALSE
        /\ UNCHANGED <<surface, written, struck, selected, addressee, subscribedTo, served, listed,
                       newest, requestVersion, mixed, reply>>
    BY <1>6 DEF NotLoaded, InDatabase, OnScreen
  <2>2. /\ fetch' \in [Fetches -> Request] /\ RequestsInv'
        /\ \A g \in Fetches : UnderWay(g)' => g # f /\ UnderWay(g) /\ fetch'[g] = fetch[g]
    BY <2>1, EndedKeeps
  <2>3. ListInv'
    BY <2>1, <2>2 DEF ConsoleInv, ListInv
  <2>4. ConsoleTypeOK'
    BY <1>0, <2>1, <2>2 DEF ConsoleTypeOK, Request
  <2>5. QED
    BY <2>2, <2>3, <2>4 DEF ConsoleInv
<1>7. ASSUME NEW c \in Cases, OpenCase(c) \/ SelectTicket(c) \/ TicketClicked(c)
      PROVE  ConsoleInv'
  <2>1. /\ Reload(c) /\ selected' = c /\ newest' = 0
        /\ listed' = listed \/ listed' = [d \in Cases |-> {}]
        /\ {addressee', subscribedTo', served'} \subseteq Cases \union {NoCase}
        /\ UNCHANGED <<surface, written, struck, reply>>
    BY <1>0, <1>7 DEF OpenCase, SelectTicket, TicketClicked, Subscribe, InDatabase, ConsoleTypeOK
  <2>2. c # NoCase
    OBVIOUS
  <2>3. /\ fetch' \in [Fetches -> Request] /\ requestVersion' \in 0..MaxReloads
        /\ polling' \in BOOLEAN /\ mixed' \in BOOLEAN /\ RequestsInv' /\ ListInv'
    BY <2>1, <2>2, ReloadKeeps
  <2>4. listed' \in [Cases -> SUBSET (1..MaxCaseMessages)]
    BY <1>0, <2>1 DEF ConsoleTypeOK
  <2>5. QED
    BY <1>0, <2>1, <2>3, <2>4 DEF ConsoleInv, ConsoleTypeOK, Request
<1>8. ASSUME NEW c \in Cases, OthersWrite(c) PROVE ConsoleInv'
  <2>1. written' \in [Cases -> 0..MaxCaseMessages]
    <3>1. written[c] + 1 \in 0..MaxCaseMessages
      BY <1>0, <1>8 DEF OthersWrite
    <3>2. QED
      BY <1>0, <1>8, <3>1 DEF OthersWrite
  <2>2. UNCHANGED <<surface, struck, selected, addressee, subscribedTo, served, listed, newest,
                    requestVersion, polling, fetch, mixed, reply>>
    BY <1>8 DEF OthersWrite, OnScreen, Requests
  <2>3. QED
    BY <1>0, <2>1, <2>2, ElsewhereKeeps DEF ConsoleInv, ConsoleTypeOK, OnScreen, Requests
<1>9. ASSUME NEW n \in 1..MaxCaseMessages, DeleteMessage(n) PROVE ConsoleInv'
  <2>1. UNCHANGED <<surface, written, selected, addressee, subscribedTo, served, listed, newest,
                    requestVersion, polling, fetch, mixed, reply>>
    BY <1>9 DEF DeleteMessage, OnScreen, Requests
  <2>2. struck' \in [Cases -> SUBSET (1..MaxCaseMessages)]
    BY <1>0, <1>9 DEF DeleteMessage, ConsoleTypeOK
  <2>3. QED
    BY <1>0, <2>1, <2>2, ElsewhereKeeps DEF ConsoleInv, ConsoleTypeOK, OnScreen, Requests
<1>10. ASSUME NEW n \in 1..MaxCaseMessages, MutationAnnounced(n) PROVE ConsoleInv'
  <2>1. /\ Reload(selected)
        /\ UNCHANGED <<surface, written, struck, selected, addressee, subscribedTo, served, listed,
                       newest, reply>>
    BY <1>10 DEF MutationAnnounced, InDatabase, OnScreen
  <2>2. selected \in Cases
    BY <1>0, <1>10 DEF MutationAnnounced, ConsoleInv, RequestsInv, ConsoleTypeOK
  <2>3. /\ fetch' \in [Fetches -> Request] /\ requestVersion' \in 0..MaxReloads
        /\ polling' \in BOOLEAN /\ mixed' \in BOOLEAN /\ RequestsInv' /\ ListInv'
    BY <2>1, <2>2, ReloadKeeps
  <2>4. QED
    BY <1>0, <2>1, <2>3 DEF ConsoleInv, ConsoleTypeOK, Request
<1>11. CASE UNCHANGED consoleVars
  BY <1>0, <1>11, ElsewhereKeeps DEF consoleVars, ConsoleInv, ConsoleTypeOK, OnScreen, Requests
<1>12. QED
  BY <1>1, <1>2, <1>3, <1>4, <1>5, <1>6, <1>7, <1>8, <1>9, <1>10, <1>11 DEF ConsoleNext

THEOREM ConsoleInvariant == ConsoleSpec => []ConsoleInv
BY ConsoleInitInv, ConsoleStepInv, PTL DEF ConsoleSpec

\* The console's variables have their types.
THEOREM ConsoleTypeCorrect == ConsoleSpec => []ConsoleTypeOK
BY ConsoleInvariant, PTL DEF ConsoleInv

\* No message of the selected case is skipped, for every number of cases and of requests
\* that overtake each other, every length of a conversation and of an answer.
THEOREM MessagesCorrect == ConsoleSpec => []NoMessageIsSkipped
<1>1. ConsoleInv => NoMessageIsSkipped
  BY DEF ConsoleInv, ConsoleTypeOK, ListInv, NoMessageIsSkipped, Unbroken
<1>2. QED
  BY <1>1, ConsoleInvariant, PTL

\* The parts of the browsers beside each other do what each of them does alone.
LEMMA BrowsersParts ==
    BrowserSpec => /\ WidgetSpec /\ ConsoleSpec /\ TranscriptSpec /\ ModelHistorySpec
                   /\ VoiceSpec /\ ImagesSpec /\ AddressSpec
<1>1. BrowserInit => /\ WidgetInit /\ ConsoleInit /\ TranscriptInit /\ ModelHistoryInit
                     /\ VoiceInit /\ ImagesInit /\ AddressInit
  BY DEF BrowserInit
<1>2. [BrowserNext]_<<part, browserVars>> =>
         /\ [WidgetNext]_widgetVars /\ [ConsoleNext]_consoleVars
         /\ [TranscriptNext]_transcriptVars /\ [ModelHistoryNext]_modelHistoryVars
         /\ [VoiceNext]_voiceVars /\ [ImagesNext]_imageVars /\ [AddressNext]_addressVars
  BY DEF BrowserNext, browserVars, WidgetNext, Elsewhere, WidgetPart, ConsolePart, TranscriptPart, ContextPart, VoicePart,
         ImagesPart, AddressPart
<1>3. QED
  BY <1>1, <1>2, PTL
     DEF BrowserSpec, WidgetSpec, ConsoleSpec, TranscriptSpec, ModelHistorySpec, VoiceSpec,
         ImagesSpec, AddressSpec

\* The state of every part of the browsers is well typed while all of them
\* work beside each other.
THEOREM BrowserTypeCorrect == BrowserSpec => []BrowserTypeOK
<1>1. /\ WidgetTypeOK /\ ConsoleTypeOK /\ TranscriptTypeOK /\ ModelHistoryTypeOK
      /\ VoiceTypeOK /\ ImagesTypeOK /\ AddressTypeOK
      => BrowserTypeOK
  BY DEF BrowserTypeOK
<1>2. QED
  BY <1>1, BrowsersParts, WidgetTypeCorrect, ConsoleTypeCorrect, TranscriptTypesHold,
     ModelHistoryTypesHold, VoiceTypeCorrect, ImagesTypeCorrect, AddressTypeCorrect, PTL
=============================================================================
