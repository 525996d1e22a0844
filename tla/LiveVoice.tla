------------------------------ MODULE LiveVoice ------------------------------
(***************************************************************************)
(* A voice call: the browser talks to the provider over a connection of    *)
(* its own, asks the gateway for the credential of the call and sends it   *)
(* the text of each spoken turn, which the gateway stores like a written   *)
(* one.  The provider's events come in any order: what it says belongs to  *)
(* the turn whose question was transcribed last.  A text is the number of  *)
(* its pieces.  Tool calls only make the provider say more; dictation, the *)
(* seeding of the call (ModelHistory), the numbers that rows give to the   *)
(* messages on the screen, sound and timers are left out.                  *)
(***************************************************************************)
EXTENDS Integers, Sequences

CONSTANTS
    MaxDials,           \* bounds the calls
    MaxSpoken,          \* bounds the spoken turns
    MaxSaid             \* bounds the answer of one

ASSUME VoiceAssumption == MaxDials \in Nat \ {0} /\ MaxSpoken \in Nat /\ MaxSaid \in Nat

VARIABLES
    shopper,        \* where her conversations are kept
    online,         \* wsConnected
    callState,      \* liveVoiceState
    callRequest,    \* liveVoiceRequestId, 0 for none
    dialled,        \* per call: where its connection is
    peer,           \* the call of liveVoicePeerConnection, 0 for none
    spoken,         \* per turn: liveVoiceTurns has it, assistantText, saveRequested
    current,        \* liveVoiceCurrentTurnId, 0 for none
    chat,           \* activeConversationId, 0 for none
    saving,         \* per turn: where the gateway is with it
    voiceRows,      \* the stored messages, in the order in which they were stored
    chats           \* number of conversations

voiceVars == <<shopper, online, callState, callRequest, dialled, peer, spoken, current, chat,
               saving, voiceRows, chats>>

Dials == 1..MaxDials
Spoken == 1..MaxSpoken
Unspoken == [begun |-> FALSE, known |-> FALSE, said |-> 0, saveRequested |-> FALSE]
NotSaving == [at |-> "none", chat |-> 0, said |-> 0, answered |-> TRUE]

VoiceTypeOK ==
    /\ shopper \in {"customer", "guest_database", "guest_session"} /\ online \in BOOLEAN
    /\ callState \in {"idle", "connecting", "connected", "error"}
    /\ callRequest \in 0..MaxDials /\ peer \in 0..MaxDials /\ current \in 0..MaxSpoken
    /\ dialled \in [Dials -> {"no", "asked", "permission", "signalling", "broken", "open",
                             "over"}]
    /\ spoken \in [Spoken -> [begun : BOOLEAN, known : BOOLEAN, said : 0..MaxSaid,
                              saveRequested : BOOLEAN]]
    /\ chats \in Nat /\ chat \in 0..chats
    /\ saving \in [Spoken -> [at : {"none", "sent", "resolved", "half", "whole", "saved",
                                    "failed", "over"},
                              chat : 0..chats, said : 0..MaxSaid, answered : BOOLEAN]]
    /\ voiceRows \in Seq([chat : 1..chats, turn : Spoken, role : {"user", "assistant"},
                         said : 0..MaxSaid])

VoiceInit ==
    /\ shopper \in {"customer", "guest_database", "guest_session"}
    /\ online = TRUE /\ callState = "idle" /\ callRequest = 0 /\ peer = 0
    /\ dialled = [c \in Dials |-> "no"] /\ spoken = [t \in Spoken |-> Unspoken] /\ current = 0
    /\ chat = 0 /\ saving = [t \in Spoken |-> NotSaving] /\ voiceRows = <<>> /\ chats = 0

Connections == <<callState, callRequest, dialled, peer>>
Transcript == <<spoken, current, saving>>
Stored == <<voiceRows, chats>>
-----------------------------------------------------------------------------
(* The browser's call *)

\* toggleLiveVoice: the turns of the call before are forgotten.
DialCall(c) ==
    /\ callState \in {"idle", "error"}
    /\ dialled[c] = "no" /\ \A b \in 1..c - 1 : dialled[b] # "no"
    /\ callState' = "connecting" /\ callRequest' = c
    /\ dialled' = [dialled EXCEPT ![c] = "asked"]
    /\ current' = 0 /\ spoken' = [t \in Spoken |-> [spoken[t] EXCEPT !.known = FALSE]]
    /\ UNCHANGED <<shopper, online, peer, chat, saving, Stored>>

\* connectLiveVoiceSession: the request is compared only when the credential comes.
CredentialCame(c) ==
    /\ dialled[c] = "asked" /\ online
    /\ dialled' = [dialled EXCEPT ![c] = IF callRequest = c THEN "permission" ELSE "over"]
    /\ UNCHANGED <<shopper, online, callState, callRequest, peer, Transcript, chat, Stored>>
MicrophoneGranted(c) ==
    /\ dialled[c] = "permission"
    /\ dialled' = [dialled EXCEPT ![c] = "signalling"] /\ peer' = c
    /\ UNCHANGED <<shopper, online, callState, callRequest, Transcript, chat, Stored>>
CallConnected(c) ==
    /\ dialled[c] = "signalling"
    /\ dialled' = [dialled EXCEPT ![c] = "open"] /\ callState' = "connected"
    /\ UNCHANGED <<shopper, online, callRequest, peer, Transcript, chat, Stored>>

\* closePeerConnection closes the connection that was registered last, not an older one that
\* was let in after its call had ended; a call that was still signalling then fails.
PeerClosed ==
    [c \in Dials |-> IF c # peer THEN dialled[c]
                     ELSE IF dialled[c] = "open" THEN "over" ELSE "broken"]

\* failLiveVoice: no credential (of this call), no microphone or no connection.
FailLiveVoice(c) ==
    /\ dialled[c] \in {"asked", "permission", "signalling", "broken"}
    /\ dialled[c] = "asked" => callRequest = c
    /\ dialled' = [PeerClosed EXCEPT ![c] = "over"]
    /\ callState' = "error" /\ callRequest' = 0 /\ peer' = 0
    /\ UNCHANGED <<shopper, online, Transcript, chat, Stored>>

\* persistLiveVoiceTurn: sends a turn once, when it has an answer and the socket is there
\* (the mutant marks it as sent before it looks for the socket).
HasText(t) == t # 0 /\ spoken[t].known /\ ~spoken[t].saveRequested /\ spoken[t].said > 0
MarkedUnsent(t) ==
    IF HasText(t) THEN [spoken EXCEPT ![t].saveRequested = TRUE] ELSE spoken
Marked(t) ==
    IF HasText(t) /\ online THEN [spoken EXCEPT ![t].saveRequested = TRUE] ELSE spoken
PersistTurn(t) ==
    saving' = IF HasText(t) /\ online
              THEN [saving EXCEPT ![t] = [at |-> "sent", chat |-> chat, said |-> spoken[t].said,
                                          answered |-> TRUE]]
              ELSE saving

\* endLiveVoice.
EndLiveVoice(dialled_) ==
    /\ PersistTurn(current) /\ spoken' = Marked(current) /\ current' = 0
    /\ dialled' = dialled_ /\ callState' = "idle" /\ callRequest' = 0 /\ peer' = 0
    /\ UNCHANGED <<shopper, online, chat, Stored>>

\* The End button, the time limit, or the chat window is closed.
ShopperHangsUp == callState # "idle" /\ EndLiveVoice(PeerClosed)
ChannelCloses(c) ==
    /\ dialled[c] = "open"
    /\ IF callState = "connected" THEN EndLiveVoice([PeerClosed EXCEPT ![c] = "over"])
       ELSE /\ dialled' = [dialled EXCEPT ![c] = "over"]
            /\ UNCHANGED <<shopper, online, callState, callRequest, peer, Transcript, chat, Stored>>
-----------------------------------------------------------------------------
(* The provider's events *)

Talking == \E c \in Dials : dialled[c] = "open"

\* handleLiveVoiceUserTranscript: the turn before is sent, a new one begins.
UserTranscript(t) ==
    /\ Talking /\ ~spoken[t].begun /\ \A u \in 1..t - 1 : spoken[u].begun
    /\ PersistTurn(current)
    /\ spoken' = [Marked(current) EXCEPT ![t] = [Unspoken EXCEPT !.begun = TRUE, !.known = TRUE]]
    /\ current' = t
    /\ UNCHANGED <<shopper, online, Connections, chat, Stored>>

\* appendLiveVoiceAssistantText: without a turn, or after its turn was stored, it is dropped.
AssistantText ==
    /\ Talking /\ current # 0 /\ spoken[current].known /\ spoken[current].said < MaxSaid
    /\ spoken' = [spoken EXCEPT ![current].said = @ + 1]
    /\ UNCHANGED <<shopper, online, Connections, current, saving, chat, Stored>>

\* finalizeLiveVoiceResponse.
ResponseDone ==
    /\ Talking /\ PersistTurn(current) /\ spoken' = Marked(current)
    /\ UNCHANGED <<shopper, online, Connections, current, chat, Stored>>
-----------------------------------------------------------------------------
(* The gateway: persistLiveVoiceTurn, several turns at once *)

At(t, place) == [saving EXCEPT ![t].at = place]
OnGateway == <<shopper, online, Connections, spoken, current, chat>>

\* The turn is claimed and its conversation found: the one it was sent for, for a guest
\* whose history is in the database any other she has, or a new one.
ChatFor(t) ==
    IF saving[t].chat # 0 THEN {saving[t].chat}
    ELSE IF shopper = "guest_database" /\ chats > 0 THEN 1..chats
    ELSE {chats + 1}
Resolve(t) ==
    /\ saving[t].at = "sent"
    /\ \E found \in ChatFor(t) :
        /\ saving' = [saving EXCEPT ![t].at = "resolved", ![t].chat = found]
        /\ chats' = IF found > chats THEN found ELSE chats
    /\ UNCHANGED <<OnGateway, voiceRows>>

SaveHalf(t, from, to, row) ==
    /\ saving[t].at = from /\ saving' = At(t, to)
    /\ voiceRows' = Append(voiceRows, row)
    /\ UNCHANGED <<OnGateway, chats>>
SaveUserText(t) ==
    SaveHalf(t, "resolved", "half", [chat |-> saving[t].chat, turn |-> t, role |-> "user", said |-> 0])
SaveAssistantText(t) ==
    SaveHalf(t, "half", "whole",
             [chat |-> saving[t].chat, turn |-> t, role |-> "assistant", said |-> saving[t].said])

\* The conversation is touched, the other tabs are told, then the shopper.
ReportSaved(t) ==
    /\ saving[t].at = "whole" /\ saving' = At(t, IF saving[t].answered THEN "saved" ELSE "over")
    /\ UNCHANGED <<OnGateway, Stored>>
SaveFails(t) ==
    /\ saving[t].at \in {"sent", "resolved", "half", "whole"}
    /\ saving' = At(t, IF saving[t].answered THEN "failed" ELSE "over")
    /\ UNCHANGED <<OnGateway, Stored>>
-----------------------------------------------------------------------------
(* What comes back *)

\* receiveLiveVoiceSaved.
ReceiveSaved(t) ==
    /\ saving[t].at = "saved" /\ saving' = At(t, "over")
    /\ chat' = saving[t].chat
    /\ spoken' = [spoken EXCEPT ![t].known = FALSE]
    /\ UNCHANGED <<shopper, online, Connections, current, Stored>>

\* receiveLiveVoiceSaveError: a notice.
ReceiveSaveError(t) ==
    /\ saving[t].at = "failed" /\ saving' = At(t, "over")
    /\ UNCHANGED <<OnGateway, Stored>>

\* The socket is lost, with the answers and some of the turns on it; the call and the
\* gateway's work go on.
SocketLost ==
    /\ online /\ online' = FALSE
    /\ \E lost \in SUBSET {t \in Spoken : saving[t].at = "sent"} :
           saving' = [t \in Spoken |->
               IF t \in lost \/ saving[t].at \in {"saved", "failed"}
               THEN [saving[t] EXCEPT !.at = "over"]
               ELSE [saving[t] EXCEPT !.answered = @ /\ saving[t].at \in {"none", "over"}]]
    /\ UNCHANGED <<shopper, Connections, spoken, current, chat, Stored>>
SocketBack ==
    /\ ~online /\ online' = TRUE
    /\ UNCHANGED <<shopper, Connections, Transcript, chat, Stored>>

\* The shopper turns to another conversation or a new one.
SwitchChat(c) ==
    /\ c # chat /\ chat' = c
    /\ UNCHANGED <<shopper, online, Connections, Transcript, Stored>>

VoiceNext ==
    \/ ShopperHangsUp \/ AssistantText \/ ResponseDone \/ SocketLost \/ SocketBack
    \/ \E c \in Dials : \/ DialCall(c) \/ CredentialCame(c) \/ MicrophoneGranted(c)
                        \/ CallConnected(c) \/ FailLiveVoice(c) \/ ChannelCloses(c)
    \/ \E t \in Spoken : \/ UserTranscript(t) \/ Resolve(t) \/ SaveUserText(t)
                         \/ SaveAssistantText(t) \/ ReportSaved(t) \/ SaveFails(t)
                         \/ ReceiveSaved(t) \/ ReceiveSaveError(t)
    \/ \E c \in 0..chats : SwitchChat(c)

VoiceSpec == VoiceInit /\ [][VoiceNext]_voiceVars
-----------------------------------------------------------------------------
\* The turn that is left, by the next one or the end of the call, was sent, if not before
\* then now; not if the socket is down, or if a new call is started over it (after a failure,
\* or while the connection of an earlier call is still open).
LeftTurnIsSent ==
    \A t \in Spoken :
        current = t /\ current' # t /\ spoken[t].said > 0 /\ online
            /\ (callState' = "connecting" => callState = "connecting")
            => saving'[t].at # "none"

\* Of each turn nothing is stored, its question, or its question and then, in the same
\* conversation, the answer as it was sent, each once; both when it was reported as saved.
StoredOf(t) == {i \in DOMAIN voiceRows : voiceRows[i].turn = t}
AnswerAsSent(t, j) ==
    /\ voiceRows[j].said = saving[t].said /\ voiceRows[j].said \in 1..spoken[t].said
    /\ \E i \in StoredOf(t) : i < j /\ voiceRows[i].role = "user" /\ voiceRows[i].chat = voiceRows[j].chat
StoredAsSent ==
    \A t \in Spoken :
        /\ \A i, j \in StoredOf(t) : voiceRows[i].role = voiceRows[j].role => i = j
        /\ \A j \in StoredOf(t) : voiceRows[j].role = "assistant" => AnswerAsSent(t, j)
        /\ saving[t].at = "saved" => \E j \in StoredOf(t) : voiceRows[j].role = "assistant"

\* No spoken turn is forgotten: what could not be sent when its answer ended, because the
\* socket was down, is sent with the next turn or the end of the call, and it is stored
\* once, question before answer.  (What the provider says after a turn was sent is not
\* stored.)
VoiceTurnsAreKept == [][LeftTurnIsSent /\ StoredAsSent']_voiceVars
=============================================================================
