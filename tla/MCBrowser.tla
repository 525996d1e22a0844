----------------------------- MODULE MCBrowser ------------------------------
(***************************************************************************)
(* Small instances of seven parts of the browsers, the shopper's and the   *)
(* agent's, that share no state.  A behaviour is one of one part, chosen   *)
(* at its start; the others keep their initial state.                      *)
(***************************************************************************)
EXTENDS ChatWidget, AdminConsole, AnswerTranscript, ModelHistory, LiveVoice, UserImages,
        AddressForms, TLC

VARIABLE part   \* the part that runs

browserVars == <<widgetVars, consoleVars, transcriptVars, modelHistoryVars, voiceVars, imageVars,
                 addressVars>>
BrowserParts == {"widget", "console", "transcript", "context", "voice", "images", "address"}

BrowserTypeOK ==
    /\ part = "widget" => WidgetTypeOK
    /\ part = "console" => ConsoleTypeOK
    /\ part = "transcript" => TranscriptTypeOK
    /\ part = "context" => ModelHistoryTypeOK
    /\ part = "voice" => VoiceTypeOK
    /\ part = "images" => ImagesTypeOK
    /\ part = "address" => AddressTypeOK

BrowserInit ==
    /\ part \in BrowserParts
    /\ WidgetInit /\ TranscriptInit
    /\ ConsoleInit /\ (part = "console" \/ surface = "dialog")
    /\ ModelHistoryInit /\ (part = "context" \/ guest = FALSE)
    /\ VoiceInit /\ shopper # "guest_session" /\ (part = "voice" \/ shopper = "customer")
    /\ ImagesInit /\ (part = "images" \/ savedRows = <<>>)
    /\ (savedRows # <<>> => PicsOf(savedRows[1].pics) = <<"p", "q">>)
    /\ AddressInit /\ (part = "address" \/ formKind = "order")

\* Only the last turn replaces a branch; older messages are paged in before it begins.  Other
\* tabs and voice calls are heard, and what is shown gets another conversation's id, before
\* the first turn or while it runs, when nothing older is paged in; a call speaks first of all.
EarlyOn == turn[1] \in {"unused", "running"} /\ turn[MaxTurns] = "unused"
WidgetPart ==
    /\ part = "widget"
    /\ \/ TabSteps
       \/ EarlyOn /\ (CrossTabSnapshot \/ VoiceTurnSaved)
       \/ messages = <<>> /\ turn[1] = "unused" /\ VoiceWords
    /\ (branch' # <<>> => branch'[1] = MaxTurns)
    /\ (older' # "none" => turn'[MaxTurns] = "unused")
    /\ (relabelled' => EarlyOn' /\ branch' = <<>> /\ older' = "none")
    /\ UNCHANGED <<part, consoleVars, transcriptVars, modelHistoryVars, voiceVars, imageVars,
                   addressVars>>

\* One conversation becomes longer than an answer; its second message can be deleted.
ConsolePart ==
    /\ part = "console" /\ ConsoleNext
    /\ Cardinality({c \in Cases : written'[c] > 1}) <= 1
    /\ \A c \in Cases : struck'[c] \subseteq {2}
    /\ UNCHANGED <<part, widgetVars, transcriptVars, modelHistoryVars, voiceVars, imageVars,
                   addressVars>>

\* Only the first call draws a picture or asks for access, only the second is not labelled.
NewCall == call' # call /\ call' # NoCallYet
TranscriptPart ==
    /\ part = "transcript" /\ TranscriptNext
    /\ (NewCall => /\ call'.kind = "plain" \/ call'.id = 1
                   /\ call'.labels = "never" => call'.id = 2)
    /\ UNCHANGED <<part, widgetVars, consoleVars, modelHistoryVars, voiceVars, imageVars,
                   addressVars>>

\* Long texts are only plain answers; a conversation goes, or is continued, at its start or
\* when it has two questions and answers.
ContextPart ==
    /\ part = "context" /\ ModelHistoryNext
    /\ (kept' # kept /\ kept' # <<>> /\ Last(kept').words = 3
            => Last(kept').role = "assistant" /\ Last(kept').grid = "none" /\ ~Last(kept').stopped)
    /\ (kept' = <<>> /\ kept # <<>> => kept = shown /\ Len(kept) = 4 /\ kept[2].grid # "none")
    /\ (told'.purpose = "continue" => Len(kept) \in {0, 4})
    /\ UNCHANGED <<part, widgetVars, consoleVars, transcriptVars, voiceVars, imageVars,
                   addressVars>>

\* A guest speaks one turn; a customer two, short ones, the second while she is online and
\* nothing fails to be saved.  She turns to conversations of her turns.
OwnChats == {chat} \union {saving[t].chat : t \in Spoken}
VoicePart ==
    /\ part = "voice" /\ VoiceNext
    /\ spoken'[2].said <= 1
    /\ \/ shopper = "guest_database" /\ dialled'[2] = "no" /\ chat' \in OwnChats \union {0}
       \/ /\ shopper = "customer" /\ (dialled'[2] # "no" => online') /\ chat' \in OwnChats
          /\ spoken'[1].said <= 1 /\ \A t \in Spoken : saving'[t].at # "failed"
    /\ UNCHANGED <<part, widgetVars, consoleVars, transcriptVars, modelHistoryVars, imageVars,
                   addressVars>>

\* Two pictures are chosen at first, unless there is an older message with two; then one,
\* between the messages or when the first one is prepared, which is when the network fails.
MCPictures == {"p", "q", "r"}
MCWeight == [p \in MCPictures |-> 1]
Unused == \A s \in Sends : sending[s].at = "no"
Quiet == \A s \in Sends : sending[s].at \in {"no", "over"}
Ready == \E s \in Sends : /\ sending[s].at \in {"preparing", "connecting"}
                          /\ Len(sending[s].parts) = Len(sending[s].attachments)
Picks ==
    \/ reading'.pics = <<"p", "q">> /\ Unused /\ savedRows = <<>>
    \/ reading'.pics = <<"r">> /\ composer = <<>> /\ sending[2].at = "no" /\ ~Unused /\ (Ready \/ Quiet)
ImagesPart ==
    /\ part = "images" /\ ImagesNext
    /\ (reading'.for = "composer" /\ reading' # reading => Picks)
    /\ (reading.for = "composer" /\ reading' # reading
            => \/ Len(composer') = Len(composer) + Len(reading.pics)
               \/ Unused /\ Len(composer') > Len(composer))
    /\ (reachable' # reachable => Ready /\ (sending[2].at = "no" \/ ~reachable))
    /\ (Len(composer') = Len(composer) - 1 /\ sending' = sending => Len(composer) = 2 /\ Unused)
    /\ UNCHANGED <<part, widgetVars, consoleVars, transcriptVars, modelHistoryVars, voiceVars,
                   addressVars>>

\* Answers come to tab 1, whose forms tab 2 takes over, both while the first submission has
\* not begun or is at the shop.  The second follows then or when the first is answered; only
\* the first one fails, and only tab 2's socket is lost, while the shop works.
\* A second form is issued only for the account.
Calm == submissions[1].at \in {"no", "calling"} /\ submissions[2].at = "no"
Copies == /\ formParts' # formParts /\ answeringTab' = answeringTab
           /\ submissions' = submissions /\ formsGone' = formsGone
AddressPart ==
    /\ part = "address" /\ AddressNext
    /\ answeringTab' \subseteq {1} /\ Len(activating') <= 1
    /\ (answeringTab' # answeringTab \/ formsIssued' # formsIssued => Calm)
    /\ (formsIssued' = 2 => formKind = "customer_account")
    /\ (answeringTab = {} /\ answeringTab' # {} => activating = <<>>)
    /\ (activating' = activating /\ activating # <<>>
            => submissions'[2].at \in {"no", "checking", "answering"} /\ shopVars' = shopVars)
    /\ (Copies => Calm /\ formParts'[1] = formParts[1] /\ Len(formParts'[2]) > Len(formParts[2]))
    /\ (formsGone' # formsGone
            => /\ formsGone = 0 /\ activating = <<>> /\ answeringTab = {}
               /\ \A s \in Updates : submissions[s].at \in {"no", "checking", "over"})
    /\ (\E s \in Updates : submissions[s].heard /\ ~submissions'[s].heard
            => submissions[s].tab = 2 /\ submissions[s].at = "calling")
    /\ (submissions[2].at = "no" /\ submissions'[2].at # "no"
            => submissions[1].at \in {"calling", "answering", "over"})
    /\ (submissions[2].at \in {"checking", "admitting"} => submissions'[2].at # "over")
    /\ (submissions[2].at = "calling" => submissions'[2].result # "refused")
    /\ (submissions[2].at = "releasing" /\ submissions'[2].at = "answering" => 2 \notin updateLock')
    /\ (updateLock' # updateLock /\ submissions' = submissions
            => submissions[2].at \in {"no", "admitting"})
    /\ UNCHANGED <<part, widgetVars, consoleVars, transcriptVars, modelHistoryVars, voiceVars,
                   imageVars>>

BrowserNext ==
    \/ WidgetPart \/ ConsolePart \/ TranscriptPart \/ ContextPart \/ VoicePart \/ ImagesPart
    \/ AddressPart
BrowserSpec == BrowserInit /\ [][BrowserNext]_<<part, browserVars>>

\* WidgetFairness, of the part that runs.
BrowserFairSpec ==
    /\ BrowserSpec
    /\ WF_widgetVars(part = "widget" /\ SendSteps)
    /\ WF_widgetVars(part = "widget" /\ TurnSettles)
    /\ WF_widgetVars(part = "widget" /\ TimeRunsOut)
=============================================================================
