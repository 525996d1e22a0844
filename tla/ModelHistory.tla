---------------------------- MODULE ModelHistory ----------------------------
(***************************************************************************)
(* What the model is told of the conversation so far.  The browser builds  *)
(* the history of a request from the messages it shows: prose, or, of an   *)
(* answer with a product grid, a placeholder and a ledger of the products. *)
(* The gateway takes the latest ledger out as a memory of its own and      *)
(* gives the model the newest messages that fit the rest of the budget.    *)
(* When a guest's conversation is gone, the gateway restores it from the   *)
(* same history.  Texts are their sizes; prompts, prices and the form of   *)
(* the ledger are left out.                                                *)
(***************************************************************************)
EXTENDS Integers, Sequences, SequencesExt, MessageLists

CONSTANTS
    BrowserLimit,       \* MAX_MODEL_HISTORY_MESSAGES
    HistoryLimit,       \* agent.max_model_history_messages
    TokenBudget,        \* agent.max_history_tokens
    Sizes,              \* of texts
    MaxQuestions,       \* bounds the conversation
    MaxRows             \* bounds its rows when answers are continued

ASSUME HistoryBoundsAssumption ==
    /\ BrowserLimit \in Nat \ {0} /\ HistoryLimit \in Nat \ {0}
    /\ TokenBudget \in Nat /\ TokenBudget >= 3 /\ Sizes \subseteq Nat \ {0}
    /\ MaxQuestions \in Nat /\ MaxRows \in Nat

VARIABLES
    guest,      \* the shopper is a guest whose history is kept for the session
    shown,      \* messages
    kept,       \* the conversation's stored rows
    questions,  \* questions asked
    told        \* what the running turn, or voice session, was told

modelHistoryVars == <<guest, shown, kept, questions, told>>

Grids == {"none", "fits", "huge"}   \* a ledger longer than the memory may be is "huge"
HistoryMessage(id, role, words, grid, stopped) ==
    [id |-> id, role |-> role, words |-> words, grid |-> grid, stopped |-> stopped]
NoMemory == [id |-> 0, cut |-> FALSE]
NothingTold == [purpose |-> "none", memory |-> NoMemory, recent |-> <<>>]

ModelHistoryTypeOK ==
    /\ guest \in BOOLEAN /\ questions \in 0..MaxQuestions
    /\ \A m \in Range(shown) \union Range(kept) :
           /\ m.id \in 1..MaxQuestions /\ m.role \in {"user", "assistant"}
           /\ m.words \in Nat /\ m.grid \in Grids /\ m.stopped \in BOOLEAN
    /\ told.purpose \in {"none", "new", "continue", "voice"}
    /\ told.memory.id \in 0..MaxQuestions /\ Len(told.recent) <= BrowserLimit

ModelHistoryInit ==
    /\ guest \in BOOLEAN /\ shown = <<>> /\ kept = <<>> /\ questions = 0 /\ told = NothingTold
-----------------------------------------------------------------------------
\* One message of the history: the prose, or a placeholder for a grid, and a note if the
\* answer was stopped.
Told(m) ==
    [id |-> m.id, role |-> m.role, grid |-> m.grid,
     size |-> (IF m.grid # "none" THEN 1 ELSE m.words) + (IF m.stopped THEN 1 ELSE 0)]
Newest(s, k) == SubSeq(s, Len(s) - k + 1, Len(s))
Least(m, n) == IF m < n THEN m ELSE n

\* The last message is taken for the one being sent; messages without text are left out.
BeforeLast(messages) == SubSeq(messages, 1, Len(messages) - 1)
Worded(messages) == {i \in DOMAIN messages : Told(messages[i]).size > 0}
ToldBefore(messages) ==
    MembersAt([i \in DOMAIN BeforeLast(messages) |-> Told(messages[i])], Worded(BeforeLast(messages)))

\* Mutant: all the messages before the last.
BuildWholeHistory(messages) == ToldBefore(messages)

BuildModelHistory(messages) ==
    Newest(ToldBefore(messages), Least(BrowserLimit, Len(ToldBefore(messages))))

\* fitHistoryToBudget: newest first, until one does not fit; the newest is compacted if it
\* does not fit alone.
SizeOf(s) ==
    LET sum[n \in 0..Len(s)] == IF n = 0 THEN 0 ELSE sum[n - 1] + s[n].size
    IN sum[Len(s)]
FitHistoryToBudget(history, budget) ==
    LET fitting == {k \in 0..Least(HistoryLimit, Len(history)) : SizeOf(Newest(history, k)) <= budget}
    IN IF fitting = {0} /\ history # <<>> THEN <<[Last(history) EXCEPT !.size = budget]>>
       ELSE Newest(history, CHOOSE k \in fitting : \A j \in fitting : j <= k)

\* The latest ledger, cut in the middle if it is too long (the mutant looks for it only
\* among the messages that the model will see).
MemoryLimit == TokenBudget \div 3
MemoryIn(messages) ==
    LET ledgers == {i \in DOMAIN messages : messages[i].grid # "none"}
        last == CHOOSE i \in ledgers : \A j \in ledgers : j <= i
    IN IF ledgers = {} THEN NoMemory
       ELSE [id |-> messages[last].id, cut |-> messages[last].grid = "huge"]
MemoryOfSeen(history) == MemoryIn(FitHistoryToBudget(history, TokenBudget))
LatestMemory(history) == MemoryIn(history)
MemorySize(memory) == IF memory = NoMemory THEN 0 ELSE IF memory.cut THEN MemoryLimit ELSE 1

TrimHistoryForModel(purpose, history) ==
    LET memory == LatestMemory(history)
    IN [purpose |-> purpose, memory |-> memory,
        recent |-> FitHistoryToBudget(history, TokenBudget - MemorySize(memory))]

\* latestSingleProductAnchor and latestCatalogResultSetAnchor: a ledger that was cut does
\* not parse, and resolves nothing.
Anchor(request) == IF request.memory.cut THEN 0 ELSE request.memory.id

\* restoreGuestHistoryFromClient: the text of each message without its ledger.
Restored(history) ==
    [i \in DOMAIN history |-> HistoryMessage(history[i].id, history[i].role, history[i].size, "none", FALSE)]
ConversationOf(history) == IF kept = <<>> /\ guest THEN Restored(history) ELSE kept
-----------------------------------------------------------------------------
Ask(purpose, messages) ==
    /\ shown' = messages
    /\ told' = TrimHistoryForModel(purpose, BuildModelHistory(messages))

SendQuestion(words) ==
    /\ told = NothingTold /\ questions < MaxQuestions
    /\ questions' = questions + 1
    /\ LET question == HistoryMessage(questions + 1, "user", words, "none", FALSE)
           messages == Append(shown, question)
       IN /\ Ask("new", messages)
          /\ kept' = Append(ConversationOf(BuildModelHistory(messages)), question)
    /\ UNCHANGED guest

\* retryFromMessage, submitEditedMessage: the question is sent again in the place of what
\* followed it; the gateway refuses when it does not find its row.
Resend(i) ==
    /\ told = NothingTold /\ shown[i].role = "user"
    /\ \E row \in DOMAIN kept :
        /\ kept[row].id = shown[i].id /\ kept[row].role = "user"
        /\ kept' = SubSeq(kept, 1, row)
    /\ Ask("new", SubSeq(shown, 1, i))
    /\ UNCHANGED <<guest, questions>>

\* continueStoppedResponse: the last answer goes on, or its question is sent again when
\* there is nothing of it yet.  No question is stored.
LastAnswer == CHOOSE i \in DOMAIN shown :
    shown[i].role = "assistant" /\ \A j \in DOMAIN shown : shown[j].role = "assistant" => j <= i
ContinueLastAnswer ==
    /\ told = NothingTold /\ \E i \in DOMAIN shown : shown[i].stopped
    /\ Len(kept) < MaxRows /\ shown[LastAnswer].words > 0
    /\ LET messages == [shown EXCEPT ![LastAnswer].stopped = FALSE]
       IN /\ Ask("continue", messages)
          /\ kept' = ConversationOf(BuildModelHistory(messages))
    /\ UNCHANGED <<guest, questions>>
RetryStoppedResponse ==
    /\ \E i \in DOMAIN shown : shown[i].stopped
    /\ shown[LastAnswer].words = 0 /\ LastAnswer > 1
    /\ Resend(LastAnswer - 1)

\* An answer that goes on: the cards of the new part replace those it had.
Resumed(m, grid, stopped) ==
    [m EXCEPT !.grid = IF grid = "none" THEN @ ELSE grid, !.stopped = stopped]

\* The answer is shown as it comes and stored when it ends: a new message, or, for a
\* continuation, more of the one on the screen and a row of its own.
AnswerCame(words, grid, stopped) ==
    /\ told.purpose \in {"new", "continue"}
    /\ LET answer == HistoryMessage(shown[Len(shown)].id, "assistant", words, grid, stopped)
       IN /\ shown' = IF told.purpose = "new" THEN Append(shown, answer)
                      ELSE [shown EXCEPT ![LastAnswer] = Resumed(@, grid, stopped)]
          /\ kept' = Append(kept, answer)
    /\ told' = NothingTold
    /\ UNCHANGED <<guest, questions>>
AnswerEnds(words, grid) == AnswerCame(words, grid, FALSE)

\* Of a stopped answer the cards, which would follow the prose, are dropped.
AnswerStops(words) == AnswerCame(words, "none", TRUE)

\* The page is loaded again.
ReloadMessages ==
    /\ told = NothingTold /\ shown # kept /\ shown' = kept
    /\ UNCHANGED <<guest, kept, questions, told>>

\* The gateway's copy of the conversation is gone, the page stays open.
ConversationGoes ==
    /\ told = NothingTold /\ kept # <<>> /\ kept' = <<>>
    /\ UNCHANGED <<guest, shown, questions, told>>

\* toggleLiveVoice and seedLiveVoiceHistory; the spoken turns are not part of this model.
SeedLiveVoice ==
    /\ told = NothingTold
    /\ told' = [purpose |-> "voice", memory |-> NoMemory, recent |-> BuildModelHistory(shown)]
    /\ UNCHANGED <<guest, shown, kept, questions>>
EndVoiceSession ==
    /\ told.purpose = "voice" /\ told' = NothingTold
    /\ UNCHANGED <<guest, shown, kept, questions>>

ModelHistoryNext ==
    \/ ContinueLastAnswer \/ RetryStoppedResponse \/ ReloadMessages \/ ConversationGoes
    \/ SeedLiveVoice \/ EndVoiceSession
    \/ \E words \in Sizes : SendQuestion(words)
    \/ \E i \in DOMAIN shown : Resend(i)
    \/ \E words \in Sizes, grid \in Grids : AnswerEnds(words, grid)
    \/ \E words \in Sizes \union {0} : AnswerStops(words)

ModelHistorySpec == ModelHistoryInit /\ [][ModelHistoryNext]_modelHistoryVars
-----------------------------------------------------------------------------
IdsOf(s) == [i \in DOMAIN s |-> <<s[i].id, s[i].role>>]
BeforeThisTurn == MembersAt(BeforeLast(shown), Worded(BeforeLast(shown)))
InReach == Newest(BeforeThisTurn, Least(BrowserLimit, Len(BeforeThisTurn)))

NewestMessagesTold ==
    /\ IsSuffix(IdsOf(told.recent), IdsOf(BeforeThisTurn))
    /\ BeforeThisTurn # <<>> => told.recent # <<>>
LastGridRemembered ==
    LET grids == MembersAt(InReach, {i \in DOMAIN InReach : InReach[i].grid # "none"})
    IN Anchor(told) = IF grids = <<>> \/ Last(grids).grid = "huge" THEN 0 ELSE Last(grids).id
WithinBudget == SizeOf(told.recent) + MemorySize(told.memory) <= TokenBudget

\* A question reaches the model with the newest messages the shopper saw before it, none
\* left out in between, within the budget, and with the products of the last grid on her
\* screen, also when the budget leaves the answer with that grid out and after resends,
\* reloads and restored conversations.  (A ledger longer than the memory is cut and
\* resolves nothing.)
QuestionHasItsContext ==
    told.purpose = "new" => NewestMessagesTold /\ LastGridRemembered /\ WithinBudget

\* A request to continue an answer where it stopped shows the model that answer.
ContinuationSeesItsAnswer ==
    told.purpose = "continue" =>
        told.recent # <<>> /\ Last(IdsOf(told.recent)) = IdsOf(shown)[LastAnswer]
=============================================================================
