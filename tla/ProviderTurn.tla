----------------------------- MODULE ProviderTurn -----------------------------
(***************************************************************************)
(* One turn of a provider adapter (OpenAI-compatible, Anthropic, Gemini):  *)
(* ask the model, run the tools it calls, ask again, until its prose may   *)
(* go to the shopper.  The model may ignore the tool it is told to call,   *)
(* answer nothing, or answer in the wrong language; each is recovered from *)
(* a bounded number of times.  The cards are sent after the prose.  A      *)
(* catalogue answer with products brings the HTML of their cards: an       *)
(* adapter would show none of an answer without it.                        *)
(***************************************************************************)
EXTENDS ToolFlow

CONSTANTS
    Adapters,           \* those of the three that are looked at
    MaxRounds,          \* max_tool_rounds
    MaxControls,        \* MAX_CATALOG_CONTROL_RECOVERIES of an adapter
    MaxAnchors,         \* MAX_CATALOG_ANCHOR_RESOLUTION_RECOVERIES
    MaxEmpties,         \* MAX_EMPTY_RESPONSE_RECOVERIES, 1 when it has none
    MaxRejections       \* MAX_FINAL_SYNTHESIS_TOOL_REJECTION_RECOVERIES

ASSUME TurnAssumption ==
    /\ Adapters \subseteq {"openai", "anthropic", "gemini"}
    /\ MaxRounds \in Nat \ {0}
    /\ MaxControls \in [Adapters -> Nat] /\ MaxEmpties \in [Adapters -> Nat]
    /\ MaxAnchors \in Nat /\ MaxRejections \in Nat

VARIABLES
    adapter,
    flow,           \* the state of the tool flow
    step,           \* where the turn is
    iteration,      \* of the loop over provider requests
    forceFinal,     \* forceFinalSynthesis
    batchRun,       \* hasExecutedToolBatch
    stop,           \* stopAfterToolBatch
    failed,         \* toolErrorMessage is set
    shown,          \* pendingProductPresentation of the adapter
    replayed,       \* what Gemini's batch will have presented, "unset" for nothing
    recoveries,     \* recoveries of each kind so far
    outcome         \* the frame that ended the turn

turnVars == <<adapter, flow, step, iteration, forceFinal, batchRun, stop, failed,
              shown, replayed, recoveries, outcome>>

Recovery == {"control", "anchor", "rejection", "language", "grounding", "empty"}

\* A recovery an adapter does not have is never tried.
Allowed(kind) ==
    CASE kind = "control"   -> MaxControls[adapter]
      [] kind = "empty"     -> MaxEmpties[adapter]
      [] kind = "anchor"    -> IF adapter = "anthropic" THEN MaxAnchors ELSE 0
      [] kind = "rejection" -> IF adapter = "anthropic" THEN MaxRejections ELSE 0
      [] kind \in {"language", "grounding"} -> 1

LastIteration ==
    IF adapter = "anthropic" THEN MaxRounds + 1 + MaxRejections + MaxControls[adapter]
    ELSE MaxRounds + 3 + MaxControls[adapter]

TurnTypeOK ==
    /\ adapter \in Adapters
    /\ flow \in Flow
    /\ step \in {"asking", "calling", "batch", "over"}
    /\ iteration \in 0..LastIteration
    /\ forceFinal \in BOOLEAN /\ batchRun \in BOOLEAN /\ stop \in BOOLEAN /\ failed \in BOOLEAN
    /\ shown \in Grid /\ replayed \in Grid \union {"unset"}
    /\ recoveries \in [Recovery -> Nat]
    /\ \A kind \in Recovery : recoveries[kind] <= Allowed(kind)
    /\ outcome \in {"none", "done", "error", "empty", "cancelled"}

NoRecoveries == [kind \in Recovery |-> 0]

TurnInit ==
    /\ adapter \in Adapters
    /\ \E anchor \in {"none", "single", "set"}, named \in BOOLEAN : flow = NewFlow(anchor, named)
    /\ step = "asking" /\ iteration = 0
    /\ forceFinal = FALSE /\ batchRun = FALSE /\ stop = FALSE /\ failed = FALSE
    /\ shown = "none" /\ replayed = "unset"
    /\ recoveries = NoRecoveries
    /\ outcome = "none"

\* The frame that ends the turn.  Its locals end with it; what was shown to the
\* shopper, and the flow it came from, are kept to be looked at.
Ends(frame, grid, last) ==
    /\ step' = "over" /\ outcome' = frame
    /\ flow' = last /\ shown' = grid
    /\ iteration' = 0 /\ forceFinal' = FALSE /\ batchRun' = FALSE /\ stop' = FALSE
    /\ failed' = FALSE /\ replayed' = "unset" /\ recoveries' = NoRecoveries
    /\ UNCHANGED adapter
EndsWith(frame) == Ends(frame, "none", NewFlow("none", FALSE))

FinalSynthesisOnly == ~Forces(flow) /\ (forceFinal \/ iteration >= MaxRounds)

\* No answer, or a stream that breaks off, after the retry the adapter makes.
ProviderFails == step = "asking" /\ EndsWith("error")

\* isCancelled: Anthropic looks only before it asks.
Cancelled ==
    /\ step = "asking" \/ (step \in {"calling", "batch"} /\ adapter # "anthropic")
    /\ EndsWith("cancelled")

(***************************************************************************)
(* The loop over provider requests                                         *)
(***************************************************************************)
\* The next request, unless the loop has come to its end without any prose.
Again(kept, final, run, count) ==
    IF iteration = LastIteration THEN EndsWith("empty")
    ELSE /\ step' = "asking" /\ iteration' = iteration + 1
         /\ flow' = [kept EXCEPT !.last = "none"]
         /\ forceFinal' = final /\ batchRun' = run /\ recoveries' = count
         /\ stop' = FALSE /\ failed' = FALSE /\ replayed' = "unset"
         /\ UNCHANGED <<adapter, outcome>>

\* A blocking failure of a tool ends the turn.
AgainUnless(problem, kept, final, run) ==
    IF problem THEN EndsWith("error") ELSE Again(kept, final, run, recoveries)

Left(kind) == recoveries[kind] < Allowed(kind)
Recover(kind, final) ==
    /\ Left(kind)
    /\ Again(flow, final, batchRun, [recoveries EXCEPT ![kind] = @ + 1])
    /\ iteration < LastIteration => UNCHANGED shown

(***************************************************************************)
(* Tool calls                                                              *)
(***************************************************************************)
CallsTools ==
    /\ step = "asking" /\ ~FinalSynthesisOnly
    /\ step' = "calling"
    /\ batchRun' = TRUE
    /\ UNCHANGED <<adapter, flow, iteration, forceFinal, stop, failed, shown, replayed,
                   recoveries, outcome>>

Calling == step \in {"calling", "batch"}

\* Mutant: one more adapter takes cards only from a call that found some.
TakesFoundCards ==
    /\ failed' = (failed \/ flow'.last = "error")
    /\ shown' = IF adapter # "gemini" /\ flow'.last = "cards" THEN flow'.grid ELSE shown
    /\ replayed' = IF adapter = "gemini" /\ flow'.last \in {"cards", "miss"}
                   THEN flow'.grid ELSE replayed
    /\ step' = "batch"
    /\ UNCHANGED <<adapter, iteration, forceFinal, batchRun, recoveries, outcome>>

\* What the adapter keeps of the flow after a call.
Takes ==
    /\ failed' = (failed \/ flow'.last = "error")
    /\ shown' = CASE adapter = "openai" -> flow'.grid
                  [] adapter = "anthropic" -> IF flow'.last = "cards" THEN flow'.grid ELSE shown
                  [] adapter = "gemini" -> shown
    /\ replayed' = IF adapter = "gemini" /\ flow'.last \in {"cards", "miss"}
                   THEN flow'.grid ELSE replayed
    /\ step' = "batch"
    /\ UNCHANGED <<adapter, iteration, forceFinal, batchRun, recoveries, outcome>>

\* A call of the batch is refused by a guard, or as a duplicate.
CallRefused ==
    /\ Calling
    /\ \/ flow' \in {Refused(flow), NeedSettled(flow)}
       \/ \E c \in Searches : flow' \in SearchRefusals(flow, c)
    /\ Takes /\ UNCHANGED stop

\* It meets a budget that is used up, which stops the batch of one adapter.
CallOverBudget ==
    /\ Calling /\ ~HasBudget(flow)
    /\ \/ flow' = NeedSettled(flow)
       \/ \E c \in Searches :
             AdmittedSearches(flow, c) # {} /\ flow' = WithRefinement(flow, c)
    /\ stop' = (adapter = "openai")
    /\ Takes

SearchProducts ==
    /\ Calling /\ HasBudget(flow)
    /\ \E c \in Searches : flow' \in SearchRuns(flow, c)
    /\ Takes /\ UNCHANGED stop

ListCategories ==
    /\ Calling /\ HasBudget(flow)
    /\ flow.categoryCalls < MaxCategoryCalls
    /\ \E purpose \in {"taxonomy_question", "product_discovery", ""}, wanted \in BOOLEAN :
          /\ CategoriesAdmitted(flow, purpose, wanted)
          /\ flow' \in CategoriesRun(flow, purpose, wanted)
    /\ Takes /\ UNCHANGED stop

ListVariantAttributes ==
    /\ Calling /\ HasBudget(flow)
    /\ AttributesAdmitted(flow)
    /\ flow' \in AttributesRun(flow)
    /\ Takes /\ UNCHANGED stop

GetProductAvailability ==
    /\ Calling /\ HasBudget(flow)
    /\ flow' \in AvailabilityRun(flow)
    /\ Takes /\ UNCHANGED stop

RunOtherTool ==
    /\ Calling /\ HasBudget(flow)
    /\ ~flow.availability
    /\ flow' \in OtherRun(flow)
    /\ Takes /\ UNCHANGED stop

ResolveControl ==
    /\ Calling
    /\ flow' \in NeedResolved(flow) \union AnchorResolved(flow)
    /\ Takes /\ UNCHANGED stop

\* Gemini takes the cards of the flow only now, and has the flow take note of
\* the results of its batch once more.
BatchEnds ==
    /\ step = "batch"
    /\ LET grid == IF replayed = "unset" THEN flow.grid ELSE replayed
           again == [flow EXCEPT !.grid = grid,
                       !.terminal = IF replayed \in {"loose", "sound"} THEN FALSE ELSE @]
       IN IF stop /\ adapter = "openai" THEN EndsWith("empty")
          ELSE /\ AgainUnless(failed, again, forceFinal, batchRun)
               /\ step' = "asking" => shown' = IF adapter = "gemini" THEN grid ELSE shown

(***************************************************************************)
(* Prose instead of tool calls                                             *)
(***************************************************************************)
\* The gateway makes the owed read itself; a budget that is used up or an equal
\* read of this turn refuses it.
ReadsAvailability ==
    /\ step = "asking" /\ flow.availability
    /\ \E kept \in (IF HasBudget(flow) THEN AvailabilityRun(flow) ELSE {NeedSettled(flow)})
                   \union (IF flow.read THEN {NeedSettled(flow)} ELSE {}) :
          /\ AgainUnless(kept.last = "error", kept, TRUE, TRUE)
          /\ step' = "asking" => shown' = kept.grid

ForcesControl == flow.need \/ ForcesDiscovery(flow) \/ ForcesSearch(flow)

AsksForAnchorAgain ==
    /\ step = "asking" /\ ~flow.availability
    /\ flow.anchorPending
    /\ Recover("anchor", forceFinal)

AnchorSettled == step = "asking" /\ ~flow.availability /\ ~(flow.anchorPending /\ Left("anchor"))

AsksForControlAgain ==
    /\ AnchorSettled
    /\ ForcesControl
    /\ Recover("control", forceFinal)

ControlSettled == AnchorSettled /\ ~(ForcesControl /\ Left("control"))

\* Anthropic decides in the model's place that the catalogue is needed.
DecidesNeed ==
    /\ ControlSettled
    /\ adapter = "anthropic" /\ flow.need
    /\ Again([flow EXCEPT !.need = FALSE, !.needSearch = TRUE], forceFinal, TRUE, recoveries)
    /\ step' = "asking" => UNCHANGED shown

ProseSettled == ControlSettled /\ ~(adapter = "anthropic" /\ flow.need)

\* A tool call in a request without tools, and no text.
RejectsStaleCall == ProseSettled /\ FinalSynthesisOnly /\ Recover("rejection", TRUE)

\* The prose is in another language than its calls, or contradicts the prices.
AsksForRepair == ProseSettled /\ \E kind \in {"language", "grounding"} : Recover(kind, TRUE)

AsksForAnswer == ProseSettled /\ Recover("empty", batchRun)

\* The prose, the cards, done.
SendsAnswer == ProseSettled /\ Ends("done", shown, flow)

SendsNothing == ProseSettled /\ ~Left("empty") /\ EndsWith("empty")

RunsTool == SearchProducts \/ ListCategories \/ ListVariantAttributes
            \/ GetProductAvailability \/ RunOtherTool \/ ResolveControl
Recovers == ReadsAvailability \/ AsksForAnchorAgain \/ AsksForControlAgain \/ DecidesNeed
            \/ RejectsStaleCall \/ AsksForRepair \/ AsksForAnswer
TurnNext ==
    \/ ProviderFails \/ Cancelled
    \/ CallsTools \/ CallRefused \/ CallOverBudget \/ RunsTool \/ BatchEnds
    \/ Recovers \/ SendsAnswer \/ SendsNothing

TurnSpec == TurnInit /\ [][TurnNext]_turnVars

(***************************************************************************)
(* Properties                                                              *)
(***************************************************************************)
\* Once a product's availability must be read live, the turn either makes that
\* read or ends without an answer: no search, no recovery and no repeated call
\* lets the model's prose out on the stock hint of a card.
OwedReadIsMade ==
    [][flow.availability =>
         \/ flow'.availability /\ outcome' # "done"
         \/ flow'.read /\ flow'.executions = flow.executions + 1
         \/ outcome' \in {"error", "empty", "cancelled"}]_turnVars

\* The lowest prices of a text in the whole store are only shown after Magento gave
\* categories to compare in, whatever calls were refused and repeated before.
PricesComparedInScope == flow.grid = "loose" => flow.priceScoped

\* A product whose exact identity Magento confirmed keeps its card: no later
\* category lookup, miss or refinement of the turn takes it away.
IdentityKeepsItsCard == flow.resolved => flow.grid # "none"

\* The cards sent with an answer are those the flow holds at its end, whatever
\* discovery, miss, replay or refusal came after they were shown: the adapter
\* and the flow keep a copy each.  Anthropic takes a copy only from a call that
\* found cards, so a discovery after them leaves its copy where the flow has none.
AnswerShowsFlowsCards == outcome = "done" /\ adapter # "anthropic" => shown = flow.grid
=============================================================================
