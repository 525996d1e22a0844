-------------------------- MODULE AnswerTranscript --------------------------
(***************************************************************************)
(* One answer is written down twice.  The gateway folds the frames it      *)
(* sends into the parts it will store (recordOutboundAssistantPart), the   *)
(* shopper's browser folds the frames it receives into the message it      *)
(* shows (handleStreamMessage), each by code of its own.  When the         *)
(* conversation is reloaded the stored parts take the place of the shown   *)
(* ones.                                                                   *)
(*                                                                         *)
(* The model calls tools one after another and writes prose in between.    *)
(* Each call is announced as running and later as completed or failed; a   *)
(* completion is held back until another operation starts or the answer    *)
(* ends, and calls of one operation share a row of the timeline.  Labels,  *)
(* durations, folding and scrolling are left out, text is the number of    *)
(* the piece that was sent.                                                *)
(***************************************************************************)
EXTENDS Integers, Sequences, SequencesExt, MessageLists

CONSTANTS
    Operations,     \* timeline keys
    Searches,       \* those of product searches
    MaxCalls,       \* max_tool_executions, the calls of an answer
    StoredRows,     \* the rows of a timeline that are stored (24)
    MaxPieces       \* bounds its prose

ASSUME TranscriptAssumption ==
    /\ Searches \subseteq Operations
    /\ MaxCalls \in Nat /\ StoredRows \in Nat \ {0} /\ MaxPieces \in Nat

VARIABLES
    calls,      \* number of tool calls made; a call is named by its number
    lateLabel,  \* an action was announced only when it had ended
    call,       \* the call that is executed, or NoCallYet
    held,       \* pendingCompletedActivity
    pieces,     \* number of pieces of prose sent
    answerTurn, \* "on", or how the gateway's turn ended
    recorded,   \* assistantParts
    stored,     \* the parts of the saved message, or NotSaved
    wire,       \* frames on their way to the browser
    screen      \* the message the browser shows and what it holds back

transcriptVars == <<calls, lateLabel, call, held, pieces, answerTurn, recorded, stored, wire, screen>>

NoCallYet == [id |-> 0]
NoActivity == [type |-> "none"]
NotSaved == <<[type |-> "unsaved"]>>
Kinds == {"plain", "image", "access"}

\* rows is thinkingEvents (toolActivities is kept equal to it); parts is empty while
\* currentAiMessageIndex is -1.
BlankScreen == [rows |-> <<>>, parts |-> <<>>, grids |-> <<>>, access |-> <<>>, saw |-> "on"]

TranscriptTypeOK ==
    /\ calls \in 0..MaxCalls /\ lateLabel \in BOOLEAN /\ pieces \in 0..MaxPieces
    /\ call.id \in 0..MaxCalls /\ held.type \in {"none", "activity"}
    /\ answerTurn \in {"on", "done", "failed", "cancelled"}
    /\ screen.saw \in {"on", "stopped", "done", "failed", "cancelled"}
    /\ \A p \in {recorded[i] : i \in DOMAIN recorded} \union {screen.parts[i] : i \in DOMAIN screen.parts} :
           p.type \in {"text", "reasoning", "products", "image", "guest_order_access"}

TranscriptInit ==
    /\ calls = 0 /\ lateLabel = FALSE /\ call = NoCallYet /\ held = NoActivity
    /\ pieces = 0 /\ answerTurn = "on"
    /\ recorded = <<>> /\ stored = NotSaved /\ wire = <<>> /\ screen = BlankScreen
-----------------------------------------------------------------------------
\* Frames and parts.
ProseFrame(n) == [type |-> "chunk", piece |-> n]
ActivityFrame(id, op, state) == [type |-> "activity", id |-> id, op |-> op, state |-> state]
Text(ps) == [type |-> "text", pieces |-> ps]
Reasoning(rows) == [type |-> "reasoning", rows |-> rows]
Image(id, status) == [type |-> "image", id |-> id, status |-> status]
Products(id) == [type |-> "products", grid |-> id]
Access(id) == [type |-> "guest_order_access", form |-> id]

OfType(parts, type) ==
    Joined([i \in DOMAIN parts |-> IF parts[i].type = type THEN <<parts[i]>> ELSE <<>>])
LastOf(S) == IF S = {} THEN 0 ELSE CHOOSE i \in S : \A j \in S : j <= i
PartAt(parts, type) == LastOf({i \in DOMAIN parts : parts[i].type = type})
RowAt(rows, id) == LastOf({i \in DOMAIN rows : rows[i].id = id})

\* Both sides add prose to the last part if that is text, and keep one reasoning part in front.
AddText(parts, n) ==
    IF parts # <<>> /\ Last(parts).type = "text"
    THEN [parts EXCEPT ![Len(parts)].pieces = Append(@, n)]
    ELSE Append(parts, Text(<<n>>))
WithRows(parts, rows) ==
    IF PartAt(parts, "reasoning") = 0 THEN <<Reasoning(rows)>> \o parts
    ELSE [parts EXCEPT ![PartAt(parts, "reasoning")].rows = rows]
-----------------------------------------------------------------------------
(* The gateway: recordOutboundAssistantPart *)

\* A call continues the last row of its operation; a row that runs again moves to the end.
RowOfCall(rows, f) ==
    IF RowAt(rows, f.id) # 0 THEN RowAt(rows, f.id)
    ELSE IF rows # <<>> /\ Last(rows).op = f.op THEN Len(rows) ELSE 0
RecordActivity(rows, f) ==
    LET at == RowOfCall(rows, f) IN
    IF at = 0 THEN Append(rows, [id |-> f.id, op |-> f.op, state |-> f.state])
    ELSE LET row == [rows[at] EXCEPT !.state = f.state] IN
         IF f.state = "running" /\ rows[at].state # "running"
         THEN Append(RemoveAt(rows, at), row)
         ELSE [rows EXCEPT ![at] = row]

RecordProducts(parts, f) ==
    IF PartAt(parts, "products") = 0 THEN Append(parts, f)
    ELSE [parts EXCEPT ![PartAt(parts, "products")] = f]

Record(parts, f) ==
    CASE f.type = "chunk" -> AddText(parts, f.piece)
      [] f.type = "activity" ->
           WithRows(parts, RecordActivity(
               IF PartAt(parts, "reasoning") = 0 THEN <<>>
               ELSE parts[PartAt(parts, "reasoning")].rows, f))
      [] f.type = "products" -> RecordProducts(parts, f)
      [] f.type = "image" /\ f.status = "complete" -> Append(parts, f)
      [] f.type = "guest_order_access" -> Append(parts, f)
      [] OTHER -> parts
-----------------------------------------------------------------------------
(* The browser: handleStreamMessage *)

\* The latest row of the operation that no other action has followed yet (the mutant takes
\* any row of the operation).
LatestRow(rows, op) == LastOf({i \in DOMAIN rows : rows[i].op = op})
CurrentRow(rows, op) == LastOf({i \in DOMAIN rows : rows[i].current /\ rows[i].op = op})

\* A new action ends the rows before it.
EndPrevious(rows, id) ==
    [i \in DOMAIN rows |-> IF rows[i].id = id THEN rows[i]
        ELSE [rows[i] EXCEPT !.current = FALSE,
                             !.state = IF @ = "running" THEN "completed" ELSE @]]
ShowRow(rows, f) ==
    LET continued == CurrentRow(rows, f.op)
        id == IF continued # 0 THEN rows[continued].id ELSE f.id
        ended == IF f.state = "running" /\ continued = 0 THEN EndPrevious(rows, id) ELSE rows
        at == RowAt(ended, id)
        row == [id |-> id, op |-> f.op, state |-> f.state,
                current |-> f.state = "running" \/ at = 0 \/ ended[at].current]
    IN IF at = 0 THEN Append(ended, row)
       ELSE IF f.state = "running" /\ ended[at].state # "running" /\ continued = 0
       THEN Append(RemoveAt(ended, at), row)
       ELSE [ended EXCEPT ![at] = row]
ShowActivity(s, f) ==
    LET rows == ShowRow(s.rows, f) IN [s EXCEPT !.rows = rows, !.parts = WithRows(@, rows)]

\* upsertGeneratedImagePart
ShowImage(parts, f) ==
    LET at == LastOf({i \in DOMAIN parts : parts[i].type = "image" /\ parts[i].id = f.id})
    IN IF at = 0 THEN Append(parts, f) ELSE [parts EXCEPT ![at] = f]

\* flushPendingReasoningParts, flushPendingProductParts and flushPendingGuestOrderAccessParts:
\* what was held back follows the prose.
FlushReasoning(s) ==
    IF s.rows = <<>> THEN s ELSE [s EXCEPT !.parts = WithRows(@, s.rows), !.rows = <<>>]
FlushProducts(s) ==
    IF s.grids = <<>> THEN s
    ELSE [s EXCEPT !.grids = <<>>, !.parts = RecordProducts(@, Last(s.grids))]
FlushAccess(s) == [s EXCEPT !.access = <<>>, !.parts = @ \o s.access]
ShowDone(s) == [FlushAccess(FlushProducts(FlushReasoning(s))) EXCEPT !.saw = "done"]

\* Every other end drops it.
ShowEnd(s, how) ==
    [s EXCEPT !.grids = <<>>, !.access = <<>>, !.saw = how,
              !.rows = IF how = "cancelled" THEN <<>> ELSE @]

Show(s, f) ==
    CASE f.type = "chunk" -> [s EXCEPT !.parts = AddText(@, f.piece)]
      [] f.type = "activity" -> ShowActivity(s, f)
      [] f.type = "image" -> [s EXCEPT !.parts = ShowImage(@, f)]
      [] f.type = "products" -> [s EXCEPT !.grids = <<f>>]
      [] f.type = "guest_order_access" -> [s EXCEPT !.access = Append(@, f)]
      [] f.type = "done" -> ShowDone(s)
      [] OTHER -> ShowEnd(s, f.type)

\* shouldIgnoreStreamMessage: frames of a stopped request are dropped.
Deliver ==
    /\ wire # <<>> /\ wire' = Tail(wire)
    /\ screen' = IF screen.saw = "on" THEN Show(screen, Head(wire)) ELSE screen
    /\ UNCHANGED <<calls, lateLabel, call, held, pieces, answerTurn, recorded, stored>>
StopResponse ==
    /\ screen.saw = "on" /\ screen' = ShowEnd(screen, "stopped")
    /\ UNCHANGED <<calls, lateLabel, call, held, pieces, answerTurn, recorded, stored, wire>>
-----------------------------------------------------------------------------
(* The turn: the provider's tool calls and prose *)

Recorded(parts, frames) ==
    LET after[n \in 0..Len(frames)] ==
            IF n = 0 THEN parts ELSE Record(after[n - 1], frames[n])
    IN after[Len(frames)]

\* wrappedWs.send; the gateway runs ahead of the browser by the frames of one step.
Send(frames) ==
    /\ wire = <<>> /\ wire' = frames
    /\ recorded' = Recorded(recorded, frames)

\* completePendingActivity: not while its own operation goes on.
Release(exceptOp) ==
    IF held = NoActivity \/ held.op = exceptOp THEN <<>> ELSE <<held>>

\* A call that passed its guards.  A search is labelled in each of its states, another
\* tool as the model labelled it: always, only when it has ended, or never.
StartCall(op, kind, labels) ==
    /\ answerTurn = "on" /\ call = NoCallYet /\ calls < MaxCalls
    /\ op \in Searches => kind = "plain" /\ labels = "always"
    /\ calls' = calls + 1 /\ lateLabel' = (lateLabel \/ labels = "at_end")
    /\ call' = [id |-> calls + 1, op |-> op, kind |-> kind, labels |-> labels]
    /\ held' = IF Release(op) = <<>> THEN held ELSE NoActivity
    /\ Send(Release(op)
            \o (IF labels = "always" THEN <<ActivityFrame(calls + 1, op, "running")>> ELSE <<>>)
            \o (IF kind = "image" THEN <<Image(calls + 1, "generating")>> ELSE <<>>))
    /\ UNCHANGED <<pieces, answerTurn, stored, screen>>

\* Its result: frames for the shopper first, then the activity.  A completion and a
\* generateImage that has to be repeated with markup (failed, but deferred) are held.
ResultFrames(ok) ==
    CASE call.kind = "image" -> <<Image(call.id, IF ok THEN "complete" ELSE "error")>>
      [] call.kind = "access" /\ ok -> <<Access(call.id)>>
      [] OTHER -> <<>>
FinishCall(ok, deferred) ==
    /\ call # NoCallYet /\ answerTurn = "on"
    /\ deferred => ~ok /\ call.kind = "plain" /\ call.op \notin Searches
    /\ LET told == ActivityFrame(call.id, call.op, IF ok THEN "completed" ELSE "failed")
           held_ == call.labels # "never" /\ (ok \/ deferred)
       IN /\ held' = IF held_ THEN told ELSE held
          /\ Send(ResultFrames(ok) \o (IF call.labels # "never" /\ ~held_ THEN <<told>> ELSE <<>>))
    /\ call' = NoCallYet
    /\ UNCHANGED <<calls, lateLabel, pieces, answerTurn, stored, screen>>

WriteProse ==
    /\ answerTurn = "on" /\ call = NoCallYet /\ pieces < MaxPieces
    /\ pieces' = pieces + 1 /\ Send(<<ProseFrame(pieces + 1)>>)
    /\ UNCHANGED <<calls, lateLabel, call, held, answerTurn, stored, screen>>

\* What is saved: normalizeStoragePart of each part, of the grids only the last one.
DistinctRows(rows) ==
    LET first == Slice(rows, StoredRows)
    IN MembersAt(first, {i \in DOMAIN first : \A j \in 1..(i - 1) : first[j].id # first[i].id})
StoragePart(p) == IF p.type = "reasoning" THEN Reasoning(DistinctRows(p.rows)) ELSE p
CoalesceProductParts(parts) ==
    MembersAt(parts, {i \in DOMAIN parts : parts[i].type = "products" => i = PartAt(parts, "products")})
StoragePayload(parts) == CoalesceProductParts([i \in DOMAIN parts |-> StoragePart(parts[i])])

\* The end of the answer: what was held, the cards, then done; no prose is an error.  The
\* message is saved in either case.
EndTurn(frames, how) ==
    /\ answerTurn = "on" /\ call = NoCallYet
    /\ answerTurn' = how /\ held' = NoActivity
    /\ Send((IF held = NoActivity THEN <<>> ELSE <<held>>) \o frames)
    /\ stored' = StoragePayload(recorded')
    /\ UNCHANGED <<calls, lateLabel, call, pieces, screen>>
FinishTurn(cards) ==
    pieces > 0 /\ EndTurn((IF cards THEN <<Products(calls)>> ELSE <<>>) \o <<[type |-> "done"]>>, "done")
FailTurn == EndTurn(<<[type |-> "failed"]>>, "failed")

\* The run is cancelled: nothing more is sent of it, its parts are saved, and the browser
\* is told.
CancelTurn ==
    /\ answerTurn = "on" /\ wire = <<>> /\ answerTurn' = "cancelled"
    /\ stored' = StoragePayload(recorded)
    /\ wire' = <<[type |-> "cancelled"]>>
    /\ UNCHANGED <<calls, lateLabel, call, held, pieces, recorded, screen>>

TranscriptNext ==
    \/ Deliver \/ StopResponse \/ WriteProse \/ FailTurn \/ CancelTurn
    \/ \E op \in Operations, kind \in Kinds, labels \in {"always", "at_end", "never"} :
           StartCall(op, kind, labels)
    \/ \E ok, deferred \in BOOLEAN : FinishCall(ok, deferred)
    \/ \E cards \in BOOLEAN : FinishTurn(cards)

TranscriptSpec == TranscriptInit /\ [][TranscriptNext]_transcriptVars
-----------------------------------------------------------------------------
\* What a reload shows: normalizeStoredAssistantMessage, then normalizeLoadedMessage.
Reloaded == StoragePayload(stored)

ProseOf(parts) ==
    Joined([i \in DOMAIN parts |-> IF parts[i].type = "text" THEN parts[i].pieces ELSE <<>>])
RowsOf(parts) ==
    IF PartAt(parts, "reasoning") = 0 THEN <<>>
    ELSE LET rows == parts[PartAt(parts, "reasoning")].rows
         IN [i \in DOMAIN rows |-> <<rows[i].id, rows[i].op, rows[i].state>>]
ImagesOf(parts) == {p \in Range(parts) : p.type = "image" /\ p.status = "complete"}
StateOf(rows, op) ==
    LET at == LastOf({i \in DOMAIN rows : rows[i][2] = op})
    IN IF at = 0 THEN "absent" ELSE rows[at][3]

StoredWhole == Len(RowsOf(recorded)) <= StoredRows

FinishedAsShown ==
    screen.saw = answerTurn /\ answerTurn \in {"done", "failed"} =>
        /\ ProseOf(Reloaded) = ProseOf(screen.parts)
        /\ ImagesOf(Reloaded) = ImagesOf(screen.parts)
        /\ OfType(Reloaded, "products") = OfType(screen.parts, "products")
        /\ answerTurn = "done" => Len(OfType(Reloaded, "guest_order_access"))
                               = Len(OfType(screen.parts, "guest_order_access"))
        /\ StoredWhole => \A op \in Operations :
               StateOf(RowsOf(Reloaded), op) = StateOf(RowsOf(screen.parts), op)
        /\ ~lateLabel => RowsOf(Reloaded) = Slice(RowsOf(screen.parts), StoredRows)
StoppedIsKept ==
    screen.saw \in {"stopped", "cancelled"} =>
        /\ IsPrefix(ProseOf(screen.parts), ProseOf(Reloaded))
        /\ ImagesOf(screen.parts) \subseteq ImagesOf(Reloaded)
        /\ StoredWhole => \A r \in Range(RowsOf(screen.parts)) :
               \E q \in Range(RowsOf(Reloaded)) : q[2] = r[2]

\* A reloaded answer is the one the shopper saw: the same prose, pictures and product
\* grid, every operation with the same end and, when each action was announced as it
\* began, the same timeline.  Of a stopped answer nothing the shopper saw is lost.  Only
\* the timeline is cut, to the rows that are stored.  (An action announced only at its end
\* does not end the row before it on the screen; cards sent in an answer that then fails
\* are shown only after a reload.)
AnswerReloadsAsShown == stored # NotSaved => FinishedAsShown /\ StoppedIsKept
=============================================================================
