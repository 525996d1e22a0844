------------------------------- MODULE ChatTurn -------------------------------
(***************************************************************************)
(* The chat turns of one WebSocket, as the Node gateway runs them.  Each   *)
(* message starts an asynchronous handler; handlers interleave at every    *)
(* await with each other, with the shopper's stop button, with a logout    *)
(* that revokes the socket and with the loss of the connection.  At most   *)
(* one turn is registered as the socket's active run.                      *)
(***************************************************************************)
EXTENDS Naturals

CONSTANTS
    Turn,       \* the chat messages of the socket
    NoTurn,     \* no run is registered
    MaxParts    \* parts the provider streams in a turn, at most

ASSUME ChatAssumption == NoTurn \notin Turn /\ MaxParts \in Nat

VARIABLES
    sock,       \* readyState: open, closing (no close event yet) or closed
    active,     \* activeRuns.get(ws)
    pc,         \* where each handler is
    cancelled,  \* run.cancelled
    aborted,    \* run.controller.signal.aborted
    lost,       \* runs whose interruptionReason is connection_lost
    frames,     \* "cancelled" frames sent for a turn
    sent,       \* parts sent to the shopper, which are the parts recorded
    asked,      \* turns whose user message is stored
    answer,     \* what became of a turn's answer
    slots       \* turns that hold a capacity lease and its heartbeat

run  == <<cancelled, aborted, lost, frames>>
vars == <<sock, active, pc, run, sent, asked, answer, slots>>

Step == {"new", "routing", "admitting", "setup", "saved",
         "checking", "queueing", "streaming",
         "persisting", "touching", "interrupting", "finishing", "ended"}

Outcome == {"final", "interrupted",     \* an assistant message is stored,
            "failed",                   \* its save was tried and failed,
            "diverted"}                 \* or somebody else was to answer

TypeOK ==
    /\ sock \in {"open", "closing", "closed"}
    /\ active \in Turn \union {NoTurn}
    /\ pc \in [Turn -> Step]
    /\ cancelled \subseteq Turn
    /\ aborted \subseteq Turn
    /\ lost \subseteq Turn
    /\ frames \in [Turn -> 0..1]
    /\ sent \in [Turn -> 0..MaxParts]
    /\ asked \subseteq Turn
    /\ answer \in [Turn -> SUBSET Outcome]
    /\ slots \subseteq Turn

Init ==
    /\ sock = "open"
    /\ active = NoTurn
    /\ pc = [t \in Turn |-> "new"]
    /\ cancelled = {} /\ aborted = {} /\ lost = {}
    /\ frames = [t \in Turn |-> 0]
    /\ sent = [t \in Turn |-> 0]
    /\ asked = {}
    /\ answer = [t \in Turn |-> {}]
    /\ slots = {}

Goto(t, step) == pc' = [pc EXCEPT ![t] = step]

IsRunCancelled(t) == t \in cancelled \/ t \in aborted

-----------------------------------------------------------------------------
(***************************************************************************)
(* The active-run registry.                                                *)
(***************************************************************************)

\* The registered run, if there is one.
Current == {active} \ {NoTurn}

\* Mutant: the frame is repeated whenever a turn notices its cancellation.
NotifyAgain(S) ==
    frames' = [t \in Turn |-> IF t \in S /\ sock = "open" THEN frames[t] + 1 ELSE frames[t]]

\* The runs in S are told of their cancellation, once, on an open socket.
NotifyCancelled(S) ==
    frames' = [t \in Turn |-> IF t \in S /\ frames[t] = 0 /\ sock = "open"
                              THEN 1 ELSE frames[t]]

\* Mutant: the run is flagged, and nothing interrupts what it waits for.
CancelWithoutAbort(reason) ==
    /\ cancelled' = cancelled \union Current
    /\ lost' = IF reason = "connection_lost" THEN lost \union Current ELSE lost \ Current
    /\ NotifyCancelled(Current)
    /\ UNCHANGED aborted

\* cancelActiveRun; a reason replaces the reason given before.
CancelActiveRun(reason) ==
    /\ cancelled' = cancelled \union Current
    /\ aborted' = aborted \union Current
    /\ lost' = IF reason = "connection_lost" THEN lost \union Current ELSE lost \ Current
    /\ NotifyCancelled(Current)

\* Mutant: whichever run is registered is cleared.
ClearAnyRun(t) == active' = NoTurn

\* A handler that ends clears its own run, not a successor's.
ClearActiveRun(t) == active' = IF active = t THEN NoTurn ELSE active

-----------------------------------------------------------------------------
(***************************************************************************)
(* The handler: routing, admission and the conversation's setup.           *)
(***************************************************************************)

\* A message arrives; the rate limit and the configuration are awaited.
Route(t) ==
    /\ sock = "open"
    /\ pc[t] = "new"
    /\ Goto(t, "routing")
    /\ UNCHANGED <<sock, active, run, sent, asked, answer, slots>>

RateLimited(t) ==
    /\ pc[t] = "routing"
    /\ Goto(t, "ended")
    /\ UNCHANGED <<sock, active, run, sent, asked, answer, slots>>

\* createActiveRun supersedes the run before, also when the socket is gone.
CreateActiveRun(t) ==
    /\ pc[t] = "routing"
    /\ CancelActiveRun("user_stop")
    /\ active' = t
    /\ Goto(t, "admitting")
    /\ UNCHANGED <<sock, sent, asked, answer, slots>>

Admitted(t) ==
    /\ pc[t] = "admitting"
    /\ Goto(t, "setup")
    /\ UNCHANGED <<sock, active, run, sent, asked, answer, slots>>

\* The image quota cannot be read: nobody clears the run.
AdmissionThrows(t) ==
    /\ pc[t] = "admitting"
    /\ Goto(t, "ended")
    /\ UNCHANGED <<sock, active, run, sent, asked, answer, slots>>

\* The early returns: invalid or refused messages, a closed support case, a
\* conversation that cannot be set up, also after the message was stored.
Reject(t) ==
    /\ pc[t] \in {"admitting", "setup", "saved"}
    /\ ClearActiveRun(t)
    /\ Goto(t, "ended")
    /\ UNCHANGED <<sock, run, sent, asked, answer, slots>>

\* Continuations and resumed actions store no user message, and for a
\* customer a failed save is only logged.
SaveUserMessage(t) ==
    /\ pc[t] = "setup"
    /\ asked' \in {asked, asked \union {t}}
    /\ Goto(t, "saved")
    /\ UNCHANGED <<sock, active, run, sent, answer, slots>>

Answered(t, how) == answer' = [answer EXCEPT ![t] = @ \union {how}]

\* A run cancelled meanwhile ends here; nothing is stored for it.
StartRun(t) ==
    /\ pc[t] = "saved"
    /\ IF IsRunCancelled(t)
       THEN NotifyCancelled({t}) /\ Goto(t, "finishing")
       ELSE UNCHANGED frames /\ Goto(t, "checking")
    /\ UNCHANGED <<sock, active, cancelled, aborted, lost, sent, asked, answer, slots>>

\* An agent has taken the case over, or the service is disabled.
Diverted(t) ==
    /\ pc[t] = "checking"
    /\ Answered(t, "diverted")
    /\ Goto(t, "finishing")
    /\ UNCHANGED <<sock, active, run, sent, asked, slots>>

AwaitCapacity(t) ==
    /\ pc[t] = "checking"
    /\ Goto(t, "queueing")
    /\ UNCHANGED <<sock, active, run, sent, asked, answer, slots>>

-----------------------------------------------------------------------------
(***************************************************************************)
(* The provider's stream and what is stored of it.                         *)
(***************************************************************************)

\* The catch block; any error may look like an abort, and then counts as one.
Catch(t) ==
    \/ Goto(t, "interrupting")
    \/ ~IsRunCancelled(t) /\ Goto(t, "finishing")

\* The lease is granted even when the run was cancelled while it waited.
CapacityGranted(t) ==
    /\ pc[t] = "queueing"
    /\ slots' = slots \union {t}
    /\ Goto(t, "streaming")
    /\ UNCHANGED <<sock, active, run, sent, asked, answer>>

\* The queue is full, the wait is over or the run was cancelled; or a call
\* made while the turn is set up for the stream fails.
CapacityRefused(t) ==
    /\ pc[t] \in {"checking", "queueing"}
    /\ Catch(t)
    /\ UNCHANGED <<sock, active, run, sent, asked, answer, slots>>

\* Mutant: parts are sent as long as the socket is open.
SendToOpenSocket(t) ==
    /\ pc[t] = "streaming"
    /\ sock = "open"
    /\ sent[t] < MaxParts
    /\ sent' = [sent EXCEPT ![t] = @ + 1]
    /\ UNCHANGED <<sock, active, pc, run, asked, answer, slots>>

\* wrappedWs.send: parts for a cancelled run or a lost socket are dropped.
SendPart(t) ==
    /\ pc[t] = "streaming"
    /\ ~IsRunCancelled(t) /\ sock = "open"
    /\ sent[t] < MaxParts
    /\ sent' = [sent EXCEPT ![t] = @ + 1]
    /\ UNCHANGED <<sock, active, pc, run, asked, answer, slots>>

\* A failed renewal aborts the run without cancelling it.
HeartbeatFails(t) ==
    /\ t \in slots /\ pc[t] # "finishing"
    /\ aborted' = aborted \union {t}
    /\ UNCHANGED <<sock, active, pc, cancelled, lost, frames, sent, asked, answer, slots>>

\* Mutant: whatever was streamed is stored as the answer.
StreamEndsUnchecked(t) ==
    /\ pc[t] = "streaming"
    /\ Goto(t, "persisting")
    /\ UNCHANGED <<sock, active, run, sent, asked, answer, slots>>

\* The orchestrator returns; its own "cancelled" result implies the run's.
StreamEnds(t) ==
    /\ pc[t] = "streaming"
    /\ Goto(t, IF IsRunCancelled(t) THEN "interrupting" ELSE "persisting")
    /\ UNCHANGED <<sock, active, run, sent, asked, answer, slots>>

StreamThrows(t) ==
    /\ pc[t] = "streaming"
    /\ Catch(t)
    /\ UNCHANGED <<sock, active, run, sent, asked, answer, slots>>

\* persistAssistantResponse; an empty answer is not stored.
PersistAnswer(t) ==
    /\ pc[t] = "persisting"
    /\ \/ sent[t] = 0 /\ Goto(t, "finishing") /\ UNCHANGED answer
       \/ sent[t] > 0 /\ Goto(t, "touching") /\ Answered(t, "final")
       \/ sent[t] > 0 /\ Catch(t) /\ Answered(t, "failed")
    /\ UNCHANGED <<sock, active, run, sent, asked, slots>>

\* The conversation is touched after the message is stored, and may fail.
TouchConversation(t) ==
    /\ pc[t] = "touching"
    /\ \/ Goto(t, "finishing")
       \/ Catch(t)
    /\ UNCHANGED <<sock, active, run, sent, asked, answer, slots>>

\* persistInterruptedAssistantResponse, which stores empty answers too.
PersistInterrupted(t) ==
    /\ pc[t] = "interrupting"
    /\ Answered(t, "interrupted") \/ Answered(t, "failed")
    /\ NotifyCancelled({t})
    /\ Goto(t, "finishing")
    /\ UNCHANGED <<sock, active, cancelled, aborted, lost, sent, asked, slots>>

\* The finally block: the lease is released, then the run is cleared.
Finish(t) ==
    /\ pc[t] = "finishing"
    /\ slots' = slots \ {t}
    /\ ClearActiveRun(t)
    /\ Goto(t, "ended")
    /\ UNCHANGED <<sock, run, sent, asked, answer>>

-----------------------------------------------------------------------------
(***************************************************************************)
(* The shopper, the store and the network.                                 *)
(***************************************************************************)

\* The message waits for its rate limit, so the socket may be gone by now.
CancelChat ==
    /\ CancelActiveRun("user_stop")
    /\ UNCHANGED <<sock, active, pc, sent, asked, answer, slots>>

\* A logout: the turn is stopped and the socket closed from this side.  (On a
\* socket that is closing already it does what CancelChat does.)
RevokeSession ==
    /\ sock = "open"
    /\ CancelActiveRun("user_stop")
    /\ sock' = "closing"
    /\ UNCHANGED <<active, pc, sent, asked, answer, slots>>

\* The other side goes away; the close event is still to come.
ConnectionDrops ==
    /\ sock = "open"
    /\ sock' = "closing"
    /\ UNCHANGED <<active, pc, run, sent, asked, answer, slots>>

\* cleanup, for the error and for the close event.
Cleanup ==
    /\ sock = "closing"
    /\ CancelActiveRun("connection_lost")
    /\ sock' \in {"closing", "closed"}
    /\ UNCHANGED <<active, pc, sent, asked, answer, slots>>

-----------------------------------------------------------------------------
Setup(t) ==
    \/ RateLimited(t) \/ CreateActiveRun(t) \/ Admitted(t) \/ AdmissionThrows(t)
    \/ Reject(t) \/ SaveUserMessage(t) \/ StartRun(t) \/ Diverted(t) \/ AwaitCapacity(t)

Store(t) == PersistAnswer(t) \/ TouchConversation(t) \/ PersistInterrupted(t) \/ Finish(t)

Provider(t) == CapacityGranted(t) \/ CapacityRefused(t) \/ StreamEnds(t) \/ StreamThrows(t)

Next ==
    \/ \E t \in Turn : \/ Route(t) \/ Setup(t) \/ Provider(t) \/ Store(t)
                       \/ SendPart(t) \/ HeartbeatFails(t)
    \/ CancelChat \/ ConnectionDrops \/ RevokeSession \/ Cleanup

Spec == Init /\ [][Next]_vars

\* Database calls return.  The queue and the provider promise nothing, except
\* that they end what they do for an aborted signal.
FairSpec ==
    /\ Spec
    /\ \A t \in Turn : /\ WF_vars(Setup(t)) /\ WF_vars(Store(t))
                       /\ WF_vars(t \in aborted /\ Provider(t))

-----------------------------------------------------------------------------
(***************************************************************************)
(* Properties.                                                             *)
(***************************************************************************)

Running(t) == pc[t] \notin {"new", "routing", "ended"}

\* However handlers overlap, at most one turn of the socket is running that
\* has not been cancelled, and it is the one a stop or a close would reach.
OneLiveRun ==
    \A t \in Turn : Running(t) /\ t \notin cancelled => active = t

\* As long as the socket is open, a cancelled turn has been told so exactly
\* once, whichever of stop, logout, successor, error or end came first.
CancelToldOnce == \A t \in cancelled : sock = "open" => frames[t] = 1

\* After its "cancelled" frame a turn sends no part of an answer.
CancelSilences == [][\A t \in Turn : frames[t] > 0 => sent'[t] = sent[t]]_vars

\* A turn that ended holds no capacity lease.
EndedHoldsNoSlot == \A t \in Turn : pc[t] = "ended" => t \notin slots

\* A turn cancelled before its stream ended is never stored as complete.
NeverComplete(t) == [](pc[t] = "streaming" /\ t \in cancelled => []("final" \notin answer[t]))

CancelledNeverComplete == \A t \in Turn : NeverComplete(t)

\* A cancelled turn comes to its end even if the provider never answers and
\* the queue never moves.
CancelledTurnEnds == \A t \in Turn : t \in cancelled ~> pc[t] = "ended"

\* The comments' promise: a turn whose question is stored and whose
\* connection was lost leaves a stored answer, be it empty, that marks it for
\* recovery when its handler comes to the finally block.
LostTurnIsMarked ==
    [][\A t \in asked \intersect lost :
          pc[t] # "finishing" /\ pc'[t] = "finishing" => answer'[t] # {}]_vars
=============================================================================
