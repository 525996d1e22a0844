---------------------------- MODULE ChatTurnProofs ----------------------------
(***************************************************************************)
(* Proofs about ChatTurn, for every set of turns on the socket and every   *)
(* length of the streams.                                                  *)
(***************************************************************************)
EXTENDS ChatTurn, TLAPS

\* What a notification does to the frames.
LEMMA NotifyType ==
    ASSUME TypeOK, NEW S, NotifyCancelled(S)
    PROVE  /\ frames' \in [Turn -> 0..1]
           /\ \A t \in Turn : frames'[t] = IF t \in S /\ sock = "open" THEN 1 ELSE frames[t]
BY DEF NotifyCancelled, TypeOK

\* A cancellation reaches the registered run, and no other.
LEMMA CancelEffect ==
    ASSUME TypeOK, NEW reason, CancelActiveRun(reason)
    PROVE  /\ Current = (IF active = NoTurn THEN {} ELSE {active})
           /\ Current \subseteq Turn
           /\ cancelled' = cancelled \union Current
           /\ aborted' = aborted \union Current
           /\ lost' \subseteq Turn
           /\ NotifyCancelled(Current)
BY ChatAssumption DEF CancelActiveRun, Current, TypeOK

-----------------------------------------------------------------------------
(***************************************************************************)
(* Type correctness.                                                       *)
(***************************************************************************)

LEMMA TypeInit == Init => TypeOK
BY ChatAssumption DEF Init, TypeOK, Step

LEMMA TypeSetup == ASSUME TypeOK, NEW t \in Turn, Setup(t) PROVE TypeOK'
<1> USE ChatAssumption DEF Goto, run
<1>1. CASE CreateActiveRun(t)
  BY <1>1, CancelEffect, NotifyType DEF CreateActiveRun, TypeOK, Step
<1>2. CASE StartRun(t)
  <2>1. frames' \in [Turn -> 0..1]
    BY <1>2, NotifyType DEF StartRun, TypeOK
  <2>2. QED
    BY <1>2, <2>1 DEF StartRun, TypeOK, Step
<1>3. CASE RateLimited(t) \/ Admitted(t) \/ AdmissionThrows(t) \/ AwaitCapacity(t)
  BY <1>3 DEF RateLimited, Admitted, AdmissionThrows, AwaitCapacity, TypeOK, Step
<1>4. CASE Reject(t) \/ SaveUserMessage(t)
  BY <1>4 DEF Reject, ClearActiveRun, SaveUserMessage, TypeOK, Step
<1>5. CASE Diverted(t)
  BY <1>5 DEF Diverted, Answered, TypeOK, Outcome, Step
<1>6. QED
  BY <1>1, <1>2, <1>3, <1>4, <1>5 DEF Setup

LEMMA TypeProvider ==
    ASSUME TypeOK, NEW t \in Turn, Provider(t) \/ Route(t) \/ SendPart(t) \/ HeartbeatFails(t)
    PROVE  TypeOK'
<1> USE ChatAssumption DEF Goto, Catch, run, TypeOK, Step
<1>1. CASE Route(t) \/ HeartbeatFails(t)
  BY <1>1 DEF Route, HeartbeatFails
<1>2. CASE SendPart(t)
  BY <1>2 DEF SendPart
<1>3. CASE CapacityGranted(t) \/ CapacityRefused(t)
  BY <1>3 DEF CapacityGranted, CapacityRefused
<1>4. CASE StreamEnds(t) \/ StreamThrows(t)
  BY <1>4 DEF StreamEnds, StreamThrows
<1>5. QED
  BY <1>1, <1>2, <1>3, <1>4 DEF Provider

LEMMA TypeStore == ASSUME TypeOK, NEW t \in Turn, Store(t) PROVE TypeOK'
<1> USE ChatAssumption DEF Goto, Catch, run
<1>1. CASE PersistAnswer(t)
  BY <1>1 DEF PersistAnswer, Answered, TypeOK, Outcome, Step
<1>2. CASE TouchConversation(t)
  BY <1>2 DEF TouchConversation, TypeOK, Step
<1>3. CASE PersistInterrupted(t)
  BY <1>3, NotifyType DEF PersistInterrupted, Answered, TypeOK, Outcome, Step
<1>4. CASE Finish(t)
  BY <1>4 DEF Finish, ClearActiveRun, TypeOK, Step
<1>5. QED
  BY <1>1, <1>2, <1>3, <1>4 DEF Store

LEMMA TypeStep == TypeOK /\ [Next]_vars => TypeOK'
<1> SUFFICES ASSUME TypeOK, [Next]_vars PROVE TypeOK'
  OBVIOUS
<1>1. CASE CancelChat \/ RevokeSession \/ Cleanup
  BY <1>1, CancelEffect, NotifyType DEF CancelChat, RevokeSession, Cleanup, TypeOK
<1>2. CASE ConnectionDrops \/ UNCHANGED vars
  BY <1>2 DEF ConnectionDrops, vars, run, TypeOK
<1>3. QED
  BY <1>1, <1>2, TypeSetup, TypeProvider, TypeStore DEF Next

\* Every reachable state is well typed: no turn is told twice.
THEOREM TypeCorrect == Spec => []TypeOK
<1>1. QED
  BY TypeInit, TypeStep, PTL DEF Spec

-----------------------------------------------------------------------------
(***************************************************************************)
(* One live run.  The property is inductive as it stands.                  *)
(***************************************************************************)

LEMMA LiveInit == Init => OneLiveRun
BY DEF Init, OneLiveRun, Running

\* Steps that leave registry and flags alone and start no run.
LEMMA LiveQuiet ==
    ASSUME TypeOK, OneLiveRun, UNCHANGED <<active, cancelled>>,
           \A t \in Turn : Running(t)' => Running(t)
    PROVE  OneLiveRun'
BY DEF OneLiveRun

\* A handler that ends clears the registry of its own run only.
LEMMA LiveClear ==
    ASSUME TypeOK, OneLiveRun, NEW t \in Turn, ClearActiveRun(t), Goto(t, "ended"),
           UNCHANGED cancelled
    PROVE  OneLiveRun'
BY DEF OneLiveRun, ClearActiveRun, Goto, Running, TypeOK

LEMMA LiveStep == TypeOK /\ OneLiveRun /\ [Next]_vars => OneLiveRun'
<1> SUFFICES ASSUME TypeOK, OneLiveRun, [Next]_vars PROVE OneLiveRun'
  OBVIOUS
<1>1. ASSUME NEW t \in Turn, CreateActiveRun(t) PROVE OneLiveRun'
  BY <1>1, CancelEffect, ChatAssumption
     DEF CreateActiveRun, OneLiveRun, Running, Goto, TypeOK
<1>2. ASSUME NEW t \in Turn, Reject(t) \/ Finish(t) PROVE OneLiveRun'
  BY <1>2, LiveClear DEF Reject, Finish, run
<1>3. ASSUME NEW t \in Turn,
             \/ Route(t) \/ RateLimited(t) \/ Admitted(t) \/ AdmissionThrows(t)
             \/ SaveUserMessage(t) \/ StartRun(t) \/ Diverted(t) \/ AwaitCapacity(t)
      PROVE  OneLiveRun'
  <2>1. UNCHANGED <<active, cancelled>>
    BY <1>3 DEF Route, RateLimited, Admitted, AdmissionThrows, SaveUserMessage,
         StartRun, Diverted, AwaitCapacity, run
  <2>2. \A u \in Turn : Running(u)' => Running(u)
    BY <1>3 DEF Route, RateLimited, Admitted, AdmissionThrows, SaveUserMessage,
         StartRun, Diverted, AwaitCapacity, Running, Goto, TypeOK
  <2>3. QED
    BY <2>1, <2>2, LiveQuiet
<1>4. ASSUME NEW t \in Turn,
             \/ Provider(t) \/ SendPart(t) \/ HeartbeatFails(t)
             \/ PersistAnswer(t) \/ TouchConversation(t) \/ PersistInterrupted(t)
      PROVE  OneLiveRun'
  <2> USE DEF Provider, CapacityGranted, CapacityRefused, StreamEnds, StreamThrows,
           SendPart, HeartbeatFails, PersistAnswer, TouchConversation, PersistInterrupted
  <2>1. UNCHANGED <<active, cancelled>>
    BY <1>4 DEF run
  <2>2. \A u \in Turn : Running(u)' => Running(u)
    BY <1>4 DEF Running, Goto, Catch, TypeOK
  <2>3. QED
    BY <2>1, <2>2, LiveQuiet
<1>5. CASE CancelChat \/ RevokeSession \/ Cleanup
  BY <1>5, CancelEffect
     DEF CancelChat, RevokeSession, Cleanup, OneLiveRun, Running
<1>6. CASE ConnectionDrops \/ UNCHANGED vars
  BY <1>6 DEF ConnectionDrops, vars, run, OneLiveRun, Running
<1>7. QED
  BY <1>1, <1>2, <1>3, <1>4, <1>5, <1>6 DEF Next, Setup, Store

\* At most one running turn has not been cancelled, and a stop reaches it.
THEOREM AtMostOneLiveRun == Spec => []OneLiveRun
<1>1. QED
  BY TypeInit, TypeStep, LiveInit, LiveStep, PTL DEF Spec

-----------------------------------------------------------------------------
(***************************************************************************)
(* Telling the shopper.  For the parts that follow the frame the invariant *)
(* is that only a cancelled or a finished turn was told.                   *)
(***************************************************************************)

ToldIsOver ==
    \A t \in Turn : frames[t] > 0 => IsRunCancelled(t) \/ pc[t] \in {"finishing", "ended"}

ToldInv == CancelToldOnce /\ ToldIsOver

LEMMA ToldInit == Init => ToldInv
BY DEF Init, ToldInv, CancelToldOnce, ToldIsOver

\* Steps of a handler that send no frame and do not leave the finally block.
LEMMA ToldQuiet ==
    ASSUME TypeOK, ToldInv, UNCHANGED <<sock, cancelled, frames>>, aborted \subseteq aborted',
           \A t \in Turn : pc[t] \in {"finishing", "ended"}
                               => pc'[t] \in {"finishing", "ended"}
    PROVE  ToldInv'
BY DEF ToldInv, CancelToldOnce, ToldIsOver, IsRunCancelled, TypeOK

LEMMA ToldStep == TypeOK /\ ToldInv /\ [Next]_vars => ToldInv'
<1> SUFFICES ASSUME TypeOK, ToldInv, [Next]_vars PROVE ToldInv'
  OBVIOUS
<1>1. ASSUME NEW t \in Turn, CreateActiveRun(t) PROVE ToldInv'
  BY <1>1, CancelEffect, NotifyType
     DEF CreateActiveRun, ToldInv, CancelToldOnce, ToldIsOver, IsRunCancelled, Goto, TypeOK
<1>2. CASE CancelChat \/ RevokeSession \/ Cleanup
  BY <1>2, CancelEffect, NotifyType
     DEF CancelChat, RevokeSession, Cleanup, ToldInv, CancelToldOnce, ToldIsOver,
         IsRunCancelled, TypeOK
<1>3. ASSUME NEW t \in Turn, StartRun(t) PROVE ToldInv'
  BY <1>3, NotifyType
     DEF StartRun, ToldInv, CancelToldOnce, ToldIsOver, IsRunCancelled, Goto, TypeOK
<1>4. ASSUME NEW t \in Turn, PersistInterrupted(t) PROVE ToldInv'
  BY <1>4, NotifyType
     DEF PersistInterrupted, ToldInv, CancelToldOnce, ToldIsOver, IsRunCancelled, Goto, TypeOK
<1>5. ASSUME NEW t \in Turn,
             \/ Route(t) \/ RateLimited(t) \/ Admitted(t) \/ AdmissionThrows(t)
             \/ Reject(t) \/ SaveUserMessage(t) \/ Diverted(t) \/ AwaitCapacity(t)
      PROVE  ToldInv'
  <2> USE DEF Route, RateLimited, Admitted, AdmissionThrows, Reject, SaveUserMessage,
           Diverted, AwaitCapacity
  <2>1. UNCHANGED <<sock, cancelled, frames>> /\ aborted \subseteq aborted'
    BY <1>5 DEF run
  <2>2. \A u \in Turn : pc[u] \in {"finishing", "ended"} => pc'[u] \in {"finishing", "ended"}
    BY <1>5 DEF Goto, TypeOK
  <2>3. QED
    BY <2>1, <2>2, ToldQuiet
<1>6. ASSUME NEW t \in Turn,
             \/ Provider(t) \/ SendPart(t) \/ HeartbeatFails(t)
             \/ PersistAnswer(t) \/ TouchConversation(t) \/ Finish(t)
      PROVE  ToldInv'
  <2> USE DEF Provider, CapacityGranted, CapacityRefused, StreamEnds, StreamThrows,
           SendPart, HeartbeatFails, PersistAnswer, TouchConversation, Finish
  <2>1. UNCHANGED <<sock, cancelled, frames>> /\ aborted \subseteq aborted'
    BY <1>6 DEF run
  <2>2. \A u \in Turn : pc[u] \in {"finishing", "ended"} => pc'[u] \in {"finishing", "ended"}
    BY <1>6 DEF Goto, Catch, TypeOK
  <2>3. QED
    BY <2>1, <2>2, ToldQuiet
<1>7. CASE ConnectionDrops \/ UNCHANGED vars
  BY <1>7 DEF ConnectionDrops, vars, run, ToldInv, CancelToldOnce, ToldIsOver, IsRunCancelled
<1>8. QED
  BY <1>1, <1>2, <1>3, <1>4, <1>5, <1>6, <1>7 DEF Next, Setup, Store

\* While the socket is open every cancelled turn has been told exactly once.
THEOREM ShopperIsToldOnce == Spec => []CancelToldOnce
<1>1. ToldInv => CancelToldOnce
  BY DEF ToldInv
<1>2. QED
  BY <1>1, TypeInit, TypeStep, ToldInit, ToldStep, PTL DEF Spec

\* No part of an answer follows a turn's cancellation frame.
THEOREM CancellationSilences == Spec => CancelSilences
<1>1. TypeOK /\ ToldInv /\ [Next]_vars
          => [\A t \in Turn : frames[t] > 0 => sent'[t] = sent[t]]_vars
  <2> SUFFICES ASSUME TypeOK, ToldInv, [Next]_vars, NEW u \in Turn, frames[u] > 0,
                      ~ UNCHANGED vars
               PROVE  sent'[u] = sent[u]
    OBVIOUS
  <2>1. ASSUME NEW t \in Turn, SendPart(t) PROVE sent'[u] = sent[u]
    BY <2>1 DEF SendPart, ToldInv, ToldIsOver, TypeOK
  <2>2. ASSUME NEW t \in Turn, Route(t) \/ Setup(t) PROVE sent'[u] = sent[u]
    BY <2>2 DEF Route, Setup, RateLimited, CreateActiveRun, Admitted, AdmissionThrows,
         Reject, SaveUserMessage, StartRun, Diverted, AwaitCapacity
  <2>3. ASSUME NEW t \in Turn, Provider(t) \/ HeartbeatFails(t) \/ Store(t)
        PROVE  sent'[u] = sent[u]
    BY <2>3 DEF Provider, CapacityGranted, CapacityRefused, StreamEnds, StreamThrows,
         HeartbeatFails, Store, PersistAnswer, TouchConversation, PersistInterrupted, Finish
  <2>4. CASE CancelChat \/ RevokeSession \/ ConnectionDrops \/ Cleanup
    BY <2>4 DEF CancelChat, RevokeSession, ConnectionDrops, Cleanup
  <2>5. QED
    BY <2>1, <2>2, <2>3, <2>4 DEF Next
<1>2. QED
  BY <1>1, TypeInit, TypeStep, ToldInit, ToldStep, PTL DEF Spec, CancelSilences

-----------------------------------------------------------------------------
(***************************************************************************)
(* The lease: only a handler that has its finally block before it holds    *)
(* one.                                                                    *)
(***************************************************************************)

Guarded == {"streaming", "persisting", "touching", "interrupting", "finishing"}

SlotInv == \A t \in slots : pc[t] \in Guarded

LEMMA SlotStep == TypeOK /\ SlotInv /\ [Next]_vars => SlotInv'
<1> SUFFICES ASSUME TypeOK, SlotInv, [Next]_vars PROVE SlotInv'
  OBVIOUS
<1> USE DEF SlotInv, Guarded, Goto, TypeOK
<1>1. ASSUME NEW t \in Turn, Route(t) \/ Setup(t) PROVE SlotInv'
  BY <1>1 DEF Route, Setup, RateLimited, CreateActiveRun, Admitted, AdmissionThrows,
       Reject, SaveUserMessage, StartRun, Diverted, AwaitCapacity
<1>2. ASSUME NEW t \in Turn, Provider(t) \/ SendPart(t) \/ HeartbeatFails(t) PROVE SlotInv'
  BY <1>2 DEF Provider, CapacityGranted, CapacityRefused, StreamEnds, StreamThrows,
       SendPart, HeartbeatFails, Catch
<1>3. ASSUME NEW t \in Turn, Store(t) PROVE SlotInv'
  BY <1>3 DEF Store, PersistAnswer, TouchConversation, PersistInterrupted, Finish, Catch
<1>4. CASE CancelChat \/ RevokeSession \/ ConnectionDrops \/ Cleanup
  BY <1>4 DEF CancelChat, RevokeSession, ConnectionDrops, Cleanup
<1>5. CASE UNCHANGED vars
  BY <1>5 DEF vars
<1>6. QED
  BY <1>1, <1>2, <1>3, <1>4, <1>5 DEF Next

\* No handler ends without giving its capacity lease back.
THEOREM LeaseIsGivenBack == Spec => []EndedHoldsNoSlot
<1>1. Init => SlotInv
  BY DEF Init, SlotInv
<1>2. SlotInv => EndedHoldsNoSlot
  BY DEF SlotInv, Guarded, EndedHoldsNoSlot
<1>3. QED
  BY <1>1, <1>2, TypeInit, TypeStep, SlotStep, PTL DEF Spec

-----------------------------------------------------------------------------
(***************************************************************************)
(* A cancelled stream is never stored as complete: no answer is final      *)
(* before its stream ended, and a turn cancelled by then stays on the path *)
(* of the interrupted.                                                     *)
(***************************************************************************)

NoEarlyFinal ==
    \A t \in Turn : pc[t] \notin {"touching", "interrupting", "finishing", "ended"}
                        => "final" \notin answer[t]

Interrupted(t) ==
    /\ t \in cancelled
    /\ pc[t] \in {"streaming", "interrupting", "finishing", "ended"}
    /\ "final" \notin answer[t]

LEMMA FinalStep == TypeOK /\ NoEarlyFinal /\ [Next]_vars => NoEarlyFinal'
<1> SUFFICES ASSUME TypeOK, NoEarlyFinal, [Next]_vars PROVE NoEarlyFinal'
  OBVIOUS
<1> USE DEF NoEarlyFinal, Goto, Answered, TypeOK
<1>1. ASSUME NEW t \in Turn, Route(t) \/ Setup(t) PROVE NoEarlyFinal'
  BY <1>1 DEF Route, Setup, RateLimited, CreateActiveRun, Admitted, AdmissionThrows,
       Reject, SaveUserMessage, StartRun, Diverted, AwaitCapacity
<1>2. ASSUME NEW t \in Turn, Provider(t) \/ SendPart(t) \/ HeartbeatFails(t)
      PROVE  NoEarlyFinal'
  BY <1>2 DEF Provider, CapacityGranted, CapacityRefused, StreamEnds, StreamThrows,
       SendPart, HeartbeatFails, Catch
<1>3. ASSUME NEW t \in Turn, Store(t) PROVE NoEarlyFinal'
  BY <1>3 DEF Store, PersistAnswer, TouchConversation, PersistInterrupted, Finish, Catch
<1>4. CASE CancelChat \/ RevokeSession \/ ConnectionDrops \/ Cleanup
  BY <1>4 DEF CancelChat, RevokeSession, ConnectionDrops, Cleanup
<1>5. CASE UNCHANGED vars
  BY <1>5 DEF vars
<1>6. QED
  BY <1>1, <1>2, <1>3, <1>4, <1>5 DEF Next

LEMMA InterruptedStep ==
    ASSUME NEW u \in Turn
    PROVE  TypeOK /\ Interrupted(u) /\ [Next]_vars => Interrupted(u)'
<1> SUFFICES ASSUME TypeOK, Interrupted(u), [Next]_vars PROVE Interrupted(u)'
  OBVIOUS
<1> USE DEF Interrupted, Goto, Answered, TypeOK
<1>1. ASSUME NEW t \in Turn, CreateActiveRun(t) PROVE Interrupted(u)'
  BY <1>1 DEF CreateActiveRun, CancelActiveRun
<1>2. ASSUME NEW t \in Turn, Route(t) \/ (Setup(t) /\ ~CreateActiveRun(t))
      PROVE  Interrupted(u)'
  BY <1>2 DEF Route, Setup, RateLimited, Admitted, AdmissionThrows,
       Reject, SaveUserMessage, StartRun, Diverted, AwaitCapacity, run
<1>3. ASSUME NEW t \in Turn, Provider(t) \/ SendPart(t) \/ HeartbeatFails(t)
      PROVE  Interrupted(u)'
  BY <1>3 DEF Provider, CapacityGranted, CapacityRefused, StreamEnds, StreamThrows,
       SendPart, HeartbeatFails, Catch, IsRunCancelled, run
<1>4. ASSUME NEW t \in Turn, Store(t) PROVE Interrupted(u)'
  BY <1>4 DEF Store, PersistAnswer, TouchConversation, PersistInterrupted, Finish, Catch, run
<1>5. CASE CancelChat \/ RevokeSession \/ Cleanup
  BY <1>5 DEF CancelChat, RevokeSession, Cleanup, CancelActiveRun
<1>6. CASE ConnectionDrops \/ UNCHANGED vars
  BY <1>6 DEF ConnectionDrops, vars, run
<1>7. QED
  BY <1>1, <1>2, <1>3, <1>4, <1>5, <1>6 DEF Next

\* A turn cancelled before its stream ended is never stored as complete.
THEOREM CancelledIsNeverComplete == Spec => CancelledNeverComplete
<1>1. ASSUME NEW u \in Turn PROVE Spec => NeverComplete(u)
  <2>1. Init => NoEarlyFinal
    BY DEF Init, NoEarlyFinal
  <2>2. NoEarlyFinal /\ pc[u] = "streaming" /\ u \in cancelled => Interrupted(u)
    BY DEF NoEarlyFinal, Interrupted
  <2>3. Interrupted(u) => "final" \notin answer[u]
    BY DEF Interrupted
  <2>4. QED
    BY <2>1, <2>2, <2>3, TypeInit, TypeStep, FinalStep, InterruptedStep, PTL
       DEF Spec, NeverComplete
<1>2. QED
  BY <1>1 DEF CancelledNeverComplete
=============================================================================
