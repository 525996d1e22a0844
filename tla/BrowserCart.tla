----------------------------- MODULE BrowserCart -----------------------------
(***************************************************************************)
(* Cart changes that a chat turn asks of the shopper's browser.  The       *)
(* gateway sends a frame and waits for the browser's answer, the timeout,  *)
(* the end of the turn or of the socket; the browser changes the cart with *)
(* its own session, and answers on the socket it has by then.              *)
(***************************************************************************)
EXTENDS Integers, FiniteSets

CONSTANTS
    CartRequests,   \* the changes asked for, each with its own cart_request_id
    MaxSockets      \* bounds the reconnects

ASSUME CartAssumption == IsFiniteSet(CartRequests) /\ MaxSockets \in Nat \ {0}

VARIABLES
    outcome,        \* per request, what the model is told
    frame,          \* where the browser is with it
    askedOn,        \* the socket it was sent on, 0 before
    inCart,         \* the changes that the store has made
    socketNumber,   \* the number of the browser's socket
    isOpen,         \* it is open
    answers         \* cart_mutation_result frames on their way

cartVars == <<outcome, frame, askedOn, inCart, socketNumber, isOpen, answers>>

Answer == [request : CartRequests, on : 1..MaxSockets, result : {"success", "failure"}]

CartTypeOK ==
    /\ outcome \in [CartRequests -> {"none", "waiting", "success", "failure"}]
    /\ frame \in [CartRequests -> {"none", "sent", "fetching", "success", "failure", "over"}]
    /\ askedOn \in [CartRequests -> 0..MaxSockets]
    /\ inCart \subseteq CartRequests
    /\ socketNumber \in 1..MaxSockets /\ isOpen \in BOOLEAN
    /\ answers \subseteq Answer

CartInit ==
    /\ outcome = [r \in CartRequests |-> "none"]
    /\ frame = [r \in CartRequests |-> "none"]
    /\ askedOn = [r \in CartRequests |-> 0]
    /\ inCart = {} /\ socketNumber = 1 /\ isOpen = TRUE /\ answers = {}

(***************************************************************************)
(* The gateway                                                             *)
(***************************************************************************)
\* request: without an open socket, or when the frame cannot be sent, it fails.
RequestCartChange(r) ==
    /\ outcome[r] = "none"
    /\ \/ /\ isOpen
          /\ outcome' = [outcome EXCEPT ![r] = "waiting"]
          /\ frame' = [frame EXCEPT ![r] = "sent"]
          /\ askedOn' = [askedOn EXCEPT ![r] = socketNumber]
       \/ /\ outcome' = [outcome EXCEPT ![r] = "failure"]
          /\ UNCHANGED <<frame, askedOn>>
    /\ UNCHANGED <<inCart, socketNumber, isOpen, answers>>

Settles(r, result) == outcome' = [outcome EXCEPT ![r] = result]

\* Mutant: the answer is taken for whatever request waits on the socket.
MatchesSocket(r, x) == outcome[r] = "waiting" /\ x.on = askedOn[r]
Matches(r, x) == outcome[r] = "waiting" /\ x.on = askedOn[r] /\ x.request = r

\* resolve: the answer to a request that still waits on that socket.
Resolve ==
    /\ \E x \in answers :
          /\ answers' = answers \ {x}
          /\ IF \E r \in CartRequests : Matches(r, x)
             THEN \E r \in CartRequests : Matches(r, x) /\ Settles(r, x.result)
             ELSE UNCHANGED outcome
    /\ UNCHANGED <<frame, askedOn, inCart, socketNumber, isOpen>>

\* The timeout.
TimesOut(r) ==
    /\ outcome[r] = "waiting" /\ Settles(r, "failure")
    /\ UNCHANGED <<frame, askedOn, inCart, socketNumber, isOpen, answers>>

\* The turn is aborted.
Aborted(r) ==
    /\ outcome[r] = "waiting" /\ Settles(r, "failure")
    /\ UNCHANGED <<frame, askedOn, inCart, socketNumber, isOpen, answers>>

\* rejectAll; frames on the way are lost.
SocketLost ==
    /\ isOpen /\ isOpen' = FALSE
    /\ outcome' = [r \in CartRequests |-> IF outcome[r] = "waiting" THEN "failure" ELSE outcome[r]]
    /\ frame' = [r \in CartRequests |-> IF frame[r] = "sent" THEN "over" ELSE frame[r]]
    /\ answers' = {}
    /\ UNCHANGED <<askedOn, inCart, socketNumber>>

(***************************************************************************)
(* The browser                                                             *)
(***************************************************************************)
Reconnects ==
    /\ ~isOpen /\ socketNumber < MaxSockets
    /\ isOpen' = TRUE /\ socketNumber' = socketNumber + 1
    /\ UNCHANGED <<outcome, frame, askedOn, inCart, answers>>

\* The frame starts a request to the store, unless its turn was stopped here.
MutateBrowserCart(r) ==
    /\ frame[r] = "sent"
    /\ frame' \in {[frame EXCEPT ![r] = "fetching"], [frame EXCEPT ![r] = "over"]}
    /\ UNCHANGED <<outcome, askedOn, inCart, socketNumber, isOpen, answers>>

\* The store changes the cart; its answer may be lost.
StoreChangesCart(r) ==
    /\ frame[r] = "fetching"
    /\ inCart' = inCart \union {r}
    /\ frame' \in {[frame EXCEPT ![r] = "success"], [frame EXCEPT ![r] = "failure"]}
    /\ UNCHANGED <<outcome, askedOn, socketNumber, isOpen, answers>>

StoreRefuses(r) ==
    /\ frame[r] = "fetching" /\ frame' = [frame EXCEPT ![r] = "failure"]
    /\ UNCHANGED <<outcome, askedOn, inCart, socketNumber, isOpen, answers>>

BrowserAnswers(r) ==
    /\ frame[r] \in {"success", "failure"} /\ frame' = [frame EXCEPT ![r] = "over"]
    /\ answers' = answers \union
          (IF isOpen THEN {[request |-> r, on |-> socketNumber, result |-> frame[r]]} ELSE {})
    /\ UNCHANGED <<outcome, askedOn, inCart, socketNumber, isOpen>>

GatewayCart(r) == RequestCartChange(r) \/ TimesOut(r) \/ Aborted(r)
BrowserCartSteps(r) == MutateBrowserCart(r) \/ StoreChangesCart(r) \/ StoreRefuses(r)
                       \/ BrowserAnswers(r)
CartNext == Resolve \/ SocketLost \/ Reconnects
            \/ \E r \in CartRequests : GatewayCart(r) \/ BrowserCartSteps(r)
CartSpec == CartInit /\ [][CartNext]_cartVars

(***************************************************************************)
(* Properties                                                              *)
(***************************************************************************)
\* The model is only told that a change was made when the store made that change,
\* although answers come late, on another socket or after the request was given
\* up.  (The converse does not hold: a change may still be made after the model
\* was told that it failed.)
ReportedChangesAreMade == \A r \in CartRequests : outcome[r] = "success" => r \in inCart
=============================================================================
