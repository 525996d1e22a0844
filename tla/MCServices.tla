----------------------------- MODULE MCServices -----------------------------
(***************************************************************************)
(* Small instances of six parts of the gateway and the store that share    *)
(* no state.  A behaviour is one of one part, chosen at its start; the     *)
(* others keep their initial state.                                        *)
(***************************************************************************)
EXTENDS WebSocketAdmission, GuestSessionHistory, SupportDesk,
        GuestVerification, BrowserCart, GatewayCapacity, TLC

VARIABLE part   \* the part that runs

servicesVars == <<admissionVars, historyVars, deskVars, verificationVars, cartVars, vars>>
Parts == {"admission", "history", "desk", "verification", "cart", "capacity"}

\* Two connections of one address, on one replica or two, each with its own ticket.
MCConnections == {"c1", "c2"}
MCNetworkOf == [c \in MCConnections |-> "n1"]
MCReplicas == {"r1", "r2"}
MCTicketOf == [c \in MCConnections |-> c]

\* Two overlapping messages of one connection.
MCSessionOf == [n \in {"tab"} |-> "session"]
MCConnectionOf == [c \in {"m1", "m2"} |-> "tab"]

ServicesTypeOK ==
    /\ part = "admission" => AdmissionTypeOK
    /\ part = "history" => HistoryTypeOK
    /\ part = "desk" => DeskTypeOK
    /\ part = "verification" => VerificationTypeOK
    /\ part = "cart" => CartTypeOK
    /\ part = "capacity" => TypeOK

ServicesInit ==
    /\ part \in Parts
    /\ AdmissionInit /\ DeskInit /\ VerificationInit /\ CartInit /\ Init
    /\ replica["c1"] = "r1" /\ (part = "admission" \/ replica["c2"] = "r1")
    /\ HistoryInit /\ (part = "history" \/ store = H!EmptyStore)

\* A replica without connections need not stop.
AdmissionPart ==
    /\ part = "admission" /\ AdmissionNext
    /\ stopping' \subseteq {replica[c] : c \in Connections}
    /\ UNCHANGED <<part, historyVars, deskVars, verificationVars, cartVars, vars>>

\* Interchangeable writers start in one order; a write without the lock is the end.
MCWriters == {"w1", "w2", "w3"}
HistoryPart ==
    /\ part = "history" /\ ~lapsed /\ HistoryNext
    /\ at'["w1"] = "idle" => at'["w2"] = "idle"
    /\ at'["w2"] = "idle" => at'["w3"] = "idle"
    /\ UNCHANGED <<part, admissionVars, deskVars, verificationVars, cartVars, vars>>

\* One agent's heartbeat, the other's mass update or a shopper's turn is under way.
DeskPart ==
    /\ part = "desk" /\ DeskNext
    /\ beating'["b"] = 0 /\ massUpdate'["a"] = NoUpdate
    /\ beating'["a"] = 0 \/ massUpdate'["b"] = NoUpdate
    /\ shopperTurn' = "none" \/ (beating'["a"] = 0 /\ massUpdate'["b"] = NoUpdate)
    /\ UNCHANGED <<part, admissionVars, historyVars, verificationVars, cartVars, vars>>

\* Only the first code's outcomes may not be written.
VerificationPart ==
    /\ part = "verification" /\ VerificationNext
    /\ lost'[MaxCodes] = 0
    /\ UNCHANGED <<part, admissionVars, historyVars, deskVars, cartVars, vars>>

CartPart ==
    /\ part = "cart" /\ CartNext
    /\ UNCHANGED <<part, admissionVars, historyVars, deskVars, verificationVars, vars>>

\* Three requests, numbered by their tokens: the first may be cancelled, calls or the
\* replica of the second fail, the third comes last.
MCRequests == 1..3
CapacityPart ==
    /\ part = "capacity" /\ Next
    /\ aborted' \subseteq {1} /\ \A r \in MCRequests : pc'[r] = "lost" => r = 2
    /\ (pc'[3] # "new" => pc'[1] # "new" /\ pc'[2] # "new")
    /\ UNCHANGED <<part, admissionVars, historyVars, deskVars, verificationVars, cartVars>>

ServicesNext == AdmissionPart \/ HistoryPart \/ DeskPart \/ VerificationPart \/ CartPart \/ CapacityPart
ServicesSpec == ServicesInit /\ [][ServicesNext]_<<part, servicesVars>>

\* FairSpec's conditions, of the part that runs.
ServicesFairSpec ==
    /\ ServicesSpec
    /\ WF_vars(part = "capacity" /\ Tick)
    /\ \A r \in Req : /\ WF_vars(part = "capacity" /\ Work(r))
                      /\ WF_vars(part = "capacity" /\ Renew(r))
                      /\ WF_vars(part = "capacity" /\ Release(r))
=============================================================================
