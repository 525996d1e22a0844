--------------------------- MODULE AttachmentLedger ---------------------------
(***************************************************************************)
(* What the upload subsystem promises about one shopper's upload grants:   *)
(* a grant of quota is settled exactly once, either used, in the very step *)
(* that makes the attachment durable, or given back, and then the          *)
(* attachment never becomes durable.                                       *)
(***************************************************************************)
CONSTANT Att

VARIABLES grant,    \* [Att -> {"none", "held", "used", "returned"}]
          durable   \* the attachments shoppers can rely on

vars == <<grant, durable>>

Init ==
    /\ grant = [a \in Att |-> "none"]
    /\ durable = {}

Give(a) ==
    /\ grant[a] = "none"
    /\ grant' = [grant EXCEPT ![a] = "held"]
    /\ UNCHANGED durable

Use(a) ==
    /\ grant[a] = "held"
    /\ grant' = [grant EXCEPT ![a] = "used"]
    /\ durable' = durable \union {a}

\* The reconciler may return any number of grants in one transaction.
Return(S) ==
    /\ \A a \in S : grant[a] = "held"
    /\ grant' = [a \in Att |-> IF a \in S THEN "returned" ELSE grant[a]]
    /\ UNCHANGED durable

Next ==
    \/ \E a \in Att : Give(a) \/ Use(a)
    \/ \E S \in SUBSET Att : Return(S)

Spec == Init /\ [][Next]_vars
=============================================================================
