---------------------------- MODULE MCProviderTurn ----------------------------
(* Small constants for the model checker. *)
EXTENDS ProviderTurn, TLC

MCCategories == {1, 2}
MCQueries == {"q", "r"}

Call == [context |-> "none", sample |-> FALSE, query |-> "q", category |-> 0, exact |-> FALSE,
         sku |-> FALSE, lowest |-> FALSE, variant |-> "no", similar |-> FALSE]

\* The lowest prices of the store and of a category, another text in the other
\* category, and the two follow-ups of the last turn's cards.
MCSearches == {[Call EXCEPT !.lowest = TRUE], [Call EXCEPT !.lowest = TRUE, !.category = 1],
               [Call EXCEPT !.query = "r", !.category = 2],
               [Call EXCEPT !.context = "follow_up"], [Call EXCEPT !.context = "set"]}
MCResultSetRequest == Call

\* Wishes for an attribute, exact and similar searches, samples of the store.
MCVariantSearches == {[Call EXCEPT !.variant = "wanted"],
                      [Call EXCEPT !.variant = "options", !.category = 1],
                      [Call EXCEPT !.similar = TRUE, !.category = 1],
                      [Call EXCEPT !.exact = TRUE], [Call EXCEPT !.sample = TRUE, !.query = ""]}

MCAllSearches == MCSearches \union MCVariantSearches

MCOne == [a \in Adapters |-> 1]
MCEmpties == [a \in Adapters |-> IF a = "anthropic" THEN 1 ELSE 0]
=============================================================================
