------------------------------ MODULE ToolFlow ------------------------------
(***************************************************************************)
(* The gateway's guard on the tools a language model calls within one      *)
(* turn: which calls it refuses, what a call that ran changes, and which   *)
(* tool the model must call before it may answer.  The model's arguments   *)
(* and Magento's answers are arbitrary; a call is described by the         *)
(* arguments the guards look at, and any call may have a malformed         *)
(* reference, language, activity label or duplicate fingerprint.  Left     *)
(* out: the body-size estimate and the product page's own cart.            *)
(***************************************************************************)
EXTENDS Integers, FiniteSets

CONSTANTS
    Categories, NoCategory,     \* category ids, 0
    Queries, NoQuery,           \* search texts, the empty text
    Searches,                   \* the searchProducts calls a model makes
    ResultSetRequest,           \* the search behind the cards shown last turn
    MaxExecutions,              \* max_tool_executions
    MaxCategoryCalls            \* max_category_calls

\* context: catalogContextDecision, with its reference; sample: the intent
\* store_sample; lowest: pricePreference; variant: nothing, the wish for an
\* attribute, its code, or its code and option values.
Search == [context : {"none", "new", "follow_up", "set"}, sample : BOOLEAN,
           query : Queries \union {NoQuery}, category : Categories \union {NoCategory},
           exact : BOOLEAN, sku : BOOLEAN, lowest : BOOLEAN,
           variant : {"no", "wanted", "code", "options"}, similar : BOOLEAN]

ASSUME FlowAssumption ==
    /\ Searches \subseteq Search /\ ResultSetRequest \in Search
    /\ NoCategory \notin Categories /\ NoQuery \notin Queries /\ Queries # {}
    /\ IsFiniteSet(Categories)
    /\ MaxExecutions \in Nat \ {0} /\ MaxCategoryCalls \in Nat \ {0}

\* A sample of the store with a filter is refused before the guards below
\* (validateCatalogIntent): those calls are left out.
ASSUME SampleAssumption ==
    \A c \in Searches : c.sample =>
        /\ c.query = NoQuery /\ c.category = NoCategory /\ c.variant = "no"
        /\ ~c.lowest /\ ~c.exact /\ ~c.similar

\* The pending cards: none, lowest prices of a text in the whole store, any others.
Grid == {"none", "loose", "sound"}

Flow == [anchor : {"none", "single", "set"},    \* the cards of the last turn
         need : BOOLEAN,            \* catalogNeedResolutionRequired
         needSearch : BOOLEAN,      \* catalogNeedSearchRequired
         anchorPending : BOOLEAN,   \* catalogAnchorResolutionRequired
         selected : BOOLEAN,        \* selectedResultSetProductAnchor is set
         refresh : BOOLEAN,         \* anchoredProductRefreshRequired
         availability : BOOLEAN,    \* availabilityVerificationRequired
         read : BOOLEAN,            \* an availability read has run
         resolved : BOOLEAN,        \* catalogIdentityResolved
         identityTried : BOOLEAN,   \* shopperExactIdentityFallbackAttempted
         grid : Grid,               \* pendingProductPresentation
         searched : BOOLEAN,        \* catalogSearchAttempted
         scope : SUBSET Categories, \* requiredDiscoveryCategoryIds
         known : BOOLEAN,           \* verifiedCategoryNames has an entry
         priceDiscovery : BOOLEAN,  \* lowestPriceCategoryDiscoveryRequired
         priceScoped : BOOLEAN,     \* lowestPriceCategoryDiscoveryCompleted
         contract : BOOLEAN,        \* lowestPriceRetrievalContract is kept
         priceRetried : BOOLEAN,    \* lowestPriceCategoryRetryAttempted
         browsed : BOOLEAN,         \* lowestPriceCategoryBrowseFallbackAttempted
         terminal : BOOLEAN,        \* terminalCatalog
         overview : BOOLEAN,        \* taxonomyOverviewResolved
         wanted : BOOLEAN,          \* attributeConstraintRequested
         wantedSearch : BOOLEAN,    \* attributeConstraintSearchRequired
         alternative : {"no", "required", "discovered"},  \* attributeAlternative...
         similarUsed : BOOLEAN,     \* similarityFallbackUsed
         exactRequired : BOOLEAN,   \* exactIdentityRefinementRequired
         exactTried : BOOLEAN,      \* exactIdentityRefinementAttempts > 0
         rooted : BOOLEAN,          \* exactIdentityRootQuery is set
         refine : {"no", "required", "done"},   \* catalogQueryRefinement...
         source : Queries \union {NoQuery},     \* ...SourceQuery
         last : {"none", "error", "cards", "miss"},  \* the last call's result
         executions : 0..MaxExecutions,
         categoryCalls : 0..MaxCategoryCalls]

\* named: the signed page context names a category.
NewFlow(anchor, named) ==
    [anchor |-> anchor, need |-> TRUE, needSearch |-> FALSE,
     anchorPending |-> anchor # "none", selected |-> FALSE, refresh |-> FALSE,
     availability |-> FALSE, read |-> FALSE, resolved |-> FALSE, identityTried |-> FALSE,
     grid |-> "none", searched |-> FALSE, scope |-> {}, known |-> named,
     priceDiscovery |-> FALSE, priceScoped |-> FALSE, contract |-> FALSE,
     priceRetried |-> FALSE, browsed |-> FALSE, terminal |-> FALSE, overview |-> FALSE,
     wanted |-> FALSE, wantedSearch |-> FALSE, alternative |-> "no", similarUsed |-> FALSE,
     exactRequired |-> FALSE, exactTried |-> FALSE, rooted |-> FALSE, refine |-> "no",
     source |-> NoQuery, last |-> "none", executions |-> 0, categoryCalls |-> 0]

(***************************************************************************)
(* What the model is told to do next, and its budget                       *)
(***************************************************************************)
\* shouldForceProductSearch; the scope is required as long as it is not empty.
ForcesSearch(f) ==
    \/ f.needSearch \/ f.refresh \/ f.wantedSearch
    \/ f.refine = "required" \/ f.scope # {}
ForcesDiscovery(f) == f.priceDiscovery /\ ~f.priceScoped
Forces(f) == f.availability \/ f.need \/ f.anchorPending \/ ForcesDiscovery(f) \/ ForcesSearch(f)

HasBudget(f) == f.executions < MaxExecutions
Reserved(f)  == [f EXCEPT !.executions = @ + 1, !.need = FALSE, !.last = "none"]

\* Any refusal: reconcile has dropped what an earlier call left.
Refused(f)   == [f EXCEPT !.last = "none"]
\* A tool other than searchProducts answers the question of the need.
NeedSettled(f) == [f EXCEPT !.need = FALSE, !.last = "none"]

(***************************************************************************)
(* The two control tools                                                   *)
(***************************************************************************)
NeedResolved(f) ==
    IF f.need THEN {[Refused(f) EXCEPT !.need = FALSE, !.needSearch = search] : search \in BOOLEAN}
    ELSE {}

AnchorResolved(f) ==
    LET g == [NeedSettled(f) EXCEPT !.anchorPending = FALSE] IN
    IF ~f.anchorPending THEN {}
    ELSE IF f.anchor = "single"
    THEN {[g EXCEPT !.refresh = TRUE],                                \* follow_up
          [g EXCEPT !.refresh = FALSE],                               \* new_search, clarify
          [g EXCEPT !.refresh = FALSE, !.availability = TRUE]}        \* no_catalog_fact
    ELSE {[g EXCEPT !.refresh = TRUE, !.selected = TRUE],             \* select_product
          [g EXCEPT !.refresh = TRUE],                                \* result_set_follow_up
          [g EXCEPT !.refresh = FALSE]}

(***************************************************************************)
(* searchProducts: the call, and what of it reaches Magento                *)
(***************************************************************************)
ContextFits(f, c) ==
    IF f.anchor = "single" \/ f.selected
    THEN c.context = "new" \/ (c.context = "follow_up" /\ ~c.exact)
    ELSE IF f.anchor = "set" THEN c.context \in {"new", "set"}
    ELSE c.context \in {"none", "new"}

\* A follow-up looks up the anchored SKU, or repeats the search of the shown set.
Anchored(c) ==
    CASE c.context = "follow_up" ->
           [c EXCEPT !.query = CHOOSE q \in Queries : TRUE, !.category = NoCategory,
              !.exact = TRUE, !.sku = TRUE, !.lowest = FALSE, !.variant = "no",
              !.similar = FALSE]
      [] c.context = "set" -> [ResultSetRequest EXCEPT !.context = "set"]
      [] OTHER -> c

HasCode(c)   == c.variant \in {"code", "options"}
IsSimilar(c) == c.similar /\ c.category # NoCategory /\ c.query # NoQuery /\ ~HasCode(c)
InScope(f, c) == ~c.sample /\ c.category \in f.scope

\* catalogQueryContinuity restores the text of an earlier search, or drops it
\* to browse a leaf category; a kept price contract comes back with its scope.
Normalized(f, c) ==
    LET a == Anchored(c)
        b == [a EXCEPT !.lowest = @ \/ (f.priceScoped /\ f.scope # {} /\ f.contract)]
        texts == IF a.category = NoCategory \/ HasCode(a) THEN {a.query}
                 ELSE IF a.query = NoQuery THEN Queries \union {NoQuery}
                 ELSE {a.query, NoQuery}
    IN {[b EXCEPT !.query = q] : q \in texts}

\* Mutant: the scope is asked for once, a repeated call goes through.
NeedsPriceScopeOnce(f, c) ==
    /\ ~c.sample /\ c.context \notin {"follow_up", "set"}
    /\ ~f.priceScoped /\ ~f.priceDiscovery /\ f.scope = {}
    /\ ~c.exact /\ c.variant = "no"
    /\ c.category = NoCategory /\ c.lowest /\ c.query # NoQuery

\* requiresLowestPriceCategoryDiscovery.
NeedsPriceScope(f, c) ==
    /\ ~c.sample /\ c.context \notin {"follow_up", "set"}
    /\ ~f.priceScoped /\ f.scope = {}
    /\ ~c.exact /\ c.variant = "no"
    /\ c.category = NoCategory /\ c.lowest /\ c.query # NoQuery

\* Mutant: an identity that Magento confirmed does not close the catalogue.
CatalogClosedBySimilar(f) == f.similarUsed
\* The one similar search, or a confirmed identity, ends the retrieval.
CatalogClosed(f) == f.similarUsed \/ f.resolved

\* Mutant: an owed availability read does not hold up a search.
SearchGuardedByGridOnly(f, c) ==
    CatalogClosed(f) \/ (f.grid # "none" /\ ~InScope(f, c))

\* The guards of a search before its refinement is taken note of.
SearchGuarded(f, c) ==
    \/ f.availability
    \/ CatalogClosed(f)
    \/ ~c.sample /\ f.scope # {} /\ ~InScope(f, c)
    \/ f.grid # "none" /\ ~InScope(f, c)
    \/ f.overview
    \/ /\ c.variant = "wanted" \/ f.wanted
       /\ c.variant # "options" /\ ~c.exact
       /\ ~(f.alternative = "discovered" /\ HasCode(c))
       /\ ~IsSimilar(c)
    \/ IsSimilar(c) /\ f.alternative = "required"
    \/ f.alternative = "discovered" /\ ~HasCode(c) /\ ~IsSimilar(c)
    \/ f.exactRequired /\ ~c.exact
    \/ f.refine = "required" /\ (c.sample \/ c.query = NoQuery \/ c.query = f.source)

\* And those after it.
SearchGuardedLate(f, c) ==
    \/ f.alternative # "no" /\ c.category # NoCategory /\ c.query = NoQuery /\ ~HasCode(c)
    \/ f.terminal

\* What a search has cleared when it comes to its guards, and to the late ones.
WithContext(f, c)    == [Refused(f) EXCEPT !.refresh = @ /\ c.context # "follow_up"]
WithRefinement(f, c) ==
    [WithContext(f, c) EXCEPT !.refine = IF @ = "required" THEN "done" ELSE @]

\* Searches that reach the budget.
AdmittedSearches(f, c) ==
    IF ~ContextFits(f, c) THEN {}
    ELSE {n \in Normalized(f, c) : /\ ~NeedsPriceScope(f, n)
                                   /\ ~SearchGuarded(f, n) /\ ~SearchGuardedLate(f, n)}

\* The flow after a search was refused by a guard other than the budget.
SearchRefusals(f, c) ==
    IF ~ContextFits(f, c) THEN {Refused(f)}
    ELSE {Refused(f), WithContext(f, c)}
         \union {[WithContext(f, c) EXCEPT !.searched = TRUE, !.priceDiscovery = TRUE,
                                           !.contract = TRUE] :
                    n \in {m \in Normalized(f, c) : ~f.availability /\ NeedsPriceScope(f, m)}}
         \union {WithRefinement(f, c) :
                    n \in {m \in Normalized(f, c) : ~NeedsPriceScope(f, m) /\ ~SearchGuarded(f, m)}}

(***************************************************************************)
(* searchProducts: Magento's answer and what follows from it               *)
(***************************************************************************)
\* No products, an exact identity that is missing, one that is not sold;
\* one product, simple or configurable, the query's identity or not; several, and
\* several of which one is the product of the anchor.
Empty == {"nothing", "miss", "disabled"}
Named == {"named", "namedConfigurable"}
One   == {"one", "configurable"} \union Named
Cards == One \union {"several", "anchored"}

Answers(n) ==
    {"error", "several"} \union (IF n.context = "follow_up" THEN {"anchored"} ELSE {}) \union
    IF n.exact THEN {"miss", "disabled"} \union Named
    ELSE {"nothing", "one", "configurable"} \union (IF n.query = NoQuery THEN {} ELSE {"disabled"} \union Named)

\* shopperExactIdentityFallbackQuery: the shopper's own words may be looked up
\* after a miss without constraints, or when they may name one of several.
OwnWordsMayName(f, n, found) ==
    /\ ~f.identityTried /\ ~n.sku
    /\ \/ found = "several"
       \/ found \in Empty /\ n.query # NoQuery /\ n.category = NoCategory
          /\ ~n.sample /\ ~HasCode(n)

\* They are looked up once, as an exact identity that bears no other constraint;
\* its cards must also fit the identity that the turn's first exact search was for.
IdentityLookup(f, n, found) ==
    LET t == [f EXCEPT !.identityTried = TRUE]
        e == [n EXCEPT !.category = NoCategory, !.exact = TRUE,
                       !.variant = IF @ = "wanted" THEN @ ELSE "no"]
    IN {<<f, n, found>>} \union
       IF OwnWordsMayName(f, n, found)
       THEN {<<t, n, found>>} \union
            {<<t, e, verified>> : verified \in Named \union (IF f.rooted THEN {"miss"} ELSE {})}
       ELSE {}

\* shouldRetryLowestPriceCategoryAsDirectBrowse
BrowsesScope(f, n, found) ==
    /\ f.priceScoped /\ ~f.browsed
    /\ n.category # NoCategory /\ n.lowest /\ n.query # NoQuery /\ found \in Empty

\* The bare category is browsed once.
ScopeBrowse(f, n, found) ==
    LET t == [f EXCEPT !.browsed = TRUE] IN
    IF BrowsesScope(f, n, found)
    THEN {<<t, n, found>>} \union
         {<<t, [n EXCEPT !.query = NoQuery], cards>> : cards \in {"one", "configurable", "several"}}
    ELSE {<<f, n, found>>}

\* A first exact miss asks for one more spelling instead of ending the search.
ForgivesMiss(f, n, found, refinement) ==
    n.exact /\ found = "miss" /\ ~f.exactTried /\ ~refinement

ExactSettled(f, n, found, refinement) ==
    IF ForgivesMiss(f, n, found, refinement)
    THEN [f EXCEPT !.exactTried = TRUE, !.exactRequired = TRUE]
    ELSE [f EXCEPT !.exactRequired = @ /\ ~(n.exact /\ found \in Cards \union {"miss"})]

\* shouldRequireCatalogQueryRefinement
WantsOtherWords(f, n, found, refinement) ==
    /\ found = "nothing" /\ ~refinement /\ f.refine = "no"
    /\ ~n.sample /\ n.query # NoQuery /\ ~n.exact /\ n.variant = "no" /\ ~IsSimilar(n)
    /\ ~(f.priceScoped /\ n.category \in f.scope)

QuerySettled(f, n, found, refinement) ==
    IF WantsOtherWords(f, n, found, refinement)
    THEN [f EXCEPT !.refine = "required", !.source = n.query]
    ELSE f

\* shouldRetryLowestPriceCategoryScope
TriesOtherScope(f, found) ==
    f.priceScoped /\ ~f.priceRetried /\ Cardinality(f.scope) > 1 /\ found \in Empty

\* One retry in another scope of a price search; else the scope has done its work.
ScopeSettled(f, n, found) ==
    IF n.category \notin f.scope \/ found = "error" THEN f
    ELSE IF TriesOtherScope(f, found)
    THEN [f EXCEPT !.scope = @ \ {n.category}, !.priceRetried = TRUE]
    ELSE [f EXCEPT !.scope = {}, !.contract = FALSE]

\* availabilitySkuFromSingleSearchResult
NeedsLiveRead(n, found) ==
    \/ found \in {"configurable", "namedConfigurable", "anchored"}
    \/ found \in One /\ n.sku
AvailabilitySettled(f, n, found) == [f EXCEPT !.availability = NeedsLiveRead(n, found)]

VariantSettled(f, n, found) ==
    LET g == [f EXCEPT !.wanted = FALSE, !.wantedSearch = FALSE, !.alternative = "no"] IN
    CASE IsSimilar(n) -> [g EXCEPT !.similarUsed = TRUE]
      [] n.variant = "options" ->
           [g EXCEPT !.alternative = IF found \in Empty THEN "discovered" ELSE "no"]
      [] n.variant = "code" -> g
      [] n.variant = "wanted" /\ found \in Empty -> [f EXCEPT !.alternative = "required"]
      [] n.variant \in {"no", "wanted"} /\ ~IsSimilar(n) /\ found \in Cards ->
           [f EXCEPT !.alternative = "no"]
      [] OTHER -> f

\* The lowest prices of what a text finds in the whole store, for a shopper who
\* asked for them now and for no attribute.
ComparesLoosely(n) ==
    /\ n.lowest /\ n.query # NoQuery /\ n.category = NoCategory
    /\ n.context # "set" /\ ~n.exact /\ n.variant = "no"

\* registerResult: an identity resolved, a terminal miss, cards.
Registered(f, n, found, forgiven) ==
    LET g == [f EXCEPT !.resolved = @ \/ found \in Named] IN
    IF found \in Cards
    THEN [g EXCEPT !.last = "cards", !.terminal = FALSE,
                   !.grid = IF ComparesLoosely(n) THEN "loose" ELSE "sound"]
    ELSE IF found \in {"miss", "disabled"} /\ ~forgiven /\ ~g.resolved
    THEN [g EXCEPT !.last = "miss", !.terminal = TRUE, !.grid = "none"]
    ELSE [g EXCEPT !.last = IF found = "error" THEN "error" ELSE @]

\* A search that ran names its category, and may be the first exact one.
Remembered(f, n, found) ==
    [f EXCEPT !.rooted = @ \/ n.exact,
              !.known = @ \/ (n.category # NoCategory /\ found # "error")]

SearchSettled(f, n, found, refinement) ==
    LET exact == ExactSettled(Remembered(f, n, found), n, found, refinement)
        query == QuerySettled(exact, n, found, refinement)
        scope == ScopeSettled(query, n, found)
        variant == VariantSettled(AvailabilitySettled(scope, n, found), n, found)
    IN Registered(variant, n, found, ForgivesMiss(f, n, found, refinement))

\* The flows after a search that ran.
SearchRuns(f, c) ==
    UNION {LET g == [Reserved(WithRefinement(f, c)) EXCEPT !.searched = TRUE, !.needSearch = FALSE]
               first == UNION {IdentityLookup(g, n, found) : found \in Answers(n)}
               last  == UNION {ScopeBrowse(t[1], t[2], t[3]) : t \in first}
           IN {SearchSettled(t[1], t[2], t[3], f.refine = "required") : t \in last}
           : n \in AdmittedSearches(f, c)}

(***************************************************************************)
(* The other tools                                                         *)
(***************************************************************************)
\* The guards that every tool of the catalogue but searchProducts meets.
CatalogGuarded(f) ==
    f.availability \/ CatalogClosed(f) \/ f.exactRequired \/ f.refine = "required" \/ f.terminal

CategoriesAdmitted(f, purpose, wanted) ==
    /\ ~CatalogGuarded(f)
    /\ purpose = "taxonomy_question" \/ f.searched \/ wanted

\* listCategories: a discovery scopes the search that went before it.
CategoriesRun(f, purpose, wanted) ==
    LET g == [Reserved(NeedSettled(f)) EXCEPT !.categoryCalls = @ + 1]
        listed(ids) ==
            LET h == [g EXCEPT !.known = @ \/ ids # {}, !.wanted = @ \/ wanted,
                               !.overview = @ \/ (purpose = "taxonomy_question" /\ ids # {})]
            IN IF purpose = "product_discovery" /\ f.searched /\ ids # {}
               THEN [h EXCEPT !.scope = ids, !.grid = "none", !.terminal = FALSE,
                              !.priceScoped = @ \/ f.priceDiscovery, !.priceDiscovery = FALSE]
               ELSE h
    IN {[g EXCEPT !.last = "error"]} \union {listed(ids) : ids \in SUBSET Categories}

\* The model picks one of the categories that were named.
AttributesAdmitted(f) == ~CatalogGuarded(f) /\ (f.searched \/ f.wanted) /\ f.known

\* listVariantAttributes.
AttributesRun(f) ==
    LET g == Reserved(NeedSettled(f)) IN
    {[g EXCEPT !.last = "error"],
     [g EXCEPT !.alternative = IF @ = "required" THEN "discovered" ELSE @,
               !.wantedSearch = @ \/ f.wanted]}

\* getProductAvailability: whatever it answers is new evidence.
AvailabilityRun(f) ==
    {[Reserved(NeedSettled(f)) EXCEPT !.read = TRUE, !.availability = FALSE, !.last = result] :
        result \in {"none", "error"}}

\* Carts, orders, knowledge, images.
OtherRun(f) == {[Reserved(NeedSettled(f)) EXCEPT !.last = result] : result \in {"none", "error"}}
=============================================================================
