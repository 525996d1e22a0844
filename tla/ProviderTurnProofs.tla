--------------------------- MODULE ProviderTurnProofs ---------------------------
(***************************************************************************)
(* What every turn of a provider adapter keeps, whatever the model calls,  *)
(* whatever Magento answers and for all budgets and numbers of recoveries. *)
(* Every call of a tool is one step of the flow, so what a call keeps of   *)
(* the flow (CallKeeps) is proved tool by tool; the turn adds the copies   *)
(* of the cards that the adapters hold beside the flow's.                  *)
(***************************************************************************)
EXTENDS ProviderTurn, TLAPS

-----------------------------------------------------------------------------
(***************************************************************************)
(* The fields of the flow                                                  *)
(***************************************************************************)
Flags == {"need", "needSearch", "anchorPending", "selected", "refresh", "availability",
          "read", "resolved", "identityTried", "searched", "priceDiscovery", "priceScoped",
          "contract", "priceRetried", "browsed", "terminal", "overview", "wanted",
          "wantedSearch", "similarUsed", "exactRequired", "exactTried",
          "known", "rooted"}

\* A flow with one of its fields changed is a flow.
LEMMA FlagChanges ==
    ASSUME NEW f \in Flow, NEW flag \in Flags, NEW x \in BOOLEAN
    PROVE  [f EXCEPT ![flag] = x] \in Flow
BY SMTT(60) DEF Flow, Flags

LEMMA NamedFlagChanges ==
    ASSUME NEW f \in Flow, NEW x \in BOOLEAN
    PROVE  /\ [f EXCEPT !.need = x] \in Flow
           /\ [f EXCEPT !.needSearch = x] \in Flow
           /\ [f EXCEPT !.anchorPending = x] \in Flow
           /\ [f EXCEPT !.selected = x] \in Flow
           /\ [f EXCEPT !.refresh = x] \in Flow
           /\ [f EXCEPT !.availability = x] \in Flow
           /\ [f EXCEPT !.read = x] \in Flow
           /\ [f EXCEPT !.resolved = x] \in Flow
           /\ [f EXCEPT !.identityTried = x] \in Flow
           /\ [f EXCEPT !.searched = x] \in Flow
           /\ [f EXCEPT !.priceDiscovery = x] \in Flow
           /\ [f EXCEPT !.priceScoped = x] \in Flow
           /\ [f EXCEPT !.contract = x] \in Flow
           /\ [f EXCEPT !.priceRetried = x] \in Flow
           /\ [f EXCEPT !.browsed = x] \in Flow
           /\ [f EXCEPT !.terminal = x] \in Flow
           /\ [f EXCEPT !.overview = x] \in Flow
           /\ [f EXCEPT !.wanted = x] \in Flow
           /\ [f EXCEPT !.wantedSearch = x] \in Flow
           /\ [f EXCEPT !.similarUsed = x] \in Flow
           /\ [f EXCEPT !.exactRequired = x] \in Flow
           /\ [f EXCEPT !.exactTried = x] \in Flow
           /\ [f EXCEPT !.known = x] \in Flow
           /\ [f EXCEPT !.rooted = x] \in Flow
BY FlagChanges DEF Flags

\* The fields of a flow; what is not changed can be read back.
LEMMA FieldNames ==
    ASSUME NEW f \in Flow
    PROVE  /\ "need" \in DOMAIN f /\ "needSearch" \in DOMAIN f /\ "anchorPending" \in DOMAIN f
           /\ "selected" \in DOMAIN f /\ "refresh" \in DOMAIN f /\ "availability" \in DOMAIN f
           /\ "read" \in DOMAIN f /\ "resolved" \in DOMAIN f /\ "identityTried" \in DOMAIN f
           /\ "searched" \in DOMAIN f /\ "priceDiscovery" \in DOMAIN f /\ "priceScoped" \in DOMAIN f
           /\ "contract" \in DOMAIN f /\ "priceRetried" \in DOMAIN f /\ "browsed" \in DOMAIN f
           /\ "terminal" \in DOMAIN f /\ "overview" \in DOMAIN f /\ "wanted" \in DOMAIN f
           /\ "wantedSearch" \in DOMAIN f /\ "similarUsed" \in DOMAIN f /\ "exactRequired" \in DOMAIN f
           /\ "exactTried" \in DOMAIN f /\ "anchor" \in DOMAIN f /\ "grid" \in DOMAIN f
           /\ "scope" \in DOMAIN f /\ "known" \in DOMAIN f /\ "alternative" \in DOMAIN f
           /\ "refine" \in DOMAIN f /\ "source" \in DOMAIN f /\ "last" \in DOMAIN f
           /\ "executions" \in DOMAIN f /\ "categoryCalls" \in DOMAIN f /\ "rooted" \in DOMAIN f
BY DEF Flow

LEMMA FieldChanges ==
    ASSUME NEW f \in Flow
    PROVE  /\ \A x \in Grid : [f EXCEPT !.grid = x] \in Flow
           /\ \A x \in SUBSET Categories : [f EXCEPT !.scope = x] \in Flow
           /\ \A x \in {"no", "required", "discovered"} : [f EXCEPT !.alternative = x] \in Flow
           /\ \A x \in {"no", "required", "done"} : [f EXCEPT !.refine = x] \in Flow
           /\ \A x \in Queries \union {NoQuery} : [f EXCEPT !.source = x] \in Flow
           /\ \A x \in {"none", "error", "cards", "miss"} : [f EXCEPT !.last = x] \in Flow
           /\ \A x \in 0..MaxExecutions : [f EXCEPT !.executions = x] \in Flow
           /\ \A x \in 0..MaxCategoryCalls : [f EXCEPT !.categoryCalls = x] \in Flow
<1>1. ASSUME NEW x \in Grid PROVE [f EXCEPT !.grid = x] \in Flow
  BY DEF Flow
<1>2. ASSUME NEW x \in SUBSET Categories PROVE [f EXCEPT !.scope = x] \in Flow
  BY DEF Flow
<1>3. ASSUME NEW x \in {"no", "required", "discovered"} PROVE [f EXCEPT !.alternative = x] \in Flow
  BY DEF Flow
<1>4. ASSUME NEW x \in {"no", "required", "done"} PROVE [f EXCEPT !.refine = x] \in Flow
  BY DEF Flow
<1>5. ASSUME NEW x \in Queries \union {NoQuery} PROVE [f EXCEPT !.source = x] \in Flow
  BY DEF Flow
<1>6. ASSUME NEW x \in {"none", "error", "cards", "miss"} PROVE [f EXCEPT !.last = x] \in Flow
  BY DEF Flow
<1>7. ASSUME NEW x \in 0..MaxExecutions PROVE [f EXCEPT !.executions = x] \in Flow
  BY DEF Flow
<1>8. ASSUME NEW x \in 0..MaxCategoryCalls PROVE [f EXCEPT !.categoryCalls = x] \in Flow
  BY DEF Flow
<1>9. QED
  BY <1>1, <1>2, <1>3, <1>4, <1>5, <1>6, <1>7, <1>8

\* What those lemmas need to know of a flow.
LEMMA FieldTypes ==
    ASSUME NEW f \in Flow
    PROVE  /\ \A flag \in Flags : f[flag] \in BOOLEAN
           /\ f.grid \in Grid /\ f.scope \in SUBSET Categories
           /\ f.executions \in 0..MaxExecutions /\ f.categoryCalls \in 0..MaxCategoryCalls
           /\ f.alternative \in {"no", "required", "discovered"}
           /\ f.refine \in {"no", "required", "done"}
BY SMTT(60) DEF Flow, Flags

LEMMA NewFlowIsFlow ==
    \A anchor \in {"none", "single", "set"}, named \in BOOLEAN : NewFlow(anchor, named) \in Flow
BY FlowAssumption DEF Flow, NewFlow, Grid

LEMMA PlainIsFlow ==
    ASSUME NEW f \in Flow
    PROVE  Refused(f) \in Flow /\ NeedSettled(f) \in Flow
<1>1. Refused(f) \in Flow
  BY FieldChanges DEF Refused
<1>2. NeedSettled(f) \in Flow
  BY FieldChanges, NamedFlagChanges DEF NeedSettled
<1>3. QED
  BY <1>1, <1>2

LEMMA CategoryCallsFit ==
    ASSUME NEW f \in Flow, f.categoryCalls < MaxCategoryCalls
    PROVE  f.categoryCalls + 1 \in 0..MaxCategoryCalls
BY FlowAssumption, FieldTypes

LEMMA ReservedIsFlow ==
    ASSUME NEW f \in Flow, HasBudget(f)
    PROVE  Reserved(f) \in Flow
<1>1. f.executions + 1 \in 0..MaxExecutions
  BY FlowAssumption, FieldTypes DEF HasBudget
<1>2. QED
  BY <1>1, FieldChanges, NamedFlagChanges DEF Reserved

-----------------------------------------------------------------------------
(***************************************************************************)
(* What a call of a tool keeps, whether it ran or was refused              *)
(***************************************************************************)
CallKeeps(f, g) ==
    /\ f.priceScoped => g.priceScoped
    /\ g.grid = "loose" => f.grid = "loose" \/ g.priceScoped
    /\ f.resolved => g.resolved /\ g.grid = f.grid
    /\ g.resolved => f.resolved \/ (g.grid # "none" /\ g.last = "cards")
    /\ f.availability => \/ g.availability
                         \/ g.read /\ g.executions = f.executions + 1

LEMMA PlainKeeps ==
    ASSUME NEW f \in Flow
    PROVE  CallKeeps(f, Refused(f)) /\ CallKeeps(f, NeedSettled(f))
BY FieldNames DEF Refused, NeedSettled, CallKeeps

\* The two control tools.
LEMMA ControlKeeps ==
    ASSUME NEW f \in Flow, NEW g \in NeedResolved(f) \union AnchorResolved(f)
    PROVE  g \in Flow /\ CallKeeps(f, g)
<1>1. CASE g \in NeedResolved(f)
  <2>1. PICK search \in BOOLEAN : g = [Refused(f) EXCEPT !.need = FALSE, !.needSearch = search]
    BY <1>1 DEF NeedResolved
  <2>2. g \in Flow
    BY <2>1, PlainIsFlow, NamedFlagChanges
  <2>3. CallKeeps(f, g)
    BY FieldNames, <2>1 DEF CallKeeps, Refused
  <2>4. QED
    BY <2>2, <2>3
<1>2. CASE g \in AnchorResolved(f)
  <2> DEFINE settled == [NeedSettled(f) EXCEPT !.anchorPending = FALSE]
  <2>1. settled \in Flow /\ CallKeeps(f, settled)
    <3>1. settled \in Flow
      BY PlainIsFlow, NamedFlagChanges
    <3>2. CallKeeps(f, settled)
      BY FieldNames DEF CallKeeps, NeedSettled
    <3>3. QED
      BY <3>1, <3>2
  <2>2. PICK refresh \in BOOLEAN :
           \/ g = [settled EXCEPT !.refresh = refresh]
           \/ g = [settled EXCEPT !.refresh = refresh, !.availability = TRUE]
           \/ g = [settled EXCEPT !.refresh = refresh, !.selected = TRUE]
    BY <1>2 DEF AnchorResolved
  <2> HIDE DEF settled
  <2>3. g \in Flow
    <3> DEFINE again == [settled EXCEPT !.refresh = refresh]
    <3>1. again \in Flow
      BY <2>1, NamedFlagChanges
    <3>2. [again EXCEPT !.availability = TRUE] \in Flow /\ [again EXCEPT !.selected = TRUE] \in Flow
      <4> HIDE DEF again
      <4> QED BY <3>1, NamedFlagChanges
    <3>3. QED
      BY <2>2, <3>1, <3>2
  <2>4. CallKeeps(f, g)
    BY FieldNames, <2>1, <2>2 DEF CallKeeps
  <2>5. QED
    BY <2>3, <2>4
<1>3. QED
  BY <1>1, <1>2

\* The reads that are no tools of the catalogue, and the live availability.
LEMMA OtherKeeps ==
    ASSUME NEW f \in Flow, HasBudget(f),
           NEW g, (g \in OtherRun(f) /\ ~f.availability) \/ g \in AvailabilityRun(f)
    PROVE  g \in Flow /\ CallKeeps(f, g)
<1>1. NeedSettled(f) \in Flow /\ HasBudget(NeedSettled(f))
  BY FieldNames, PlainIsFlow DEF HasBudget, NeedSettled
<1>2. Reserved(NeedSettled(f)) \in Flow
  BY <1>1, ReservedIsFlow
<1>3. PICK result \in {"none", "error"} :
         \/ g = [Reserved(NeedSettled(f)) EXCEPT !.last = result] /\ ~f.availability
         \/ g = [Reserved(NeedSettled(f)) EXCEPT !.read = TRUE, !.availability = FALSE,
                                                  !.last = result]
  BY DEF OtherRun, AvailabilityRun
<1>4. g \in Flow
  <2> DEFINE ran == Reserved(NeedSettled(f))
             read == [ran EXCEPT !.read = TRUE, !.availability = FALSE]
  <2>1. ran \in Flow
    BY <1>2
  <2> HIDE DEF ran
  <2>2. read \in Flow
    BY <2>1, NamedFlagChanges
  <2> HIDE DEF read
  <2>3. [ran EXCEPT !.last = result] \in Flow /\ [read EXCEPT !.last = result] \in Flow
    BY <2>1, <2>2, FieldChanges
  <2> USE DEF ran, read
  <2>4. QED
    BY <1>3, <2>3
<1>5. CallKeeps(f, g)
  BY FieldNames, <1>3 DEF CallKeeps, NeedSettled, Reserved
<1>6. QED
  BY <1>4, <1>5

\* listCategories gives the prices their scope and takes the cards found before, which
\* a confirmed identity does not let it do.
LEMMA CategoriesKeeps ==
    ASSUME NEW f \in Flow, HasBudget(f), f.categoryCalls < MaxCategoryCalls,
           NEW purpose \in {"taxonomy_question", "product_discovery", ""},
           NEW wanted \in BOOLEAN, CategoriesAdmitted(f, purpose, wanted),
           NEW g \in CategoriesRun(f, purpose, wanted)
    PROVE  g \in Flow /\ CallKeeps(f, g)
<1> DEFINE ran == [Reserved(NeedSettled(f)) EXCEPT !.categoryCalls = @ + 1]
<1>1. ran \in Flow
  <2>1. NeedSettled(f) \in Flow /\ HasBudget(NeedSettled(f))
    BY FieldNames, PlainIsFlow DEF HasBudget, NeedSettled
  <2>2. Reserved(NeedSettled(f)) \in Flow
    BY <2>1, ReservedIsFlow
  <2>3. Reserved(NeedSettled(f)).categoryCalls + 1 \in 0..MaxCategoryCalls
    <3>1. Reserved(NeedSettled(f)).categoryCalls = f.categoryCalls
      BY FieldNames DEF NeedSettled, Reserved
    <3>2. f.categoryCalls + 1 \in 0..MaxCategoryCalls
      BY CategoryCallsFit
    <3>3. QED
      BY <3>1, <3>2
  <2>4. QED
    BY <2>2, <2>3, FieldChanges
<1>2. /\ ran.priceScoped = f.priceScoped /\ ran.grid = f.grid /\ ran.resolved = f.resolved
      /\ ran.availability = f.availability /\ ran.last = "none"
  BY FieldNames DEF NeedSettled, Reserved
<1>3. ~f.resolved /\ ~f.availability
  BY DEF CategoriesAdmitted, CatalogGuarded, CatalogClosed
<1>4. CASE g = [ran EXCEPT !.last = "error"]
  <2> HIDE DEF ran
  <2>1. g \in Flow
    BY <1>1, <1>4, FieldChanges
  <2>2. CallKeeps(f, g)
    BY FieldNames, <1>1, <1>2, <1>3, <1>4 DEF CallKeeps
  <2>3. QED
    BY <2>1, <2>2
<1> DEFINE listed(ids) ==
             [ran EXCEPT !.known = @ \/ ids # {}, !.wanted = @ \/ wanted,
                         !.overview = @ \/ (purpose = "taxonomy_question" /\ ids # {})]
           scoped(ids) ==
             [listed(ids) EXCEPT !.scope = ids, !.grid = "none", !.terminal = FALSE,
                                 !.priceScoped = @ \/ f.priceDiscovery, !.priceDiscovery = FALSE]
<1>5. ASSUME NEW ids \in SUBSET Categories, g \in {listed(ids), scoped(ids)}
      PROVE  g \in Flow /\ CallKeeps(f, g)
  <2> DEFINE list == listed(ids)
  <2> HIDE DEF ran
  <2>1. list \in Flow
    <3>1. /\ (ran.known \/ ids # {}) \in BOOLEAN
          /\ (ran.wanted \/ wanted) \in BOOLEAN
          /\ (ran.overview \/ (purpose = "taxonomy_question" /\ ids # {})) \in BOOLEAN
      BY <1>1, FieldTypes DEF Flags
    <3>2. QED
      BY <1>1, <3>1, NamedFlagChanges
  <2>2. /\ list.priceScoped = f.priceScoped /\ list.grid = f.grid
        /\ list.resolved = f.resolved /\ list.availability = f.availability
        /\ list.last = "none"
    BY FieldNames, <1>1, <1>2
  <2>3. g \in {list, [list EXCEPT !.scope = ids, !.grid = "none", !.terminal = FALSE,
                         !.priceScoped = @ \/ f.priceDiscovery, !.priceDiscovery = FALSE]}
    BY <1>5
  <2> HIDE DEF list
  <2>4. g \in Flow
    <3>1. (list.priceScoped \/ f.priceDiscovery) \in BOOLEAN /\ "none" \in Grid
      BY <2>1, FieldTypes DEF Flags, Grid
    <3>2. QED
      <4> DEFINE cleared == [list EXCEPT !.scope = ids, !.grid = "none", !.terminal = FALSE]
      <4>1. cleared \in Flow
        BY <2>1, <3>1, NamedFlagChanges, FieldChanges
      <4>2. [cleared EXCEPT !.priceScoped = list.priceScoped \/ f.priceDiscovery,
                            !.priceDiscovery = FALSE] \in Flow
        <5> HIDE DEF cleared
        <5> QED BY <3>1, <4>1, NamedFlagChanges
      <4>3. QED
        BY <2>1, <2>3, <4>2
  <2>5. CallKeeps(f, g)
    BY FieldNames, <1>3, <2>1, <2>2, <2>3 DEF CallKeeps
  <2>6. QED
    BY <2>4, <2>5
<1>6. QED
  BY <1>4, <1>5 DEF CategoriesRun

LEMMA AttributesKeeps ==
    ASSUME NEW f \in Flow, HasBudget(f), AttributesAdmitted(f),
           NEW g \in AttributesRun(f)
    PROVE  g \in Flow /\ CallKeeps(f, g)
<1> DEFINE ran == Reserved(NeedSettled(f))
<1>1. ran \in Flow
  <2>1. NeedSettled(f) \in Flow /\ HasBudget(NeedSettled(f))
    BY FieldNames, PlainIsFlow DEF HasBudget, NeedSettled
  <2>2. QED
    BY <2>1, ReservedIsFlow
<1>2. /\ ran.priceScoped = f.priceScoped /\ ran.grid = f.grid /\ ran.resolved = f.resolved
      /\ ran.availability = f.availability /\ ran.last = "none"
  BY FieldNames DEF NeedSettled, Reserved
<1>3. ~f.resolved /\ ~f.availability
  BY DEF AttributesAdmitted, CatalogGuarded, CatalogClosed
<1>4. \/ g = [ran EXCEPT !.last = "error"]
      \/ g = [ran EXCEPT !.alternative = IF @ = "required" THEN "discovered" ELSE @,
                         !.wantedSearch = @ \/ f.wanted]
  BY DEF AttributesRun
<1> HIDE DEF ran
<1>5. g \in Flow
  <2>1. /\ (ran.wantedSearch \/ f.wanted) \in BOOLEAN
        /\ (IF ran.alternative = "required" THEN "discovered" ELSE ran.alternative)
              \in {"no", "required", "discovered"}
    BY <1>1, FieldTypes DEF Flags
  <2>2. QED
    <3>1. [ran EXCEPT !.last = "error"] \in Flow
      BY <1>1, FieldChanges
    <3>2. [ran EXCEPT !.alternative = IF @ = "required" THEN "discovered" ELSE @,
                      !.wantedSearch = @ \/ f.wanted] \in Flow
      BY <1>1, <2>1, NamedFlagChanges, FieldChanges
    <3>3. QED
      BY <1>4, <3>1, <3>2
<1>6. CallKeeps(f, g)
  BY FieldNames, <1>1, <1>2, <1>3, <1>4 DEF CallKeeps
<1>7. QED
  BY <1>5, <1>6

-----------------------------------------------------------------------------
(***************************************************************************)
(* searchProducts                                                          *)
(***************************************************************************)
LEMMA AnchoredIsSearch ==
    ASSUME NEW c \in Searches
    PROVE  Anchored(c) \in Search
<1>1. c \in Search
  BY FlowAssumption
<1>2. (CHOOSE q \in Queries : TRUE) \in Queries
  BY FlowAssumption
<1>3. CASE c.context = "follow_up"
  <2> DEFINE q0 == CHOOSE q \in Queries : TRUE
  <2>1. [c EXCEPT !.query = q0, !.category = NoCategory, !.exact = TRUE, !.sku = TRUE,
                  !.lowest = FALSE, !.variant = "no", !.similar = FALSE] \in Search
    <3> HIDE DEF q0
    <3>1. q0 \in Queries
      BY <1>2 DEF q0
    <3>2. QED
      BY <1>1, <3>1 DEF Search
  <2>2. QED
    BY <1>3, <2>1 DEF Anchored
<1>4. CASE c.context = "set"
  BY <1>4, FlowAssumption DEF Anchored, Search
<1>5. CASE c.context \notin {"follow_up", "set"}
  BY <1>1, <1>5 DEF Anchored
<1>6. QED
  BY <1>3, <1>4, <1>5

LEMMA NormalizedIsSearch ==
    ASSUME NEW f \in Flow, NEW c \in Searches, NEW n \in Normalized(f, c)
    PROVE  n \in Search
<1> DEFINE a == Anchored(c)
<1>1. a \in Search
  BY AnchoredIsSearch
<1>2. PICK lowest \in BOOLEAN, q \in Queries \union {NoQuery} :
         n = [[a EXCEPT !.lowest = lowest] EXCEPT !.query = q]
  <2>1. a.lowest \in BOOLEAN /\ a.query \in Queries \union {NoQuery}
    BY <1>1 DEF Search
  <2>2. (a.lowest \/ (f.priceScoped /\ f.scope # {} /\ f.contract)) \in BOOLEAN
    BY <2>1, FieldTypes DEF Flags
  <2> HIDE DEF a
  <2>3. QED
    BY <2>1, <2>2 DEF Normalized, a
<1> HIDE DEF a
<1>3. [a EXCEPT !.lowest = lowest] \in Search
  BY <1>1 DEF Search
<1>4. QED
  <2> DEFINE b == [a EXCEPT !.lowest = lowest]
  <2>1. b \in Search
    BY <1>3
  <2> HIDE DEF b
  <2>2. [b EXCEPT !.query = q] \in Search
    BY <2>1 DEF Search
  <2>3. QED
    BY <1>2, <2>2 DEF b

\* The lowest prices of a text in the whole store are looked up only when Magento gave a
\* scope before: the guard asks for it, a scope that is open lets no search out of it, and
\* neither continuity nor an anchor takes a text or a category from a call.
LEMMA LooseNeedsScope ==
    ASSUME NEW f \in Flow, NEW c \in Searches, NEW n \in AdmittedSearches(f, c),
           ComparesLoosely(n)
    PROVE  f.priceScoped
<1> DEFINE a == Anchored(c)
<1>1. c \in Search /\ a \in Search
  BY FlowAssumption, AnchoredIsSearch
<1>2. n \in Normalized(f, c) /\ ~NeedsPriceScope(f, n) /\ ~SearchGuarded(f, n)
  BY DEF AdmittedSearches
<1>3. PICK lowest, q :
         /\ n = [[a EXCEPT !.lowest = lowest] EXCEPT !.query = q]
         /\ a.category = NoCategory => q = a.query
  BY <1>2 DEF Normalized
<1>4. /\ n.category = a.category /\ n.context = a.context /\ n.sample = a.sample
      /\ n.exact = a.exact /\ n.query = q
  BY <1>1, <1>3 DEF Search
<1>5. c.context \notin {"follow_up", "set"}
  <2>1. c.context = "follow_up" => a.exact
    BY <1>1 DEF Anchored, Search
  <2>2. c.context = "set" => a.context = "set"
    BY FlowAssumption DEF Anchored, Search
  <2>3. QED
    BY <1>4, <2>1, <2>2 DEF ComparesLoosely
<1>6. a = c
  BY <1>5 DEF Anchored
<1>7. ~n.sample
  BY <1>3, <1>4, <1>6, SampleAssumption DEF ComparesLoosely
<1>8. f.priceScoped \/ f.scope # {}
  BY <1>2, <1>4, <1>5, <1>6, <1>7 DEF NeedsPriceScope, ComparesLoosely
<1>9. f.scope = {}
  <2>1. n.category \notin f.scope
    BY FlowAssumption, FieldTypes DEF ComparesLoosely
  <2>2. QED
    BY <1>2, <1>7, <2>1 DEF SearchGuarded, InScope
<1>10. QED
  BY <1>8, <1>9

\* What the gateway makes of a search before Magento's last answer to it is registered.
PassedOn(f, t, n) ==
    /\ t \in Flow /\ n \in Search
    /\ t.grid = f.grid /\ t.priceScoped = f.priceScoped /\ t.resolved = f.resolved
    /\ ComparesLoosely(n) => f.priceScoped

LEMMA IdentityPassesOn ==
    ASSUME NEW f \in Flow, NEW s \in Flow, NEW n \in Search, NEW found, PassedOn(f, s, n),
           NEW t \in IdentityLookup(s, n, found)
    PROVE  PassedOn(f, t[1], t[2])
<1> DEFINE tried == [s EXCEPT !.identityTried = TRUE]
           exact == [n EXCEPT !.category = NoCategory, !.exact = TRUE,
                              !.variant = IF @ = "wanted" THEN @ ELSE "no"]
<1>1. PassedOn(f, tried, n)
  <2>1. tried \in Flow
    BY NamedFlagChanges
  <2>2. QED
    BY <2>1, FieldNames DEF PassedOn
<1>2. PassedOn(f, tried, exact)
  <2>1. exact \in Search /\ exact.exact
    <3>1. (IF n.variant = "wanted" THEN n.variant ELSE "no") \in {"no", "wanted", "code", "options"}
      OBVIOUS
    <3>2. QED
      BY <3>1 DEF Search
  <2>2. QED
    BY <1>1, <2>1 DEF PassedOn, ComparesLoosely
<1>3. /\ t[1] \in {s, tried} /\ t[2] \in {n, exact}
      /\ t[1] = s => t[2] = n \/ s = tried
  BY DEF IdentityLookup
<1>4. QED
  BY <1>1, <1>2, <1>3

LEMMA BrowsePassesOn ==
    ASSUME NEW f \in Flow, NEW s \in Flow, NEW n \in Search, NEW found, PassedOn(f, s, n),
           NEW t \in ScopeBrowse(s, n, found)
    PROVE  PassedOn(f, t[1], t[2])
<1> DEFINE tried == [s EXCEPT !.browsed = TRUE]
           bare == [n EXCEPT !.query = NoQuery]
<1>1. PassedOn(f, tried, n)
  <2>1. tried \in Flow
    BY NamedFlagChanges
  <2>2. QED
    BY <2>1, FieldNames DEF PassedOn
<1>2. PassedOn(f, tried, bare)
  <2>1. bare \in Search /\ bare.query = NoQuery
    BY DEF Search
  <2>2. QED
    BY <1>1, <2>1 DEF PassedOn, ComparesLoosely
<1>3. /\ t[1] \in {s, tried} /\ t[2] \in {n, bare}
      /\ t[1] = s => t[2] = n \/ s = tried
  BY DEF ScopeBrowse
<1>4. QED
  BY <1>1, <1>2, <1>3

\* Each stage after the answer changes fields of its own.
Undisturbed(f, g) ==
    g.grid = f.grid /\ g.priceScoped = f.priceScoped /\ g.resolved = f.resolved

LEMMA RememberedIsFlow ==
    ASSUME NEW f \in Flow, NEW n \in Search, NEW found
    PROVE  Remembered(f, n, found) \in Flow /\ Undisturbed(f, Remembered(f, n, found))
<1> DEFINE named == f.known \/ (n.category # NoCategory /\ found # "error")
           rooted == [f EXCEPT !.rooted = @ \/ n.exact]
<1>1. (f.rooted \/ n.exact) \in BOOLEAN /\ named \in BOOLEAN
  BY FieldTypes DEF Flags, Search
<1>2. rooted \in Flow
  BY <1>1, NamedFlagChanges
<1>3. Remembered(f, n, found) = [rooted EXCEPT !.known = named]
  BY FieldNames DEF Remembered
<1>4. Undisturbed(f, Remembered(f, n, found))
  BY FieldNames DEF Remembered, Undisturbed
<1> HIDE DEF rooted, named
<1>5. QED
  BY <1>1, <1>2, <1>3, <1>4, NamedFlagChanges

LEMMA ExactIsFlow ==
    ASSUME NEW f \in Flow, NEW n \in Search, NEW found, NEW refinement
    PROVE  ExactSettled(f, n, found, refinement) \in Flow
           /\ Undisturbed(f, ExactSettled(f, n, found, refinement))
<1> DEFINE g == ExactSettled(f, n, found, refinement)
<1>1. (f.exactRequired /\ ~(n.exact /\ found \in Cards \union {"miss"})) \in BOOLEAN
  OBVIOUS
<1>2. g \in Flow
  <2> DEFINE tried == [f EXCEPT !.exactTried = TRUE]
  <2>1. tried \in Flow
    BY NamedFlagChanges
  <2>2. [tried EXCEPT !.exactRequired = TRUE] \in Flow
    <3> HIDE DEF tried
    <3> QED BY <2>1, NamedFlagChanges
  <2>3. QED
    BY <1>1, <2>2, NamedFlagChanges DEF ExactSettled
<1>3. Undisturbed(f, g)
  BY FieldNames DEF ExactSettled, Undisturbed
<1>4. QED
  BY <1>2, <1>3

LEMMA QueryIsFlow ==
    ASSUME NEW f \in Flow, NEW n \in Search, NEW found, NEW refinement
    PROVE  QuerySettled(f, n, found, refinement) \in Flow
           /\ Undisturbed(f, QuerySettled(f, n, found, refinement))
<1> DEFINE g == QuerySettled(f, n, found, refinement)
<1>1. g \in Flow
  <2>1. n.query \in Queries \union {NoQuery}
    BY DEF Search
  <2>2. QED
    BY <2>1, FieldChanges DEF QuerySettled
<1>2. Undisturbed(f, g)
  BY FieldNames DEF QuerySettled, Undisturbed
<1>3. QED
  BY <1>1, <1>2

LEMMA ScopeIsFlow ==
    ASSUME NEW f \in Flow, NEW n \in Search, NEW found
    PROVE  ScopeSettled(f, n, found) \in Flow /\ Undisturbed(f, ScopeSettled(f, n, found))
<1> DEFINE g == ScopeSettled(f, n, found)
<1>1. g \in Flow
  <2>1. f.scope \ {n.category} \in SUBSET Categories /\ {} \in SUBSET Categories
    BY FieldTypes
  <2>2. QED
    BY <2>1, FieldChanges, NamedFlagChanges DEF ScopeSettled
<1>2. Undisturbed(f, g)
  BY FieldNames DEF ScopeSettled, Undisturbed
<1>3. QED
  BY <1>1, <1>2

LEMMA AvailabilityIsFlow ==
    ASSUME NEW f \in Flow, NEW n \in Search, NEW found
    PROVE  AvailabilitySettled(f, n, found) \in Flow
           /\ Undisturbed(f, AvailabilitySettled(f, n, found))
<1>1. n.sku \in BOOLEAN
  BY DEF Search
<1>2. NeedsLiveRead(n, found) \in BOOLEAN
  BY <1>1 DEF NeedsLiveRead
<1>3. AvailabilitySettled(f, n, found) \in Flow
  BY <1>2, NamedFlagChanges DEF AvailabilitySettled
<1>4. Undisturbed(f, AvailabilitySettled(f, n, found))
  BY FieldNames DEF AvailabilitySettled, Undisturbed
<1>5. QED
  BY <1>3, <1>4

LEMMA VariantIsFlow ==
    ASSUME NEW f \in Flow, NEW n \in Search, NEW found
    PROVE  VariantSettled(f, n, found) \in Flow /\ Undisturbed(f, VariantSettled(f, n, found))
<1> DEFINE g == [f EXCEPT !.wanted = FALSE, !.wantedSearch = FALSE, !.alternative = "no"]
           v == VariantSettled(f, n, found)
<1>1. g \in Flow /\ Undisturbed(f, g)
  <2> DEFINE h == [f EXCEPT !.wanted = FALSE, !.wantedSearch = FALSE]
  <2>1. h \in Flow
    BY NamedFlagChanges
  <2>2. [h EXCEPT !.alternative = "no"] \in Flow
    <3> HIDE DEF h
    <3> QED BY <2>1, FieldChanges
  <2>3. Undisturbed(f, g)
    BY FieldNames DEF Undisturbed
  <2>4. QED
    BY <2>2, <2>3
<1>2. \/ v = g \/ v = f \/ v = [g EXCEPT !.similarUsed = TRUE]
      \/ \E x \in {"no", "required", "discovered"} :
            v = [g EXCEPT !.alternative = x] \/ v = [f EXCEPT !.alternative = x]
  <2> HIDE DEF g
  <2>1. v = CASE IsSimilar(n) -> [g EXCEPT !.similarUsed = TRUE]
              [] n.variant = "options" ->
                   [g EXCEPT !.alternative = IF found \in Empty THEN "discovered" ELSE "no"]
              [] n.variant = "code" -> g
              [] n.variant = "wanted" /\ found \in Empty -> [f EXCEPT !.alternative = "required"]
              [] n.variant \in {"no", "wanted"} /\ ~IsSimilar(n) /\ found \in Cards ->
                   [f EXCEPT !.alternative = "no"]
              [] OTHER -> f
    BY DEF VariantSettled, g
  <2>2. (IF found \in Empty THEN "discovered" ELSE "no") \in {"no", "required", "discovered"}
    OBVIOUS
  <2>3. QED
    BY <2>1, <2>2
<1> HIDE DEF g, v
<1>3. v \in Flow
  <2>1. [g EXCEPT !.similarUsed = TRUE] \in Flow
    BY <1>1, NamedFlagChanges
  <2>2. \A x \in {"no", "required", "discovered"} :
           [g EXCEPT !.alternative = x] \in Flow /\ [f EXCEPT !.alternative = x] \in Flow
    BY <1>1, FieldChanges
  <2>3. QED
    BY <1>1, <1>2, <2>1, <2>2
<1>4. Undisturbed(f, v)
  BY <1>1, <1>2, FieldNames DEF Undisturbed
<1>5. QED
  BY <1>3, <1>4 DEF v

\* An answer that is registered: cards found without a scope come from a price search that
\* had one before, and a confirmed identity comes with its card.
LEMMA RegisteredKeeps ==
    ASSUME NEW f \in Flow, NEW t \in Flow, NEW n \in Search, PassedOn(f, t, n),
           NEW found, NEW forgiven \in BOOLEAN, ~f.resolved, ~f.availability
    PROVE  Registered(t, n, found, forgiven) \in Flow
           /\ CallKeeps(f, Registered(t, n, found, forgiven))
<1> DEFINE named == [t EXCEPT !.resolved = @ \/ found \in Named]
           grid == IF ComparesLoosely(n) THEN "loose" ELSE "sound"
           g == Registered(t, n, found, forgiven)
<1>1. named \in Flow
  <2>1. (t.resolved \/ found \in Named) \in BOOLEAN
    BY FieldTypes DEF Flags
  <2>2. QED
    BY <2>1, NamedFlagChanges
<1>2. /\ named.grid = f.grid /\ named.priceScoped = f.priceScoped
      /\ named.resolved = (found \in Named)
  BY FieldNames DEF PassedOn
<1>3. grid \in Grid /\ grid # "none" /\ (grid = "loose" => f.priceScoped)
  BY DEF Grid, PassedOn
<1>4. CASE found \in Cards
  <2>1. g = [named EXCEPT !.last = "cards", !.terminal = FALSE, !.grid = grid]
    BY <1>4 DEF Registered
  <2> HIDE DEF named, grid, g
  <2>2. g \in Flow
    <3>1. [named EXCEPT !.last = "cards", !.terminal = FALSE] \in Flow
      BY <1>1, NamedFlagChanges, FieldChanges
    <3>2. QED
      <4> DEFINE h == [named EXCEPT !.last = "cards", !.terminal = FALSE]
      <4>1. h \in Flow
        BY <3>1
      <4>2. g = [h EXCEPT !.grid = grid]
        BY <2>1
      <4> HIDE DEF h
      <4>3. QED
        BY <4>1, <4>2, <1>3, FieldChanges
  <2>3. CallKeeps(f, g)
    BY <1>1, <1>2, <1>3, <2>1, FieldNames DEF CallKeeps
  <2>4. QED
    BY <2>2, <2>3 DEF g
<1>5. CASE found \notin Cards
  <2>1. ~named.resolved
    BY <1>2, <1>5 DEF Cards, One
  <2>2. \/ g = [named EXCEPT !.last = "miss", !.terminal = TRUE, !.grid = "none"]
        \/ g = [named EXCEPT !.last = "error"]
        \/ g = [named EXCEPT !.last = named.last]
    BY <1>5 DEF Registered
  <2>3. named.last \in {"none", "error", "cards", "miss"}
    BY <1>1 DEF Flow
  <2> HIDE DEF named, g
  <2>4. g \in Flow
    <3>1. [named EXCEPT !.last = "miss", !.terminal = TRUE] \in Flow
      BY <1>1, NamedFlagChanges, FieldChanges
    <3>2. [named EXCEPT !.last = "miss", !.terminal = TRUE, !.grid = "none"] \in Flow
      <4> DEFINE h == [named EXCEPT !.last = "miss", !.terminal = TRUE]
      <4>1. h \in Flow
        BY <3>1
      <4>2. [named EXCEPT !.last = "miss", !.terminal = TRUE, !.grid = "none"]
               = [h EXCEPT !.grid = "none"]
        OBVIOUS
      <4> HIDE DEF h
      <4>3. "none" \in Grid
        BY DEF Grid
      <4>4. QED
        BY <4>1, <4>2, <4>3, FieldChanges
    <3>3. \A x \in {"none", "error", "cards", "miss"} : [named EXCEPT !.last = x] \in Flow
      BY <1>1, FieldChanges
    <3>4. QED
      BY <2>2, <2>3, <3>2, <3>3
  <2>5. CallKeeps(f, g)
    BY <1>1, <1>2, <2>1, <2>2, FieldNames DEF CallKeeps
  <2>6. QED
    BY <2>4, <2>5 DEF g
<1>6. QED
  BY <1>4, <1>5

LEMMA SettledKeeps ==
    ASSUME NEW f \in Flow, NEW t \in Flow, NEW n \in Search, PassedOn(f, t, n),
           NEW found, NEW refinement \in BOOLEAN, ~f.resolved, ~f.availability
    PROVE  SearchSettled(t, n, found, refinement) \in Flow
           /\ CallKeeps(f, SearchSettled(t, n, found, refinement))
<1> DEFINE noted == Remembered(t, n, found)
           exact == ExactSettled(noted, n, found, refinement)
           query == QuerySettled(exact, n, found, refinement)
           scope == ScopeSettled(query, n, found)
           available == AvailabilitySettled(scope, n, found)
           variant == VariantSettled(available, n, found)
           forgiven == ForgivesMiss(t, n, found, refinement)
<1>0. noted \in Flow /\ Undisturbed(t, noted)
  BY RememberedIsFlow
<1>1. exact \in Flow /\ Undisturbed(noted, exact)
  BY <1>0, ExactIsFlow
<1>2. query \in Flow /\ Undisturbed(exact, query)
  BY <1>1, QueryIsFlow
<1>3. scope \in Flow /\ Undisturbed(query, scope)
  BY <1>2, ScopeIsFlow
<1>4. available \in Flow /\ Undisturbed(scope, available)
  BY <1>3, AvailabilityIsFlow
<1>5. variant \in Flow /\ Undisturbed(available, variant)
  BY <1>4, VariantIsFlow
<1>6. forgiven \in BOOLEAN
  BY DEF ForgivesMiss, Search
<1>7. SearchSettled(t, n, found, refinement) = Registered(variant, n, found, forgiven)
  BY DEF SearchSettled
<1> HIDE DEF noted, exact, query, scope, available, variant, forgiven
<1>8. PassedOn(f, variant, n)
  BY <1>0, <1>1, <1>2, <1>3, <1>4, <1>5 DEF PassedOn, Undisturbed
<1>9. QED
  BY <1>5, <1>6, <1>7, <1>8, RegisteredKeeps

LEMMA ContextKeeps ==
    ASSUME NEW f \in Flow, NEW c
    PROVE  /\ WithContext(f, c) \in Flow /\ CallKeeps(f, WithContext(f, c))
           /\ WithRefinement(f, c) \in Flow /\ CallKeeps(f, WithRefinement(f, c))
           /\ WithRefinement(f, c).executions = f.executions
           /\ Undisturbed(f, WithRefinement(f, c))
<1>1. (Refused(f).refresh /\ c.context # "follow_up") \in BOOLEAN
  BY PlainIsFlow, FieldTypes DEF Flags
<1>2. WithContext(f, c) \in Flow
  BY <1>1, PlainIsFlow, NamedFlagChanges DEF WithContext
<1>3. (IF WithContext(f, c).refine = "required" THEN "done" ELSE WithContext(f, c).refine)
         \in {"no", "required", "done"}
  BY <1>2, FieldTypes
<1>4. WithRefinement(f, c) \in Flow
  BY <1>2, <1>3, FieldChanges DEF WithRefinement
<1>5. CallKeeps(f, WithContext(f, c))
  BY FieldNames DEF CallKeeps, WithContext, Refused
<1>6. /\ CallKeeps(f, WithRefinement(f, c)) /\ WithRefinement(f, c).executions = f.executions
      /\ Undisturbed(f, WithRefinement(f, c))
  BY FieldNames DEF CallKeeps, Undisturbed, WithRefinement, WithContext, Refused
<1>7. QED
  BY <1>2, <1>4, <1>5, <1>6

LEMMA StartIsFlow ==
    ASSUME NEW f \in Flow, HasBudget(f), NEW c
    PROVE  LET start == [Reserved(WithRefinement(f, c)) EXCEPT !.searched = TRUE,
                                                              !.needSearch = FALSE]
           IN  start \in Flow /\ Undisturbed(f, start)
<1> DEFINE reserved == Reserved(WithRefinement(f, c))
<1>1. WithRefinement(f, c) \in Flow /\ HasBudget(WithRefinement(f, c))
  BY ContextKeeps DEF HasBudget
<1>2. reserved \in Flow
  BY <1>1, ReservedIsFlow
<1>3. Undisturbed(f, reserved)
  BY <1>1, ContextKeeps, FieldNames DEF Reserved, Undisturbed
<1> HIDE DEF reserved
<1>4. [reserved EXCEPT !.searched = TRUE, !.needSearch = FALSE] \in Flow
  BY <1>2, NamedFlagChanges
<1>5. Undisturbed(f, [reserved EXCEPT !.searched = TRUE, !.needSearch = FALSE])
  BY <1>2, <1>3, FieldNames DEF Undisturbed
<1>6. QED
  BY <1>4, <1>5 DEF reserved

\* A search is made only when no identity is confirmed and no live read is owed.
LEMMA SearchKeeps ==
    ASSUME NEW f \in Flow, HasBudget(f), NEW c \in Searches, NEW g \in SearchRuns(f, c)
    PROVE  g \in Flow /\ CallKeeps(f, g)
<1> DEFINE start == [Reserved(WithRefinement(f, c)) EXCEPT !.searched = TRUE, !.needSearch = FALSE]
<1>1. PICK n \in AdmittedSearches(f, c) : \E found \in Answers(n) :
         \E t \in IdentityLookup(start, n, found) : \E u \in ScopeBrowse(t[1], t[2], t[3]) :
            g = SearchSettled(u[1], u[2], u[3], f.refine = "required")
  BY DEF SearchRuns
<1>2. ~f.resolved /\ ~f.availability
  BY DEF AdmittedSearches, SearchGuarded, CatalogClosed
<1>3. start \in Flow /\ Undisturbed(f, start)
  BY StartIsFlow
<1>4. n \in Search /\ (ComparesLoosely(n) => f.priceScoped)
  BY NormalizedIsSearch, LooseNeedsScope DEF AdmittedSearches
<1>5. PassedOn(f, start, n)
  BY <1>3, <1>4 DEF PassedOn, Undisturbed
<1> HIDE DEF start
<1>6. PICK found \in Answers(n) :
         \E t \in IdentityLookup(start, n, found) : \E u \in ScopeBrowse(t[1], t[2], t[3]) :
            g = SearchSettled(u[1], u[2], u[3], f.refine = "required")
  BY <1>1
<1>7. PICK t \in IdentityLookup(start, n, found) : \E u \in ScopeBrowse(t[1], t[2], t[3]) :
         g = SearchSettled(u[1], u[2], u[3], f.refine = "required")
  BY <1>6
<1>8. PassedOn(f, t[1], t[2])
  BY <1>3, <1>4, <1>5, IdentityPassesOn
<1>9. PICK u \in ScopeBrowse(t[1], t[2], t[3]) :
         g = SearchSettled(u[1], u[2], u[3], f.refine = "required")
  BY <1>7
<1>10. PassedOn(f, u[1], u[2])
  BY <1>8, BrowsePassesOn DEF PassedOn
<1>11. QED
  BY <1>2, <1>9, <1>10, SettledKeeps DEF PassedOn

LEMMA RefusalKeeps ==
    ASSUME NEW f \in Flow, NEW c \in Searches, NEW g \in SearchRefusals(f, c)
    PROVE  g \in Flow /\ CallKeeps(f, g)
<1> DEFINE asked == [WithContext(f, c) EXCEPT !.searched = TRUE, !.priceDiscovery = TRUE,
                                              !.contract = TRUE]
<1>1. g \in {Refused(f), WithContext(f, c), WithRefinement(f, c), asked}
  BY DEF SearchRefusals
<1>2. asked \in Flow
  <2> DEFINE context == WithContext(f, c)
             searched == [context EXCEPT !.searched = TRUE, !.priceDiscovery = TRUE]
  <2>1. context \in Flow
    BY ContextKeeps
  <2> HIDE DEF context
  <2>2. searched \in Flow
    BY <2>1, NamedFlagChanges
  <2>3. [searched EXCEPT !.contract = TRUE] \in Flow
    <3> HIDE DEF searched
    <3> QED BY <2>2, NamedFlagChanges
  <2>4. QED
    BY <2>3 DEF context
<1>3. CallKeeps(f, asked)
  <2>1. WithContext(f, c) \in Flow /\ CallKeeps(f, WithContext(f, c))
    BY ContextKeeps
  <2>2. QED
    BY <2>1, FieldNames DEF CallKeeps
<1>4. QED
  BY <1>1, <1>2, <1>3, ContextKeeps, PlainKeeps, PlainIsFlow

-----------------------------------------------------------------------------
(***************************************************************************)
(* The turn                                                                *)
(***************************************************************************)
\* Prices that were compared without a scope are nowhere, in the flow, in what the adapter
\* has shown or in what its batch will show, unless a scope was given first.
PricesKept ==
    \A grid \in {flow.grid, shown, replayed} : grid = "loose" => flow.priceScoped

\* The card of a confirmed identity is not taken away by an earlier miss of the same batch.
IdentityKept == flow.resolved => flow.grid # "none" /\ replayed # "none"

\* One adapter copies the flow's cards after every call, the other after every batch.
CopyKept ==
    /\ adapter = "openai" => shown = flow.grid
    /\ adapter = "gemini" /\ (step = "asking" \/ outcome = "done") => shown = flow.grid

TurnInv ==
    /\ TurnTypeOK
    /\ step # "over" => outcome = "none"
    /\ adapter # "gemini" => replayed = "unset"
    /\ PricesKept /\ IdentityKept /\ CopyKept

CallActions ==
    CallRefused \/ CallOverBudget \/ SearchProducts \/ ListCategories \/ ListVariantAttributes
    \/ GetProductAvailability \/ RunOtherTool \/ ResolveControl

LEMMA CallActionKeeps ==
    ASSUME flow \in Flow, stop \in BOOLEAN, CallActions
    PROVE  flow' \in Flow /\ CallKeeps(flow, flow') /\ Calling /\ Takes /\ stop' \in BOOLEAN
<1>1. CASE CallRefused
  BY <1>1, RefusalKeeps, PlainKeeps, PlainIsFlow DEF CallRefused
<1>2. CASE CallOverBudget
  BY <1>2, ContextKeeps, PlainKeeps, PlainIsFlow DEF CallOverBudget
<1>3. CASE SearchProducts
  BY <1>3, SearchKeeps DEF SearchProducts
<1>4. CASE ListCategories
  BY <1>4, CategoriesKeeps DEF ListCategories
<1>5. CASE ListVariantAttributes
  BY <1>5, AttributesKeeps DEF ListVariantAttributes
<1>6. CASE GetProductAvailability
  BY <1>6, OtherKeeps DEF GetProductAvailability
<1>7. CASE RunOtherTool
  BY <1>7, OtherKeeps DEF RunOtherTool
<1>8. CASE ResolveControl
  BY <1>8, ControlKeeps DEF ResolveControl
<1>9. QED
  BY <1>1, <1>2, <1>3, <1>4, <1>5, <1>6, <1>7, <1>8 DEF CallActions

LEMMA BoundsAreNumbers ==
    ASSUME adapter \in Adapters
    PROVE  LastIteration \in Nat /\ \A kind \in Recovery : Allowed(kind) \in Nat
BY TurnAssumption DEF LastIteration, Allowed, Recovery

NoRecoveriesFit ==
    /\ NoRecoveries \in [Recovery -> Nat]
    /\ \A kind \in Recovery : NoRecoveries[kind] <= Allowed(kind)

LEMMA NoneFit == adapter \in Adapters => NoRecoveriesFit
<1> SUFFICES ASSUME adapter \in Adapters PROVE NoRecoveriesFit
  OBVIOUS
<1>1. NoRecoveries \in [Recovery -> Nat] /\ \A kind \in Recovery : NoRecoveries[kind] = 0
  BY DEF NoRecoveries
<1>2. QED
  BY <1>1, BoundsAreNumbers DEF NoRecoveriesFit

LEMMA InitInv == TurnInit => TurnInv
<1> SUFFICES ASSUME TurnInit PROVE TurnInv
  OBVIOUS
<1>1. PICK anchor \in {"none", "single", "set"}, named \in BOOLEAN : flow = NewFlow(anchor, named)
  BY DEF TurnInit
<1>2. flow \in Flow /\ flow.grid = "none" /\ ~flow.resolved
  BY <1>1, NewFlowIsFlow DEF NewFlow
<1>3. TurnTypeOK
  <2>1. adapter \in Adapters /\ LastIteration \in Nat
    BY BoundsAreNumbers DEF TurnInit
  <2>2. NoRecoveriesFit
    BY <2>1, NoneFit
  <2>3. /\ recoveries \in [Recovery -> Nat]
        /\ \A kind \in Recovery : recoveries[kind] <= Allowed(kind)
    BY <2>2 DEF TurnInit, NoRecoveriesFit
  <2>4. iteration \in 0..LastIteration /\ shown \in Grid /\ replayed \in Grid \union {"unset"}
    BY <2>1 DEF TurnInit, Grid
  <2>5. QED
    BY <1>2, <2>1, <2>3, <2>4 DEF TurnInit, TurnTypeOK
<1>4. QED
  BY <1>2, <1>3 DEF TurnInit, TurnInv, PricesKept, IdentityKept, CopyKept

\* The turn ends with what it has shown, or with nothing.
LEMMA EndInv ==
    ASSUME TurnInv, NEW frame \in {"done", "error", "empty", "cancelled"}, NEW grid, NEW last,
           Ends(frame, grid, last),
           \/ grid = "none" /\ last = NewFlow("none", FALSE)
           \/ grid = shown /\ last = flow /\ step = "asking"
    PROVE  TurnInv'
<1>1. NewFlow("none", FALSE) \in Flow /\ NewFlow("none", FALSE).grid = "none" /\ ~NewFlow("none", FALSE).resolved
  BY NewFlowIsFlow DEF NewFlow
<1>2. adapter' \in Adapters /\ flow' \in Flow /\ shown' \in Grid
  BY <1>1 DEF TurnInv, TurnTypeOK, Ends, Grid
<1>3. TurnTypeOK'
  <2>1. adapter' = adapter /\ LastIteration' = LastIteration /\ \A kind : Allowed(kind)' = Allowed(kind)
    BY DEF Ends, LastIteration, Allowed
  <2>2. LastIteration \in Nat /\ NoRecoveriesFit
    BY BoundsAreNumbers, NoneFit DEF TurnInv, TurnTypeOK
  <2>3. /\ recoveries' \in [Recovery -> Nat]
        /\ \A kind \in Recovery : recoveries'[kind] <= Allowed(kind)'
    BY <2>1, <2>2 DEF Ends, NoRecoveriesFit
  <2>4. iteration' \in 0..LastIteration'
    BY <2>1, <2>2 DEF Ends
  <2>5. QED
    BY <1>2, <2>3, <2>4 DEF Ends, TurnTypeOK
<1>4. PricesKept' /\ IdentityKept' /\ CopyKept'
  BY <1>1 DEF TurnInv, Ends, PricesKept, IdentityKept, CopyKept
<1>5. QED
  BY <1>3, <1>4 DEF TurnInv, Ends

LEMMA CallInv ==
    ASSUME TurnInv, CallActions
    PROVE  TurnInv'
<1>1. flow' \in Flow /\ CallKeeps(flow, flow') /\ Calling /\ Takes /\ stop' \in BOOLEAN
  BY CallActionKeeps DEF TurnInv, TurnTypeOK
<1>2. flow'.grid \in Grid
  BY <1>1, FieldTypes
<1>3. TurnTypeOK'
  <2>1. shown' \in Grid /\ replayed' \in Grid \union {"unset"} /\ failed' \in BOOLEAN
    BY <1>1, <1>2, TurnAssumption DEF TurnInv, TurnTypeOK, Takes
  <2>2. LastIteration' = LastIteration /\ \A kind : Allowed(kind)' = Allowed(kind)
    BY <1>1 DEF Takes, LastIteration, Allowed
  <2>3. QED
    BY <1>1, <2>1, <2>2 DEF TurnInv, TurnTypeOK, Takes
<1>4. PricesKept'
  <2>1. shown' \in {shown, flow'.grid} /\ replayed' \in {replayed, flow'.grid}
    BY <1>1, TurnAssumption DEF TurnInv, TurnTypeOK, Takes
  <2>2. PricesKept /\ CallKeeps(flow, flow')
    BY <1>1 DEF TurnInv
  <2>3. flow'.grid = "loose" => flow'.priceScoped
    BY <2>2 DEF PricesKept, CallKeeps
  <2>4. QED
    BY <2>1, <2>2, <2>3 DEF PricesKept, CallKeeps
<1>5. IdentityKept'
  <2>1. IdentityKept /\ CallKeeps(flow, flow')
    BY <1>1 DEF TurnInv
  <2>2. flow'.resolved => flow'.grid # "none"
    BY <2>1 DEF IdentityKept, CallKeeps
  <2>3. \/ replayed' = flow'.grid
        \/ replayed' = replayed /\ (adapter = "gemini" => flow'.last \notin {"cards", "miss"})
    BY <1>1 DEF Takes
  <2>4. adapter # "gemini" => replayed = "unset"
    BY DEF TurnInv
  <2>5. QED
    BY <2>1, <2>2, <2>3, <2>4 DEF IdentityKept, CallKeeps
<1>6. CopyKept'
  BY <1>1 DEF TurnInv, CopyKept, Takes, Calling
<1>7. QED
  BY <1>1, <1>3, <1>4, <1>5, <1>6 DEF TurnInv, Takes, Calling

\* The next round begins.
LEMMA AgainInv ==
    ASSUME TurnInv, step # "over", NEW kept \in Flow, NEW final \in BOOLEAN,
           NEW run \in BOOLEAN, NEW count \in [Recovery -> Nat],
           \A kind \in Recovery : count[kind] <= Allowed(kind),
           Again(kept, final, run, count),
           kept.grid = "loose" => kept.priceScoped,
           kept.resolved => kept.grid # "none",
           step' = "asking" => /\ shown' = shown \/ shown' = kept.grid
                               /\ shown = "loose" => kept.priceScoped
                               /\ adapter \in {"openai", "gemini"} => shown' = kept.grid
    PROVE  TurnInv'
<1>1. CASE EndsWith("empty")
  BY <1>1, EndInv DEF EndsWith
<1>2. CASE ~EndsWith("empty")
  <2> DEFINE next == [kept EXCEPT !.last = "none"]
  <2>1. /\ step' = "asking" /\ iteration # LastIteration /\ iteration' = iteration + 1
        /\ flow' = next /\ forceFinal' = final /\ batchRun' = run /\ recoveries' = count
        /\ stop' = FALSE /\ failed' = FALSE /\ replayed' = "unset"
        /\ UNCHANGED <<adapter, outcome>>
    BY <1>2 DEF Again
  <2>2. next \in Flow /\ next.grid = kept.grid /\ next.priceScoped = kept.priceScoped
        /\ next.resolved = kept.resolved
    BY FieldChanges, FieldNames
  <2> HIDE DEF next
  <2>3. LastIteration' = LastIteration /\ \A kind : Allowed(kind)' = Allowed(kind)
    BY <2>1 DEF LastIteration, Allowed
  <2>4. TurnTypeOK'
    <3>1. iteration' \in 0..LastIteration'
      BY <2>1, <2>3, BoundsAreNumbers DEF TurnInv, TurnTypeOK
    <3>2. shown' \in Grid /\ flow' \in Flow
      BY <2>1, <2>2, FieldTypes DEF TurnInv, TurnTypeOK
    <3>3. /\ recoveries' \in [Recovery -> Nat]
          /\ \A kind \in Recovery : recoveries'[kind] <= Allowed(kind)'
      BY <2>1, <2>3
    <3>4. QED
      BY <2>1, <3>1, <3>2, <3>3 DEF TurnInv, TurnTypeOK
  <2>5. PricesKept'
    BY <2>1, <2>2 DEF PricesKept
  <2>6. IdentityKept' /\ CopyKept'
    BY <2>1, <2>2 DEF IdentityKept, CopyKept
  <2>7. QED
    BY <2>1, <2>4, <2>5, <2>6 DEF TurnInv
<1>3. QED
  BY <1>1, <1>2

LEMMA FailingInv ==
    ASSUME TurnInv, step # "over", EndsWith("error")
    PROVE  TurnInv'
BY EndInv DEF EndsWith

\* The batch ends: one adapter takes its cards now.
LEMMA BatchInv ==
    ASSUME TurnInv, BatchEnds
    PROVE  TurnInv'
<1> DEFINE grid == IF replayed = "unset" THEN flow.grid ELSE replayed
           again == [flow EXCEPT !.grid = grid,
                       !.terminal = IF replayed \in {"loose", "sound"} THEN FALSE ELSE @]
<1>1. flow \in Flow /\ grid \in Grid
  BY FieldTypes DEF TurnInv, TurnTypeOK
<1>2. again \in Flow
  <2> DEFINE shownAgain == [flow EXCEPT !.grid = grid]
             terminal == IF replayed \in {"loose", "sound"} THEN FALSE ELSE flow.terminal
  <2>1. shownAgain \in Flow
    BY <1>1, FieldChanges
  <2>2. terminal \in BOOLEAN
    BY <1>1, FieldTypes DEF Flags
  <2> HIDE DEF terminal, grid
  <2>3. again = [shownAgain EXCEPT !.terminal = terminal]
    BY DEF terminal
  <2> HIDE DEF shownAgain, again
  <2>4. QED
    BY <2>1, <2>2, <2>3, NamedFlagChanges
<1>3. /\ again.grid = grid /\ again.priceScoped = flow.priceScoped
      /\ again.resolved = flow.resolved
  BY <1>1, FieldNames
<1>4. /\ again.grid = "loose" => again.priceScoped
      /\ again.resolved => again.grid # "none"
      /\ shown = "loose" => again.priceScoped
  BY <1>3 DEF TurnInv, PricesKept, IdentityKept
<1>5. step = "batch" /\ (EndsWith("empty") \/ EndsWith("error")
        \/ /\ Again(again, forceFinal, batchRun, recoveries)
           /\ step' = "asking" => shown' = IF adapter = "gemini" THEN grid ELSE shown)
  BY DEF BatchEnds, AgainUnless
<1> HIDE DEF again
<1>6. CASE EndsWith("empty") \/ EndsWith("error")
  BY <1>5, <1>6, EndInv DEF EndsWith
<1>7. CASE /\ Again(again, forceFinal, batchRun, recoveries)
           /\ step' = "asking" => shown' = IF adapter = "gemini" THEN grid ELSE shown
  <2>1. adapter = "openai" => shown = grid
    BY DEF TurnInv, CopyKept
  <2>2. step' = "asking" => /\ shown' = shown \/ shown' = again.grid
                            /\ adapter \in {"openai", "gemini"} => shown' = again.grid
    BY <1>3, <1>7, <2>1
  <2>3. /\ forceFinal \in BOOLEAN /\ batchRun \in BOOLEAN /\ recoveries \in [Recovery -> Nat]
        /\ \A kind \in Recovery : recoveries[kind] <= Allowed(kind)
    BY DEF TurnInv, TurnTypeOK
  <2>4. QED
    BY <1>2, <1>4, <1>5, <1>7, <2>2, <2>3, AgainInv
<1>8. QED
  BY <1>5, <1>6, <1>7

\* A recovery: the cards stay as they are.
LEMMA RecoverInv ==
    ASSUME TurnInv, step = "asking", NEW kind \in Recovery, NEW final \in BOOLEAN,
           Recover(kind, final)
    PROVE  TurnInv'
<1> DEFINE count == [recoveries EXCEPT ![kind] = @ + 1]
<1>1. count \in [Recovery -> Nat] /\ \A k \in Recovery : count[k] <= Allowed(k)
  <2>1. Allowed(kind) \in Nat /\ recoveries[kind] < Allowed(kind)
    BY BoundsAreNumbers DEF TurnInv, TurnTypeOK, Recover, Left
  <2>2. QED
    BY <2>1 DEF TurnInv, TurnTypeOK
<1>2. Again(flow, final, batchRun, count) /\ (iteration < LastIteration => UNCHANGED shown)
  BY DEF Recover
<1> HIDE DEF count
<1>3. step' = "asking" => UNCHANGED shown
  <2>1. iteration = LastIteration => step' = "over"
    BY <1>2 DEF Again, EndsWith, Ends
  <2>2. iteration \in 0..LastIteration /\ LastIteration \in Nat
    BY BoundsAreNumbers DEF TurnInv, TurnTypeOK
  <2>3. QED
    BY <1>2, <2>1, <2>2
<1>4. flow \in Flow /\ batchRun \in BOOLEAN
  BY DEF TurnInv, TurnTypeOK
<1>5. /\ flow.grid = "loose" => flow.priceScoped
      /\ flow.resolved => flow.grid # "none"
      /\ shown = "loose" => flow.priceScoped
      /\ adapter \in {"openai", "gemini"} => shown = flow.grid
  BY DEF TurnInv, PricesKept, IdentityKept, CopyKept
<1>6. QED
  BY <1>1, <1>2, <1>3, <1>4, <1>5, AgainInv

\* The read the gateway makes itself.
LEMMA ReadFindsNoCards ==
    ASSUME NEW f \in Flow, NEW g \in AvailabilityRun(f) \union {NeedSettled(f)}
    PROVE  g.last \in {"none", "error"}
BY FieldNames DEF AvailabilityRun, NeedSettled, Reserved

LEMMA ReadInv ==
    ASSUME TurnInv, ReadsAvailability
    PROVE  TurnInv'
<1>1. PICK kept \in (IF HasBudget(flow) THEN AvailabilityRun(flow) ELSE {NeedSettled(flow)})
                    \union (IF flow.read THEN {NeedSettled(flow)} ELSE {}) :
         /\ AgainUnless(kept.last = "error", kept, TRUE, TRUE)
         /\ step' = "asking" => shown' = kept.grid
  BY DEF ReadsAvailability
<1>2. step = "asking" /\ flow \in Flow
  BY DEF ReadsAvailability, TurnInv, TurnTypeOK
<1>3. kept \in Flow /\ CallKeeps(flow, kept)
  BY <1>1, <1>2, OtherKeeps, PlainKeeps, PlainIsFlow
<1>4. kept.last \notin {"cards", "miss"}
  BY <1>1, <1>2, ReadFindsNoCards
<1>5. /\ kept.grid = "loose" => kept.priceScoped
      /\ kept.resolved => kept.grid # "none"
      /\ shown = "loose" => kept.priceScoped
  BY <1>3, <1>4 DEF CallKeeps, TurnInv, PricesKept, IdentityKept
<1>6. CASE EndsWith("error")
  BY <1>2, <1>6, FailingInv
<1>7. CASE Again(kept, TRUE, TRUE, recoveries)
  <2>1. /\ recoveries \in [Recovery -> Nat]
        /\ \A kind \in Recovery : recoveries[kind] <= Allowed(kind)
    BY DEF TurnInv, TurnTypeOK
  <2>2. QED
    BY <1>1, <1>2, <1>3, <1>5, <1>7, <2>1, AgainInv
<1>8. QED
  BY <1>1, <1>6, <1>7 DEF AgainUnless

LEMMA DecideInv ==
    ASSUME TurnInv, DecidesNeed
    PROVE  TurnInv'
<1> DEFINE kept == [flow EXCEPT !.need = FALSE, !.needSearch = TRUE]
<1>1. /\ step = "asking" /\ adapter = "anthropic" /\ flow \in Flow
      /\ Again(kept, forceFinal, TRUE, recoveries)
      /\ step' = "asking" => UNCHANGED shown
  BY DEF DecidesNeed, ControlSettled, AnchorSettled, TurnInv, TurnTypeOK
<1>2. kept \in Flow
  BY <1>1, NamedFlagChanges
<1>3. kept.grid = flow.grid /\ kept.priceScoped = flow.priceScoped /\ kept.resolved = flow.resolved
  BY <1>1, FieldNames
<1> HIDE DEF kept
<1>4. /\ kept.grid = "loose" => kept.priceScoped
      /\ kept.resolved => kept.grid # "none"
      /\ shown = "loose" => kept.priceScoped
  BY <1>3 DEF TurnInv, PricesKept, IdentityKept
<1>5. /\ forceFinal \in BOOLEAN /\ recoveries \in [Recovery -> Nat]
      /\ \A kind \in Recovery : recoveries[kind] <= Allowed(kind)
  BY DEF TurnInv, TurnTypeOK
<1>6. QED
  BY <1>1, <1>2, <1>4, <1>5, AgainInv

LEMMA AskInv ==
    ASSUME TurnInv, CallsTools
    PROVE  TurnInv'
<1>1. LastIteration' = LastIteration /\ \A kind : Allowed(kind)' = Allowed(kind)
  BY DEF CallsTools, LastIteration, Allowed
<1>2. TurnTypeOK'
  BY <1>1 DEF CallsTools, TurnInv, TurnTypeOK
<1>3. QED
  BY <1>2 DEF CallsTools, TurnInv, PricesKept, IdentityKept, CopyKept

LEMMA StepInv == TurnInv /\ [TurnNext]_turnVars => TurnInv'
<1> SUFFICES ASSUME TurnInv, [TurnNext]_turnVars PROVE TurnInv'
  OBVIOUS
<1>1. CASE ProviderFails
  BY <1>1, FailingInv DEF ProviderFails
<1>2. CASE Cancelled \/ SendsNothing
  BY <1>2, EndInv DEF Cancelled, SendsNothing, EndsWith
<1>3. CASE SendsAnswer
  BY <1>3, EndInv DEF SendsAnswer, ProseSettled, ControlSettled, AnchorSettled
<1>4. CASE CallsTools
  BY <1>4, AskInv
<1>5. CASE CallRefused \/ CallOverBudget \/ RunsTool
  BY <1>5, CallInv DEF RunsTool, CallActions
<1>6. CASE BatchEnds
  BY <1>6, BatchInv
<1>7. CASE ReadsAvailability
  BY <1>7, ReadInv
<1>8. CASE DecidesNeed
  BY <1>8, DecideInv
<1>9. CASE AsksForAnchorAgain \/ AsksForControlAgain \/ RejectsStaleCall \/ AsksForRepair
           \/ AsksForAnswer
  <2>1. step = "asking" /\ \E kind \in Recovery, final \in BOOLEAN : Recover(kind, final)
    BY <1>9 DEF AsksForAnchorAgain, AsksForControlAgain, RejectsStaleCall, AsksForRepair,
                AsksForAnswer, ProseSettled, ControlSettled, AnchorSettled, Recovery,
                TurnInv, TurnTypeOK
  <2>2. QED
    BY <2>1, RecoverInv
<1>10. CASE UNCHANGED turnVars
  <2>1. LastIteration' = LastIteration /\ \A kind : Allowed(kind)' = Allowed(kind)
    BY <1>10 DEF turnVars, LastIteration, Allowed
  <2>2. TurnTypeOK'
    BY <1>10, <2>1 DEF turnVars, TurnInv, TurnTypeOK
  <2>3. QED
    BY <1>10, <2>2 DEF turnVars, TurnInv, PricesKept, IdentityKept, CopyKept
<1>11. QED
  BY <1>1, <1>2, <1>3, <1>4, <1>5, <1>6, <1>7, <1>8, <1>9, <1>10 DEF TurnNext, Recovers

LEMMA TurnInvariant == TurnSpec => []TurnInv
<1>1. TurnInit => TurnInv
  BY InitInv
<1>2. TurnInv /\ [TurnNext]_turnVars => TurnInv'
  BY StepInv
<1>3. QED
  BY <1>1, <1>2, PTL DEF TurnSpec

\* The flow and the turn keep their types: the guards leave no call a flow that is not one,
\* and no recovery goes on beyond its bound.
THEOREM TurnTypeCorrect == TurnSpec => []TurnTypeOK
<1>1. TurnInv => TurnTypeOK
  BY DEF TurnInv
<1>2. QED
  BY <1>1, TurnInvariant, PTL

\* Whatever calls were refused and repeated, prices are compared in a scope first.
THEOREM PricesCorrect == TurnSpec => []PricesComparedInScope
<1>1. TurnInv => PricesComparedInScope
  BY DEF TurnInv, PricesKept, PricesComparedInScope
<1>2. QED
  BY <1>1, TurnInvariant, PTL

\* The card of a confirmed identity survives the rest of its turn.
THEOREM IdentityCorrect == TurnSpec => []IdentityKeepsItsCard
<1>1. TurnInv => IdentityKeepsItsCard
  BY DEF TurnInv, IdentityKept, IdentityKeepsItsCard
<1>2. QED
  BY <1>1, TurnInvariant, PTL

\* The adapters that copy the flow's cards send the flow's last cards.
THEOREM AnswerCorrect == TurnSpec => []AnswerShowsFlowsCards
<1>1. TurnInv => AnswerShowsFlowsCards
  BY TurnAssumption DEF TurnInv, TurnTypeOK, CopyKept, AnswerShowsFlowsCards
<1>2. QED
  BY <1>1, TurnInvariant, PTL

-----------------------------------------------------------------------------
(***************************************************************************)
(* The read that is owed                                                   *)
(***************************************************************************)
OwedReadStep ==
    flow.availability =>
        \/ flow'.availability /\ outcome' # "done"
        \/ flow'.read /\ flow'.executions = flow.executions + 1
        \/ outcome' \in {"error", "empty", "cancelled"}

\* A new round changes nothing of what the flow owes.
LEMMA AgainOwes ==
    ASSUME TurnInv, step # "over", NEW kept \in Flow, NEW final, NEW run, NEW count,
           Again(kept, final, run, count), CallKeeps(flow, kept)
    PROVE  OwedReadStep
<1>1. CASE EndsWith("empty")
  BY <1>1 DEF EndsWith, Ends, OwedReadStep
<1>2. CASE flow' = [kept EXCEPT !.last = "none"] /\ UNCHANGED outcome
  <2>1. /\ flow'.availability = kept.availability /\ flow'.read = kept.read
        /\ flow'.executions = kept.executions
    BY <1>2, FieldNames
  <2>2. QED
    BY <1>2, <2>1 DEF TurnInv, CallKeeps, OwedReadStep
<1>3. QED
  BY <1>1, <1>2 DEF Again

LEMMA OwedStep == TurnInv /\ [TurnNext]_turnVars => [OwedReadStep]_turnVars
<1> SUFFICES ASSUME TurnInv, TurnNext PROVE OwedReadStep
  OBVIOUS
<1>0. flow \in Flow /\ CallKeeps(flow, flow)
  BY DEF TurnInv, TurnTypeOK, IdentityKept, CallKeeps
<1>1. CASE ProviderFails \/ Cancelled \/ SendsNothing
  BY <1>1 DEF ProviderFails, Cancelled, SendsNothing, EndsWith, Ends, OwedReadStep
<1>2. CASE SendsAnswer
  BY <1>2 DEF SendsAnswer, ProseSettled, ControlSettled, AnchorSettled, OwedReadStep
<1>3. CASE CallsTools
  BY <1>3 DEF CallsTools, TurnInv, OwedReadStep
<1>4. CASE CallRefused \/ CallOverBudget \/ RunsTool
  <2>1. CallKeeps(flow, flow') /\ Calling /\ Takes
    BY <1>0, <1>4, CallActionKeeps DEF RunsTool, CallActions, TurnInv, TurnTypeOK
  <2>2. QED
    BY <2>1 DEF TurnInv, CallKeeps, Calling, Takes, OwedReadStep
<1>5. CASE BatchEnds
  <2> DEFINE grid == IF replayed = "unset" THEN flow.grid ELSE replayed
             again == [flow EXCEPT !.grid = grid,
                         !.terminal = IF replayed \in {"loose", "sound"} THEN FALSE ELSE @]
  <2>1. \/ EndsWith("empty") \/ EndsWith("error")
        \/ Again(again, forceFinal, batchRun, recoveries)
    BY <1>5 DEF BatchEnds, AgainUnless
  <2>2. again.availability = flow.availability
    BY <1>0, FieldNames
  <2> HIDE DEF again
  <2>3. CASE EndsWith("empty") \/ EndsWith("error")
    BY <2>3 DEF EndsWith, Ends, OwedReadStep
  <2>4. CASE flow' = [again EXCEPT !.last = "none"] /\ UNCHANGED outcome
    <3>1. flow'.availability = again.availability
      BY <1>0, <2>4, FieldNames DEF again
    <3>2. QED
      BY <1>5, <2>2, <2>4, <3>1 DEF BatchEnds, TurnInv, OwedReadStep
  <2>5. QED
    BY <2>1, <2>3, <2>4 DEF Again
<1>6. CASE ReadsAvailability
  <2>1. PICK kept \in (IF HasBudget(flow) THEN AvailabilityRun(flow) ELSE {NeedSettled(flow)})
                      \union (IF flow.read THEN {NeedSettled(flow)} ELSE {}) :
           AgainUnless(kept.last = "error", kept, TRUE, TRUE)
    BY <1>6 DEF ReadsAvailability
  <2>2. kept \in Flow /\ CallKeeps(flow, kept)
    BY <1>0, <2>1, OtherKeeps, PlainKeeps, PlainIsFlow
  <2>3. CASE EndsWith("error")
    BY <2>3 DEF EndsWith, Ends, OwedReadStep
  <2>4. CASE Again(kept, TRUE, TRUE, recoveries)
    BY <1>6, <2>2, <2>4, AgainOwes DEF ReadsAvailability
  <2>5. QED
    BY <2>1, <2>3, <2>4 DEF AgainUnless
<1>7. CASE \E kind, final : step = "asking" /\ Recover(kind, final)
  BY <1>0, <1>7, AgainOwes DEF Recover
<1>8. CASE DecidesNeed
  BY <1>8 DEF DecidesNeed, ControlSettled, AnchorSettled, OwedReadStep
<1>9. QED
  BY <1>1, <1>2, <1>3, <1>4, <1>5, <1>6, <1>7, <1>8
     DEF TurnNext, Recovers, AsksForAnchorAgain, AsksForControlAgain, RejectsStaleCall,
         AsksForRepair, AsksForAnswer, ProseSettled, ControlSettled, AnchorSettled

\* No search, recovery or repeated call lets the prose out on a stock hint.
THEOREM OwedReadCorrect == TurnSpec => OwedReadIsMade
<1>1. TurnInv /\ [TurnNext]_turnVars => [OwedReadStep]_turnVars
  BY OwedStep
<1>2. QED
  BY <1>1, TurnInvariant, PTL DEF TurnSpec, OwedReadIsMade, OwedReadStep
=============================================================================
