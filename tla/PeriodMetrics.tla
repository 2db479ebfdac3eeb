---------------------------- MODULE PeriodMetrics ----------------------------
(***************************************************************************)
(* One company's figures and the cache of its metrics, one request at a    *)
(* time (ReportPipeline has them overlap, and takes a computation for the  *)
(* figures it read).  Statements are keyed by both ends of their period    *)
(* and so are the rows a computation replaces; but it is asked for, and    *)
(* cached rows are looked up, by the last day alone, which two periods may *)
(* share (a half and the full year that ends with it).                     *)
(***************************************************************************)
EXTENDS MetricFormulas

CONSTANTS
  Periods,      (* [first, last] of the company's periods                   *)
  TaxonomyOrder,(* the taxonomy codes in alphabetical order                 *)
  Changes,      (* entries a user may make: [period, code, value]           *)
  Flaggable,    (* codes a validation may flag                              *)
  Seed,         (* the figures on record at the start, by period            *)
  MaxChanges    (* bound on entries and flags                               *)

Codes == {TaxonomyOrder[i] : i \in DOMAIN TaxonomyOrder}

Sheets == UNION {[S -> Int] : S \in SUBSET Codes}

ASSUME PeriodsAreFinite == IsFiniteSet(Periods)
ASSUME PeriodsEnd ==
  /\ Periods \subseteq [first : Int, last : Int]
  /\ \A p \in Periods : p.first <= p.last
ASSUME SeedIsFigures ==
  /\ Seed = [p \in Periods |-> Seed[p]]
  /\ \A p \in Periods : DOMAIN Seed[p] \subseteq Codes
                        /\ Seed[p] \in [DOMAIN Seed[p] -> Int]
ASSUME ChangesAreFigures ==
  \A ch \in Changes : ch.period \in Periods /\ ch.code \in Codes /\ ch.value \in Int

VARIABLES
  sheet,     (* the figures of each period that are not flagged             *)
  cache,     (* for each period, the rows a computation stored              *)
  changes    (* entries and flags made                                      *)

vars == <<sheet, cache, changes>>

Nothing == [key \in {} |-> 0]

-----------------------------------------------------------------------------
(* The statements come by last day and then by code, and a period takes its *)
(* place in the history when its first row does: of two with one last day,  *)
(* the one whose first code comes first.                                    *)
FirstRow(s) ==
  CHOOSE i \in DOMAIN TaxonomyOrder :
    /\ TaxonomyOrder[i] \in DOMAIN s
    /\ \A k \in 1..(i - 1) : TaxonomyOrder[k] \notin DOMAIN s

Stated(figures) == {p \in Periods : DOMAIN figures[p] # {}}

(* Rows of one code and last day come in either order, which tie stands for. *)
Before(figures, tie, p, q) ==
  \/ p.last < q.last
  \/ p.last = q.last /\ FirstRow(figures[p]) < FirstRow(figures[q])
  \/ /\ p.last = q.last /\ FirstRow(figures[p]) = FirstRow(figures[q])
     /\ IF tie THEN p.first < q.first ELSE q.first < p.first

(* _build_period_history                                                    *)
History(figures, tie) ==
  LET S == Stated(figures)
  IN  {[first |-> p.first, last |-> p.last, sheet |-> figures[p],
        at |-> Cardinality({q \in S : Before(figures, tie, q, p)})] : p \in S}

(* compute_and_store_metrics for the periods that end on day: the first of  *)
(* them is computed, and its rows replaced; none left, nothing happens.     *)
Store(figures, day) ==
  IF \A p \in Stated(figures) : p.last # day THEN cache' = cache
  ELSE \E tie \in BOOLEAN :
    LET h       == History(figures, tie)
        current == CHOOSE p \in FirstOf({p \in h : p.last = day}) : TRUE
        key     == [first |-> current.first, last |-> current.last]
    IN  cache' = [cache EXCEPT ![key] = ComputeAll(current, h)]

-----------------------------------------------------------------------------
Init ==
  /\ sheet = Seed
  /\ cache = [p \in Periods |-> Nothing]
  /\ changes = 0

Change(p, figures) ==
  /\ changes < MaxChanges /\ changes' = changes + 1
  /\ sheet' = [sheet EXCEPT ![p] = figures]
  /\ Store(sheet', p.last)

(* A figure is entered or overridden, and passes validation.                *)
Enter(ch) ==
  LET s == sheet[ch.period] IN
  /\ ch.code \in DOMAIN s => s[ch.code] # ch.value
  /\ Change(ch.period, [c \in DOMAIN s \cup {ch.code} |->
                          IF c = ch.code THEN ch.value ELSE s[c]])

(* Validation flags a figure.                                               *)
Flag(p, c) ==
  /\ c \in DOMAIN sheet[p]
  /\ Change(p, [d \in DOMAIN sheet[p] \ {c} |-> sheet[p][d]])

(* Rows of all the periods that end that day answer for it.                 *)
Cached(day) == UNION {DOMAIN cache[p] : p \in {q \in Periods : q.last = day}}

(* get_or_compute_metrics                                                   *)
View(day) ==
  /\ Cached(day) # METRIC_REGISTRY
  /\ \E p \in Stated(sheet) : p.last = day
  /\ Store(sheet, day)
  /\ UNCHANGED <<sheet, changes>>

Next ==
  \/ \E ch \in Changes : Enter(ch)
  \/ \E p \in Periods : \E c \in Flaggable : Flag(p, c)
  \/ \E day \in {p.last : p \in Periods} : View(day)

Spec == Init /\ [][Next]_vars

-----------------------------------------------------------------------------
(* Properties *)

Alone(p) == \A q \in Periods : q.last = p.last => q = p \/ DOMAIN sheet[q] = {}

(* The periods whose cached rows are about the figures they have now: those *)
(* with a figure left and their last day to themselves.                     *)
Current == {p \in Stated(sheet) : cache[p] # Nothing /\ Alone(p)}

Val(p, key)   == cache[p][key].value
Shown(p, key) == Known(Val(p, key))

(* x times y is z, in fractions, where each is known.                       *)
Product(x, y, z)    == x[1] * y[1] * z[2] = z[1] * x[2] * y[2]
Difference(x, y, z) == (x[1] * y[2] - y[1] * x[2]) * z[2] = z[1] * x[2] * y[2]

Ten2 == <<100, 1>>

(* The metrics a board sees side by side fit together and fit the figures:  *)
(* every one that rests on EBITDA rests on the same EBITDA, which is        *)
(* operating income with depreciation added back wherever both are known;   *)
(* a margin, a cover and a runway give back the figure they were taken      *)
(* from; no multiple of a loss and no runway of a company that earns cash   *)
(* is shown; and all of it speaks of the figures as last corrected.         *)
MetricsFitTogether ==
  \A p \in Current :
    LET V(key) == Val(p, key)
        F(c)   == Of(sheet[p], c)
        ebitda == V("ebitda")
    IN
    /\ Computed(sheet[p]) =>
         ebitda = <<sheet[p]["OPERATING_INCOME"] + sheet[p]["DEPRECIATION"], 1>>
    /\ Shown(p, "ebitda_margin") => Product(V("ebitda_margin"), F("REVENUE"), Ratio(ebitda, <<1, 100>>))
    /\ Shown(p, "free_cash_flow") => Difference(ebitda, F("CAPITAL_EXPENDITURE"), V("free_cash_flow"))
    /\ Shown(p, "dscr") => ebitda[1] > 0 /\ Product(V("dscr"), F("DEBT_SERVICE"), ebitda)
    /\ Shown(p, "leverage_ratio") => ebitda[1] > 0 /\ Product(V("leverage_ratio"), ebitda, F("TOTAL_DEBT"))
    /\ Shown(p, "gross_margin") /\ Shown(p, "cogs_pct_of_revenue") /\ "GROSS_PROFIT" \notin DOMAIN sheet[p]
         => Difference(Ten2, V("gross_margin"), V("cogs_pct_of_revenue"))
    /\ Shown(p, "cash_runway_months") =>
         /\ F("NET_OPERATING_CASH_FLOW")[1] < 0
         /\ Product(V("cash_runway_months"),
                    Ratio(<<-F("NET_OPERATING_CASH_FLOW")[1], 1>>, period_length_months(p)),
                    V("cash_balance"))
    /\ Shown(p, "roce") =>
         Product(V("roce"), Minus(F("TOTAL_ASSETS"), F("CURRENT_LIABILITIES")),
                 Ratio(F("OPERATING_INCOME"), <<1, 100>>))

(* What a metric can be computed from: any of these sets of codes.          *)
Ebitdas == {{"EBITDA"}, {"OPERATING_INCOME", "DEPRECIATION"}}
With(sets, C) == {S \cup C : S \in sets}

Recipes ==
  [gross_margin |-> {{"REVENUE", "GROSS_PROFIT"}, {"REVENUE", "COST_OF_GOODS_SOLD"}},
   operating_margin |-> {{"REVENUE", "OPERATING_INCOME"}},
   ebitda |-> Ebitdas,
   ebitda_margin |-> With(Ebitdas, {"REVENUE"}),
   free_cash_flow |-> With(Ebitdas, {"CAPITAL_EXPENDITURE"}),
   dscr |-> With(Ebitdas, {"DEBT_SERVICE"}),
   leverage_ratio |-> With(Ebitdas, {"TOTAL_DEBT"}),
   working_capital |-> {{"CURRENT_ASSETS", "CURRENT_LIABILITIES"}},
   roce |-> {{"OPERATING_INCOME", "TOTAL_ASSETS", "CURRENT_LIABILITIES"}},
   cash_runway_months |-> {{"CASH_AND_EQUIVALENTS", "NET_OPERATING_CASH_FLOW"}}]

(* A metric names codes to add exactly when it cannot be computed from the  *)
(* figures there are; whoever adds the codes it names, but for the runway,  *)
(* which asks for one at a time, can; and whoever follows the advice adds   *)
(* nothing that is there already, but for EBITDA, which asks for both of    *)
(* its parts.                                                               *)
AdviceSuffices ==
  \A p \in Current : \A key \in DOMAIN Recipes :
    LET r == cache[p][key]
        have == DOMAIN sheet[p]
        enough(S) == \E recipe \in Recipes[key] : recipe \subseteq S
    IN  /\ r.missing = {} <=> enough(have)
        /\ key # "cash_runway_months" => enough(have \cup r.missing)
        /\ key # "ebitda" => r.missing \cap have = {}

(* A growth rate compares like with like.  When the metrics of a period are *)
(* computed, its growth over the year is against a period of the same kind  *)
(* that ended about a year before, though others end that day too, and its  *)
(* growth over the month against another month.                             *)
GrowthOf(p, prior) ==
  pct_change(Of(sheet'[p], "REVENUE"), Of(sheet'[prior], "REVENUE"))

LikeWithLike(p, key, gap) ==
  LET g == cache'[p][key].value IN
  Known(g) => \E q \in Periods :
    /\ classify_period_type(q) = classify_period_type(p)
    /\ p.last - q.last \in gap /\ q.first < p.first
    /\ GrowthOf(p, q) = g

GrowthComparesLikeWithLike ==
  [][\A p \in Periods : cache'[p] # cache[p] =>
       /\ LikeWithLike(p, "revenue_yoy_growth", 320..410)
       /\ LikeWithLike(p, "revenue_mom_growth", 20..40)]_vars
=============================================================================
