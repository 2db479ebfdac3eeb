------------------------ MODULE PeriodMetrics_proofs ------------------------
(***************************************************************************)
(* Why the metrics cached for a period fit its figures and each other, and *)
(* name what would complete them.  A computation stores, for the one       *)
(* period that has its last day to itself, what the formulas give for the  *)
(* figures of that moment, and every change of its figures computes it     *)
(* again; the rest is about the formulas, for any integers.                *)
(***************************************************************************)
EXTENDS PeriodMetrics, FiniteSetTheorems, WellFoundedInduction, TLAPS

-----------------------------------------------------------------------------
(* Numbers and places *)

LEMMA LeastOfNumbers ==
  ASSUME NEW T \in SUBSET Nat, T # {}
  PROVE  \E x \in T : \A y \in T : x <= y
<1>1. \E x \in T : \A y \in T : ~ (<<y, x>> \in OpToRel(<, Nat))
  BY NatLessThanWellFounded, WFMin
<1>2. \A x, y \in Nat : <<y, x>> \in OpToRel(<, Nat) <=> y < x
  BY DEF OpToRel
<1>3. \E x \in T : \A y \in T : ~(y < x)
  BY <1>1, <1>2, Zenon
<1> QED
  BY <1>3

(* Of periods with places in a list one comes first.                        *)
LEMMA SomeComesFirst ==
  ASSUME NEW S, S # {}, \A p \in S : p.at \in Nat
  PROVE  FirstOf(S) # {}
<1> DEFINE T == {p.at : p \in S}
<1>1. PICK x \in T : \A y \in T : x <= y
  BY LeastOfNumbers
<1>2. PICK p \in S : p.at = x
  BY <1>1
<1>3. \A q \in S : p.at <= q.at
  BY <1>1, <1>2
<1> QED
  BY <1>3 DEF FirstOf

-----------------------------------------------------------------------------
(* What a computation stores *)

Figures == [Periods -> Sheets]

(* A period as the history has it.                                          *)
Entry(p, s, n) == [first |-> p.first, last |-> p.last, sheet |-> s, at |-> n]

LEMMA HistoryEntries ==
  ASSUME NEW figures, NEW tie
  PROVE  /\ \A e \in History(figures, tie) :
              \E p \in Stated(figures) : \E n \in Nat : e = Entry(p, figures[p], n)
         /\ \A p \in Stated(figures) :
              \E n \in Nat : Entry(p, figures[p], n) \in History(figures, tie)
<1> DEFINE S     == Stated(figures)
           at(p) == Cardinality({q \in S : Before(figures, tie, q, p)})
<1>1. \A p : at(p) \in Nat
  BY PeriodsAreFinite, FS_Subset, FS_CardinalityType DEF Stated
<1>2. History(figures, tie) = {Entry(p, figures[p], at(p)) : p \in S}
  BY DEF History, Entry
<1> HIDE DEF at, S
<1>3. \A p \in S : Entry(p, figures[p], at(p)) \in History(figures, tie)
  BY <1>2
<1>4. \A e \in History(figures, tie) : \E p \in S : e = Entry(p, figures[p], at(p))
  BY <1>2
<1> QED
  BY <1>1, <1>3, <1>4 DEF S

(* The rows replaced are those of a stated period that ends on the day.     *)
LEMMA StoreEffect ==
  ASSUME NEW figures, NEW day, Store(figures, day),
         \E p \in Stated(figures) : p.last = day
  PROVE  \E p \in Stated(figures) : \E tie \in BOOLEAN : \E n \in Nat :
           /\ p.last = day
           /\ cache' = [cache EXCEPT ![p] =
                          ComputeAll(Entry(p, figures[p], n), History(figures, tie))]
<1>1. PICK tie \in BOOLEAN :
        LET h       == History(figures, tie)
            current == CHOOSE p \in FirstOf({p \in h : p.last = day}) : TRUE
            key     == [first |-> current.first, last |-> current.last]
        IN  cache' = [cache EXCEPT ![key] = ComputeAll(current, h)]
  BY DEF Store
<1> DEFINE h       == History(figures, tie)
           those   == {p \in h : p.last = day}
           current == CHOOSE p \in FirstOf(those) : TRUE
<1>2. those # {}
  <2>1. PICK p \in Stated(figures) : p.last = day
    OBVIOUS
  <2>2. PICK n \in Nat : Entry(p, figures[p], n) \in h
    BY HistoryEntries
  <2>3. Entry(p, figures[p], n).last = day
    BY <2>1 DEF Entry
  <2> QED
    BY <2>2, <2>3
<1>3. \A e \in those : e.at \in Nat
  BY HistoryEntries DEF Entry
<1> HIDE DEF those
<1>4. current \in FirstOf(those)
  BY <1>2, <1>3, SomeComesFirst
<1>5. current \in h /\ current.last = day
  BY <1>4 DEF FirstOf, those
<1> HIDE DEF current
<1>6. PICK p \in Stated(figures), n \in Nat : current = Entry(p, figures[p], n)
  BY <1>5, HistoryEntries
<1>7. p = [first |-> current.first, last |-> current.last]
  BY <1>6, PeriodsEnd DEF Entry, Stated
<1>8. p.last = day
  BY <1>5, <1>6 DEF Entry
<1>9. cache' = [cache EXCEPT ![p] = ComputeAll(current, h)]
  BY <1>1, <1>7 DEF current, those
<1> QED
  BY <1>6, <1>8, <1>9

(* Where one of the periods stated ends on the day, it is the one computed. *)
LEMMA SoleStored ==
  ASSUME NEW figures, NEW q \in Stated(figures), Store(figures, q.last),
         \A p \in Stated(figures) : p.last = q.last => p = q
  PROVE  \E tie \in BOOLEAN : \E n \in Nat :
           cache' = [cache EXCEPT ![q] =
                       ComputeAll(Entry(q, figures[q], n), History(figures, tie))]
BY StoreEffect

-----------------------------------------------------------------------------
(* What is cached for a period is what its figures give                     *)

LEMMA FigureTyped ==
  ASSUME NEW s \in Sheets, NEW c \in DOMAIN s
  PROVE  s[c] \in Int
<1>1. PICK S \in SUBSET Codes : s \in [S -> Int]
  BY DEF Sheets
<1> QED
  BY <1>1

LEMMA SheetChanged ==
  ASSUME NEW s, DOMAIN s \subseteq Codes, \A c \in DOMAIN s : s[c] \in Int,
         s = [c \in DOMAIN s |-> s[c]]
  PROVE  s \in Sheets
<1>1. s \in [DOMAIN s -> Int] /\ DOMAIN s \in SUBSET Codes
  OBVIOUS
<1> QED
  BY <1>1 DEF Sheets

LEMMA SheetCodes ==
  ASSUME NEW s \in Sheets
  PROVE  /\ DOMAIN s \subseteq Codes /\ \A c \in DOMAIN s : s[c] \in Int
         /\ s = [c \in DOMAIN s |-> s[c]]
<1>1. PICK S \in SUBSET Codes : s \in [S -> Int]
  BY DEF Sheets
<1> QED
  BY <1>1

Tables == sheet \in Figures /\ DOMAIN cache = Periods

(* The rows are what the formulas give for figures s of the period p.       *)
Given(p, s, r) == \E n \in Nat : \E h : r = ComputeAll(Entry(p, s, n), h)

UpToDate == \A p \in Current : Given(p, sheet[p], cache[p])

LEMMA StepTables ==
  ASSUME Tables, [Next]_vars
  PROVE  Tables'
<1>c. ASSUME NEW day, NEW figures, Store(figures, day) PROVE DOMAIN cache' = Periods
  BY <1>c DEF Tables, Store
<1>1. ASSUME NEW ch \in Changes, Enter(ch) PROVE Tables'
  <2> DEFINE s == sheet[ch.period]
             t == [c \in DOMAIN s \cup {ch.code} |-> IF c = ch.code THEN ch.value ELSE s[c]]
  <2>1. s \in Sheets
    BY ChangesAreFigures DEF Tables, Figures
  <2>2. t \in Sheets
    BY <2>1, ChangesAreFigures, SheetCodes, SheetChanged
  <2>3. Change(ch.period, t)
    BY <1>1 DEF Enter
  <2> HIDE DEF t
  <2> QED
    BY <1>c, <2>2, <2>3 DEF Change, Tables, Figures
<1>2. ASSUME NEW p \in Periods, NEW c \in Flaggable, Flag(p, c) PROVE Tables'
  <2> DEFINE s == sheet[p]
             t == [d \in DOMAIN s \ {c} |-> s[d]]
  <2>1. s \in Sheets
    BY DEF Tables, Figures
  <2>2. t \in Sheets
    BY <2>1, SheetCodes, SheetChanged
  <2>3. Change(p, t)
    BY <1>2 DEF Flag
  <2> HIDE DEF t
  <2> QED
    BY <1>c, <2>2, <2>3 DEF Change, Tables, Figures
<1>3. ASSUME NEW day, View(day) PROVE Tables'
  BY <1>3, <1>c DEF View, Tables
<1>4. CASE UNCHANGED vars
  BY <1>4 DEF Tables, vars
<1> QED
  BY <1>1, <1>2, <1>3, <1>4 DEF Next

(* A step that stores what the new figures of a day give, and changes no    *)
(* figures of another.                                                      *)
LEMMA StoreKeeps ==
  ASSUME Tables, Tables', UpToDate, NEW day, Store(sheet', day),
         \A p \in Periods : p.last # day => sheet'[p] = sheet[p]
  PROVE  UpToDate'
<1> SUFFICES ASSUME NEW p \in Periods, DOMAIN sheet'[p] # {}, cache'[p] # Nothing,
                    \A q \in Periods : q.last = p.last => q = p \/ DOMAIN sheet'[q] = {}
             PROVE  Given(p, sheet'[p], cache'[p])
  BY DEF UpToDate, Current, Stated, Alone
<1>1. CASE p.last = day
  <2>1. p \in Stated(sheet') /\ \A q \in Stated(sheet') : q.last = p.last => q = p
    BY DEF Stated
  <2>2. PICK tie \in BOOLEAN, n \in Nat :
          cache' = [cache EXCEPT ![p] = ComputeAll(Entry(p, sheet'[p], n), History(sheet', tie))]
    BY <1>1, <2>1, SoleStored
  <2>3. cache'[p] = ComputeAll(Entry(p, sheet'[p], n), History(sheet', tie))
    BY <2>2 DEF Tables
  <2> QED
    BY <2>3 DEF Given
<1>2. CASE p.last # day
  <2>1. cache'[p] = cache[p]
    <3>1. CASE \A q \in Stated(sheet') : q.last # day
      BY <3>1 DEF Store
    <3>2. CASE \E q \in Stated(sheet') : q.last = day
      <4>1. PICK q \in Stated(sheet') : \E r : q.last = day /\ cache' = [cache EXCEPT ![q] = r]
        BY <3>2, StoreEffect
      <4> QED
        BY <1>2, <4>1
    <3> QED
      BY <3>1, <3>2
  <2>2. p \in Current
    BY <1>2, <2>1 DEF Current, Stated, Alone
  <2> QED
    BY <1>2, <2>1, <2>2 DEF UpToDate
<1> QED
  BY <1>1, <1>2

LEMMA StepUpToDate ==
  ASSUME Tables, UpToDate, [Next]_vars
  PROVE  UpToDate'
<1>1. Tables'
  BY StepTables
<1>2. ASSUME NEW p \in Periods, NEW figures, Change(p, figures) PROVE UpToDate'
  <2>1. \A q \in Periods : q.last # p.last => sheet'[q] = sheet[q]
    BY <1>2 DEF Change, Tables, Figures
  <2> QED
    BY <1>1, <1>2, <2>1, StoreKeeps DEF Change
<1>3. ASSUME NEW day, View(day) PROVE UpToDate'
  BY <1>1, <1>3, StoreKeeps DEF View
<1>4. CASE UNCHANGED vars
  BY <1>4 DEF vars, UpToDate, Current, Alone, Stated
<1>5. ASSUME NEW ch \in Changes, Enter(ch) PROVE UpToDate'
  BY <1>2, <1>5, ChangesAreFigures DEF Enter
<1>6. ASSUME NEW p \in Periods, NEW c \in Flaggable, Flag(p, c) PROVE UpToDate'
  BY <1>2, <1>6 DEF Flag
<1> QED
  BY <1>3, <1>4, <1>5, <1>6 DEF Next

LEMMA AlwaysUpToDate == Spec => [](Tables /\ UpToDate)
<1>1. Init => Tables /\ UpToDate
  <2> SUFFICES ASSUME Init PROVE Tables /\ UpToDate
    OBVIOUS
  <2>1. \A p \in Periods : Seed[p] \in Sheets
    BY SeedIsFigures DEF Sheets
  <2>2. Seed \in Figures
    BY <2>1, SeedIsFigures DEF Figures
  <2> QED
    BY <2>2 DEF Init, Tables, Figures, UpToDate, Current, Stated
<1>2. Tables /\ UpToDate /\ [Next]_vars => (Tables /\ UpToDate)'
  BY StepTables, StepUpToDate
<1> QED
  BY <1>1, <1>2, PTL DEF Spec

-----------------------------------------------------------------------------
(* The formulas, one by one                                                 *)

LEMMA JoinedKeys ==
  ASSUME NEW f, NEW g
  PROVE  DOMAIN Joined(f, g) = DOMAIN f \cup DOMAIN g
BY DEF Joined

(* What a group has under a key that the groups before it have not.         *)
LEMMA JoinedAt ==
  ASSUME NEW f, NEW g, NEW key
  PROVE  /\ key \in DOMAIN f => Joined(f, g)[key] = f[key]
         /\ key \in DOMAIN g /\ key \notin DOMAIN f => Joined(f, g)[key] = g[key]
BY DEF Joined

GrowthKeys == {"revenue", "customer_count", "revenue_yoy_growth", "revenue_mom_growth",
               "customer_count_growth"}
ProfitKeys == {"gross_margin", "operating_margin", "ebitda_margin", "net_margin", "ebitda",
               "net_income", "operating_expenses", "cogs_pct_of_revenue",
               "opex_pct_of_revenue"}
CashKeys == {"capital_expenditure", "free_cash_flow", "cash_balance", "cash_runway_months",
             "working_capital"}
SolvencyKeys == {"dscr", "leverage_ratio"}

LEMMA GrowthHas == ASSUME NEW p, NEW h PROVE DOMAIN GrowthMetrics(p, h) = GrowthKeys
BY DEF GrowthMetrics, GrowthKeys

LEMMA ProfitHas == ASSUME NEW v PROVE DOMAIN ProfitabilityMetrics(v) = ProfitKeys
BY DEF ProfitabilityMetrics, ProfitKeys

LEMMA CashHas == ASSUME NEW p PROVE DOMAIN CashMetrics(p) = CashKeys
BY DEF CashMetrics, CashKeys

LEMMA SolvencyHas == ASSUME NEW v PROVE DOMAIN SolvencyMetrics(v) = SolvencyKeys
BY DEF SolvencyMetrics, SolvencyKeys

LEMMA ReturnsHave == ASSUME NEW v PROVE DOMAIN ReturnsMetrics(v) = {"roce"}
BY DEF ReturnsMetrics

LEMMA MetricAt ==
  ASSUME NEW p, NEW h, NEW key
  PROVE  /\ key \in GrowthKeys => ComputeAll(p, h)[key] = GrowthMetrics(p, h)[key]
         /\ key \in ProfitKeys => ComputeAll(p, h)[key] = ProfitabilityMetrics(p.sheet)[key]
         /\ key \in CashKeys => ComputeAll(p, h)[key] = CashMetrics(p)[key]
         /\ key \in SolvencyKeys => ComputeAll(p, h)[key] = SolvencyMetrics(p.sheet)[key]
         /\ key = "roce" => ComputeAll(p, h)[key] = ReturnsMetrics(p.sheet)[key]
<1> DEFINE v == p.sheet
           S == Joined(SolvencyMetrics(v), ReturnsMetrics(v))
           C == Joined(CashMetrics(p), S)
           P == Joined(ProfitabilityMetrics(v), C)
           G == Joined(GrowthMetrics(p, h), P)
<1>1. ComputeAll(p, h) = G
  BY DEF ComputeAll
<1>2. DOMAIN S = SolvencyKeys \cup {"roce"}
  BY SolvencyHas, ReturnsHave, JoinedKeys
<1> HIDE DEF S
<1>3. DOMAIN C = CashKeys \cup SolvencyKeys \cup {"roce"}
  BY <1>2, CashHas, JoinedKeys
<1> HIDE DEF C
<1>4. DOMAIN P = ProfitKeys \cup CashKeys \cup SolvencyKeys \cup {"roce"}
  <2>1. DOMAIN P = ProfitKeys \cup DOMAIN C
    BY ProfitHas, JoinedKeys
  <2> QED
    BY <1>3, <2>1
<1> HIDE DEF P
<1>5. /\ key \in GrowthKeys => key \notin ProfitKeys \cup CashKeys \cup SolvencyKeys \cup {"roce"}
      /\ key \in ProfitKeys => key \notin CashKeys \cup SolvencyKeys \cup {"roce"}
      /\ key \in CashKeys => key \notin SolvencyKeys \cup {"roce"}
      /\ key \in SolvencyKeys => key # "roce"
  BY DEF GrowthKeys, ProfitKeys, CashKeys, SolvencyKeys
<1>6. /\ key \in GrowthKeys => G[key] = GrowthMetrics(p, h)[key]
      /\ key \in ProfitKeys \cup CashKeys \cup SolvencyKeys \cup {"roce"} => G[key] = P[key]
  BY <1>4, <1>5, GrowthHas, JoinedAt
<1>7. /\ key \in ProfitKeys => P[key] = ProfitabilityMetrics(v)[key]
      /\ key \in CashKeys \cup SolvencyKeys \cup {"roce"} => P[key] = C[key]
  BY <1>3, <1>5, ProfitHas, JoinedAt DEF P
<1>8. /\ key \in CashKeys => C[key] = CashMetrics(p)[key]
      /\ key \in SolvencyKeys \cup {"roce"} => C[key] = S[key]
  BY <1>2, <1>5, CashHas, JoinedAt DEF C
<1>9. /\ key \in SolvencyKeys => S[key] = SolvencyMetrics(v)[key]
      /\ key = "roce" => S[key] = ReturnsMetrics(v)[key]
  BY <1>5, SolvencyHas, ReturnsHave, JoinedAt DEF S
<1> QED
  BY <1>1, <1>6, <1>7, <1>8, <1>9

(* The metrics that the properties speak of.                                *)
ProfitRows(v, r) ==
  /\ r["gross_margin"] = Result(safe_ratio_pct(gross_profit(v), Of(v, "REVENUE")),
                                Absent(v, {"REVENUE"}) \cup NoGrossProfit(v))
  /\ r["operating_margin"] = ShareOfRevenue(v, "OPERATING_INCOME")
  /\ r["ebitda_margin"] = Result(safe_ratio_pct(compute_ebitda(v), Of(v, "REVENUE")),
                                 Absent(v, {"REVENUE"}) \cup NoEbitda(v))
  /\ r["ebitda"] = Result(compute_ebitda(v), {"OPERATING_INCOME", "DEPRECIATION"})
  /\ r["cogs_pct_of_revenue"] = ShareOfRevenue(v, "COST_OF_GOODS_SOLD")

CashRows(p, v, r) ==
  /\ r["free_cash_flow"] = Result(Minus(compute_ebitda(v), Of(v, "CAPITAL_EXPENDITURE")),
                                  NoEbitda(v) \cup Absent(v, {"CAPITAL_EXPENDITURE"}))
  /\ r["cash_balance"] = Direct(v, "CASH_AND_EQUIVALENTS")
  /\ r["cash_runway_months"] = Runway(p)
  /\ r["working_capital"] =
       Result(Minus(Of(v, "CURRENT_ASSETS"), Of(v, "CURRENT_LIABILITIES")),
              Absent(v, {"CURRENT_ASSETS", "CURRENT_LIABILITIES"}))

CapitalRows(v, r) ==
  LET e == compute_ebitda(v) IN
  /\ r["dscr"] = Multiple(e, Of(v, "DEBT_SERVICE"), e,
                          NoEbitda(v) \cup Absent(v, {"DEBT_SERVICE"}))
  /\ r["leverage_ratio"] = Multiple(Of(v, "TOTAL_DEBT"), e, e,
                                    NoEbitda(v) \cup Absent(v, {"TOTAL_DEBT"}))
  /\ r["roce"] =
       Result(safe_ratio_pct(Of(v, "OPERATING_INCOME"),
                             Minus(Of(v, "TOTAL_ASSETS"), Of(v, "CURRENT_LIABILITIES"))),
              Absent(v, {"OPERATING_INCOME", "TOTAL_ASSETS", "CURRENT_LIABILITIES"}))

LEMMA RowsGiven ==
  ASSUME NEW p, NEW h
  PROVE  /\ ProfitRows(p.sheet, ComputeAll(p, h))
         /\ CashRows(p, p.sheet, ComputeAll(p, h))
         /\ CapitalRows(p.sheet, ComputeAll(p, h))
<1> DEFINE v == p.sheet
           r == ComputeAll(p, h)
           P == ProfitabilityMetrics(v)
           C == CashMetrics(p)
           S == SolvencyMetrics(v)
<1>1. /\ r["gross_margin"] = P["gross_margin"] /\ r["operating_margin"] = P["operating_margin"]
      /\ r["ebitda_margin"] = P["ebitda_margin"] /\ r["ebitda"] = P["ebitda"]
      /\ r["cogs_pct_of_revenue"] = P["cogs_pct_of_revenue"]
  BY MetricAt DEF ProfitKeys
<1>2. /\ r["free_cash_flow"] = C["free_cash_flow"] /\ r["cash_balance"] = C["cash_balance"]
      /\ r["cash_runway_months"] = C["cash_runway_months"]
      /\ r["working_capital"] = C["working_capital"]
  BY MetricAt DEF CashKeys
<1>3. /\ r["dscr"] = S["dscr"] /\ r["leverage_ratio"] = S["leverage_ratio"]
      /\ r["roce"] = ReturnsMetrics(v)["roce"]
  BY MetricAt DEF SolvencyKeys
<1> HIDE DEF r
<1>4. ProfitRows(v, r)
  BY <1>1 DEF ProfitRows, ProfitabilityMetrics
<1>5. CashRows(p, v, r)
  BY <1>2 DEF CashRows, CashMetrics
<1>6. CapitalRows(v, r)
  BY <1>3 DEF CapitalRows, SolvencyMetrics, ReturnsMetrics
<1> QED
  BY <1>4, <1>5, <1>6 DEF r

-----------------------------------------------------------------------------
(* Numbers                                                                  *)

(* A figure, or a sum or difference of figures: there or not.               *)
Whole(x) == x = NONE \/ \E n \in Int : x = <<n, 1>>

LEMMA WholeIs ==
  ASSUME NEW x, Whole(x), Known(x)
  PROVE  x[1] \in Int /\ x[2] = 1 /\ x = <<x[1], 1>>
BY DEF Whole, Known, NONE

LEMMA OfWhole ==
  ASSUME NEW v \in Sheets, NEW c
  PROVE  /\ Whole(Of(v, c)) /\ (Known(Of(v, c)) <=> c \in DOMAIN v)
         /\ c \in DOMAIN v => Of(v, c) = <<v[c], 1>> /\ v[c] \in Int
BY FigureTyped DEF Whole, Of, Known, NONE

LEMMA SumWhole ==
  ASSUME NEW x, NEW y, Whole(x), Whole(y)
  PROVE  /\ Whole(Sum2(x, y)) /\ Whole(Minus(x, y))
         /\ Known(Sum2(x, y)) <=> Known(x) /\ Known(y)
         /\ Known(Minus(x, y)) <=> Known(x) /\ Known(y)
<1>1. CASE Known(x) /\ Known(y)
  <2>1. x[1] + y[1] \in Int /\ x[1] - y[1] \in Int
    BY <1>1, WholeIs
  <2> QED
    BY <1>1, <2>1 DEF Sum2, Minus, Known, Whole
<1>2. CASE ~(Known(x) /\ Known(y))
  BY <1>2 DEF Sum2, Minus, Known, Whole, NONE
<1> QED
  BY <1>1, <1>2

LEMMA RatioOfWhole ==
  ASSUME NEW x, NEW y, Whole(x), Whole(y)
  PROVE  /\ Known(Ratio(x, y)) <=> Known(x) /\ Known(y) /\ y[1] # 0
         /\ Known(Ratio(x, y)) => Ratio(x, y) = <<x[1], y[1]>>
         /\ Known(safe_ratio_pct(x, y)) <=> Known(x) /\ Known(y) /\ y[1] # 0
         /\ Known(safe_ratio_pct(x, y)) => safe_ratio_pct(x, y) = <<100 * x[1], y[1]>>
<1>1. CASE Known(x) /\ Known(y) /\ y[1] # 0
  <2>1. x[1] \in Int /\ y[1] \in Int /\ x[2] = 1 /\ y[2] = 1
    BY <1>1, WholeIs
  <2>2. Ratio(x, y) = <<x[1], y[1]>>
    BY <1>1, <2>1 DEF Ratio
  <2> QED
    BY <1>1, <2>1, <2>2 DEF Known, safe_ratio_pct
<1>2. CASE ~(Known(x) /\ Known(y) /\ y[1] # 0)
  BY <1>2 DEF Ratio, Known, NONE, safe_ratio_pct
<1> QED
  BY <1>1, <1>2

LEMMA EbitdaWhole ==
  ASSUME NEW v \in Sheets
  PROVE  /\ Whole(compute_ebitda(v))
         /\ Known(compute_ebitda(v)) <=> Computed(v) \/ "EBITDA" \in DOMAIN v
BY OfWhole, SumWhole DEF compute_ebitda, Computed

LEMMA GrossProfitWhole ==
  ASSUME NEW v \in Sheets
  PROVE  /\ Whole(gross_profit(v))
         /\ Known(gross_profit(v)) <=>
              "GROSS_PROFIT" \in DOMAIN v \/ {"REVENUE", "COST_OF_GOODS_SOLD"} \subseteq DOMAIN v
BY OfWhole, SumWhole DEF gross_profit

LEMMA ResultIs ==
  ASSUME NEW x, NEW missing
  PROVE  /\ Result(x, missing).value = x
         /\ Result(x, missing).missing = IF Known(x) THEN {} ELSE missing
BY DEF Result

-----------------------------------------------------------------------------
(* The metrics of one sheet fit together                                    *)

LEMMA EbitdaFits ==
  ASSUME NEW v \in Sheets, NEW r, ProfitRows(v, r)
  PROVE  /\ r["ebitda"].value = compute_ebitda(v)
         /\ Computed(v) =>
              r["ebitda"].value = <<v["OPERATING_INCOME"] + v["DEPRECIATION"], 1>>
<1>1. r["ebitda"].value = compute_ebitda(v)
  BY ResultIs DEF ProfitRows
<1>2. ASSUME Computed(v)
      PROVE  compute_ebitda(v) = <<v["OPERATING_INCOME"] + v["DEPRECIATION"], 1>>
  <2>1. /\ Of(v, "OPERATING_INCOME") = <<v["OPERATING_INCOME"], 1>>
        /\ Of(v, "DEPRECIATION") = <<v["DEPRECIATION"], 1>>
    BY <1>2 DEF Computed, Of
  <2> QED
    BY <1>2, <2>1 DEF compute_ebitda, Sum2, Known
<1> QED
  BY <1>1, <1>2

(* A share, times what it is a share of, is a hundred times the figure.     *)
LEMMA ShareGivesBack ==
  ASSUME NEW x, NEW y, Whole(x), Whole(y), NEW s, s = safe_ratio_pct(x, y), Known(s)
  PROVE  Product(s, y, Ratio(x, <<1, 100>>))
<1>1. /\ x[1] \in Int /\ y[1] \in Int /\ x[2] = 1 /\ y[2] = 1 /\ Known(x)
      /\ s = <<100 * x[1], y[1]>>
  BY RatioOfWhole, WholeIs
<1>2. Ratio(x, <<1, 100>>) = <<x[1] * 100, 1>>
  BY <1>1 DEF Ratio, Known
<1> QED
  BY <1>1, <1>2 DEF Product

LEMMA RatioGivesBack ==
  ASSUME NEW x, NEW y, Whole(x), Whole(y), NEW s, s = Ratio(x, y), Known(s)
  PROVE  Product(s, y, x)
<1>1. /\ x[1] \in Int /\ y[1] \in Int /\ x[2] = 1 /\ y[2] = 1 /\ s = <<x[1], y[1]>>
  BY RatioOfWhole, WholeIs
<1> QED
  BY <1>1 DEF Product

LEMMA MultipleIs ==
  ASSUME NEW x, NEW y, NEW e, NEW missing, NEW s, s = Multiple(x, y, e, missing).value,
         Known(s)
  PROVE  s = Ratio(x, y) /\ (missing # {} \/ ~(e[1] <= 0))
BY ResultIs DEF Multiple, NotMeaningful, NONE, Known

LEMMA MultiplesFit ==
  ASSUME NEW v \in Sheets, NEW e, e = compute_ebitda(v), NEW c, NEW x, NEW y,
         <<x, y>> \in {<<e, Of(v, c)>>, <<Of(v, c), e>>},
         NEW s, s = Multiple(x, y, e, NoEbitda(v) \cup Absent(v, {c})).value, Known(s)
  PROVE  e[1] > 0 /\ Product(s, y, x)
<1>1. Whole(e) /\ Whole(Of(v, c)) /\ Whole(x) /\ Whole(y)
  BY EbitdaWhole, OfWhole
<1>2. s = Ratio(x, y)
  BY MultipleIs
<1>3. Known(e) /\ Known(Of(v, c))
  BY <1>1, <1>2, RatioOfWhole
<1>4. NoEbitda(v) \cup Absent(v, {c}) = {}
  BY <1>3, OfWhole DEF NoEbitda, Absent
<1>5. ~(e[1] <= 0) /\ e[1] \in Int
  BY <1>1, <1>3, <1>4, MultipleIs, WholeIs
<1> QED
  BY <1>1, <1>2, <1>5, RatioGivesBack

(* What revenue leaves after its cost, in percent of revenue.               *)
LEMMA MarginsAddUp ==
  ASSUME NEW x, NEW y, Whole(x), Whole(y),
         NEW s, s = safe_ratio_pct(Minus(x, y), x), Known(s),
         NEW t, t = safe_ratio_pct(y, x), Known(t)
  PROVE  Difference(Ten2, s, t)
<1>1. Whole(Minus(x, y)) /\ Known(Minus(x, y)) /\ Known(x) /\ Known(y)
  BY SumWhole, RatioOfWhole
<1>2. x[1] \in Int /\ y[1] \in Int /\ Minus(x, y) = <<x[1] - y[1], 1>>
  BY <1>1, WholeIs DEF Minus
<1>3. s = <<100 * (x[1] - y[1]), x[1]>> /\ t = <<100 * y[1], x[1]>>
  BY <1>1, <1>2, RatioOfWhole
<1> QED
  BY <1>2, <1>3 DEF Difference, Ten2

LEMMA CashFlowFits ==
  ASSUME NEW x, NEW y, Whole(x), Whole(y), Known(Minus(x, y))
  PROVE  Difference(x, y, Minus(x, y))
<1>1. Known(x) /\ Known(y)
  BY SumWhole
<1>2. /\ x[1] \in Int /\ y[1] \in Int /\ x[2] = 1 /\ y[2] = 1
      /\ Minus(x, y) = <<x[1] - y[1], 1>>
  BY <1>1, WholeIs DEF Minus
<1> QED
  BY <1>2 DEF Difference

LEMMA RunwayFits ==
  ASSUME NEW p, p.first \in Int, p.last \in Int, p.first <= p.last,
         NEW v \in Sheets, p.sheet = v, Known(Runway(p).value)
  PROVE  LET flow == Of(v, "NET_OPERATING_CASH_FLOW") IN
         /\ flow[1] < 0
         /\ Product(Runway(p).value, Ratio(<<-flow[1], 1>>, period_length_months(p)),
                    Of(v, "CASH_AND_EQUIVALENTS"))
<1> DEFINE cash == Of(v, "CASH_AND_EQUIVALENTS")
           flow == Of(v, "NET_OPERATING_CASH_FLOW")
           rate == Ratio(<<-flow[1], 1>>, period_length_months(p))
           days == period_length_days(p)
<1>1. /\ Known(cash) /\ Known(flow) /\ ~(flow[1] >= 0)
      /\ Runway(p).value = Ratio(cash, rate)
  BY ResultIs DEF Runway, Known, NONE
<1>2. /\ cash[1] \in Int /\ cash[2] = 1 /\ flow[1] \in Int
      /\ days \in Int /\ days >= 1
  BY <1>1, OfWhole, WholeIs DEF period_length_days
<1>3. period_length_months(p) = <<25 * days, 761>>
  BY DEF period_length_months
<1> HIDE DEF cash, flow, days
<1>4. rate = <<(-flow[1]) * 761, 25 * days>>
  BY <1>2, <1>3 DEF Ratio, Known
<1>5. (-flow[1]) * 761 # 0 /\ 25 * days # 0
  BY <1>1, <1>2
<1>6. Ratio(cash, rate) = <<cash[1] * (25 * days), (-flow[1]) * 761>>
  BY <1>1, <1>2, <1>4, <1>5 DEF Ratio, Known
<1>7. Product(Ratio(cash, rate), rate, cash)
  BY <1>2, <1>4, <1>6 DEF Product
<1> QED
  BY <1>1, <1>2, <1>7 DEF flow, cash

LEMMA SheetFits ==
  ASSUME NEW v \in Sheets, NEW p, p.first \in Int, p.last \in Int, p.first <= p.last,
         p.sheet = v, NEW r, ProfitRows(v, r), CashRows(p, v, r), CapitalRows(v, r)
  PROVE  LET V(key) == r[key].value
             F(c)   == Of(v, c)
             ebitda == V("ebitda")
         IN
         /\ Known(V("ebitda_margin")) =>
              Product(V("ebitda_margin"), F("REVENUE"), Ratio(ebitda, <<1, 100>>))
         /\ Known(V("free_cash_flow")) =>
              Difference(ebitda, F("CAPITAL_EXPENDITURE"), V("free_cash_flow"))
         /\ Known(V("dscr")) => ebitda[1] > 0 /\ Product(V("dscr"), F("DEBT_SERVICE"), ebitda)
         /\ Known(V("leverage_ratio")) =>
              ebitda[1] > 0 /\ Product(V("leverage_ratio"), ebitda, F("TOTAL_DEBT"))
         /\ Known(V("gross_margin")) /\ Known(V("cogs_pct_of_revenue"))
              /\ "GROSS_PROFIT" \notin DOMAIN v
              => Difference(Ten2, V("gross_margin"), V("cogs_pct_of_revenue"))
         /\ Known(V("cash_runway_months")) =>
              /\ F("NET_OPERATING_CASH_FLOW")[1] < 0
              /\ Product(V("cash_runway_months"),
                         Ratio(<<-F("NET_OPERATING_CASH_FLOW")[1], 1>>, period_length_months(p)),
                         V("cash_balance"))
         /\ Known(V("roce")) =>
              Product(V("roce"), Minus(F("TOTAL_ASSETS"), F("CURRENT_LIABILITIES")),
                      Ratio(F("OPERATING_INCOME"), <<1, 100>>))
<1> DEFINE V(key) == r[key].value
           F(c)   == Of(v, c)
           e      == compute_ebitda(v)
           revenue == F("REVENUE")
<1>w. /\ \A c : Whole(F(c))
      /\ Whole(e) /\ Whole(gross_profit(v))
  BY OfWhole, EbitdaWhole, GrossProfitWhole
<1>e. V("ebitda") = e
  BY EbitdaFits
<1>p. /\ V("ebitda_margin") = safe_ratio_pct(e, revenue)
      /\ V("gross_margin") = safe_ratio_pct(gross_profit(v), revenue)
      /\ V("cogs_pct_of_revenue") = safe_ratio_pct(F("COST_OF_GOODS_SOLD"), revenue)
  BY ResultIs DEF ProfitRows, ShareOfRevenue
<1>c. /\ V("free_cash_flow") = Minus(e, F("CAPITAL_EXPENDITURE"))
      /\ V("cash_balance") = F("CASH_AND_EQUIVALENTS")
      /\ V("cash_runway_months") = Runway(p).value
  BY ResultIs DEF CashRows, Direct
<1>s. /\ V("dscr") = Multiple(e, F("DEBT_SERVICE"), e,
                              NoEbitda(v) \cup Absent(v, {"DEBT_SERVICE"})).value
      /\ V("leverage_ratio") = Multiple(F("TOTAL_DEBT"), e, e,
                                        NoEbitda(v) \cup Absent(v, {"TOTAL_DEBT"})).value
      /\ V("roce") = safe_ratio_pct(F("OPERATING_INCOME"),
                                    Minus(F("TOTAL_ASSETS"), F("CURRENT_LIABILITIES")))
  BY ResultIs DEF CapitalRows
<1>1. Known(V("ebitda_margin")) => Product(V("ebitda_margin"), revenue, Ratio(e, <<1, 100>>))
  BY <1>w, <1>p, ShareGivesBack
<1>2. Known(V("free_cash_flow")) => Difference(e, F("CAPITAL_EXPENDITURE"), V("free_cash_flow"))
  BY <1>w, <1>c, CashFlowFits
<1>3. Known(V("dscr")) => e[1] > 0 /\ Product(V("dscr"), F("DEBT_SERVICE"), e)
  BY <1>s, MultiplesFit
<1>4. Known(V("leverage_ratio")) => e[1] > 0 /\ Product(V("leverage_ratio"), e, F("TOTAL_DEBT"))
  BY <1>s, MultiplesFit
<1>5. ASSUME Known(V("gross_margin")), Known(V("cogs_pct_of_revenue")),
             "GROSS_PROFIT" \notin DOMAIN v
      PROVE  Difference(Ten2, V("gross_margin"), V("cogs_pct_of_revenue"))
  <2>1. gross_profit(v) = Minus(revenue, F("COST_OF_GOODS_SOLD"))
    BY <1>5 DEF gross_profit
  <2> QED
    BY <1>5, <1>w, <1>p, <2>1, MarginsAddUp
<1>6. Known(V("cash_runway_months")) =>
        /\ F("NET_OPERATING_CASH_FLOW")[1] < 0
        /\ Product(V("cash_runway_months"),
                   Ratio(<<-F("NET_OPERATING_CASH_FLOW")[1], 1>>, period_length_months(p)),
                   V("cash_balance"))
  BY <1>c, RunwayFits
<1>7. Known(V("roce")) =>
        Product(V("roce"), Minus(F("TOTAL_ASSETS"), F("CURRENT_LIABILITIES")),
                Ratio(F("OPERATING_INCOME"), <<1, 100>>))
  <2>1. Whole(Minus(F("TOTAL_ASSETS"), F("CURRENT_LIABILITIES")))
    BY <1>w, SumWhole
  <2> QED
    BY <1>w, <1>s, <2>1, ShareGivesBack
<1> QED
  BY <1>e, <1>1, <1>2, <1>3, <1>4, <1>5, <1>6, <1>7

(* Whatever figures are entered and flagged, and in whatever order: the     *)
(* metrics cached for a period fit its figures and each other.              *)
THEOREM MetricsFit == Spec => []MetricsFitTogether
<1>1. ASSUME Tables, UpToDate PROVE MetricsFitTogether
  <2> SUFFICES ASSUME NEW p \in Current
               PROVE  LET V(key) == Val(p, key)
                          F(c)   == Of(sheet[p], c)
                          ebitda == V("ebitda")
                      IN
    /\ Computed(sheet[p]) =>
         ebitda = <<sheet[p]["OPERATING_INCOME"] + sheet[p]["DEPRECIATION"], 1>>
    /\ Shown(p, "ebitda_margin") => Product(V("ebitda_margin"), F("REVENUE"), Ratio(ebitda, <<1, 100>>))
    /\ Shown(p, "free_cash_flow") => Difference(ebitda, F("CAPITAL_EXPENDITURE"), V("free_cash_flow"))
    /\ Shown(p, "dscr") => ebitda[1] > 0 /\ Product(V("dscr"), F("DEBT_SERVICE"), ebitda)
    /\ Shown(p, "leverage_ratio") => ebitda[1] > 0 /\ Product(V("leverage_ratio"), ebitda, F("TOTAL_DEBT"))
    /\ Shown(p, "gross_margin") /\ Shown(p, "cogs_pct_of_revenue") /\ "GROSS_PROFIT" \notin DOMAIN sheet[p]
         => Difference(Ten2, V("gross_margin"), V("cogs_pct_of_revenue"))
    /\ Shown(p, "cash_runway_months") =>
         /\ F("NET_OPERATING_CASH_FLOW")[1] < 0
         /\ Product(V("cash_runway_months"),
                    Ratio(<<-F("NET_OPERATING_CASH_FLOW")[1], 1>>, period_length_months(p)),
                    V("cash_balance"))
    /\ Shown(p, "roce") =>
         Product(V("roce"), Minus(F("TOTAL_ASSETS"), F("CURRENT_LIABILITIES")),
                 Ratio(F("OPERATING_INCOME"), <<1, 100>>))
    BY DEF MetricsFitTogether
  <2>1. PICK n \in Nat : \E h : cache[p] = ComputeAll(Entry(p, sheet[p], n), h)
    BY <1>1 DEF UpToDate, Given
  <2> DEFINE q == Entry(p, sheet[p], n)
  <2>2. /\ p \in Periods /\ sheet[p] \in Sheets
        /\ q.first = p.first /\ q.last = p.last /\ q.sheet = sheet[p]
        /\ p.first \in Int /\ p.last \in Int /\ p.first <= p.last
    BY <1>1, PeriodsEnd DEF Current, Stated, Tables, Figures, Entry
  <2>3. period_length_months(q) = period_length_months(p)
    BY <2>2 DEF period_length_months, period_length_days
  <2>r. /\ ProfitRows(sheet[p], cache[p]) /\ CashRows(q, sheet[p], cache[p])
        /\ CapitalRows(sheet[p], cache[p])
    BY <2>1, <2>2, RowsGiven
  <2> HIDE DEF q
  <2>4. Computed(sheet[p]) =>
          cache[p]["ebitda"].value = <<sheet[p]["OPERATING_INCOME"] + sheet[p]["DEPRECIATION"], 1>>
    BY <2>r, <2>2, EbitdaFits
  <2> QED
    BY <2>r, <2>2, <2>3, <2>4, SheetFits DEF Val, Shown
<1> QED
  BY <1>1, AlwaysUpToDate, PTL

-----------------------------------------------------------------------------
(* What a metric asks for                                                   *)

Enough(key, S) == \E recipe \in Recipes[key] : recipe \subseteq S

HasEbitda(S) == "EBITDA" \in S \/ {"OPERATING_INCOME", "DEPRECIATION"} \subseteq S

(* The properties' demand on the codes asked for, M, where D are stated.    *)
Advises(key, D, M) ==
  /\ M = {} <=> Enough(key, D)
  /\ key # "cash_runway_months" => Enough(key, D \cup M)
  /\ key # "ebitda" => M \cap D = {}

LEMMA EbitdaEnough ==
  ASSUME NEW C, NEW S
  PROVE  /\ (\E recipe \in Ebitdas : recipe \subseteq S) <=> HasEbitda(S)
         /\ (\E recipe \in With(Ebitdas, C) : recipe \subseteq S) <=> HasEbitda(S) /\ C \subseteq S
<1>1. (\E recipe \in Ebitdas : recipe \subseteq S) <=> HasEbitda(S)
  BY DEF Ebitdas, HasEbitda
<1>2. (\E recipe \in With(Ebitdas, C) : recipe \subseteq S)
        <=> \E recipe \in Ebitdas : recipe \cup C \subseteq S
  BY DEF With
<1>3. (\E recipe \in Ebitdas : recipe \cup C \subseteq S)
        <=> (\E recipe \in Ebitdas : recipe \subseteq S) /\ C \subseteq S
  OBVIOUS
<1> QED
  BY <1>1, <1>2, <1>3

LEMMA RecipesAre ==
  /\ DOMAIN Recipes = {"gross_margin", "operating_margin", "ebitda", "ebitda_margin",
                       "free_cash_flow", "dscr", "leverage_ratio", "working_capital", "roce",
                       "cash_runway_months"}
  /\ Recipes["ebitda"] = Ebitdas
  /\ Recipes["ebitda_margin"] = With(Ebitdas, {"REVENUE"})
  /\ Recipes["free_cash_flow"] = With(Ebitdas, {"CAPITAL_EXPENDITURE"})
  /\ Recipes["dscr"] = With(Ebitdas, {"DEBT_SERVICE"})
  /\ Recipes["leverage_ratio"] = With(Ebitdas, {"TOTAL_DEBT"})
BY DEF Recipes

LEMMA EbitdaRecipes ==
  ASSUME NEW S
  PROVE  /\ Enough("ebitda", S) <=> HasEbitda(S)
         /\ Enough("ebitda_margin", S) <=> HasEbitda(S) /\ "REVENUE" \in S
         /\ Enough("free_cash_flow", S) <=> HasEbitda(S) /\ "CAPITAL_EXPENDITURE" \in S
         /\ Enough("dscr", S) <=> HasEbitda(S) /\ "DEBT_SERVICE" \in S
         /\ Enough("leverage_ratio", S) <=> HasEbitda(S) /\ "TOTAL_DEBT" \in S
BY RecipesAre, EbitdaEnough DEF Enough

LEMMA OtherRecipes ==
  ASSUME NEW S
  PROVE  /\ Enough("gross_margin", S) <=>
              "REVENUE" \in S /\ ("GROSS_PROFIT" \in S \/ "COST_OF_GOODS_SOLD" \in S)
         /\ Enough("operating_margin", S) <=> "REVENUE" \in S /\ "OPERATING_INCOME" \in S
         /\ Enough("working_capital", S) <=>
              "CURRENT_ASSETS" \in S /\ "CURRENT_LIABILITIES" \in S
         /\ Enough("roce", S) <=>
              "OPERATING_INCOME" \in S /\ "TOTAL_ASSETS" \in S /\ "CURRENT_LIABILITIES" \in S
         /\ Enough("cash_runway_months", S) <=>
              "CASH_AND_EQUIVALENTS" \in S /\ "NET_OPERATING_CASH_FLOW" \in S
<1>1. /\ Recipes["gross_margin"] =
           {{"REVENUE", "GROSS_PROFIT"}, {"REVENUE", "COST_OF_GOODS_SOLD"}}
      /\ Recipes["operating_margin"] = {{"REVENUE", "OPERATING_INCOME"}}
      /\ Recipes["working_capital"] = {{"CURRENT_ASSETS", "CURRENT_LIABILITIES"}}
      /\ Recipes["roce"] = {{"OPERATING_INCOME", "TOTAL_ASSETS", "CURRENT_LIABILITIES"}}
      /\ Recipes["cash_runway_months"] = {{"CASH_AND_EQUIVALENTS", "NET_OPERATING_CASH_FLOW"}}
  BY DEF Recipes
<1> QED
  BY <1>1 DEF Enough

(* A metric that is there asks for nothing, so it asks for what it names.   *)
LEMMA AskedFor ==
  ASSUME NEW x, NEW missing, Known(x) => missing = {}
  PROVE  Result(x, missing).missing = missing
BY ResultIs

LEMMA AskedByMultiple ==
  ASSUME NEW x, NEW y, NEW e, NEW missing, Known(Ratio(x, y)) => missing = {}
  PROVE  Multiple(x, y, e, missing).missing = missing
BY AskedFor DEF Multiple, NotMeaningful

LEMMA EbitdaMetricsAdvise ==
  ASSUME NEW v \in Sheets, NEW p, NEW r, ProfitRows(v, r), CashRows(p, v, r), CapitalRows(v, r)
  PROVE  \A key \in {"ebitda", "ebitda_margin", "free_cash_flow", "dscr", "leverage_ratio"} :
           Advises(key, DOMAIN v, r[key].missing)
<1> DEFINE D == DOMAIN v
           e == compute_ebitda(v)
<1>w. Whole(e) /\ \A c : Whole(Of(v, c)) /\ (Known(Of(v, c)) <=> c \in D)
  BY EbitdaWhole, OfWhole
<1>e. Known(e) <=> HasEbitda(D)
  BY EbitdaWhole DEF HasEbitda, Computed
<1>1. Advises("ebitda", D, r["ebitda"].missing)
  <2>1. r["ebitda"].missing =
          IF HasEbitda(D) THEN {} ELSE {"OPERATING_INCOME", "DEPRECIATION"}
    BY <1>e, ResultIs DEF ProfitRows
  <2> QED
    BY <2>1, EbitdaRecipes DEF Advises, HasEbitda
<1>m. ASSUME NEW c, NEW M, M = NoEbitda(v) \cup Absent(v, {c})
      PROVE  /\ M = {} <=> HasEbitda(D) /\ c \in D
             /\ HasEbitda(D \cup M) /\ c \in D \cup M
             /\ M \cap D = {}
  BY <1>m, <1>e DEF NoEbitda, Absent, HasEbitda
<1>2. r["ebitda_margin"].missing = NoEbitda(v) \cup Absent(v, {"REVENUE"})
  <2>1. Known(safe_ratio_pct(e, Of(v, "REVENUE"))) =>
          Absent(v, {"REVENUE"}) \cup NoEbitda(v) = {}
    BY <1>w, RatioOfWhole DEF NoEbitda, Absent
  <2>2. r["ebitda_margin"].missing = Absent(v, {"REVENUE"}) \cup NoEbitda(v)
    BY <2>1, AskedFor DEF ProfitRows
  <2> QED
    BY <2>2
<1>3. r["free_cash_flow"].missing = NoEbitda(v) \cup Absent(v, {"CAPITAL_EXPENDITURE"})
  <2>1. Known(Minus(e, Of(v, "CAPITAL_EXPENDITURE"))) =>
          NoEbitda(v) \cup Absent(v, {"CAPITAL_EXPENDITURE"}) = {}
    BY <1>w, SumWhole DEF NoEbitda, Absent
  <2> QED
    BY <2>1, AskedFor DEF CashRows
<1>4. r["dscr"].missing = NoEbitda(v) \cup Absent(v, {"DEBT_SERVICE"})
  <2>1. Known(Ratio(e, Of(v, "DEBT_SERVICE"))) =>
          NoEbitda(v) \cup Absent(v, {"DEBT_SERVICE"}) = {}
    BY <1>w, RatioOfWhole DEF NoEbitda, Absent
  <2> QED
    BY <2>1, AskedByMultiple DEF CapitalRows
<1>5. r["leverage_ratio"].missing = NoEbitda(v) \cup Absent(v, {"TOTAL_DEBT"})
  <2>1. Known(Ratio(Of(v, "TOTAL_DEBT"), e)) =>
          NoEbitda(v) \cup Absent(v, {"TOTAL_DEBT"}) = {}
    BY <1>w, RatioOfWhole DEF NoEbitda, Absent
  <2> QED
    BY <2>1, AskedByMultiple DEF CapitalRows
<1>6. Advises("ebitda_margin", D, r["ebitda_margin"].missing)
  BY <1>m, <1>2, EbitdaRecipes DEF Advises
<1>7. Advises("free_cash_flow", D, r["free_cash_flow"].missing)
  BY <1>m, <1>3, EbitdaRecipes DEF Advises
<1>8. Advises("dscr", D, r["dscr"].missing)
  BY <1>m, <1>4, EbitdaRecipes DEF Advises
<1>9. Advises("leverage_ratio", D, r["leverage_ratio"].missing)
  BY <1>m, <1>5, EbitdaRecipes DEF Advises
<1> QED
  BY <1>1, <1>6, <1>7, <1>8, <1>9

LEMMA OtherMetricsAdvise ==
  ASSUME NEW v \in Sheets, NEW p, p.sheet = v,
         NEW r, ProfitRows(v, r), CashRows(p, v, r), CapitalRows(v, r)
  PROVE  \A key \in {"gross_margin", "operating_margin", "working_capital", "roce",
                     "cash_runway_months"} :
           Advises(key, DOMAIN v, r[key].missing)
<1> DEFINE D    == DOMAIN v
           F(c) == Of(v, c)
<1>w. \A c : Whole(F(c)) /\ (Known(F(c)) <=> c \in D)
  BY OfWhole
<1>1. Advises("gross_margin", D, r["gross_margin"].missing)
  <2>1. /\ Whole(gross_profit(v))
        /\ Known(gross_profit(v)) <=>
             "GROSS_PROFIT" \in D \/ {"REVENUE", "COST_OF_GOODS_SOLD"} \subseteq D
    BY GrossProfitWhole
  <2>2. Known(safe_ratio_pct(gross_profit(v), F("REVENUE"))) =>
          Absent(v, {"REVENUE"}) \cup NoGrossProfit(v) = {}
    BY <1>w, <2>1, RatioOfWhole DEF NoGrossProfit, Absent
  <2>3. r["gross_margin"].missing = Absent(v, {"REVENUE"}) \cup NoGrossProfit(v)
    BY <2>2, AskedFor DEF ProfitRows
  <2>4. ASSUME NEW M, M = Absent(v, {"REVENUE"}) \cup NoGrossProfit(v)
        PROVE  Advises("gross_margin", D, M)
    BY <2>1, <2>4, OtherRecipes DEF Advises, Absent, NoGrossProfit
  <2> QED
    BY <2>3, <2>4
<1>2. Advises("operating_margin", D, r["operating_margin"].missing)
  <2>1. Known(safe_ratio_pct(F("OPERATING_INCOME"), F("REVENUE"))) =>
          Absent(v, {"REVENUE", "OPERATING_INCOME"}) = {}
    BY <1>w, RatioOfWhole DEF Absent
  <2>2. r["operating_margin"].missing = Absent(v, {"REVENUE", "OPERATING_INCOME"})
    BY <2>1, AskedFor DEF ProfitRows, ShareOfRevenue
  <2> QED
    BY <2>2, OtherRecipes DEF Advises, Absent
<1>3. Advises("working_capital", D, r["working_capital"].missing)
  <2>1. Known(Minus(F("CURRENT_ASSETS"), F("CURRENT_LIABILITIES"))) =>
          Absent(v, {"CURRENT_ASSETS", "CURRENT_LIABILITIES"}) = {}
    BY <1>w, SumWhole DEF Absent
  <2>2. r["working_capital"].missing = Absent(v, {"CURRENT_ASSETS", "CURRENT_LIABILITIES"})
    BY <2>1, AskedFor DEF CashRows
  <2> QED
    BY <2>2, OtherRecipes DEF Advises, Absent
<1>4. Advises("roce", D, r["roce"].missing)
  <2> DEFINE base  == Minus(F("TOTAL_ASSETS"), F("CURRENT_LIABILITIES"))
             parts == {"OPERATING_INCOME", "TOTAL_ASSETS", "CURRENT_LIABILITIES"}
  <2>1. Whole(base) /\ (Known(base) <=> "TOTAL_ASSETS" \in D /\ "CURRENT_LIABILITIES" \in D)
    BY <1>w, SumWhole
  <2>2. Known(safe_ratio_pct(F("OPERATING_INCOME"), base)) => Absent(v, parts) = {}
    BY <1>w, <2>1, RatioOfWhole DEF Absent
  <2>3. r["roce"].missing = Absent(v, parts)
    BY <2>2, AskedFor DEF CapitalRows
  <2> QED
    BY <2>3, OtherRecipes DEF Advises, Absent
<1>5. Advises("cash_runway_months", D, r["cash_runway_months"].missing)
  <2>1. r["cash_runway_months"].missing =
          IF "CASH_AND_EQUIVALENTS" \in D /\ "NET_OPERATING_CASH_FLOW" \in D THEN {}
          ELSE IF "CASH_AND_EQUIVALENTS" \in D THEN {"NET_OPERATING_CASH_FLOW"}
          ELSE {"CASH_AND_EQUIVALENTS"}
    <3>1. \A x : Result(x, {}).missing = {}
      BY ResultIs
    <3>2. \A M : Result(NONE, M).missing = M
      BY ResultIs DEF Known, NONE
    <3>3. r["cash_runway_months"] = Runway(p)
      BY DEF CashRows
    <3> QED
      BY <1>w, <3>1, <3>2, <3>3 DEF Runway
  <2> QED
    BY <2>1, OtherRecipes DEF Advises
<1> QED
  BY <1>1, <1>2, <1>3, <1>4, <1>5

(* Whatever has been entered and flagged: the codes that a cached metric    *)
(* names as missing are what it takes to compute it, and none when it can   *)
(* be computed.                                                             *)
THEOREM AdviceIsEnough == Spec => []AdviceSuffices
<1>1. ASSUME Tables, UpToDate PROVE AdviceSuffices
  <2>1. ASSUME NEW p \in Current, NEW key \in DOMAIN Recipes
        PROVE  Advises(key, DOMAIN sheet[p], cache[p][key].missing)
    <3>1. PICK n \in Nat : \E h : cache[p] = ComputeAll(Entry(p, sheet[p], n), h)
      BY <1>1 DEF UpToDate, Given
    <3> DEFINE q == Entry(p, sheet[p], n)
    <3>2. sheet[p] \in Sheets /\ q.sheet = sheet[p]
      BY <1>1 DEF Current, Stated, Tables, Figures, Entry
    <3>3. /\ ProfitRows(sheet[p], cache[p]) /\ CashRows(q, sheet[p], cache[p])
          /\ CapitalRows(sheet[p], cache[p])
      BY <3>1, <3>2, RowsGiven
    <3> HIDE DEF q
    <3> QED
      BY <3>2, <3>3, RecipesAre, EbitdaMetricsAdvise, OtherMetricsAdvise
  <2> QED
    BY <2>1 DEF AdviceSuffices, Advises, Enough
<1> QED
  BY <1>1, AlwaysUpToDate, PTL
-----------------------------------------------------------------------------
(* Growth *)

(* Periods as boards report them: a month or a quarter, or what there is of *)
(* one yet, a half year, nine months or a year.                             *)
CalendarPeriods ==
  \A p \in Periods : p.last - p.first \in 0..91 \cup 180..183 \cup 272..365

(* The period a known growth is taken against is one the company states.    *)
LEMMA PriorStated ==
  ASSUME NEW figures, NEW tie, NEW current, NEW gap, NEW tolerance, NEW g, Known(g),
         g = Growth("REVENUE", current,
                    period_offset_by_days(History(figures, tie), current, gap, tolerance)).value
  PROVE  \E q \in Stated(figures) :
           /\ Abs(current.last - q.last - gap) <= tolerance
           /\ Comparable(q, current)
           /\ g = pct_change(Of(current.sheet, "REVENUE"), Of(figures[q], "REVENUE"))
<1> DEFINE h     == History(figures, tie)
           prior == period_offset_by_days(h, current, gap, tolerance)
           e     == CHOOSE x \in prior : TRUE
<1>1. prior # {} /\ g = pct_change(Of(current.sheet, "REVENUE"), Of(e.sheet, "REVENUE"))
  <2>1. g = Growth("REVENUE", current, prior).value
    OBVIOUS
  <2> HIDE DEF prior
  <2>2. g = IF prior = {} THEN NONE
            ELSE pct_change(Of(current.sheet, "REVENUE"), Of(e.sheet, "REVENUE"))
    BY <2>1 DEF Growth, Result
  <2>3. ~Known(NONE)
    BY DEF Known, NONE
  <2> QED
    BY <2>2, <2>3
<1>2. \A x \in prior : /\ x \in h /\ Abs(current.last - x.last - gap) <= tolerance
                       /\ Comparable(x, current)
  BY DEF period_offset_by_days, FirstOf
<1>3. e \in prior
  BY <1>1
<1> HIDE DEF e, prior
<1>4. PICK q \in Stated(figures), n \in Nat : e = Entry(q, figures[q], n)
  BY <1>2, <1>3, HistoryEntries
<1>5. e.last = q.last /\ e.first = q.first /\ e.sheet = figures[q]
  BY <1>4 DEF Entry
<1>6. Comparable(q, current)
  BY <1>2, <1>3, <1>5 DEF Comparable, period_length_days
<1>7. Abs(current.last - q.last - gap) <= tolerance
  BY <1>2, <1>3, <1>5
<1> QED
  BY <1>1, <1>5, <1>6, <1>7

LEMMA SameKind ==
  ASSUME CalendarPeriods, NEW p \in Periods, NEW q \in Periods, Comparable(q, p)
  PROVE  /\ classify_period_type(q) = classify_period_type(p)
         /\ (p.last - p.first) - (q.last - q.first) < 110
<1> DEFINE m == q.last - q.first
           n == p.last - p.first
<1>1. m \in Int /\ n \in Int
  BY PeriodsEnd
<1>2. /\ m \in 0..91 \cup 180..183 \cup 272..365
      /\ n \in 0..91 \cup 180..183 \cup 272..365
  BY DEF CalendarPeriods
<1>3. 10 * Abs((m + 1) - (n + 1)) <= 3 * (n + 1)
  BY DEF Comparable, period_length_days
<1>4. /\ classify_period_type(q) = CASE m <= 100 -> "Q" [] m \in 101..200 -> "HY" [] OTHER -> "FY"
      /\ classify_period_type(p) = CASE n <= 100 -> "Q" [] n \in 101..200 -> "HY" [] OTHER -> "FY"
  BY DEF classify_period_type
<1> HIDE DEF m, n
<1>5. 10 * (m - n) <= 3 * (n + 1) /\ 10 * (n - m) <= 3 * (n + 1)
  BY <1>1, <1>3 DEF Abs
<1>6. \/ m \in 0..91 /\ n \in 0..91
      \/ m \in 180..183 /\ n \in 180..183
      \/ m \in 272..365 /\ n \in 272..365
  BY <1>1, <1>2, <1>5
<1>7. classify_period_type(q) = classify_period_type(p)
  <2>1. CASE m \in 0..91 /\ n \in 0..91
    BY <1>4, <2>1
  <2>2. CASE m \in 180..183 /\ n \in 180..183
    BY <1>4, <2>2
  <2>3. CASE m \in 272..365 /\ n \in 272..365
    BY <1>4, <2>3
  <2> QED
    BY <1>6, <2>1, <2>2, <2>3
<1>8. n - m < 110
  BY <1>1, <1>2, <1>5
<1> QED
  BY <1>7, <1>8 DEF m, n

(* The period that ended about a year, or a month, before.                  *)
LEMMA YearBefore ==
  ASSUME CalendarPeriods, NEW p \in Periods, NEW q \in Periods,
         Comparable(q, p), Abs(p.last - q.last - 365) <= 45
  PROVE  /\ classify_period_type(q) = classify_period_type(p)
         /\ p.last - q.last \in 320..410 /\ q.first < p.first
<1>1. p.first \in Int /\ p.last \in Int /\ q.first \in Int /\ q.last \in Int
  BY PeriodsEnd
<1>2. p.last - q.last \in 320..410
  BY <1>1 DEF Abs
<1>3. q.first < p.first
  BY <1>1, <1>2, SameKind
<1> QED
  BY <1>2, <1>3, SameKind

LEMMA MonthBefore ==
  ASSUME CalendarPeriods, NEW p \in Periods, NEW q \in Periods,
         Comparable(q, p), Abs(p.last - q.last - 30) <= 10, p.last - p.first <= 44
  PROVE  /\ classify_period_type(q) = classify_period_type(p)
         /\ p.last - q.last \in 20..40 /\ q.first < p.first
<1>1. p.first \in Int /\ p.last \in Int /\ q.first \in Int /\ q.last \in Int
  BY PeriodsEnd
<1>2. p.last - q.last \in 20..40
  BY <1>1 DEF Abs
<1>3. 10 * ((p.last - p.first) - (q.last - q.first)) <= 3 * ((p.last - p.first) + 1)
  BY <1>1 DEF Comparable, period_length_days, Abs
<1>4. q.first < p.first
  BY <1>1, <1>2, <1>3
<1> QED
  BY <1>2, <1>4, SameKind

(* A period whose rows a computation replaces is compared like with like.   *)
LEMMA StoreCompares ==
  ASSUME CalendarPeriods, DOMAIN cache = Periods, NEW day, Store(sheet', day),
         NEW p \in Periods, cache'[p] # cache[p]
  PROVE  /\ LikeWithLike(p, "revenue_yoy_growth", 320..410)
         /\ LikeWithLike(p, "revenue_mom_growth", 20..40)
<1>1. \E q \in Stated(sheet') : q.last = day
  BY DEF Store
<1>2. PICK q \in Stated(sheet'), tie \in BOOLEAN, n \in Nat :
        cache' = [cache EXCEPT ![q] =
                    ComputeAll(Entry(q, sheet'[q], n), History(sheet', tie))]
  BY <1>1, StoreEffect
<1> DEFINE current == Entry(p, sheet'[p], n)
           h       == History(sheet', tie)
           r       == GrowthMetrics(current, h)
<1>3. cache'[p] = ComputeAll(current, h)
  BY <1>2 DEF Stated
<1>4. /\ current.first = p.first /\ current.last = p.last /\ current.sheet = sheet'[p]
      /\ period_length_days(current) = p.last - p.first + 1
      /\ \A x \in Periods : Comparable(x, current) = Comparable(x, p)
  BY DEF Entry, Comparable, period_length_days
<1> HIDE DEF current, h
<1>5. /\ cache'[p]["revenue_yoy_growth"] = r["revenue_yoy_growth"]
      /\ cache'[p]["revenue_mom_growth"] = r["revenue_mom_growth"]
  BY <1>3, MetricAt DEF GrowthKeys
<1>6. LikeWithLike(p, "revenue_yoy_growth", 320..410)
  <2> SUFFICES ASSUME NEW g, g = r["revenue_yoy_growth"].value, Known(g)
               PROVE  \E x \in Periods :
                        /\ classify_period_type(x) = classify_period_type(p)
                        /\ p.last - x.last \in 320..410 /\ x.first < p.first
                        /\ GrowthOf(p, x) = g
    BY <1>5 DEF LikeWithLike
  <2>1. g = Growth("REVENUE", current, period_offset_by_days(h, current, 365, 45)).value
    BY DEF GrowthMetrics
  <2>2. PICK x \in Stated(sheet') :
          /\ Abs(current.last - x.last - 365) <= 45
          /\ Comparable(x, current)
          /\ g = pct_change(Of(current.sheet, "REVENUE"), Of(sheet'[x], "REVENUE"))
    BY <2>1, PriorStated DEF h
  <2>3. x \in Periods /\ Comparable(x, p) /\ Abs(p.last - x.last - 365) <= 45
    BY <1>4, <2>2 DEF Stated
  <2>4. GrowthOf(p, x) = g
    BY <1>4, <2>2 DEF GrowthOf
  <2>5. /\ classify_period_type(x) = classify_period_type(p)
        /\ p.last - x.last \in 320..410 /\ x.first < p.first
    BY <2>3, YearBefore
  <2> QED
    BY <2>3, <2>4, <2>5
<1>7. LikeWithLike(p, "revenue_mom_growth", 20..40)
  <2> SUFFICES ASSUME NEW g, g = r["revenue_mom_growth"].value, Known(g)
               PROVE  \E x \in Periods :
                        /\ classify_period_type(x) = classify_period_type(p)
                        /\ p.last - x.last \in 20..40 /\ x.first < p.first
                        /\ GrowthOf(p, x) = g
    BY <1>5 DEF LikeWithLike
  <2>1. ~(period_length_days(current) > MONTH_MAX_DAYS)
    BY DEF GrowthMetrics, Growth, Result, Known, NONE
  <2>2. g = Growth("REVENUE", current, period_offset_by_days(h, current, 30, 10)).value
    BY <2>1 DEF GrowthMetrics
  <2>3. PICK x \in Stated(sheet') :
          /\ Abs(current.last - x.last - 30) <= 10
          /\ Comparable(x, current)
          /\ g = pct_change(Of(current.sheet, "REVENUE"), Of(sheet'[x], "REVENUE"))
    BY <2>2, PriorStated DEF h
  <2>4. x \in Periods /\ Comparable(x, p) /\ Abs(p.last - x.last - 30) <= 10
    BY <1>4, <2>3 DEF Stated
  <2>5. GrowthOf(p, x) = g
    BY <1>4, <2>3 DEF GrowthOf
  <2>6. p.last - p.first <= 44
    BY <1>4, <2>1, PeriodsEnd DEF MONTH_MAX_DAYS
  <2>7. /\ classify_period_type(x) = classify_period_type(p)
        /\ p.last - x.last \in 20..40 /\ x.first < p.first
    BY <2>4, <2>6, MonthBefore
  <2> QED
    BY <2>4, <2>5, <2>7
<1> QED
  BY <1>6, <1>7

(* Where periods are months, quarters, half years, nine months or years:    *)
(* growth over a year is against a period of the same kind that ended about *)
(* a year before, and growth over a month against the month before.         *)
THEOREM GrowthIsLikeWithLike ==
  ASSUME CalendarPeriods PROVE Spec => GrowthComparesLikeWithLike
<1> DEFINE Compared == \A p \in Periods : cache'[p] # cache[p] =>
                         /\ LikeWithLike(p, "revenue_yoy_growth", 320..410)
                         /\ LikeWithLike(p, "revenue_mom_growth", 20..40)
<1>1. ASSUME Tables, [Next]_vars PROVE [Compared]_vars
  <2>1. DOMAIN cache = Periods
    BY <1>1 DEF Tables
  <2>2. ASSUME NEW day, Store(sheet', day) PROVE Compared
    BY <2>1, <2>2, StoreCompares
  <2>3. CASE UNCHANGED vars
    BY <2>3
  <2>4. ASSUME NEW day, View(day) PROVE Compared
    BY <2>2, <2>4 DEF View
  <2>5. ASSUME NEW ch \in Changes, Enter(ch) PROVE Compared
    BY <2>2, <2>5 DEF Enter, Change
  <2>6. ASSUME NEW p \in Periods, NEW c \in Flaggable, Flag(p, c) PROVE Compared
    BY <2>2, <2>6 DEF Flag, Change
  <2> QED
    BY <1>1, <2>3, <2>4, <2>5, <2>6 DEF Next
<1> QED
  BY <1>1, AlwaysUpToDate, PTL DEF Spec, GrowthComparesLikeWithLike
=============================================================================
