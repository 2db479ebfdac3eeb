--------------------------- MODULE MetricFormulas ---------------------------
(***************************************************************************)
(* The board metrics of services/metrics as functions of the figures on    *)
(* record: of one period (profitability, cash, solvency, returns) and of   *)
(* the periods before it (growth).                                         *)
(*                                                                         *)
(* A sheet is a function from the taxonomy codes stated for a period to    *)
(* integers.  A number is a fraction <<n, d>>; the number that is not      *)
(* there has d = 0.  A period has its first and last day, counted from     *)
(* some day, and its sheet; a history is a set of periods, each with its   *)
(* place in the list, which is in the order of their last days.            *)
(***************************************************************************)
EXTENDS Integers, FiniteSets

NONE     == <<0, 0>>
Known(x) == x[2] # 0

Of(v, c) == IF c \in DOMAIN v THEN <<v[c], 1>> ELSE NONE

Sum2(x, y)   == IF Known(x) /\ Known(y) THEN <<x[1] + y[1], 1>> ELSE NONE
Minus(x, y)  == IF Known(x) /\ Known(y) THEN <<x[1] - y[1], 1>> ELSE NONE
Ratio(x, y)  == IF Known(x) /\ Known(y) /\ y[1] # 0
                THEN <<x[1] * y[2], x[2] * y[1]>> ELSE NONE
Abs(n)       == IF n < 0 THEN -n ELSE n

safe_ratio_pct(x, y) == LET r == Ratio(x, y) IN <<100 * r[1], r[2]>>

pct_change(new, old) ==
  IF Known(new) /\ Known(old) /\ old[1] # 0
  THEN <<100 * (new[1] - old[1]), Abs(old[1])>> ELSE NONE

-----------------------------------------------------------------------------
(* Results *)

(* missing names the codes to add; nm is a result that would mislead.       *)
Result(x, missing) ==
  [value |-> x, missing |-> IF Known(x) THEN {} ELSE missing, nm |-> FALSE]

Absent(v, C) == C \ DOMAIN v

Direct(v, c) == Result(Of(v, c), {c})

-----------------------------------------------------------------------------
(* Periods *)

period_length_days(p) == p.last - p.first + 1

(* A month is 30.44 days.                                                   *)
period_length_months(p) == <<25 * period_length_days(p), 761>>

FirstOf(S) == {p \in S : \A q \in S : p.at <= q.at}

(* The period before, whatever its length: none, or one.                    *)
previous_period(history, current) ==
  LET before == {p \in history : p.last < current.last}
  IN  FirstOf({p \in before : \A q \in before : q.last <= p.last})

(* Mutant: the length of the periods is not compared.                       *)
AnyLength(p, current) == TRUE

(* Lengths that differ by at most 30% of the current one.                   *)
Comparable(p, current) ==
  10 * Abs(period_length_days(p) - period_length_days(current))
    <= 3 * period_length_days(current)

(* The period that ended nearest to gap days before: none, or one.          *)
period_offset_by_days(history, current, gap, tolerance) ==
  LET Off(p) == Abs(current.last - p.last - gap)
      fits   == {p \in history : /\ p.last < current.last
                                 /\ Off(p) <= tolerance
                                 /\ Comparable(p, current)}
  IN  FirstOf({p \in fits : \A q \in fits : Off(p) <= Off(q)})

Growth(c, current, prior) ==
  Result(IF prior = {} THEN NONE
         ELSE pct_change(Of(current.sheet, c), Of((CHOOSE p \in prior : TRUE).sheet, c)), {})

MONTH_MAX_DAYS == 45

GrowthMetrics(current, history) ==
  [revenue        |-> Direct(current.sheet, "REVENUE"),
   customer_count |-> Direct(current.sheet, "CUSTOMER_COUNT"),
   revenue_yoy_growth |->
     Growth("REVENUE", current, period_offset_by_days(history, current, 365, 45)),
   revenue_mom_growth |->
     Growth("REVENUE", current,
            IF period_length_days(current) > MONTH_MAX_DAYS THEN {}
            ELSE period_offset_by_days(history, current, 30, 10)),
   customer_count_growth |->
     Growth("CUSTOMER_COUNT", current, previous_period(history, current))]

-----------------------------------------------------------------------------
(* One sheet *)

(* Mutant: a stated EBITDA comes first.                                     *)
stated_ebitda(v) ==
  IF "EBITDA" \in DOMAIN v THEN Of(v, "EBITDA")
  ELSE Sum2(Of(v, "OPERATING_INCOME"), Of(v, "DEPRECIATION"))

Computed(v) == {"OPERATING_INCOME", "DEPRECIATION"} \subseteq DOMAIN v

compute_ebitda(v) ==
  IF Computed(v) THEN Sum2(Of(v, "OPERATING_INCOME"), Of(v, "DEPRECIATION"))
  ELSE Of(v, "EBITDA")

(* EBITDA is named when there is neither a computed nor a stated one.       *)
NoEbitda(v) == IF Known(compute_ebitda(v)) THEN {} ELSE {"EBITDA"}

(* Mutant: a gross profit that can be derived is still asked for.           *)
NoStatedGrossProfit(v) == Absent(v, {"GROSS_PROFIT"})

gross_profit(v) ==
  IF "GROSS_PROFIT" \in DOMAIN v THEN Of(v, "GROSS_PROFIT")
  ELSE Minus(Of(v, "REVENUE"), Of(v, "COST_OF_GOODS_SOLD"))

NoGrossProfit(v) == IF Known(gross_profit(v)) THEN {} ELSE {"GROSS_PROFIT"}

ShareOfRevenue(v, c) ==
  Result(safe_ratio_pct(Of(v, c), Of(v, "REVENUE")), Absent(v, {"REVENUE", c}))

ProfitabilityMetrics(v) ==
  LET revenue == Of(v, "REVENUE") IN
  [gross_margin |->
     Result(safe_ratio_pct(gross_profit(v), revenue),
            Absent(v, {"REVENUE"}) \cup NoGrossProfit(v)),
   operating_margin |-> ShareOfRevenue(v, "OPERATING_INCOME"),
   ebitda_margin |->
     Result(safe_ratio_pct(compute_ebitda(v), revenue),
            Absent(v, {"REVENUE"}) \cup NoEbitda(v)),
   net_margin |-> ShareOfRevenue(v, "NET_INCOME"),
   ebitda |-> Result(compute_ebitda(v), {"OPERATING_INCOME", "DEPRECIATION"}),
   net_income |-> Direct(v, "NET_INCOME"),
   operating_expenses |-> Direct(v, "OPERATING_EXPENSES"),
   cogs_pct_of_revenue |-> ShareOfRevenue(v, "COST_OF_GOODS_SOLD"),
   opex_pct_of_revenue |-> ShareOfRevenue(v, "OPERATING_EXPENSES")]

(* Months of cash left at the rate the period burned it: only a period that *)
(* burned cash has one.                                                     *)
Runway(p) ==
  LET v    == p.sheet
      cash == Of(v, "CASH_AND_EQUIVALENTS")
      flow == Of(v, "NET_OPERATING_CASH_FLOW")
      need == IF Known(cash) THEN {"NET_OPERATING_CASH_FLOW"} ELSE {"CASH_AND_EQUIVALENTS"}
  IN
  IF Known(cash) /\ Known(flow)
  THEN Result(IF flow[1] >= 0 THEN NONE
              ELSE Ratio(cash, Ratio(<<-flow[1], 1>>, period_length_months(p))), {})
  ELSE Result(NONE, need)

CashMetrics(p) ==
  LET v == p.sheet IN
  [capital_expenditure |-> Direct(v, "CAPITAL_EXPENDITURE"),
   free_cash_flow |->
     Result(Minus(compute_ebitda(v), Of(v, "CAPITAL_EXPENDITURE")),
            NoEbitda(v) \cup Absent(v, {"CAPITAL_EXPENDITURE"})),
   cash_balance |-> Direct(v, "CASH_AND_EQUIVALENTS"),
   cash_runway_months |-> Runway(p),
   working_capital |->
     Result(Minus(Of(v, "CURRENT_ASSETS"), Of(v, "CURRENT_LIABILITIES")),
            Absent(v, {"CURRENT_ASSETS", "CURRENT_LIABILITIES"}))]

NotMeaningful == [value |-> NONE, missing |-> {}, nm |-> TRUE]

(* Mutant: a multiple of a negative EBITDA is shown.                        *)
MultipleOfAny(x, y, ebitda, missing) == Result(Ratio(x, y), missing)

(* A multiple of EBITDA, or by EBITDA, says nothing when it is not positive. *)
Multiple(x, y, ebitda, missing) ==
  IF missing = {} /\ ebitda[1] <= 0 THEN NotMeaningful
  ELSE Result(Ratio(x, y), missing)

SolvencyMetrics(v) ==
  LET e == compute_ebitda(v) IN
  [dscr |-> Multiple(e, Of(v, "DEBT_SERVICE"), e,
                     NoEbitda(v) \cup Absent(v, {"DEBT_SERVICE"})),
   leverage_ratio |-> Multiple(Of(v, "TOTAL_DEBT"), e, e,
                               NoEbitda(v) \cup Absent(v, {"TOTAL_DEBT"}))]

ReturnsMetrics(v) ==
  [roce |-> Result(safe_ratio_pct(Of(v, "OPERATING_INCOME"),
                                  Minus(Of(v, "TOTAL_ASSETS"), Of(v, "CURRENT_LIABILITIES"))),
                   Absent(v, {"OPERATING_INCOME", "TOTAL_ASSETS", "CURRENT_LIABILITIES"}))]

-----------------------------------------------------------------------------
METRIC_REGISTRY ==
  {"revenue", "revenue_yoy_growth", "revenue_mom_growth", "customer_count",
   "customer_count_growth", "gross_margin", "operating_margin", "ebitda_margin",
   "net_margin", "ebitda", "net_income", "operating_expenses", "cogs_pct_of_revenue",
   "opex_pct_of_revenue", "cash_balance", "capital_expenditure", "free_cash_flow",
   "cash_runway_months", "working_capital", "dscr", "leverage_ratio", "roce"}

(* The results of two groups, whose keys differ.                            *)
Joined(f, g) ==
  [key \in DOMAIN f \cup DOMAIN g |-> IF key \in DOMAIN f THEN f[key] ELSE g[key]]

(* _compute_all: the metrics of every group.                                *)
ComputeAll(current, history) ==
  LET v == current.sheet IN
  Joined(GrowthMetrics(current, history),
         Joined(ProfitabilityMetrics(v),
                Joined(CashMetrics(current),
                       Joined(SolvencyMetrics(v), ReturnsMetrics(v)))))

(* classify_period_type, by days from first to last.                        *)
classify_period_type(p) ==
  CASE p.last - p.first <= 100 -> "Q"
    [] p.last - p.first \in 101..200 -> "HY"
    [] OTHER -> "FY"
=============================================================================
