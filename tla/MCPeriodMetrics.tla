--------------------------- MODULE MCPeriodMetrics ---------------------------
(***************************************************************************)
(* A full set of figures for a year, the half year that ends with it, the  *)
(* year before and its half, and two months.                               *)
(***************************************************************************)
EXTENDS PeriodMetrics, TLC

P(a, b) == [first |-> a, last |-> b]

Y1 == P(1, 365)     H1 == P(182, 365)
Y2 == P(366, 730)   H2 == P(548, 730)
M1 == P(731, 761)   M2 == P(762, 789)

AllPeriods == {Y1, H1, Y2, H2, M1, M2}

Alphabet ==
  <<"CAPITAL_EXPENDITURE", "CASH_AND_EQUIVALENTS", "COST_OF_GOODS_SOLD",
    "CURRENT_ASSETS", "CURRENT_LIABILITIES", "CUSTOMER_COUNT", "DEBT_SERVICE",
    "DEPRECIATION", "EBITDA", "GROSS_PROFIT", "NET_INCOME",
    "NET_OPERATING_CASH_FLOW", "OPERATING_EXPENSES", "OPERATING_INCOME", "REVENUE",
    "TOTAL_ASSETS", "TOTAL_DEBT">>

Year ==
  "CAPITAL_EXPENDITURE" :> 15 @@ "CASH_AND_EQUIVALENTS" :> 6 @@ "COST_OF_GOODS_SOLD" :> 120
    @@ "CURRENT_ASSETS" :> 90 @@ "CURRENT_LIABILITIES" :> 40 @@ "CUSTOMER_COUNT" :> 8
    @@ "DEBT_SERVICE" :> 25 @@ "DEPRECIATION" :> 10 @@ "EBITDA" :> 45 @@ "GROSS_PROFIT" :> 85
    @@ "NET_INCOME" :> 20 @@ "NET_OPERATING_CASH_FLOW" :> -3 @@ "OPERATING_EXPENSES" :> 50
    @@ "OPERATING_INCOME" :> 30 @@ "REVENUE" :> 200 @@ "TOTAL_ASSETS" :> 150
    @@ "TOTAL_DEBT" :> 70

Sales(n) == "REVENUE" :> n

Figures ==
  Y2 :> Year @@ Y1 :> Sales(160) @@ H1 :> Sales(90) @@ H2 :> Nothing
    @@ M1 :> Sales(10) @@ M2 :> Nothing

Entry(p, c, v) == [period |-> p, code |-> c, value |-> v]

AllChanges ==
  {Entry(Y2, c, 0) : c \in {"REVENUE", "DEBT_SERVICE", "OPERATING_INCOME",
                            "NET_OPERATING_CASH_FLOW", "CURRENT_ASSETS"}}
    \cup {Entry(Y2, "OPERATING_INCOME", -30), Entry(Y2, "TOTAL_ASSETS", 40),
          Entry(Y2, "TOTAL_ASSETS", 20), Entry(Y2, "NET_OPERATING_CASH_FLOW", 5),
          Entry(H2, "REVENUE", 110), Entry(H2, "CURRENT_ASSETS", 30),
          Entry(M2, "REVENUE", 12), Entry(H1, "REVENUE", 0), Entry(Y1, "CUSTOMER_COUNT", 6)}

AllFlaggable == Codes \ {"CUSTOMER_COUNT", "NET_INCOME", "OPERATING_EXPENSES"}
=============================================================================
