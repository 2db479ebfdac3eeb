-------------------------- MODULE ValidationRules --------------------------
(***************************************************************************)
(* The accounting-identity checks of services/validation: the four rules   *)
(* of rules.py, the revenue-scale check, and the verdict run_validation    *)
(* reaches from them about one period's figures.                           *)
(*                                                                         *)
(* A "sheet" is the values dictionary run_validation builds: a function    *)
(* whose domain is the set of taxonomy codes present for the period.       *)
(***************************************************************************)
EXTENDS Integers

NEEDS_REVIEW == "needs_review"
CONFIRMED    == "confirmed"
Statuses     == {NEEDS_REVIEW, CONFIRMED}

TOLERANCE         == 1
REVENUE_SCALE_MIN == 10000
REVENUE_SCALE_MAX == 100000000

GrossProfit == "gross_profit_equals_revenue_minus_cost_of_sales"
NetAssets   == "net_assets_equals_total_equity"
CashBridge  == "cash_bridge_sums_to_closing_cash"
CashMatch   == "cash_flow_closing_cash_matches_balance_sheet_cash"
ScaleCheck  == "revenue_scale_sanity_check"

Rules == {GrossProfit, NetAssets, CashBridge, CashMatch, ScaleCheck}

CashFlows == {"NET_OPERATING_CASH_FLOW", "NET_INVESTING_CASH_FLOW",
              "NET_FINANCING_CASH_FLOW"}

(* The statement a rule's ValidationResult row is anchored to. *)
PrimaryCode(rule) ==
  CASE rule = GrossProfit -> "GROSS_PROFIT"
    [] rule = NetAssets   -> "NET_ASSETS"
    [] rule = CashBridge  -> "CASH_CLOSING"
    [] rule = CashMatch   -> "CASH_CLOSING"
    [] rule = ScaleCheck  -> "REVENUE"

(* Every code a rule reads. *)
InvolvedCodes(rule) ==
  CASE rule = GrossProfit -> {"GROSS_PROFIT", "REVENUE", "COST_OF_GOODS_SOLD"}
    [] rule = NetAssets   -> {"NET_ASSETS", "TOTAL_EQUITY"}
    [] rule = CashBridge  -> {"CASH_CLOSING", "CASH_OPENING"} \cup CashFlows
    [] rule = CashMatch   -> {"CASH_CLOSING", "CASH_AND_EQUIVALENTS"}
    [] rule = ScaleCheck  -> {"REVENUE"}

(* The codes a failing rule flags: a subtotal checked against its           *)
(* components is flagged alone, two independently stated totals together.   *)
MarkOnFailure(rule) ==
  IF rule \in {GrossProfit, CashBridge} THEN {PrimaryCode(rule)}
                                        ELSE InvolvedCodes(rule)

(* The rule's expected and actual sides.  The scale check clamps: its       *)
(* expected side is the nearest plausible value.                            *)
Expected(rule, sheet) ==
  LET stated == sheet[PrimaryCode(rule)] IN
  CASE rule # ScaleCheck                                -> stated
    [] rule = ScaleCheck /\ stated < REVENUE_SCALE_MIN  -> REVENUE_SCALE_MIN
    [] rule = ScaleCheck /\ stated > REVENUE_SCALE_MAX  -> REVENUE_SCALE_MAX
    [] OTHER                                            -> stated

Actual(rule, sheet) ==
  CASE rule = GrossProfit -> sheet["REVENUE"] - sheet["COST_OF_GOODS_SOLD"]
    [] rule = NetAssets   -> sheet["TOTAL_EQUITY"]
    [] rule = CashBridge  -> sheet["CASH_OPENING"]
                               + sheet["NET_OPERATING_CASH_FLOW"]
                               + sheet["NET_INVESTING_CASH_FLOW"]
                               + sheet["NET_FINANCING_CASH_FLOW"]
    [] rule = CashMatch   -> sheet["CASH_AND_EQUIVALENTS"]
    [] rule = ScaleCheck  -> sheet["REVENUE"]

(* A rule that lacks one of its codes is inapplicable, not failed. *)
Applicable(sheet) ==
  {rule \in Rules : InvolvedCodes(rule) \subseteq DOMAIN sheet}

(* Mutant: a difference of exactly the tolerance fails.                     *)
PassesStrictly(rule, sheet) ==
  LET delta == Actual(rule, sheet) - Expected(rule, sheet)
  IN  -TOLERANCE < delta /\ delta < TOLERANCE

Passes(rule, sheet) ==
  LET delta == Actual(rule, sheet) - Expected(rule, sheet)
  IN  -TOLERANCE <= delta /\ delta <= TOLERANCE

CheckedCodes(sheet) == UNION {InvolvedCodes(rule) : rule \in Applicable(sheet)}

AnchorCodes(sheet) == {PrimaryCode(rule) : rule \in Applicable(sheet)}

NeedsReviewCodes(sheet) ==
  UNION {MarkOnFailure(rule) :
           rule \in {u \in Applicable(sheet) : ~Passes(u, sheet)}}

(* The status run_validation gives each code it checked.  An unchecked code *)
(* is outside the domain: its statement keeps the status it had.            *)
Verdict(sheet) ==
  [code \in CheckedCodes(sheet) |->
     IF code \in NeedsReviewCodes(sheet) THEN NEEDS_REVIEW ELSE CONFIRMED]
=============================================================================
