-------------------------- MODULE MCValidationRun --------------------------
(***************************************************************************)
(* An instance of ValidationRun for TLC: for every rule, figures that meet *)
(* it, miss it by the tolerance, and miss it by more.                      *)
(***************************************************************************)
EXTENDS ValidationRun, TLC

Stated10 ==
  "CASH_CLOSING" :> {0, 1, 4} @@ "CASH_OPENING" :> {0, 2}
    @@ "NET_OPERATING_CASH_FLOW" :> {2} @@ "NET_INVESTING_CASH_FLOW" :> {0}
    @@ "NET_FINANCING_CASH_FLOW" :> {0} @@ "CASH_AND_EQUIVALENTS" :> {0}
    @@ "REVENUE" :> {9998, 9999, 100000001, 100000002}
    @@ "COST_OF_GOODS_SOLD" :> {0} @@ "GROSS_PROFIT" :> {9999, 10001}
    @@ "NET_ASSETS" :> {1, 2} @@ "TOTAL_EQUITY" :> {0}

AllCodes == DOMAIN Stated10
=============================================================================
