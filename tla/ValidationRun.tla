--------------------------- MODULE ValidationRun ---------------------------
(***************************************************************************)
(* One period's statements, one per taxonomy code, under run_validation:   *)
(* statements are added and corrected by hand, and every change is         *)
(* validated before the next.                                              *)
(***************************************************************************)
EXTENDS ValidationRules

CONSTANTS
  Codes,     (* taxonomy codes that may be stated for the period            *)
  Figures    (* for each code, the values its statement may hold            *)

ASSUME FiguresAreIntegers == Figures \in [Codes -> SUBSET Int]

VARIABLES
  value,     (* value of each stated code                                   *)
  status,    (* status of each stated code                                  *)
  fresh      (* run_validation has seen these values                        *)

vars == <<value, status, fresh>>

Init ==
  /\ value = [c \in {} |-> 0]
  /\ status = [c \in {} |-> CONFIRMED]
  /\ fresh = TRUE

Validate ==
  /\ ~fresh
  /\ status' = [c \in DOMAIN value |->
                  IF c \in DOMAIN Verdict(value) THEN Verdict(value)[c] ELSE status[c]]
  /\ fresh' = TRUE
  /\ UNCHANGED value

(* Mutant: the entry's status is left to a later write.                     *)
EnterBare(c, v) ==
  /\ fresh
  /\ value' = [d \in DOMAIN value \cup {c} |-> IF d = c THEN v ELSE value[d]]
  /\ fresh' = FALSE
  /\ UNCHANGED status

(* PATCH the statement of c, or POST one the period lacks.                  *)
Enter(c, v) ==
  /\ fresh
  /\ value' = [d \in DOMAIN value \cup {c} |-> IF d = c THEN v ELSE value[d]]
  /\ status' = [d \in DOMAIN value' |-> IF d \in DOMAIN status THEN status[d] ELSE CONFIRMED]
  /\ fresh' = FALSE

Next == Validate \/ \E c \in Codes : \E v \in Figures[c] : Enter(c, v)

Spec == Init /\ [][Next]_vars

-----------------------------------------------------------------------------
(* Properties *)

TypeOK ==
  /\ DOMAIN value \subseteq Codes
  /\ \A c \in DOMAIN value : value[c] \in Figures[c]
  /\ status \in [DOMAIN value -> Statuses]
  /\ fresh \in BOOLEAN

Far(a, b) == a - b > TOLERANCE \/ b - a > TOLERANCE

Stated(S) == S \subseteq DOMAIN value

(* What an accountant would send back, code by code: revenue of the wrong   *)
(* magnitude, a gross profit that is not what its components leave, two     *)
(* statements of equity or of cash that disagree, a closing balance the     *)
(* cash movements do not explain.                                           *)
Disputed ==
  LET equity == /\ Stated({"NET_ASSETS", "TOTAL_EQUITY"})
                /\ Far(value["NET_ASSETS"], value["TOTAL_EQUITY"])
      cash   == /\ Stated({"CASH_CLOSING", "CASH_AND_EQUIVALENTS"})
                /\ Far(value["CASH_CLOSING"], value["CASH_AND_EQUIVALENTS"])
      bridge == /\ Stated({"CASH_CLOSING", "CASH_OPENING"} \cup CashFlows)
                /\ Far(value["CASH_CLOSING"] - value["CASH_OPENING"],
                       value["NET_OPERATING_CASH_FLOW"] + value["NET_INVESTING_CASH_FLOW"]
                         + value["NET_FINANCING_CASH_FLOW"])
      profit == /\ Stated({"GROSS_PROFIT", "REVENUE", "COST_OF_GOODS_SOLD"})
                /\ Far(value["GROSS_PROFIT"] + value["COST_OF_GOODS_SOLD"], value["REVENUE"])
      scale  == /\ Stated({"REVENUE"})
                /\ value["REVENUE"] \notin REVENUE_SCALE_MIN - 1 .. REVENUE_SCALE_MAX + 1
  IN  {c \in DOMAIN value :
         \/ c = "REVENUE" /\ scale
         \/ c = "GROSS_PROFIT" /\ profit
         \/ c \in {"NET_ASSETS", "TOTAL_EQUITY"} /\ equity
         \/ c = "CASH_AND_EQUIVALENTS" /\ cash
         \/ c = "CASH_CLOSING" /\ (cash \/ bridge)}

(* Once validated, exactly the disputed figures are flagged, whatever was   *)
(* flagged before the last correction: a correction clears every flag it    *)
(* settles, and a figure two checks read stays flagged while either fails.  *)
FlaggedIffDisputed ==
  fresh => {c \in DOMAIN value : status[c] = NEEDS_REVIEW} = Disputed
=============================================================================
