------------------------ MODULE ValidationRun_proofs ------------------------
(***************************************************************************)
(* What run_validation guarantees whatever the figures are: the properties *)
(* of ValidationRun for every set of codes and every integer value.        *)
(***************************************************************************)
EXTENDS ValidationRun, TLAPS

(* A flag is only ever on a code that some applicable rule reads.  Codes    *)
(* are never withdrawn, so a code once read stays read.                     *)
FlagsAreChecked ==
  \A c \in DOMAIN value : status[c] # CONFIRMED => c \in CheckedCodes(value)

IInv == TypeOK /\ FlagsAreChecked /\ FlaggedIffDisputed

(* The five rules, one by one: the codes each reads, and those it flags.    *)
LEMMA RuleCodes ==
  /\ InvolvedCodes(GrossProfit) = {"GROSS_PROFIT", "REVENUE", "COST_OF_GOODS_SOLD"}
  /\ InvolvedCodes(NetAssets) = {"NET_ASSETS", "TOTAL_EQUITY"}
  /\ InvolvedCodes(CashBridge) = {"CASH_CLOSING", "CASH_OPENING"} \cup CashFlows
  /\ InvolvedCodes(CashMatch) = {"CASH_CLOSING", "CASH_AND_EQUIVALENTS"}
  /\ InvolvedCodes(ScaleCheck) = {"REVENUE"}
  BY DEF InvolvedCodes, GrossProfit, NetAssets, CashBridge, CashMatch, ScaleCheck

LEMMA RulePrimary ==
  /\ PrimaryCode(GrossProfit) = "GROSS_PROFIT"
  /\ PrimaryCode(NetAssets) = "NET_ASSETS"
  /\ PrimaryCode(CashBridge) = "CASH_CLOSING"
  /\ PrimaryCode(CashMatch) = "CASH_CLOSING"
  /\ PrimaryCode(ScaleCheck) = "REVENUE"
  BY DEF PrimaryCode, GrossProfit, NetAssets, CashBridge, CashMatch, ScaleCheck

LEMMA RuleMarks ==
  /\ MarkOnFailure(GrossProfit) = {"GROSS_PROFIT"}
  /\ MarkOnFailure(NetAssets) = {"NET_ASSETS", "TOTAL_EQUITY"}
  /\ MarkOnFailure(CashBridge) = {"CASH_CLOSING"}
  /\ MarkOnFailure(CashMatch) = {"CASH_CLOSING", "CASH_AND_EQUIVALENTS"}
  /\ MarkOnFailure(ScaleCheck) = {"REVENUE"}
<1>1. /\ GrossProfit \in {GrossProfit, CashBridge}
      /\ CashBridge \in {GrossProfit, CashBridge}
      /\ NetAssets \notin {GrossProfit, CashBridge}
      /\ CashMatch \notin {GrossProfit, CashBridge}
      /\ ScaleCheck \notin {GrossProfit, CashBridge}
  BY DEF GrossProfit, NetAssets, CashBridge, CashMatch, ScaleCheck
<1> QED BY <1>1, RuleCodes, RulePrimary DEF MarkOnFailure

(* What each rule compares on a sheet.                                      *)
LEMMA RuleSides ==
  ASSUME NEW s
  PROVE  /\ Expected(GrossProfit, s) = s["GROSS_PROFIT"]
         /\ Expected(NetAssets, s) = s["NET_ASSETS"]
         /\ Expected(CashBridge, s) = s["CASH_CLOSING"]
         /\ Expected(CashMatch, s) = s["CASH_CLOSING"]
         /\ Actual(GrossProfit, s) = s["REVENUE"] - s["COST_OF_GOODS_SOLD"]
         /\ Actual(NetAssets, s) = s["TOTAL_EQUITY"]
         /\ Actual(CashBridge, s) = s["CASH_OPENING"] + s["NET_OPERATING_CASH_FLOW"]
                + s["NET_INVESTING_CASH_FLOW"] + s["NET_FINANCING_CASH_FLOW"]
         /\ Actual(CashMatch, s) = s["CASH_AND_EQUIVALENTS"]
         /\ Actual(ScaleCheck, s) = s["REVENUE"]
<1> USE DEF GrossProfit, NetAssets, CashBridge, CashMatch, ScaleCheck
<1>1. Expected(GrossProfit, s) = s["GROSS_PROFIT"] BY RulePrimary DEF Expected
<1>2. Expected(NetAssets, s) = s["NET_ASSETS"] BY RulePrimary DEF Expected
<1>3. Expected(CashBridge, s) = s["CASH_CLOSING"] BY RulePrimary DEF Expected
<1>4. Expected(CashMatch, s) = s["CASH_CLOSING"] BY RulePrimary DEF Expected
<1>5. Actual(GrossProfit, s) = s["REVENUE"] - s["COST_OF_GOODS_SOLD"] BY DEF Actual
<1>6. Actual(NetAssets, s) = s["TOTAL_EQUITY"] BY DEF Actual
<1>7. Actual(CashBridge, s) = s["CASH_OPENING"] + s["NET_OPERATING_CASH_FLOW"]
                + s["NET_INVESTING_CASH_FLOW"] + s["NET_FINANCING_CASH_FLOW"]
  BY DEF Actual
<1>8. Actual(CashMatch, s) = s["CASH_AND_EQUIVALENTS"] BY DEF Actual
<1>9. Actual(ScaleCheck, s) = s["REVENUE"] BY DEF Actual
<1> QED BY <1>1, <1>2, <1>3, <1>4, <1>5, <1>6, <1>7, <1>8, <1>9

LEMMA ScaleBounds ==
  /\ REVENUE_SCALE_MIN \in Int /\ REVENUE_SCALE_MAX \in Int
  /\ REVENUE_SCALE_MIN <= REVENUE_SCALE_MAX
  BY SMT DEF REVENUE_SCALE_MIN, REVENUE_SCALE_MAX

(* The scale check clamps the revenue into the plausible range.             *)
LEMMA ScaleSide ==
  ASSUME NEW s, s["REVENUE"] \in Int
  PROVE  Expected(ScaleCheck, s) =
           IF s["REVENUE"] < REVENUE_SCALE_MIN THEN REVENUE_SCALE_MIN
           ELSE IF s["REVENUE"] > REVENUE_SCALE_MAX THEN REVENUE_SCALE_MAX
           ELSE s["REVENUE"]
  BY RulePrimary, ScaleBounds DEF Expected, ScaleCheck

(* What a rule that reads the sheet says of it is what an accountant would. *)
LEMMA RuleFailures ==
  ASSUME TypeOK
  PROVE  /\ Stated({"NET_ASSETS", "TOTAL_EQUITY"}) =>
              (~Passes(NetAssets, value) <=> Far(value["NET_ASSETS"], value["TOTAL_EQUITY"]))
         /\ Stated({"CASH_CLOSING", "CASH_AND_EQUIVALENTS"}) =>
              (~Passes(CashMatch, value) <=>
                 Far(value["CASH_CLOSING"], value["CASH_AND_EQUIVALENTS"]))
         /\ Stated({"CASH_CLOSING", "CASH_OPENING"} \cup CashFlows) =>
              (~Passes(CashBridge, value) <=>
                 Far(value["CASH_CLOSING"] - value["CASH_OPENING"],
                     value["NET_OPERATING_CASH_FLOW"] + value["NET_INVESTING_CASH_FLOW"]
                       + value["NET_FINANCING_CASH_FLOW"]))
         /\ Stated({"GROSS_PROFIT", "REVENUE", "COST_OF_GOODS_SOLD"}) =>
              (~Passes(GrossProfit, value) <=>
                 Far(value["GROSS_PROFIT"] + value["COST_OF_GOODS_SOLD"], value["REVENUE"]))
         /\ Stated({"REVENUE"}) =>
              (~Passes(ScaleCheck, value) <=>
                 value["REVENUE"] \notin REVENUE_SCALE_MIN - 1 .. REVENUE_SCALE_MAX + 1)
<1>0. \A c \in DOMAIN value : value[c] \in Int
  BY FiguresAreIntegers DEF TypeOK
<1>1. ASSUME Stated({"NET_ASSETS", "TOTAL_EQUITY"})
      PROVE  ~Passes(NetAssets, value) <=> Far(value["NET_ASSETS"], value["TOTAL_EQUITY"])
  <2>1. value["NET_ASSETS"] \in Int /\ value["TOTAL_EQUITY"] \in Int
    BY <1>0, <1>1 DEF Stated
  <2> QED BY <2>1, RuleSides DEF Passes, Far, TOLERANCE
<1>2. ASSUME Stated({"CASH_CLOSING", "CASH_AND_EQUIVALENTS"})
      PROVE  ~Passes(CashMatch, value) <=>
               Far(value["CASH_CLOSING"], value["CASH_AND_EQUIVALENTS"])
  <2>1. value["CASH_CLOSING"] \in Int /\ value["CASH_AND_EQUIVALENTS"] \in Int
    BY <1>0, <1>2 DEF Stated
  <2> QED BY <2>1, RuleSides DEF Passes, Far, TOLERANCE
<1>3. ASSUME Stated({"CASH_CLOSING", "CASH_OPENING"} \cup CashFlows)
      PROVE  ~Passes(CashBridge, value) <=>
               Far(value["CASH_CLOSING"] - value["CASH_OPENING"],
                   value["NET_OPERATING_CASH_FLOW"] + value["NET_INVESTING_CASH_FLOW"]
                     + value["NET_FINANCING_CASH_FLOW"])
  <2>1. /\ value["CASH_CLOSING"] \in Int /\ value["CASH_OPENING"] \in Int
        /\ value["NET_OPERATING_CASH_FLOW"] \in Int
        /\ value["NET_INVESTING_CASH_FLOW"] \in Int
        /\ value["NET_FINANCING_CASH_FLOW"] \in Int
    BY <1>0, <1>3 DEF Stated, CashFlows
  <2> QED BY <2>1, RuleSides DEF Passes, Far, TOLERANCE
<1>4. ASSUME Stated({"GROSS_PROFIT", "REVENUE", "COST_OF_GOODS_SOLD"})
      PROVE  ~Passes(GrossProfit, value) <=>
               Far(value["GROSS_PROFIT"] + value["COST_OF_GOODS_SOLD"], value["REVENUE"])
  <2>1. /\ value["GROSS_PROFIT"] \in Int /\ value["REVENUE"] \in Int
        /\ value["COST_OF_GOODS_SOLD"] \in Int
    BY <1>0, <1>4 DEF Stated
  <2> QED BY <2>1, RuleSides DEF Passes, Far, TOLERANCE
<1>5. ASSUME Stated({"REVENUE"})
      PROVE  ~Passes(ScaleCheck, value) <=>
               value["REVENUE"] \notin REVENUE_SCALE_MIN - 1 .. REVENUE_SCALE_MAX + 1
  <2>1. value["REVENUE"] \in Int BY <1>0, <1>5 DEF Stated
  <2> QED BY <2>1, RuleSides, ScaleSide, ScaleBounds DEF Passes, TOLERANCE
<1> QED BY <1>1, <1>2, <1>3, <1>4, <1>5

(* The codes run_validation flags are the disputed ones.                    *)
LEMMA FlagsAreDisputes ==
  ASSUME TypeOK
  PROVE  NeedsReviewCodes(value) = Disputed
<1> DEFINE equity == /\ Stated({"NET_ASSETS", "TOTAL_EQUITY"})
                     /\ Far(value["NET_ASSETS"], value["TOTAL_EQUITY"])
           cash   == /\ Stated({"CASH_CLOSING", "CASH_AND_EQUIVALENTS"})
                     /\ Far(value["CASH_CLOSING"], value["CASH_AND_EQUIVALENTS"])
           bridge == /\ Stated({"CASH_CLOSING", "CASH_OPENING"} \cup CashFlows)
                     /\ Far(value["CASH_CLOSING"] - value["CASH_OPENING"],
                            value["NET_OPERATING_CASH_FLOW"] + value["NET_INVESTING_CASH_FLOW"]
                              + value["NET_FINANCING_CASH_FLOW"])
           profit == /\ Stated({"GROSS_PROFIT", "REVENUE", "COST_OF_GOODS_SOLD"})
                     /\ Far(value["GROSS_PROFIT"] + value["COST_OF_GOODS_SOLD"], value["REVENUE"])
           scale  == /\ Stated({"REVENUE"})
                     /\ value["REVENUE"] \notin REVENUE_SCALE_MIN - 1 .. REVENUE_SCALE_MAX + 1
           Fails(rule) == Stated(InvolvedCodes(rule)) /\ ~Passes(rule, value)
<1>1. /\ Fails(GrossProfit) <=> profit
      /\ Fails(NetAssets) <=> equity
      /\ Fails(CashBridge) <=> bridge
      /\ Fails(CashMatch) <=> cash
      /\ Fails(ScaleCheck) <=> scale
  BY RuleFailures, RuleCodes
<1>2. ASSUME NEW c
      PROVE  c \in NeedsReviewCodes(value) <=>
               \E rule \in Rules : Fails(rule) /\ c \in MarkOnFailure(rule)
  BY DEF NeedsReviewCodes, Applicable, Stated
<1>3. equity => Stated({"NET_ASSETS", "TOTAL_EQUITY"}) OBVIOUS
<1>4. cash => Stated({"CASH_CLOSING", "CASH_AND_EQUIVALENTS"}) OBVIOUS
<1>5. bridge => Stated({"CASH_CLOSING"}) BY DEF Stated
<1>6. profit => Stated({"GROSS_PROFIT"}) BY DEF Stated
<1>7. scale => Stated({"REVENUE"}) OBVIOUS
<1>8. Disputed = {c \in DOMAIN value :
                    \/ c = "REVENUE" /\ scale
                    \/ c = "GROSS_PROFIT" /\ profit
                    \/ c \in {"NET_ASSETS", "TOTAL_EQUITY"} /\ equity
                    \/ c = "CASH_AND_EQUIVALENTS" /\ cash
                    \/ c = "CASH_CLOSING" /\ (cash \/ bridge)}
  BY DEF Disputed
<1> HIDE DEF Fails, equity, cash, bridge, profit, scale
<1>9. ASSUME NEW c
      PROVE  c \in NeedsReviewCodes(value) <=>
               \/ c = "GROSS_PROFIT" /\ profit
               \/ c \in {"NET_ASSETS", "TOTAL_EQUITY"} /\ equity
               \/ c = "CASH_CLOSING" /\ bridge
               \/ c \in {"CASH_CLOSING", "CASH_AND_EQUIVALENTS"} /\ cash
               \/ c = "REVENUE" /\ scale
  BY <1>1, <1>2, RuleMarks DEF Rules
<1>10. ASSUME NEW c
       PROVE  c \in NeedsReviewCodes(value) <=> c \in Disputed
  BY <1>3, <1>4, <1>5, <1>6, <1>7, <1>8, <1>9 DEF Stated
<1> QED BY <1>10

(* A flagged code was read by the rule that flags it.                       *)
LEMMA FlagsWereChecked ==
  \A sheet : NeedsReviewCodes(sheet) \subseteq CheckedCodes(sheet)
<1>1. \A rule \in Rules : MarkOnFailure(rule) \subseteq InvolvedCodes(rule)
  BY RuleMarks, RuleCodes DEF Rules
<1> QED BY <1>1 DEF NeedsReviewCodes, CheckedCodes, Applicable

(* A correction, or an entry for a code not stated yet, takes no code out   *)
(* of what the rules read.                                                  *)
LEMMA ChecksGrow ==
  ASSUME NEW s, NEW t, DOMAIN s \subseteq DOMAIN t
  PROVE  CheckedCodes(s) \subseteq CheckedCodes(t)
  BY DEF CheckedCodes, Applicable

LEMMA InitIInv == Init => IInv
<1> SUFFICES ASSUME Init PROVE IInv OBVIOUS
<1>1. TypeOK BY DEF Init, TypeOK
<1>2. FlagsAreChecked BY DEF Init, FlagsAreChecked
<1>3. DOMAIN value = {} BY DEF Init
<1>4. FlaggedIffDisputed
  <2>1. Disputed = {} BY <1>3 DEF Disputed
  <2> QED BY <1>3, <2>1 DEF FlaggedIffDisputed
<1> QED BY <1>1, <1>2, <1>4 DEF IInv

LEMMA ValidateIInv == IInv /\ Validate => IInv'
<1> SUFFICES ASSUME IInv, Validate PROVE IInv' OBVIOUS
<1> USE DEF IInv
<1>v. value' = value /\ fresh' = TRUE BY DEF Validate
<1>s. status' = [c \in DOMAIN value |->
                  IF c \in CheckedCodes(value)
                  THEN IF c \in NeedsReviewCodes(value) THEN NEEDS_REVIEW ELSE CONFIRMED
                  ELSE status[c]]
  BY DEF Validate, Verdict
<1>1. TypeOK'
  BY <1>v, <1>s DEF TypeOK, Statuses
<1>2. FlagsAreChecked'
  BY <1>v, <1>s DEF FlagsAreChecked
<1>3. NEEDS_REVIEW # CONFIRMED BY DEF NEEDS_REVIEW, CONFIRMED
<1>4. \A c \in DOMAIN value :
        c \in NeedsReviewCodes(value) <=> status'[c] = NEEDS_REVIEW
  BY <1>s, <1>3, FlagsWereChecked DEF FlagsAreChecked
<1>5. FlaggedIffDisputed'
  <2>1. NeedsReviewCodes(value) = Disputed BY FlagsAreDisputes
  <2>2. Disputed \subseteq DOMAIN value BY DEF Disputed
  <2>3. Disputed' = Disputed BY <1>v DEF Disputed, Stated
  <2>4. {c \in DOMAIN value : status'[c] = NEEDS_REVIEW} = Disputed
    BY <2>1, <2>2, <1>4
  <2> QED BY <2>3, <2>4, <1>v DEF FlaggedIffDisputed
<1> QED BY <1>1, <1>2, <1>5

LEMMA EnterIInv ==
  ASSUME NEW c \in Codes, NEW v \in Figures[c], IInv, Enter(c, v)
  PROVE  IInv'
<1> USE DEF IInv
<1>d. /\ DOMAIN value' = DOMAIN value \cup {c}
      /\ DOMAIN status' = DOMAIN value'
      /\ \A d \in DOMAIN value' :
           status'[d] = IF d \in DOMAIN status THEN status[d] ELSE CONFIRMED
      /\ fresh' = FALSE
  BY DEF Enter
<1>t. DOMAIN status = DOMAIN value BY DEF TypeOK
<1>1. TypeOK'
  BY <1>d DEF TypeOK, Enter, Statuses
<1>2. FlagsAreChecked'
  <2>1. CheckedCodes(value) \subseteq CheckedCodes(value') BY <1>d, ChecksGrow
  <2> QED BY <2>1, <1>d, <1>t DEF FlagsAreChecked
<1>3. FlaggedIffDisputed' BY <1>d DEF FlaggedIffDisputed
<1> QED BY <1>1, <1>2, <1>3

(* The inductive invariant holds in every reachable state.                  *)
LEMMA Invariance == Spec => []IInv
<1>1. Init => IInv BY InitIInv
<1>2. IInv /\ [Next]_vars => IInv'
  <2> SUFFICES ASSUME IInv, [Next]_vars PROVE IInv' OBVIOUS
  <2>1. CASE Validate BY <2>1, ValidateIInv
  <2>2. CASE \E c \in Codes : \E v \in Figures[c] : Enter(c, v) BY <2>2, EnterIInv
  <2>3. CASE UNCHANGED vars
    BY <2>3 DEF IInv, TypeOK, FlagsAreChecked, FlaggedIffDisputed, Disputed, Stated, vars
  <2> QED BY <2>1, <2>2, <2>3 DEF Next
<1> QED BY <1>1, <1>2, PTL DEF Spec

(* The statements keep one integer and one status per code.                 *)
THEOREM TypeCorrect == Spec => []TypeOK
<1>1. IInv => TypeOK BY DEF IInv
<1> QED BY Invariance, <1>1, PTL

(* Whatever is entered and corrected, in whatever order, a validated period *)
(* flags the figures an accountant would dispute and no other.              *)
THEOREM ExactlyTheDisputed == Spec => []FlaggedIffDisputed
<1>1. IInv => FlaggedIffDisputed BY DEF IInv
<1> QED BY Invariance, <1>1, PTL
=============================================================================
