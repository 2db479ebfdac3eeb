----------------------------- MODULE MetricCache -----------------------------
(***************************************************************************)
(* What a reader may expect of the metrics cache while the statements stay *)
(* as they are: a period shows nothing or one batch of metrics, computed   *)
(* from figures that its statements give; a batch is there for good; and   *)
(* no period without figures has one.                                      *)
(***************************************************************************)
CONSTANT Periods

VARIABLES
  answers,   (* for each period, the figures that its statements may give   *)
  cached     (* for each period, the batches on record                      *)

TypeOK == DOMAIN answers = Periods /\ DOMAIN cached = Periods

Init ==
  /\ TypeOK
  /\ \A p \in Periods : cached[p] = {}

Fill(p) ==
  /\ cached[p] = {}
  /\ \E b \in cached'[p] :
       /\ b.basis \in answers[p]
       /\ cached' = [cached EXCEPT ![p] = {b}]
  /\ answers' = answers

Next == \E p \in Periods : Fill(p)

Spec == Init /\ [][Next]_<<answers, cached>>
=============================================================================
