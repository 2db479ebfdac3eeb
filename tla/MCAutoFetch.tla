---------------------------- MODULE MCAutoFetch ----------------------------
(***************************************************************************)
(* Instances of AutoFetch for TLC.  The first company's page lists one     *)
(* filing under two ids, one with a title that ends in .pdf, and an older  *)
(* one: enough to trip the breaker.  The second lists a single filing.     *)
(***************************************************************************)
EXTENDS AutoFetch

CONSTANTS m1, c1, c2, k1, k1again, k2, k3, k4

PageOf    == [k \in Cards |-> IF k = k4 THEN c2 ELSE c1]
TitleOf   == [k \in Cards |-> CASE k \in {k1, k1again} -> "results"
                               [] k = k2 -> "report" [] k = k3 -> "notice" [] k = k4 -> "other"]
DateOf    == [k \in Cards |-> CASE k = k2 -> 3 [] k = k3 -> 1 [] OTHER -> 2]
=============================================================================
