-------------------------- MODULE MCReportPipeline --------------------------
(***************************************************************************)
(* Instances of ReportPipeline for TLC: the sets a cfg cannot spell.       *)
(***************************************************************************)
EXTENDS ReportPipeline, TLC

CONSTANTS d1, d2, j1, j2, a1

(* A statement on record since before the run, with the status validation   *)
(* gave it when it was alone in its period.                                 *)
Old(d, p, c, v) ==
  [NewRow(0, 0, d, p, c, v) EXCEPT !.validated = TRUE,
     !.status = IF c \in DOMAIN Verdict(c :> v) THEN Verdict(c :> v)[c] ELSE @]

TypedIn      == [stored |-> {}, rows |-> {Old(None, 1, "REVENUE", 20000)}]
Extracted(d) == [stored |-> {d}, rows |-> {Old(d, 1, "REVENUE", 20000)}]
TwoPeriods   == [stored |-> {},
                 rows |-> {Old(None, 1, "REVENUE", 20000), Old(None, 2, "REVENUE", 20000)}]
FlaggedToo   == [stored |-> {},
                 rows |-> {Old(None, 1, "REVENUE", 5), Old(None, 2, "REVENUE", 20000)}]

SerialSeeds     == {TypedIn} \cup {Extracted(d) : d \in Docs}
ConcurrentSeeds == {Extracted(d1)}
ReaderSeeds     == {TwoPeriods, FlaggedToo}
TypedSeeds      == {TypedIn}
LiveSeeds       == {[stored |-> {d1}, rows |-> {Old(d1, 1, "REVENUE", 5), Old(None, 2, "REVENUE", 5)}]}

(* The serial seeds tell the documents apart no more than the code does.    *)
DocSymmetry == Permutations(Docs)
JobSymmetry == Permutations(Jobs)
=============================================================================
