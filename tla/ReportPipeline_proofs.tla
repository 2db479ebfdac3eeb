----------------------- MODULE ReportPipeline_proofs -----------------------
(***************************************************************************)
(* Properties of ReportPipeline for every set of documents, periods,       *)
(* figures and sessions: type correctness, and what the per-period         *)
(* advisory lock gives dashboard readers.  One that recomputes a period    *)
(* holds the lock of that period until it commits, and readers that have   *)
(* only each other to reckon with compute every period at most once and    *)
(* never replace what another of them read.                                *)
(***************************************************************************)
EXTENDS ReportPipeline, TLAPS

Readers   == {"view", "insight"}
ReaderPCs == {"look", "lock", "metrics", "mdelete", "mcommit", "prior", "llm", "isave",
              "done"}

(* The periods a session with memory J may take next.                       *)
Nexts(J) == {p \in J.todo : J.op = "view" => \A q \in J.todo : p <= q}

(* Where a session stands says what it works on.  The type invariant is not *)
(* inductive without it: a batch needs a period, and a narrative needs a    *)
(* period and an audience, and both come from the memory of the session.    *)
(* The last two conjuncts are for the lock: the period a reader looked up   *)
(* and locked is the one it goes on to compute.                             *)
PlacedAt(l, J) ==
  /\ J.op = "none" => l = "idle"
  /\ J.op \in Readers => l \in ReaderPCs
  /\ l \in {"mdelete", "mcommit"} => J.cur \in Periods
  /\ l \in {"prior", "llm", "isave"} => J.op = "insight"
  /\ J.op = "insight" => /\ J.target \in Periods /\ J.aud \in Audiences
                         /\ \A p, q \in J.todo : p = q
  /\ J.op \in Readers /\ l \in {"lock", "metrics"} => J.cur \in Nexts(J)

Placed == \A j \in Jobs : PlacedAt(pc[j], job[j])

-----------------------------------------------------------------------------
(* Types of the operators the actions are built from *)

LEMMA IdleTyped == Idle \in Job
  BY DEF Idle, Job, OpNames

LEMMA NoTxTyped == NoTx \in Tx
  BY DEF NoTx, Tx

(* The name of a record of type Row is a row id.                            *)
LEMMA IdsTyped ==
  ASSUME NEW S, S \subseteq Row
  PROVE  Ids(S) \subseteq RowIds /\ PeriodsOf(S) \subseteq Periods
  BY DEF Ids, RowId, RowIds, Row, PeriodsOf

(* What a session's queries yield are statements.                           *)
LEMMA LoadedTyped ==
  ASSUME TypeOK, NEW j \in Jobs, NEW S, S \subseteq Row
  PROVE  Loaded(j, S) \subseteq Row
<1> SUFFICES ASSUME NEW r \in S
             PROVE  (IF Held(j, r) = {} THEN r ELSE CHOOSE m \in Held(j, r) : TRUE) \in Row
  BY DEF Loaded
<1>1. job[j].mem \subseteq Row BY DEF TypeOK, Job
<1>2. Held(j, r) \subseteq Row BY <1>1 DEF Held
<1>3. CASE Held(j, r) = {} BY <1>3
<1>4. CASE Held(j, r) # {}
  <2>1. (CHOOSE m \in Held(j, r) : TRUE) \in Held(j, r) BY <1>4
  <2> QED BY <2>1, <1>2, <1>4
<1> QED BY <1>3, <1>4

(* A verdict is a status.                                                   *)
LEMMA VerdictTyped ==
  ASSUME NEW S, NEW c \in DOMAIN VerdictOf(S)
  PROVE  VerdictOf(S)[c] \in Statuses
  BY DEF VerdictOf, Verdict, Statuses

LEMMA NewRowTyped ==
  ASSUME NEW stamp \in Nat, NEW n \in Nat, NEW d \in Docs \cup {None}, NEW p \in Periods,
         NEW c \in Codes, NEW v \in Values
  PROVE  NewRow(stamp, n, d, p, c, v) \in Row
  BY DEF NewRow, Row, Statuses

LEMMA RowChanged ==
  ASSUME NEW r \in Row, NEW v \in Values, NEW n \in Nat
  PROVE  [r EXCEPT !.value = v, !.validated = FALSE, !.at = n] \in Row /\ r.period \in Periods
  BY DEF Row

LEMMA FiguresTyped ==
  ASSUME NEW p, NEW T, T \subseteq Row
  PROVE  FiguresFor(p, T) \subseteq Figure
  BY DEF FiguresFor, Figure, RowId, RowIds, Row

(* A commit keeps every table it writes typed.                              *)
LEMMA CommitTyped ==
  ASSUME TypeOK, NEW j \in Jobs, NEW batch, NEW note,
         batch \subseteq Batch, note \subseteq Insight, Commit(j, batch, note)
  PROVE  /\ rows' \subseteq Row
         /\ metrics' \subseteq Batch
         /\ insights' \subseteq Insight
         /\ reports' \subseteq [doc : Docs, scored : SUBSET RowIds]
         /\ tx' \in [Jobs -> Tx]
         /\ lock' \in [Periods -> Jobs \cup {None}]
<1>1. rows' \subseteq Row
  <2>1. \A r \in Row : [r EXCEPT !.doc = None] \in Row BY DEF Row
  <2> QED BY <2>1 DEF Commit, TypeOK, Visible
<1>2. metrics' \subseteq Batch BY DEF Commit, TypeOK
<1>3. insights' \subseteq Insight BY DEF Commit, TypeOK
<1>4. reports' \subseteq [doc : Docs, scored : SUBSET RowIds] BY DEF Commit, TypeOK
<1>5. tx' \in [Jobs -> Tx] BY NoTxTyped DEF Commit, TypeOK
<1>6. lock' \in [Periods -> Jobs \cup {None}] BY DEF Commit, TypeOK, Unlocked
<1> QED BY <1>1, <1>2, <1>3, <1>4, <1>5, <1>6

LEMMA DocsAfterTyped ==
  ASSUME TypeOK, NEW j \in Jobs
  PROVE  DocsAfter(j) \in [Docs -> DocStatuses]
  BY DEF DocsAfter, TypeOK, DocStatuses

LEMMA EndTyped ==
  ASSUME TypeOK, NEW j \in Jobs, End(j)
  PROVE  /\ pc' \in [Jobs -> PCs]
         /\ job' \in [Jobs -> Job]
         /\ tx' \in [Jobs -> Tx]
         /\ lock' \in [Periods -> Jobs \cup {None}]
  BY IdleTyped, NoTxTyped DEF End, TypeOK, PCs, Unlocked

LEMMA PeriodDoneTyped ==
  ASSUME TypeOK, NEW j \in Jobs, NEW p \in Periods \cup {0}, NEW found, found \subseteq Nat,
         PeriodDone(j, p, found)
  PROVE  job' \in [Jobs -> Job] /\ pc' \in [Jobs -> PCs]
<1>1. job[j] \in Job BY DEF TypeOK
<1> DEFINE src == IF job[j].op = "insight" /\ p = job[j].target THEN found ELSE job[j].src
           new == [job[j] EXCEPT !.todo = @ \ {p}, !.cur = p, !.basis = {}, !.src = src]
<1>2. job' \in [Jobs -> Job]
  <2>1. src \subseteq Nat BY <1>1 DEF Job
  <2>2. new \in Job
    <3> HIDE DEF src
    <3> QED BY <1>1, <2>1 DEF Job
  <2>3. job' = [job EXCEPT ![j] = new] BY DEF PeriodDone, TypeOK
  <2> HIDE DEF new
  <2> QED BY <2>2, <2>3 DEF TypeOK
<1>3. AfterPeriod(j, p) \in PCs
  BY <1>1 DEF AfterPeriod, PCs, Job, OpNames, Clearing, Writing, RunEnd
<1>4. pc' \in [Jobs -> PCs] BY <1>3 DEF PeriodDone, Goto, TypeOK
<1> QED BY <1>2, <1>4

-----------------------------------------------------------------------------
(* Type correctness, one lemma per action that touches a session *)

(* A session opened for a request, or one whose memory changes, is typed.   *)
LEMMA JobTyped ==
  ASSUME TypeOK, NEW j, NEW new \in Job, job' = [job EXCEPT ![j] = new]
  PROVE  job' \in [Jobs -> Job]
  BY DEF TypeOK

LEMMA GotoTyped ==
  ASSUME TypeOK, NEW j, NEW l \in PCs, Goto(j, l)
  PROVE  pc' \in [Jobs -> PCs]
  BY DEF TypeOK, Goto

LEMMA RequestTyped ==
  ASSUME TypeOK, NEW j \in Jobs, Request(j)
  PROVE  TypeOK'
<1> USE DEF TypeOK
<1>o. \A r : Open(j, r) => issued' \in Nat BY DEF Open
<1>1. ASSUME NEW d \in Docs, Upload(j, d) PROVE TypeOK'
  <2>1. [Idle EXCEPT !.op = "extract", !.doc = d] \in Job
    BY DEF Idle, Job, OpNames, Writing
  <2>2. job' \in [Jobs -> Job] BY <1>1, <2>1 DEF Upload
  <2>3. pc' \in [Jobs -> PCs] BY <1>1 DEF Upload, Goto, PCs
  <2> QED BY <1>1, <1>o, <2>2, <2>3 DEF Upload, tables
<1>2. ASSUME NEW d \in Docs, DeleteFile(j, d) PROVE TypeOK'
  <2>1. PeriodsOf(OfDoc(d)) \subseteq Periods BY IdsTyped DEF OfDoc
  <2>2. [Idle EXCEPT !.op = "delete", !.doc = d, !.todo = PeriodsOf(OfDoc(d))] \in Job
    BY <2>1 DEF Idle, Job, OpNames, Clearing
  <2>3. job' \in [Jobs -> Job] BY <1>2, <2>2 DEF DeleteFile
  <2>4. pc' \in [Jobs -> PCs] BY <1>2 DEF DeleteFile, Goto, PCs
  <2> QED BY <1>2, <1>o, <2>3, <2>4 DEF DeleteFile, tables
<1>3. ASSUME NEW d \in Docs, ReExtract(j, d) PROVE TypeOK'
  <2> DEFINE new == [Idle EXCEPT !.op = "reextract", !.doc = d,
                       !.pended = (docs[d] = "pending"), !.todo = PeriodsOf(OfDoc(d))]
  <2>1. PeriodsOf(OfDoc(d)) \subseteq Periods BY IdsTyped DEF OfDoc
  <2>2. new \in Job BY <2>1 DEF Idle, Job, OpNames, Clearing
  <2>3. job' = [job EXCEPT ![j] = new] BY <1>3 DEF ReExtract
  <2>4. job' \in [Jobs -> Job]
    <3> HIDE DEF new
    <3> QED BY <2>2, <2>3
  <2>5. pc' \in [Jobs -> PCs] BY <1>3 DEF ReExtract, Goto, PCs
  <2> QED BY <1>3, <1>o, <2>4, <2>5 DEF ReExtract, tables
<1>4. CASE ViewMetrics(j)
  <2>1. PICK S : /\ S \in {{p} : p \in Periods} \cup {PeriodsOf(rows)}
                 /\ job' = [job EXCEPT ![j] = [Idle EXCEPT !.op = "view", !.todo = S]]
    BY <1>4 DEF ViewMetrics
  <2>2. S \subseteq Periods BY <2>1, IdsTyped
  <2>3. [Idle EXCEPT !.op = "view", !.todo = S] \in Job BY <2>2 DEF Idle, Job, OpNames
  <2>4. job' \in [Jobs -> Job] BY <2>1, <2>3
  <2>5. pc' \in [Jobs -> PCs] BY <1>4 DEF ViewMetrics, Goto, PCs
  <2> QED BY <1>4, <1>o, <2>4, <2>5 DEF ViewMetrics, tables
<1>5. CASE Override(j)
  <2>1. PICK r \in rows, v \in Values :
          LET changed == [r EXCEPT !.value = v, !.validated = FALSE, !.at = clock + 1] IN
          /\ rows' = (rows \ {r}) \cup {changed}
          /\ job' = [job EXCEPT ![j] = [Idle EXCEPT !.op = "override",
                         !.mem = {changed}, !.todo = {r.period}]]
    BY <1>5 DEF Override
  <2> DEFINE changed == [r EXCEPT !.value = v, !.validated = FALSE, !.at = clock + 1]
  <2>2. changed \in Row /\ r.period \in Periods
    <3>1. r \in Row /\ clock + 1 \in Nat OBVIOUS
    <3> QED BY <3>1, RowChanged
  <2>3. [Idle EXCEPT !.op = "override", !.mem = {changed}, !.todo = {r.period}] \in Job
    <3> HIDE DEF changed
    <3> QED BY <2>2 DEF Idle, Job, OpNames, Writing
  <2>4. job' \in [Jobs -> Job] BY <2>1, <2>3
  <2>5. rows' \subseteq Row BY <2>1, <2>2
  <2>6. pc' \in [Jobs -> PCs] BY <1>5 DEF Override, Goto, PCs
  <2>7. clock' \in Nat BY <1>5 DEF Override
  <2> QED BY <1>5, <1>o, <2>4, <2>5, <2>6, <2>7 DEF Override
<1>6. CASE AddCheck(j)
  <2>1. PICK p \in Periods, c \in Codes, v \in Values :
          job' = [job EXCEPT ![j] = [Idle EXCEPT
                     !.op = "add", !.mem = {NewRow(0, 0, None, p, c, v)}, !.todo = {p}]]
    BY <1>6 DEF AddCheck
  <2>2. NewRow(0, 0, None, p, c, v) \in Row BY NewRowTyped
  <2>3. [Idle EXCEPT !.op = "add", !.mem = {NewRow(0, 0, None, p, c, v)}, !.todo = {p}] \in Job
    BY <2>2 DEF Idle, Job, OpNames, Writing
  <2>4. job' \in [Jobs -> Job] BY <2>1, <2>3
  <2>5. pc' \in [Jobs -> PCs] BY <1>6 DEF AddCheck, Goto, PCs
  <2> QED BY <1>6, <1>o, <2>4, <2>5 DEF AddCheck, tables
<1>7. CASE Narrate(j)
  <2>1. PICK p \in Periods, a \in Audiences :
          job' = [job EXCEPT ![j] = [Idle EXCEPT !.op = "insight", !.target = p,
                     !.aud = a, !.todo = {p}]]
    BY <1>7 DEF Narrate
  <2>2. [Idle EXCEPT !.op = "insight", !.target = p, !.aud = a, !.todo = {p}] \in Job
    BY DEF Idle, Job, OpNames
  <2>3. job' \in [Jobs -> Job] BY <2>1, <2>2
  <2>4. pc' \in [Jobs -> PCs] BY <1>7 DEF Narrate, Goto, PCs
  <2> QED BY <1>7, <1>o, <2>3, <2>4 DEF Narrate, tables
<1> QED BY <1>1, <1>2, <1>3, <1>4, <1>5, <1>6, <1>7 DEF Request

LEMMA ExtractionTyped ==
  ASSUME TypeOK, NEW j \in Jobs,
         UploadCommit(j) \/ StartRun(j) \/ Fetch(j) \/ Persist(j) \/ Score(j)
  PROVE  TypeOK'
<1> USE DEF TypeOK
<1>j. job[j] \in Job BY DEF TypeOK
<1>d. job[j].doc \in Docs \cup {None} BY <1>j DEF Job
<1>1. CASE UploadCommit(j)
  <2>1. docs' \in [Docs -> DocStatuses] BY <1>1 DEF UploadCommit, DocStatuses
  <2>2. pc' \in [Jobs -> PCs] BY <1>1 DEF UploadCommit, Goto, PCs
  <2> QED BY <1>1, <2>1, <2>2 DEF UploadCommit
<1>2. CASE StartRun(j)
  <2>1. docs' \in [Docs -> DocStatuses] BY <1>2 DEF StartRun, DocStatuses
  <2>2. pc' \in [Jobs -> PCs] BY <1>2 DEF StartRun, Goto, PCs
  <2> QED BY <1>2, <2>1, <2>2 DEF StartRun
<1>3. CASE Fetch(j)
  <2>1. pc' \in [Jobs -> PCs] BY <1>3 DEF Fetch, Goto, PCs
  <2> QED BY <1>3, <2>1 DEF Fetch, tables
<1>4. CASE Persist(j)
  <2> DEFINE d == job[j].doc
  <2>1. PICK found \in Extractions :
          LET new == {NewRow(clock + 1, n, d, found[n].period, found[n].code, found[n].value) :
                      n \in DOMAIN found} IN
          /\ rows' = rows \cup new
          /\ job' = [job EXCEPT ![j].mem = new, ![j].todo = PeriodsOf(new)]
    BY <1>4 DEF Persist
  <2> DEFINE new == {NewRow(clock + 1, n, d, found[n].period, found[n].code, found[n].value) :
                      n \in DOMAIN found}
             mine == [job[j] EXCEPT !.mem = new, !.todo = PeriodsOf(new)]
  <2>2. new \subseteq Row
    <3>1. PICK k \in 0..MaxLines : found \in [1..k -> LineItem] BY DEF Extractions
    <3>2. clock + 1 \in Nat OBVIOUS
    <3>3. ASSUME NEW n \in DOMAIN found
          PROVE  NewRow(clock + 1, n, d, found[n].period, found[n].code, found[n].value) \in Row
      <4>1. n \in Nat /\ found[n] \in LineItem BY <3>1
      <4>2. /\ found[n].period \in Periods /\ found[n].code \in Codes
            /\ found[n].value \in Values
        BY <4>1 DEF LineItem
      <4> HIDE DEF TypeOK
      <4> QED BY <1>d, <3>2, <4>1, <4>2, NewRowTyped
    <3> HIDE DEF TypeOK, d
    <3> QED BY <3>3
  <2>3. PeriodsOf(new) \subseteq Periods BY <2>2, IdsTyped
  <2>4. mine \in Job
    <3> HIDE DEF new
    <3> QED BY <1>j, <2>2, <2>3 DEF Job
  <2>5. job' = [job EXCEPT ![j] = mine] BY <2>1
  <2>6. job' \in [Jobs -> Job]
    <3> HIDE DEF mine
    <3> QED BY <2>4, <2>5
  <2>7. docs' \in [Docs -> DocStatuses] BY <1>4 DEF Persist, DocStatuses
  <2>8. pc' \in [Jobs -> PCs] BY <1>4 DEF Persist, Goto, PCs
  <2>9. rows' \subseteq Row
    <3>1. rows' = rows \cup new BY <2>1
    <3> HIDE DEF new
    <3> QED BY <2>2, <3>1
  <2>10. clock' \in Nat
    <3>1. clock' = clock + 1 BY <1>4 DEF Persist
    <3> QED BY <3>1
  <2> QED BY <1>4, <2>6, <2>7, <2>8, <2>9, <2>10 DEF Persist
<1>5. CASE Score(j)
  <2>1. Ids({r \in rows : r.doc = job[j].doc}) \subseteq RowIds BY IdsTyped
  <2>2. reports' \subseteq [doc : Docs, scored : SUBSET RowIds]
    <3> DEFINE new == [doc |-> job[j].doc, scored |-> Ids({r \in rows : r.doc = job[j].doc})]
    <3>1. CASE UNCHANGED reports BY <3>1
    <3>2. CASE /\ job[j].doc \in Stored
               /\ reports' = {r \in reports : r.doc # job[j].doc} \cup {new}
      <4>1. job[j].doc \in Docs BY <3>2 DEF Stored
      <4>2. new \in [doc : Docs, scored : SUBSET RowIds] BY <2>1, <4>1
      <4> HIDE DEF new
      <4> QED BY <3>2, <4>2
    <3> QED BY <1>5, <3>1, <3>2 DEF Score
  <2>3. pc' \in [Jobs -> PCs] BY <1>5 DEF Score, Goto, PCs
  <2> QED BY <1>5, <2>2, <2>3 DEF Score
<1> QED BY <1>1, <1>2, <1>3, <1>4, <1>5

LEMMA ValidationTyped ==
  ASSUME TypeOK, NEW j \in Jobs, ValidationRead(j) \/ ValidationCommit(j)
  PROVE  TypeOK'
<1> USE DEF TypeOK
<1>j. job[j] \in Job BY DEF TypeOK
<1>1. CASE ValidationRead(j)
  <2>0. PICK picked \in Current(j) :
          LET sheets == {{r \in picked : r.period = p} : p \in job[j].todo} IN
          job' = [job EXCEPT
            ![j].marks   = UNION {{<<RowId(r), VerdictOf(S)[r.code]>> : r \in Changed(S)}
                                    : S \in sheets},
            ![j].anchors = UNION {Ids(Anchored(S)) : S \in sheets},
            ![j].seen    = {<<RowId(r), r.value>> : r \in picked}]
    BY <1>1 DEF ValidationRead
  <2> DEFINE sheets == {{r \in picked : r.period = p} : p \in job[j].todo}
             marks == UNION {{<<RowId(r), VerdictOf(S)[r.code]>> : r \in Changed(S)}
                               : S \in sheets}
             anchors == UNION {Ids(Anchored(S)) : S \in sheets}
             seen == {<<RowId(r), r.value>> : r \in picked}
             new == [job[j] EXCEPT !.marks = marks, !.anchors = anchors, !.seen = seen]
  <2>p. picked \subseteq Row
    <3>1. Loaded(j, {r \in rows : r.period \in job[j].todo}) \subseteq Row BY LoadedTyped
    <3> QED BY <3>1 DEF Current, Resolutions, Latest
  <2>1. \A S \in sheets : S \subseteq Row BY <2>p
  <2>2. \A r \in Row : RowId(r) \in RowIds /\ r.value \in Values
    BY DEF RowId, RowIds, Row
  <2>6. job' = [job EXCEPT ![j] = new] BY <2>0
  <2> HIDE DEF sheets
  <2>3. marks \subseteq RowIds \X Statuses
    <3> SUFFICES ASSUME NEW S \in sheets, NEW r \in Changed(S)
                 PROVE  <<RowId(r), VerdictOf(S)[r.code]>> \in RowIds \X Statuses
      OBVIOUS
    <3>1. r \in S /\ r.code \in DOMAIN VerdictOf(S) BY DEF Changed
    <3>2. RowId(r) \in RowIds BY <3>1, <2>1, <2>2
    <3>3. VerdictOf(S)[r.code] \in Statuses BY <3>1, VerdictTyped
    <3> QED BY <3>2, <3>3
  <2>4. anchors \subseteq RowIds
    <3> SUFFICES ASSUME NEW S \in sheets PROVE Ids(Anchored(S)) \subseteq RowIds
      OBVIOUS
    <3>1. Anchored(S) \subseteq Row BY <2>1 DEF Anchored
    <3> QED BY <3>1, IdsTyped
  <2>5. seen \subseteq RowIds \X Values
    BY <2>p, <2>2
  <2>7. new \in Job
    <3> HIDE DEF marks, anchors, seen
    <3> QED BY <1>j, <2>3, <2>4, <2>5 DEF Job
  <2>8. job' \in [Jobs -> Job]
    <3> HIDE DEF new
    <3> QED BY <2>6, <2>7
  <2>9. pc' \in [Jobs -> PCs] BY <1>1 DEF ValidationRead, Goto, PCs
  <2> QED BY <1>1, <2>8, <2>9 DEF ValidationRead, tables
<1>2. CASE ValidationCommit(j)
  <2> DEFINE marked(r) == \E s \in Statuses : <<RowId(r), s>> \in job[j].marks
             status(r) == IF marked(r)
                          THEN CHOOSE s \in Statuses : <<RowId(r), s>> \in job[j].marks
                          ELSE r.status
             at(r) == IF marked(r) THEN clock + 1 ELSE r.at
             validated(r) == r.validated \/ <<RowId(r), r.value>> \in job[j].seen
             settle(r) == [r EXCEPT !.status = status(r), !.at = at(r),
                                    !.validated = validated(r)]
             new == [job[j] EXCEPT !.marks = {}, !.anchors = {}, !.seen = {}]
  <2>1. rows' = {settle(r) : r \in rows} BY <1>2 DEF ValidationCommit
  <2>2. ASSUME NEW r \in Row PROVE settle(r) \in Row
    <3>1. r.status \in Statuses /\ r.at \in Nat BY DEF Row
    <3>2. status(r) \in Statuses BY <3>1
    <3>3. at(r) \in Nat BY <3>1
    <3>4. validated(r) \in BOOLEAN OBVIOUS
    <3> HIDE DEF status, at, validated
    <3> QED BY <3>2, <3>3, <3>4 DEF Row
  <2>3. rows' \subseteq Row
    <3> HIDE DEF settle
    <3> QED BY <2>1, <2>2
  <2>4. new \in Job BY <1>j DEF Job
  <2>5. job' = [job EXCEPT ![j] = new] BY <1>2 DEF ValidationCommit
  <2>6. job' \in [Jobs -> Job]
    <3> HIDE DEF new
    <3> QED BY <2>4, <2>5
  <2>7. pc' \in [Jobs -> PCs] BY <1>2 DEF ValidationCommit, Goto, PCs, RunEnd
  <2>8. clock' \in Nat
    <3>1. clock' = clock + 1 BY <1>2 DEF ValidationCommit
    <3> QED BY <3>1
  <2> QED BY <1>2, <2>3, <2>6, <2>7, <2>8 DEF ValidationCommit
<1> QED BY <1>1, <1>2

LEMMA ComputeTyped ==
  ASSUME TypeOK, Placed, NEW j \in Jobs, ComputeRead(j) \/ ComputeDelete(j) \/ ComputeCommit(j)
  PROVE  TypeOK'
<1>j. job[j] \in Job BY DEF TypeOK
<1>1. CASE ComputeRead(j)
  <2> DEFINE eligible == Eligible(j)
  <2>1. eligible \subseteq Row
    <3>1. {r \in Visible(j) : r.status # NEEDS_REVIEW} \subseteq Row
      BY DEF TypeOK, Visible
    <3> QED BY <3>1, LoadedTyped DEF Eligible
  <2>2. PICK p \in Upcoming(j) :
          \/ PeriodDone(j, p, {})
          \/ /\ \E T \in Resolutions(eligible) :
                  job' = [job EXCEPT ![j].cur = p, ![j].basis = FiguresFor(p, T)]
             /\ Goto(j, "mdelete")
    BY <1>1 DEF ComputeRead
  <2>3. p \in Periods BY <1>j DEF Upcoming, Job
  <2>4. job' \in [Jobs -> Job] /\ pc' \in [Jobs -> PCs]
    <3>1. CASE PeriodDone(j, p, {}) BY <2>3, <3>1, PeriodDoneTyped
    <3>2. ASSUME NEW T \in Resolutions(eligible), Goto(j, "mdelete"),
                 job' = [job EXCEPT ![j].cur = p, ![j].basis = FiguresFor(p, T)]
          PROVE  job' \in [Jobs -> Job] /\ pc' \in [Jobs -> PCs]
      <4> DEFINE new == [job[j] EXCEPT !.cur = p, !.basis = FiguresFor(p, T)]
      <4>1. T \subseteq Row BY <2>1 DEF Resolutions
      <4>2. FiguresFor(p, T) \subseteq Figure BY <4>1, FiguresTyped
      <4>3. new \in Job BY <1>j, <2>3, <4>2 DEF Job
      <4>4. job' = [job EXCEPT ![j] = new] BY <3>2
      <4>5. job' \in [Jobs -> Job]
        <5> HIDE DEF new
        <5> QED BY <4>3, <4>4 DEF TypeOK
      <4>6. "mdelete" \in PCs BY DEF PCs
      <4> QED BY <3>2, <4>5, <4>6, GotoTyped
    <3> QED BY <2>2, <3>1, <3>2
  <2> QED BY <1>1, <2>4 DEF ComputeRead, TypeOK, tables
<1>2. CASE ComputeDelete(j)
  <2>1. IdsOf(BatchesOf(job[j].cur)) \subseteq Nat
    BY DEF TypeOK, IdsOf, BatchesOf, Batch
  <2>2. tx' \in [Jobs -> Tx]
    <3>1. tx' = [tx EXCEPT ![j].drop = @ \cup IdsOf(BatchesOf(job[j].cur))]
      BY <1>2 DEF ComputeDelete
    <3> QED BY <2>1, <3>1 DEF TypeOK, Tx
  <2>3. pc' \in [Jobs -> PCs] BY <1>2 DEF ComputeDelete, Goto, PCs, TypeOK
  <2> QED BY <1>2, <2>2, <2>3 DEF ComputeDelete, TypeOK, tables
<1>3. CASE ComputeCommit(j)
  <2> DEFINE p == job[j].cur
             batch == [id |-> clock + 1, period |-> p, basis |-> job[j].basis]
  <2>1. clock + 1 \in Nat BY DEF TypeOK
  <2>2. pc[j] = "mcommit" /\ Commit(j, {batch}, {}) /\ PeriodDone(j, p, {clock + 1})
    BY <1>3 DEF ComputeCommit
  <2>3. p \in Periods BY <2>2 DEF Placed, PlacedAt
  <2>4. batch \in Batch BY <1>j, <2>1, <2>3 DEF Batch, Job
  <2>5. /\ rows' \subseteq Row /\ metrics' \subseteq Batch /\ insights' \subseteq Insight
        /\ reports' \subseteq [doc : Docs, scored : SUBSET RowIds]
        /\ tx' \in [Jobs -> Tx] /\ lock' \in [Periods -> Jobs \cup {None}]
    <3> HIDE DEF batch
    <3> QED BY <2>2, <2>4, CommitTyped
  <2>6. job' \in [Jobs -> Job] /\ pc' \in [Jobs -> PCs]
    <3> HIDE DEF p
    <3> QED BY <2>1, <2>2, <2>3, PeriodDoneTyped
  <2>7. docs' \in [Docs -> DocStatuses] BY <1>3, DocsAfterTyped DEF ComputeCommit
  <2>8. files' = files /\ clock' = clock + 1 /\ issued' = issued /\ crashes' = crashes
    BY <1>3 DEF ComputeCommit
  <2> QED BY <2>1, <2>5, <2>6, <2>7, <2>8 DEF TypeOK
<1> QED BY <1>1, <1>2, <1>3

LEMMA ReadTyped ==
  ASSUME TypeOK, NEW j \in Jobs, Look(j) \/ TakeLock(j) \/ PriorPeriod(j)
  PROVE  TypeOK'
<1>j. job[j] \in Job BY DEF TypeOK
<1>b. \A p : IdsOf(BatchesOf(p)) \subseteq Nat BY DEF TypeOK, IdsOf, BatchesOf, Batch
<1>1. CASE Look(j)
  <2>1. PICK p \in Upcoming(j) :
          \/ PeriodDone(j, p, IdsOf(BatchesOf(p)))
          \/ job' = [job EXCEPT ![j].cur = p] /\ Goto(j, "lock")
    BY <1>1 DEF Look
  <2>2. p \in Periods BY <1>j DEF Upcoming, Job
  <2>3. job' \in [Jobs -> Job] /\ pc' \in [Jobs -> PCs]
    <3>1. CASE PeriodDone(j, p, IdsOf(BatchesOf(p))) BY <1>b, <2>2, <3>1, PeriodDoneTyped
    <3>2. CASE job' = [job EXCEPT ![j].cur = p] /\ Goto(j, "lock")
      <4>1. [job[j] EXCEPT !.cur = p] \in Job BY <1>j, <2>2 DEF Job
      <4>2. job' = [job EXCEPT ![j] = [job[j] EXCEPT !.cur = p]] BY <3>2
      <4>3. "lock" \in PCs BY DEF PCs
      <4> QED BY <3>2, <4>1, <4>2, <4>3, JobTyped, GotoTyped
    <3> QED BY <2>1, <3>1, <3>2
  <2> QED BY <1>1, <2>3 DEF Look, TypeOK, tables
<1>2. CASE TakeLock(j)
  <2> DEFINE p == job[j].cur
  <2>1. lock' \in [Periods -> Jobs \cup {None}] BY <1>2 DEF TakeLock, TypeOK
  <2>2. job' \in [Jobs -> Job] /\ pc' \in [Jobs -> PCs]
    <3>1. p \in Periods \cup {0} BY <1>j DEF Job
    <3>2. CASE PeriodDone(j, p, IdsOf(BatchesOf(p)))
      <4> HIDE DEF p
      <4> QED BY <1>b, <3>1, <3>2, PeriodDoneTyped
    <3>3. CASE Goto(j, "metrics") /\ UNCHANGED job
      <4>1. "metrics" \in PCs BY DEF PCs
      <4> QED BY <3>3, <4>1, GotoTyped DEF TypeOK
    <3> QED BY <1>2, <3>2, <3>3 DEF TakeLock
  <2> QED BY <1>2, <2>1, <2>2 DEF TakeLock, TypeOK, tables
<1>3. CASE PriorPeriod(j)
  <2>1. PICK latest : /\ latest \subseteq PeriodsOf(rows)
                      /\ job' = [job EXCEPT ![j].todo = latest]
                      /\ Goto(j, IF latest = {} THEN "llm" ELSE "look")
    BY <1>3 DEF PriorPeriod
  <2>2. latest \subseteq Periods BY <2>1, IdsTyped DEF TypeOK
  <2>3. [job[j] EXCEPT !.todo = latest] \in Job BY <1>j, <2>2 DEF Job
  <2>4. job' = [job EXCEPT ![j] = [job[j] EXCEPT !.todo = latest]] BY <2>1
  <2>5. job' \in [Jobs -> Job] BY <2>3, <2>4, JobTyped
  <2>6. "llm" \in PCs /\ "look" \in PCs BY DEF PCs
  <2>7. pc' \in [Jobs -> PCs] BY <2>1, <2>6, GotoTyped
  <2> QED BY <1>3, <2>5, <2>7 DEF PriorPeriod, TypeOK, tables
<1> QED BY <1>1, <1>2, <1>3

LEMMA ManualTyped ==
  ASSUME TypeOK, NEW j \in Jobs, AddInsert(j) \/ Refresh(j) \/ Invalidate(j)
  PROVE  TypeOK'
<1>j. job[j] \in Job BY DEF TypeOK
<1>1. CASE AddInsert(j)
  <2> DEFINE new == {NewRow(clock + 1, 0, None, m.period, m.code, m.value) : m \in job[j].mem}
  <2>1. clock + 1 \in Nat BY DEF TypeOK
  <2>2. new \subseteq Row
    <3> SUFFICES ASSUME NEW m \in job[j].mem
                 PROVE  NewRow(clock + 1, 0, None, m.period, m.code, m.value) \in Row
      OBVIOUS
    <3>1. m.period \in Periods /\ m.code \in Codes /\ m.value \in Values
      BY <1>j DEF Job, Row
    <3> QED BY <2>1, <3>1, NewRowTyped
  <2>3. /\ rows' = rows \cup new
        /\ job' = [job EXCEPT ![j] = [job[j] EXCEPT !.mem = new]]
        /\ clock' = clock + 1
    BY <1>1 DEF AddInsert
  <2>4. rows' \subseteq Row /\ job' \in [Jobs -> Job]
    <3> HIDE DEF new
    <3>1. [job[j] EXCEPT !.mem = new] \in Job BY <1>j, <2>2 DEF Job
    <3>2. rows' \subseteq Row BY <2>2, <2>3 DEF TypeOK
    <3> QED BY <2>3, <3>1, <3>2, JobTyped
  <2>5. pc' \in [Jobs -> PCs] BY <1>1 DEF AddInsert, Goto, PCs, TypeOK
  <2> QED BY <1>1, <2>1, <2>3, <2>4, <2>5 DEF AddInsert, TypeOK
<1>2. CASE Refresh(j)
  <2> DEFINE stored == {r \in rows : RowId(r) \in Ids(job[j].mem)}
  <2>1. stored \subseteq Row BY DEF TypeOK
  <2>2. job' = [job EXCEPT ![j] = [job[j] EXCEPT !.mem = stored]] BY <1>2 DEF Refresh
  <2>3. job' \in [Jobs -> Job]
    <3> HIDE DEF stored
    <3>1. [job[j] EXCEPT !.mem = stored] \in Job BY <1>j, <2>1 DEF Job
    <3> QED BY <2>2, <3>1, JobTyped
  <2>4. pc' \in [Jobs -> PCs] BY <1>2 DEF Refresh, Goto, PCs, TypeOK
  <2> QED BY <1>2, <2>3, <2>4 DEF Refresh, TypeOK, tables
<1>3. CASE Invalidate(j)
  <2>1. lock' \in [Periods -> Jobs \cup {None}] BY <1>3 DEF Invalidate, Unlocked, TypeOK
  <2>2. pc' \in [Jobs -> PCs] BY <1>3 DEF Invalidate, Goto, PCs, TypeOK
  <2> QED BY <1>3, <2>1, <2>2 DEF Invalidate, TypeOK
<1> QED BY <1>1, <1>2, <1>3

LEMMA ClearingTyped ==
  ASSUME TypeOK, NEW j \in Jobs,
         DeleteRows(j) \/ DeleteDoc(j) \/ ListRemaining(j) \/ DropMetrics(j) \/ ClearInsights(j)
  PROVE  TypeOK'
<1>j. job[j] \in Job BY DEF TypeOK
<1>1. CASE DeleteRows(j)
  <2>1. Ids(OfDoc(job[j].doc)) \subseteq RowIds BY IdsTyped DEF TypeOK, OfDoc
  <2>2. tx' = [tx EXCEPT ![j].gone = Ids(OfDoc(job[j].doc))] BY <1>1 DEF DeleteRows
  <2>3. tx' \in [Jobs -> Tx] BY <2>1, <2>2 DEF TypeOK, Tx
  <2>4. pc' \in [Jobs -> PCs] BY <1>1 DEF DeleteRows, AfterClearing, Goto, PCs, TypeOK
  <2> QED BY <1>1, <2>3, <2>4 DEF DeleteRows, TypeOK, tables
<1>2. CASE DeleteDoc(j)
  <2>1. tx' \in [Jobs -> Tx] BY <1>2 DEF DeleteDoc, TypeOK, Tx
  <2>2. pc' \in [Jobs -> PCs] BY <1>2 DEF DeleteDoc, AfterClearing, Goto, PCs, TypeOK
  <2> QED BY <1>2, <2>1, <2>2 DEF DeleteDoc, TypeOK, tables
<1>5. CASE ListRemaining(j)
  <2>2. PeriodsOf(Visible(j)) \subseteq Periods BY IdsTyped DEF TypeOK, Visible
  <2>3. job' = [job EXCEPT ![j] = [job[j] EXCEPT !.left = PeriodsOf(Visible(j))]]
    BY <1>5 DEF ListRemaining
  <2>4. [job[j] EXCEPT !.left = PeriodsOf(Visible(j))] \in Job BY <1>j, <2>2 DEF Job
  <2>5. job' \in [Jobs -> Job] BY <2>3, <2>4, JobTyped
  <2>6. pc' \in [Jobs -> PCs] BY <1>5 DEF ListRemaining, Goto, PCs, TypeOK
  <2> QED BY <1>5, <2>5, <2>6 DEF ListRemaining, TypeOK, tables
<1>3. CASE DropMetrics(j)
  <2>1. PICK p \in Upcoming(j) :
          tx' = [tx EXCEPT ![j].drop = @ \cup IdsOf(BatchesOf(p))] /\ PeriodDone(j, p, {})
    BY <1>3 DEF DropMetrics
  <2>2. IdsOf(BatchesOf(p)) \subseteq Nat BY DEF TypeOK, IdsOf, BatchesOf, Batch
  <2>3. tx' \in [Jobs -> Tx] BY <2>1, <2>2 DEF TypeOK, Tx
  <2>4. p \in Periods BY <1>j DEF Upcoming, Job
  <2>5. job' \in [Jobs -> Job] /\ pc' \in [Jobs -> PCs] BY <2>1, <2>4, PeriodDoneTyped
  <2> QED BY <1>3, <2>3, <2>5 DEF DropMetrics, TypeOK, tables
<1>4. CASE ClearInsights(j)
  <2>1. IdsOf(NotesOf(job[j].cur)) \subseteq Nat BY DEF TypeOK, IdsOf, NotesOf, Insight
  <2>2. tx' = [tx EXCEPT ![j].dropI = @ \cup IdsOf(NotesOf(job[j].cur))]
    BY <1>4 DEF ClearInsights
  <2>3. tx' \in [Jobs -> Tx] BY <2>1, <2>2 DEF TypeOK, Tx
  <2>4. pc' \in [Jobs -> PCs] BY <1>4 DEF ClearInsights, Goto, PCs, TypeOK
  <2> QED BY <1>4, <2>3, <2>4 DEF ClearInsights, TypeOK, tables
<1> QED BY <1>1, <1>2, <1>3, <1>4, <1>5

LEMMA FinishTyped ==
  ASSUME TypeOK, NEW j \in Jobs, FinishDelete(j) \/ FinishReExtract(j) \/ Schedule(j)
  PROVE  TypeOK'
<1>j. job[j] \in Job BY DEF TypeOK
<1>c. ASSUME Commit(j, {}, {})
      PROVE  /\ rows' \subseteq Row /\ metrics' \subseteq Batch /\ insights' \subseteq Insight
             /\ reports' \subseteq [doc : Docs, scored : SUBSET RowIds]
             /\ tx' \in [Jobs -> Tx] /\ lock' \in [Periods -> Jobs \cup {None}]
  BY <1>c, CommitTyped
<1>1. CASE FinishDelete(j)
  <2>1. docs' \in [Docs -> DocStatuses] BY <1>1, DocsAfterTyped DEF FinishDelete
  <2>2. pc' \in [Jobs -> PCs] BY <1>1 DEF FinishDelete, Goto, PCs, TypeOK
  <2> QED BY <1>1, <1>c, <2>1, <2>2 DEF FinishDelete, TypeOK
<1>2. CASE FinishReExtract(j)
  <2>1. docs' \in [Docs -> DocStatuses] BY <1>2 DEF FinishReExtract, DocStatuses, TypeOK
  <2>2. pc' \in [Jobs -> PCs] BY <1>2 DEF FinishReExtract, Goto, PCs, TypeOK
  <2> QED BY <1>2, <1>c, <2>1, <2>2 DEF FinishReExtract, TypeOK
<1>3. CASE Schedule(j)
  <2> DEFINE run == [Idle EXCEPT !.op = "extract", !.doc = job[j].doc, !.score = TRUE]
  <2>1. run \in Job BY <1>j DEF Idle, Job, OpNames, Writing
  <2>2. job' = [job EXCEPT ![j] = run] BY <1>3 DEF Schedule
  <2>3. job' \in [Jobs -> Job]
    <3> HIDE DEF run
    <3> QED BY <2>1, <2>2, JobTyped
  <2>4. pc' \in [Jobs -> PCs] BY <1>3 DEF Schedule, Goto, PCs, TypeOK
  <2> QED BY <1>3, <2>3, <2>4 DEF Schedule, TypeOK, tables
<1> QED BY <1>1, <1>2, <1>3

LEMMA NarrativeTyped ==
  ASSUME TypeOK, Placed, NEW j \in Jobs, NarrativeDelete(j) \/ NarrativeSave(j)
  PROVE  TypeOK'
<1>j. job[j] \in Job BY DEF TypeOK
<1>1. CASE NarrativeDelete(j)
  <2> DEFINE dropped == IdsOf(NoteFor(job[j].target, job[j].aud))
  <2>1. dropped \subseteq Nat BY DEF TypeOK, IdsOf, NoteFor, NotesOf, Insight
  <2>2. tx' = [tx EXCEPT ![j].dropI = dropped] BY <1>1 DEF NarrativeDelete
  <2>3. tx' \in [Jobs -> Tx]
    <3> HIDE DEF dropped
    <3> QED BY <2>1, <2>2 DEF TypeOK, Tx
  <2>4. pc' \in [Jobs -> PCs] BY <1>1 DEF NarrativeDelete, Goto, PCs, TypeOK
  <2> QED BY <1>1, <2>3, <2>4 DEF NarrativeDelete, TypeOK, tables
<1>2. CASE NarrativeSave(j)
  <2> DEFINE note == [id |-> clock + 1, period |-> job[j].target, aud |-> job[j].aud,
                      src |-> job[j].src, edited |-> FALSE]
  <2>1. clock + 1 \in Nat BY DEF TypeOK
  <2>2. Commit(j, {}, {note}) /\ pc[j] = "isave" BY <1>2 DEF NarrativeSave
  <2>3. job[j].target \in Periods /\ job[j].aud \in Audiences BY <2>2 DEF Placed, PlacedAt
  <2>4. note \in Insight BY <1>j, <2>1, <2>3 DEF Insight, Job
  <2>5. /\ rows' \subseteq Row /\ metrics' \subseteq Batch /\ insights' \subseteq Insight
        /\ reports' \subseteq [doc : Docs, scored : SUBSET RowIds]
        /\ tx' \in [Jobs -> Tx] /\ lock' \in [Periods -> Jobs \cup {None}]
    <3> HIDE DEF note
    <3> QED BY <2>2, <2>4, CommitTyped
  <2>6. pc' \in [Jobs -> PCs] BY <1>2 DEF NarrativeSave, Goto, PCs, TypeOK
  <2>7. /\ docs' = docs /\ files' = files /\ job' = job /\ clock' = clock + 1
        /\ issued' = issued /\ crashes' = crashes
    BY <1>2 DEF NarrativeSave
  <2> QED BY <2>1, <2>5, <2>6, <2>7 DEF TypeOK
<1> QED BY <1>1, <1>2

LEMMA RaiseTyped ==
  ASSUME TypeOK, NEW j \in Jobs, Raise(j) \/ Close(j)
  PROVE  TypeOK'
<1>1. End(j) BY DEF Raise, Close
<1>2. /\ pc' \in [Jobs -> PCs] /\ job' \in [Jobs -> Job]
      /\ tx' \in [Jobs -> Tx] /\ lock' \in [Periods -> Jobs \cup {None}]
  BY <1>1, EndTyped
<1>3. CASE Raise(j)
  <2>1. docs' \in [Docs -> DocStatuses] BY <1>3 DEF Raise, TypeOK, DocStatuses
  <2> QED BY <1>2, <1>3, <2>1 DEF Raise, TypeOK
<1>4. CASE Close(j) BY <1>2, <1>4 DEF Close, TypeOK, tables
<1> QED BY <1>3, <1>4

LEMMA OthersTyped ==
  ASSUME TypeOK,
         \/ \E d \in Docs : GenerateReport(d)
         \/ \E i \in insights : EditInsight(i)
         \/ Crash
  PROVE  TypeOK'
<1>1. ASSUME NEW d \in Docs, GenerateReport(d) PROVE TypeOK'
  <2> DEFINE new == [doc |-> d, scored |-> Ids({r \in rows : r.doc = d})]
  <2>1. Ids({r \in rows : r.doc = d}) \subseteq RowIds BY IdsTyped DEF TypeOK
  <2>2. new \in [doc : Docs, scored : SUBSET RowIds] BY <2>1
  <2>3. reports' = {r \in reports : r.doc # d} \cup {new} BY <1>1 DEF GenerateReport
  <2>4. reports' \subseteq [doc : Docs, scored : SUBSET RowIds]
    <3> HIDE DEF new
    <3> QED BY <2>2, <2>3 DEF TypeOK
  <2> QED BY <1>1, <2>4 DEF GenerateReport, TypeOK
<1>2. ASSUME NEW i \in insights, EditInsight(i) PROVE TypeOK'
  <2>1. PICK e \in BOOLEAN : insights' = (insights \ {i}) \cup {[i EXCEPT !.edited = e]}
    BY <1>2 DEF EditInsight
  <2>2. i \in Insight BY DEF TypeOK
  <2>3. [i EXCEPT !.edited = e] \in Insight BY <2>2 DEF Insight
  <2>4. insights' \subseteq Insight BY <2>1, <2>3 DEF TypeOK
  <2> QED BY <1>2, <2>4 DEF EditInsight, TypeOK
<1>3. CASE Crash
  BY <1>3, IdleTyped, NoTxTyped DEF Crash, TypeOK, PCs, tables
<1> QED BY <1>1, <1>2, <1>3

(* Every step keeps every variable typed.                                   *)
LEMMA NextTyped == TypeOK /\ Placed /\ [Next]_vars => TypeOK'
<1> SUFFICES ASSUME TypeOK, Placed, [Next]_vars PROVE TypeOK' OBVIOUS
<1>1. ASSUME NEW j \in Jobs, Request(j) PROVE TypeOK' BY <1>1, RequestTyped
<1>2. ASSUME NEW j \in Jobs, Step(j) PROVE TypeOK'
  BY <1>2, ExtractionTyped, ValidationTyped, ComputeTyped, ReadTyped, ManualTyped,
     ClearingTyped, FinishTyped, NarrativeTyped, RaiseTyped DEF Step, Refuse
<1>3. ASSUME NEW j \in Jobs, Fail(j) PROVE TypeOK' BY <1>3, RaiseTyped DEF Fail
<1>4. CASE UNCHANGED vars
  BY <1>4 DEF TypeOK, vars
<1> QED BY <1>1, <1>2, <1>3, <1>4, OthersTyped DEF Next

-----------------------------------------------------------------------------
(* Sessions and their memory *)

(* A session's step leaves the other sessions as they are, and the locks    *)
(* they hold.                                                               *)
LEMMA OthersKept ==
  ASSUME TypeOK, NEW j \in Jobs, Request(j) \/ Step(j) \/ Raise(j),
         NEW k \in Jobs \ {j}
  PROVE  /\ pc'[k] = pc[k] /\ job'[k] = job[k] /\ tx'[k] = tx[k]
         /\ \A p \in Periods : lock[p] = k => lock'[p] = k
<1> USE DEF TypeOK, Goto, tables
<1>0. None \notin Jobs BY NoneIsFresh
<1>1. CASE Request(j)
  <2>1. ASSUME NEW d \in Docs, Upload(j, d)
        PROVE  /\ pc'[k] = pc[k] /\ job'[k] = job[k] /\ UNCHANGED <<tx, lock>>
    BY <2>1 DEF Upload
  <2>2. ASSUME NEW d \in Docs, DeleteFile(j, d)
        PROVE  /\ pc'[k] = pc[k] /\ job'[k] = job[k] /\ UNCHANGED <<tx, lock>>
    BY <2>2 DEF DeleteFile
  <2>3. ASSUME NEW d \in Docs, ReExtract(j, d)
        PROVE  /\ pc'[k] = pc[k] /\ job'[k] = job[k] /\ tx'[k] = tx[k] /\ UNCHANGED lock
    BY <2>3 DEF ReExtract
  <2>4. CASE ViewMetrics(j) BY <2>4 DEF ViewMetrics
  <2>5. CASE Override(j) BY <2>5 DEF Override
  <2>6. CASE AddCheck(j) BY <2>6 DEF AddCheck
  <2>7. CASE Narrate(j) BY <2>7 DEF Narrate
  <2> QED BY <1>1, <2>1, <2>2, <2>3, <2>4, <2>5, <2>6, <2>7 DEF Request
<1>u. \A p \in Periods : lock[p] = k => Unlocked(j)[p] = k BY DEF Unlocked
<1>c. ASSUME NEW batch, NEW note, Commit(j, batch, note)
      PROVE  tx'[k] = tx[k] /\ \A p \in Periods : lock[p] = k => lock'[p] = k
  BY <1>c, <1>u DEF Commit
<1>d. ASSUME NEW p, NEW found, PeriodDone(j, p, found)
      PROVE  pc'[k] = pc[k] /\ job'[k] = job[k]
  BY <1>d DEF PeriodDone
<1>2. CASE Raise(j) BY <1>2, <1>u DEF Raise, End
<1>3. CASE Step(j)
  <2>1. CASE UploadCommit(j) BY <2>1 DEF UploadCommit
  <2>2. CASE StartRun(j) BY <2>2 DEF StartRun
  <2>3. CASE Fetch(j) BY <2>3 DEF Fetch
  <2>4. CASE Persist(j)
    <3>1. PICK new : job' = [job EXCEPT ![j].mem = new, ![j].todo = PeriodsOf(new)]
      BY <2>4 DEF Persist
    <3>2. pc' = [pc EXCEPT ![j] = "vread"] /\ tx' = tx /\ lock' = lock
      BY <2>4 DEF Persist
    <3> QED BY <3>1, <3>2
  <2>5. CASE Score(j) BY <2>5 DEF Score
  <2>6. CASE ValidationRead(j)
    <3>1. PICK x, y, z : job' = [job EXCEPT ![j].marks = x, ![j].anchors = y, ![j].seen = z]
      BY <2>6 DEF ValidationRead
    <3>2. pc' = [pc EXCEPT ![j] = "vcommit"] /\ tx' = tx /\ lock' = lock
      BY <2>6 DEF ValidationRead
    <3> QED BY <3>1, <3>2
  <2>7. CASE ValidationCommit(j)
    <3>1. /\ job' = [job EXCEPT ![j].marks = {}, ![j].anchors = {}, ![j].seen = {}]
          /\ pc' = [pc EXCEPT ![j] = IF job[j].todo = {} THEN RunEnd(j) ELSE "metrics"]
          /\ tx' = tx /\ lock' = lock
      BY <2>7 DEF ValidationCommit
    <3> QED BY <3>1
  <2>8. CASE ComputeRead(j)
    <3>1. tx' = tx /\ lock' = lock BY <2>8 DEF ComputeRead
    <3>2. PICK p \in Upcoming(j) :
            \/ PeriodDone(j, p, {})
            \/ /\ \E T : job' = [job EXCEPT ![j].cur = p, ![j].basis = FiguresFor(p, T)]
               /\ Goto(j, "mdelete")
      BY <2>8 DEF ComputeRead
    <3> QED BY <1>d, <3>1, <3>2
  <2>9. CASE ComputeDelete(j) BY <2>9 DEF ComputeDelete
  <2>10. CASE ComputeCommit(j) BY <2>10, <1>c, <1>d DEF ComputeCommit
  <2>11. CASE Look(j)
    <3>1. PICK p \in Upcoming(j) :
            \/ PeriodDone(j, p, IdsOf(BatchesOf(p)))
            \/ job' = [job EXCEPT ![j].cur = p] /\ Goto(j, "lock")
      BY <2>11 DEF Look
    <3> QED BY <2>11, <1>d, <3>1 DEF Look
  <2>12. CASE TakeLock(j) BY <2>12, <1>0, <1>d DEF TakeLock
  <2>13. CASE AddInsert(j) BY <2>13 DEF AddInsert
  <2>14. CASE Refresh(j) BY <2>14 DEF Refresh
  <2>15. CASE Invalidate(j) BY <2>15, <1>u DEF Invalidate
  <2>16. CASE DeleteRows(j) BY <2>16 DEF DeleteRows
  <2>17. CASE DeleteDoc(j) BY <2>17 DEF DeleteDoc
  <2>18. CASE DropMetrics(j) BY <2>18, <1>d DEF DropMetrics
  <2>19. CASE ClearInsights(j) BY <2>19 DEF ClearInsights
  <2>20. CASE FinishDelete(j) BY <2>20, <1>c DEF FinishDelete
  <2>21. CASE FinishReExtract(j) BY <2>21, <1>c DEF FinishReExtract
  <2>22. CASE ListRemaining(j) BY <2>22 DEF ListRemaining
  <2>23. CASE PriorPeriod(j) BY <2>23 DEF PriorPeriod
  <2>24. CASE NarrativeDelete(j) BY <2>24 DEF NarrativeDelete
  <2>25. CASE NarrativeSave(j) BY <2>25, <1>c DEF NarrativeSave
  <2>26. CASE Refuse(j) BY <2>26, <1>2 DEF Refuse
  <2>27. CASE Close(j) BY <2>27, <1>u DEF Close, End
  <2>28. CASE Schedule(j) BY <2>28 DEF Schedule
  <2> QED BY <1>3, <2>1, <2>2, <2>3, <2>4, <2>5, <2>6, <2>7, <2>8, <2>9, <2>10, <2>11, <2>12,
             <2>13, <2>14, <2>15, <2>16, <2>17, <2>18, <2>19, <2>20, <2>21, <2>22, <2>23,
             <2>24, <2>25, <2>26, <2>27, <2>28 DEF Step
<1> QED BY <1>1, <1>2, <1>3

(* A period is the only one its reader may take next.                       *)
LEMMA NextsUnique ==
  ASSUME NEW J \in Job, J.op \in Readers, J.op = "insight" => \A p, q \in J.todo : p = q,
         NEW p \in Nexts(J), NEW q \in Nexts(J)
  PROVE  p = q
<1>1. J.todo \subseteq Periods BY DEF Job
<1>2. p \in Int /\ q \in Int
  <2>1. p \in J.todo /\ q \in J.todo BY DEF Nexts
  <2>2. p \in Periods /\ q \in Periods BY <1>1, <2>1
  <2> HIDE DEF Nexts
  <2> QED BY <2>2, PeriodsArePositive
<1>3. CASE J.op = "insight" BY <1>3 DEF Nexts
<1>4. CASE J.op = "view"
  <2>1. p <= q /\ q <= p BY <1>4 DEF Nexts
  <2> QED BY <1>2, <2>1
<1> QED BY <1>3, <1>4 DEF Readers

LEMMA UpcomingIsNexts == \A j \in Jobs : Upcoming(j) = Nexts(job[j])
  BY DEF Upcoming, Nexts

(* A session done with a period goes where its kind of request takes it.    *)
LEMMA PeriodDonePlaced ==
  ASSUME TypeOK, Placed, NEW j \in Jobs, NEW p, NEW found, PeriodDone(j, p, found),
         pc[j] # "idle"
  PROVE  PlacedAt(pc'[j], job'[j])
<1>1. PlacedAt(pc[j], job[j]) /\ job[j] \in Job BY DEF Placed, TypeOK
<1>2. /\ pc'[j] = AfterPeriod(j, p) /\ job'[j].op = job[j].op
      /\ job'[j].todo = job[j].todo \ {p}
      /\ job'[j].target = job[j].target /\ job'[j].aud = job[j].aud
  BY <1>1 DEF PeriodDone, Goto, TypeOK, Job
<1>3. job[j].op # "none" BY <1>1 DEF PlacedAt
<1>4. CASE job[j].op = "view"
  <2>1. pc'[j] \in {"done", "look"} BY <1>2, <1>4 DEF AfterPeriod, Clearing
  <2> QED BY <1>2, <1>4, <2>1 DEF PlacedAt, ReaderPCs
<1>5. CASE job[j].op = "insight"
  <2>1. pc'[j] \in {"prior", "llm"} BY <1>2, <1>5 DEF AfterPeriod, Clearing
  <2> QED BY <1>1, <1>2, <1>5, <2>1 DEF PlacedAt, ReaderPCs
<1>6. CASE job[j].op \notin Readers
  <2>1. pc'[j] \in {"iclear", "invalidate", "done", "metrics", "score"}
    BY <1>2, <1>6 DEF AfterPeriod, Clearing, Readers, RunEnd
  <2> QED BY <1>2, <1>3, <1>6, <2>1 DEF PlacedAt, Readers
<1> QED BY <1>4, <1>5, <1>6 DEF Readers

LEMMA StepPlaced ==
  ASSUME TypeOK, Placed, NEW j \in Jobs, Step(j)
  PROVE  PlacedAt(pc'[j], job'[j])
<1>j. PlacedAt(pc[j], job[j]) /\ job[j] \in Job BY DEF Placed, TypeOK
<1>e. ASSUME End(j) PROVE PlacedAt(pc'[j], job'[j])
  BY <1>e DEF End, Idle, PlacedAt, Readers, ReaderPCs, TypeOK
<1> USE DEF Goto
<1>1. ASSUME NEW l, pc' = [pc EXCEPT ![j] = l], job'[j].op = job[j].op, pc[j] # "idle",
             job[j].op \notin Readers,
             l \notin {"idle", "mdelete", "mcommit", "prior", "llm", "isave"}
      PROVE  PlacedAt(pc'[j], job'[j])
  BY <1>j, <1>1 DEF PlacedAt, Readers, TypeOK
<1>2. ASSUME pc[j] \in {"saved", "start", "fetch", "persist", "insert", "refresh", "vread",
                        "vcommit", "score", "invalidate", "drows", "ddoc", "remain",
                        "iclear", "close", "reload"}
      PROVE  pc[j] # "idle" /\ job[j].op \notin Readers
  BY <1>j, <1>2 DEF PlacedAt, ReaderPCs
<1>3. CASE UploadCommit(j) BY <1>3, <1>1, <1>2 DEF UploadCommit
<1>4. CASE StartRun(j) BY <1>4, <1>1, <1>2 DEF StartRun
<1>5. CASE Fetch(j) BY <1>5, <1>1, <1>2 DEF Fetch
<1>6. CASE Persist(j)
  <2>1. PICK new : job' = [job EXCEPT ![j].mem = new, ![j].todo = PeriodsOf(new)]
    BY <1>6 DEF Persist
  <2>2. job'[j].op = job[j].op BY <1>j, <2>1 DEF TypeOK, Job
  <2>3. pc[j] = "persist" /\ pc' = [pc EXCEPT ![j] = "vread"] BY <1>6 DEF Persist
  <2> QED BY <2>2, <2>3, <1>1, <1>2
<1>7. CASE Score(j) BY <1>7, <1>1, <1>2 DEF Score
<1>8. CASE ValidationRead(j)
  <2>1. PICK x, y, z : job' = [job EXCEPT ![j].marks = x, ![j].anchors = y, ![j].seen = z]
    BY <1>8 DEF ValidationRead
  <2>2. job'[j].op = job[j].op BY <1>j, <2>1 DEF TypeOK, Job
  <2>3. pc[j] = "vread" /\ pc' = [pc EXCEPT ![j] = "vcommit"] BY <1>8 DEF ValidationRead
  <2> QED BY <2>2, <2>3, <1>1, <1>2
<1>9. CASE ValidationCommit(j)
  <2>1. /\ job' = [job EXCEPT ![j].marks = {}, ![j].anchors = {}, ![j].seen = {}]
        /\ pc' = [pc EXCEPT ![j] = IF job[j].todo = {} THEN RunEnd(j) ELSE "metrics"]
        /\ pc[j] = "vcommit"
    BY <1>9 DEF ValidationCommit
  <2>2. job'[j].op = job[j].op BY <1>j, <2>1 DEF TypeOK, Job
  <2>3. (IF job[j].todo = {} THEN RunEnd(j) ELSE "metrics") \in {"score", "done", "metrics"}
    BY DEF RunEnd
  <2> QED BY <2>1, <2>2, <2>3, <1>1, <1>2
<1>10. CASE ComputeRead(j)
  <2>1. PICK p \in Upcoming(j) :
          \/ PeriodDone(j, p, {})
          \/ /\ \E T : job' = [job EXCEPT ![j].cur = p, ![j].basis = FiguresFor(p, T)]
             /\ Goto(j, "mdelete")
    BY <1>10 DEF ComputeRead
  <2>2. pc[j] = "metrics" BY <1>10 DEF ComputeRead
  <2>3. p \in Periods BY <1>j DEF Upcoming, Job
  <2>4. ASSUME NEW T, job' = [job EXCEPT ![j].cur = p, ![j].basis = FiguresFor(p, T)],
               Goto(j, "mdelete")
        PROVE  PlacedAt(pc'[j], job'[j])
    <3>1. /\ pc'[j] = "mdelete" /\ job'[j].op = job[j].op /\ job'[j].cur = p
          /\ job'[j].target = job[j].target /\ job'[j].aud = job[j].aud
          /\ job'[j].todo = job[j].todo
      BY <1>j, <2>4 DEF TypeOK, Job
    <3> QED BY <1>j, <2>2, <2>3, <3>1 DEF PlacedAt, ReaderPCs
  <2> QED BY <2>1, <2>2, <2>4, PeriodDonePlaced
<1>11. CASE ComputeDelete(j)
  BY <1>j, <1>11 DEF ComputeDelete, PlacedAt, ReaderPCs, TypeOK
<1>12. CASE ComputeCommit(j)
  <2>1. pc[j] = "mcommit" /\ PeriodDone(j, job[j].cur, {clock + 1})
    BY <1>12 DEF ComputeCommit
  <2> QED BY <2>1, PeriodDonePlaced
<1>13. CASE Look(j)
  <2>1. PICK p \in Upcoming(j) :
          \/ PeriodDone(j, p, IdsOf(BatchesOf(p)))
          \/ job' = [job EXCEPT ![j].cur = p] /\ Goto(j, "lock")
    BY <1>13 DEF Look
  <2>2. pc[j] = "look" BY <1>13 DEF Look
  <2>3. ASSUME job' = [job EXCEPT ![j].cur = p], Goto(j, "lock")
        PROVE  PlacedAt(pc'[j], job'[j])
    <3>1. /\ pc'[j] = "lock" /\ job'[j].op = job[j].op /\ job'[j].cur = p
          /\ job'[j].target = job[j].target /\ job'[j].aud = job[j].aud
          /\ job'[j].todo = job[j].todo
      BY <1>j, <2>3 DEF TypeOK, Job
    <3>2. p \in Nexts(job'[j]) BY <2>1, <3>1, UpcomingIsNexts DEF Nexts
    <3> QED BY <1>j, <2>2, <3>1, <3>2 DEF PlacedAt, ReaderPCs
  <2> QED BY <2>1, <2>2, <2>3, PeriodDonePlaced
<1>14. CASE TakeLock(j)
  <2>1. pc[j] = "lock" BY <1>14 DEF TakeLock
  <2>2. CASE PeriodDone(j, job[j].cur, IdsOf(BatchesOf(job[j].cur)))
    BY <2>1, <2>2, PeriodDonePlaced
  <2>3. CASE Goto(j, "metrics") /\ UNCHANGED job
    BY <1>j, <2>1, <2>3 DEF PlacedAt, ReaderPCs, TypeOK
  <2> QED BY <1>14, <2>2, <2>3 DEF TakeLock
<1>15. CASE AddInsert(j)
  <2>1. PICK new : job' = [job EXCEPT ![j].mem = new] BY <1>15 DEF AddInsert
  <2>2. job'[j].op = job[j].op BY <1>j, <2>1 DEF TypeOK, Job
  <2> QED BY <1>15, <1>1, <1>2, <2>2 DEF AddInsert
<1>16. CASE Refresh(j)
  <2>1. PICK new : job' = [job EXCEPT ![j].mem = new] BY <1>16 DEF Refresh
  <2>2. job'[j].op = job[j].op BY <1>j, <2>1 DEF TypeOK, Job
  <2> QED BY <1>16, <1>1, <1>2, <2>2 DEF Refresh
<1>17. CASE Invalidate(j) BY <1>17, <1>1, <1>2 DEF Invalidate
<1>18. CASE DeleteRows(j) BY <1>18, <1>1, <1>2 DEF DeleteRows, AfterClearing
<1>19. CASE DeleteDoc(j) BY <1>19, <1>1, <1>2 DEF DeleteDoc, AfterClearing
<1>30. CASE ListRemaining(j)
  <2>1. PICK new : job' = [job EXCEPT ![j].left = new] BY <1>30 DEF ListRemaining
  <2>2. job'[j].op = job[j].op BY <1>j, <2>1 DEF TypeOK, Job
  <2> QED BY <1>30, <1>1, <1>2, <2>2 DEF ListRemaining
<1>20. CASE DropMetrics(j)
  <2>1. PICK p : PeriodDone(j, p, {}) BY <1>20 DEF DropMetrics
  <2>2. pc[j] = "metrics" BY <1>20 DEF DropMetrics
  <2> QED BY <2>1, <2>2, PeriodDonePlaced
<1>21. CASE ClearInsights(j) BY <1>21, <1>1, <1>2 DEF ClearInsights
<1>22. CASE FinishDelete(j) BY <1>22, <1>1, <1>2 DEF FinishDelete
<1>23. CASE FinishReExtract(j) BY <1>23, <1>1, <1>2 DEF FinishReExtract
<1>24. CASE Schedule(j)
  BY <1>j, <1>24 DEF Schedule, Idle, PlacedAt, Readers, ReaderPCs, TypeOK
<1>25. CASE PriorPeriod(j)
  <2>1. PICK latest : /\ \A p, q \in latest : p <= q
                      /\ latest \subseteq PeriodsOf(rows)
                      /\ job' = [job EXCEPT ![j].todo = latest]
                      /\ Goto(j, IF latest = {} THEN "llm" ELSE "look")
    <3> DEFINE earlier == {q \in PeriodsOf(rows) : q < job[j].target}
               latest == {q \in earlier : \A x \in earlier : x <= q}
    <3>1. \A p, q \in latest : p <= q OBVIOUS
    <3>2. latest \subseteq PeriodsOf(rows) OBVIOUS
    <3>3. /\ job' = [job EXCEPT ![j].todo = latest]
          /\ Goto(j, IF latest = {} THEN "llm" ELSE "look")
      BY <1>25 DEF PriorPeriod
    <3> HIDE DEF latest
    <3> QED BY <3>1, <3>2, <3>3
  <2>2. pc[j] = "prior" BY <1>25 DEF PriorPeriod
  <2>3. latest \subseteq Int
    BY <2>1, IdsTyped, PeriodsArePositive DEF TypeOK
  <2>4. \A p, q \in latest : p = q BY <2>1, <2>3
  <2>5. /\ pc'[j] \in {"llm", "look"} /\ job'[j].op = job[j].op
        /\ job'[j].target = job[j].target /\ job'[j].aud = job[j].aud
        /\ job'[j].todo = latest
    BY <1>j, <2>1 DEF TypeOK, Job
  <2> QED BY <1>j, <2>2, <2>4, <2>5 DEF PlacedAt, ReaderPCs
<1>26. CASE NarrativeDelete(j)
  BY <1>j, <1>26 DEF NarrativeDelete, PlacedAt, ReaderPCs, TypeOK
<1>27. CASE NarrativeSave(j)
  BY <1>j, <1>27 DEF NarrativeSave, PlacedAt, ReaderPCs, TypeOK
<1>28. CASE Refuse(j) BY <1>28, <1>e DEF Refuse, Raise
<1>29. CASE Close(j) BY <1>29, <1>e DEF Close
<1> QED BY <1>3, <1>4, <1>5, <1>6, <1>7, <1>8, <1>9, <1>10, <1>11, <1>12, <1>13, <1>14, <1>15,
           <1>16, <1>17, <1>18, <1>19, <1>20, <1>21, <1>22, <1>23, <1>24, <1>25, <1>26, <1>27,
           <1>28, <1>29, <1>30 DEF Step

(* A session opens where its kind of request starts.                        *)
LEMMA RequestPlaced ==
  ASSUME TypeOK, NEW j \in Jobs, Request(j)
  PROVE  PlacedAt(pc'[j], job'[j])
<1> USE DEF TypeOK, Goto, Idle
<1>1. ASSUME NEW l, NEW J, pc'[j] = l, job'[j] = J, J.op \notin Readers \cup {"none"},
             l \in {"saved", "drows", "refresh", "insert"}
      PROVE  PlacedAt(pc'[j], job'[j])
  BY <1>1 DEF PlacedAt, Readers
<1>2. ASSUME NEW d \in Docs, Upload(j, d) PROVE PlacedAt(pc'[j], job'[j])
  <2>1. pc'[j] = "saved" /\ job'[j].op = "extract" BY <1>2 DEF Upload
  <2> QED BY <2>1, <1>1 DEF Readers
<1>3. ASSUME NEW d \in Docs, DeleteFile(j, d) PROVE PlacedAt(pc'[j], job'[j])
  <2>1. pc'[j] = "drows" /\ job'[j].op = "delete" BY <1>3 DEF DeleteFile
  <2> QED BY <2>1, <1>1 DEF Readers
<1>4. ASSUME NEW d \in Docs, ReExtract(j, d) PROVE PlacedAt(pc'[j], job'[j])
  <2>1. pc'[j] = "drows" BY <1>4 DEF ReExtract
  <2>2. job'[j].op = "reextract" BY <1>4 DEF ReExtract
  <2> QED BY <2>1, <2>2, <1>1 DEF Readers
<1>5. CASE ViewMetrics(j) BY <1>5 DEF ViewMetrics, PlacedAt, Readers, ReaderPCs
<1>6. CASE Override(j)
  <2>1. pc'[j] = "refresh" /\ job'[j].op = "override" BY <1>6 DEF Override
  <2> QED BY <2>1, <1>1 DEF Readers
<1>7. CASE AddCheck(j) BY <1>1, <1>7 DEF AddCheck, Readers
<1>8. CASE Narrate(j) BY <1>8 DEF Narrate, PlacedAt, Readers, ReaderPCs
<1> QED BY <1>2, <1>3, <1>4, <1>5, <1>6, <1>7, <1>8 DEF Request

(* The three kinds of step a session takes, and those that are no session's.*)
LEMMA NextCases ==
  ASSUME Next
  PROVE  \/ \E j \in Jobs : Request(j) \/ Step(j) \/ Raise(j)
         \/ \E d \in Docs : GenerateReport(d)
         \/ \E i \in insights : EditInsight(i)
         \/ Crash
  BY DEF Next, Fail

LEMMA RaisePlaced ==
  ASSUME TypeOK, NEW j \in Jobs, Raise(j)
  PROVE  pc'[j] = "idle" /\ job'[j] = Idle /\ PlacedAt(pc'[j], job'[j])
  BY DEF Raise, End, Idle, PlacedAt, Readers, ReaderPCs, TypeOK

LEMMA NextPlaced == TypeOK /\ Placed /\ [Next]_vars => Placed'
<1> SUFFICES ASSUME TypeOK, Placed, [Next]_vars PROVE Placed' OBVIOUS
<1>1. ASSUME NEW j \in Jobs, Request(j) \/ Step(j) \/ Raise(j) PROVE Placed'
  <2>1. PlacedAt(pc'[j], job'[j]) BY <1>1, RequestPlaced, StepPlaced, RaisePlaced
  <2>2. \A k \in Jobs \ {j} : pc'[k] = pc[k] /\ job'[k] = job[k] BY <1>1, OthersKept
  <2>3. \A k \in Jobs \ {j} : PlacedAt(pc'[k], job'[k]) BY <2>2 DEF Placed
  <2>4. \A k \in Jobs : PlacedAt(pc'[k], job'[k]) BY <2>1, <2>3
  <2> QED BY <2>4 DEF Placed, PlacedAt, Nexts
<1>2. CASE UNCHANGED <<pc, job>> BY <1>2 DEF Placed, PlacedAt, Nexts
<1>3. CASE Crash
  BY <1>3 DEF Crash, Placed, PlacedAt, Idle, Readers, ReaderPCs
<1>4. ASSUME NEW d, GenerateReport(d) PROVE UNCHANGED <<pc, job>>
  BY <1>4 DEF GenerateReport
<1>5. ASSUME NEW i, EditInsight(i) PROVE UNCHANGED <<pc, job>>
  BY <1>5 DEF EditInsight
<1>6. CASE UNCHANGED vars BY <1>2, <1>6 DEF vars
<1> QED BY <1>1, <1>2, <1>3, <1>4, <1>5, <1>6, NextCases

LEMMA InitTyped == Init => TypeOK /\ Placed
<1> SUFFICES ASSUME Init PROVE TypeOK /\ Placed OBVIOUS
<1>1. PICK seed \in Seeds :
        /\ docs = [d \in Docs |-> IF d \in seed.stored THEN "extracted" ELSE "absent"]
        /\ files = seed.stored
        /\ rows = seed.rows
  BY DEF Init
<1>2. files \subseteq Docs /\ rows \subseteq Row BY <1>1, SeedsAreStatements
<1>3. docs \in [Docs -> DocStatuses] BY <1>1 DEF DocStatuses
<1>4. TypeOK
  BY <1>2, <1>3, IdleTyped, NoTxTyped DEF Init, TypeOK, PCs
<1>5. Placed BY DEF Init, Placed, PlacedAt, Idle, Readers, ReaderPCs
<1> QED BY <1>4, <1>5

LEMMA TypePlaced == Spec => [](TypeOK /\ Placed)
<1>1. Init => TypeOK /\ Placed BY InitTyped
<1>2. TypeOK /\ Placed /\ [Next]_vars => (TypeOK /\ Placed)' BY NextTyped, NextPlaced
<1> QED BY <1>1, <1>2, PTL DEF Spec

(* Documents, statements, metrics, narratives and sessions keep their types,*)
(* whatever is requested, fails or crashes.                                 *)
THEOREM TypeCorrect == Spec => []TypeOK
  BY TypePlaced, PTL

-----------------------------------------------------------------------------
(* The advisory lock: a reader that recomputes a period holds its lock     *)
(* until it commits.                                                        *)

(* A reader between its second look and its commit.                         *)
Recomputing(j) == job[j].op \in Readers /\ pc[j] \in {"metrics", "mdelete", "mcommit"}

LocksHeld == \A j \in Jobs : Recomputing(j) => lock[job[j].cur] = j

-----------------------------------------------------------------------------
(* The lock is held *)

LEMMA RequestOutside ==
  ASSUME TypeOK, NEW j \in Jobs, Request(j)
  PROVE  ~Recomputing(j)'
<1> USE DEF TypeOK, Goto, Idle, Recomputing
<1>1. ASSUME NEW d \in Docs, Upload(j, d) PROVE pc'[j] = "saved" BY <1>1 DEF Upload
<1>2. ASSUME NEW d \in Docs, DeleteFile(j, d) PROVE pc'[j] = "drows" BY <1>2 DEF DeleteFile
<1>3. ASSUME NEW d \in Docs, ReExtract(j, d) PROVE job'[j].op = "reextract"
  BY <1>3 DEF ReExtract
<1>4. CASE ViewMetrics(j) BY <1>4 DEF ViewMetrics
<1>5. CASE Override(j) BY <1>5 DEF Override
<1>6. CASE AddCheck(j) BY <1>6 DEF AddCheck
<1>7. CASE Narrate(j) BY <1>7 DEF Narrate
<1> QED BY <1>1, <1>2, <1>3, <1>4, <1>5, <1>6, <1>7 DEF Request, Readers

(* A reader done with a period has left the critical section.               *)
LEMMA PeriodDoneOutside ==
  ASSUME TypeOK, NEW j \in Jobs, NEW p, NEW found, PeriodDone(j, p, found)
  PROVE  ~Recomputing(j)'
<1>1. job'[j].op = job[j].op /\ pc'[j] = AfterPeriod(j, p)
  BY DEF PeriodDone, Goto, TypeOK, Job
<1>2. CASE job[j].op \in Readers
  <2>1. AfterPeriod(j, p) \in {"done", "look", "prior", "llm"}
    BY <1>2 DEF AfterPeriod, Readers, Clearing
  <2> QED BY <1>1, <2>1 DEF Recomputing
<1>3. CASE job[j].op \notin Readers BY <1>1, <1>3 DEF Recomputing
<1> QED BY <1>2, <1>3

(* How a session comes to be recomputing: by taking the lock, or by going   *)
(* on with the period it has looked up.                                     *)
LEMMA StepsRecomputing ==
  ASSUME TypeOK, Placed, NEW j \in Jobs, Step(j), Recomputing(j)'
  PROVE  /\ job[j].op \in Readers /\ job'[j].cur = job[j].cur
         /\ \/ TakeLock(j) /\ lock'[job[j].cur] = j /\ BatchesOf(job[j].cur) = {}
               /\ pc'[j] = "metrics" /\ UNCHANGED tx
            \/ Recomputing(j) /\ ComputeRead(j) /\ UNCHANGED lock /\ UNCHANGED tx
            \/ Recomputing(j) /\ ComputeDelete(j) /\ UNCHANGED lock
<1> USE DEF TypeOK, Goto, tables
<1>p. PlacedAt(pc[j], job[j]) /\ job[j] \in Job BY DEF Placed
<1>1. CASE TakeLock(j)
  <2> DEFINE p == job[j].cur
  <2>1. CASE PeriodDone(j, p, IdsOf(BatchesOf(p))) BY <2>1, PeriodDoneOutside
  <2>2. CASE BatchesOf(p) = {} /\ Goto(j, "metrics") /\ UNCHANGED job
    <3>1. job[j].op \in Readers BY <2>2 DEF Recomputing
    <3>2. pc[j] = "lock" /\ lock' = [lock EXCEPT ![p] = j] /\ UNCHANGED tx
      BY <1>1 DEF TakeLock
    <3>3. p \in Nexts(job[j]) BY <1>p, <3>1, <3>2 DEF PlacedAt
    <3>4. p \in Periods BY <1>p, <3>3 DEF Nexts, Job
    <3> QED BY <1>1, <2>2, <3>1, <3>2, <3>4
  <2> QED BY <1>1, <2>1, <2>2 DEF TakeLock
<1>2. CASE ComputeRead(j)
  <2>1. UNCHANGED <<lock, tx>> /\ pc[j] = "metrics" BY <1>2 DEF ComputeRead
  <2>2. PICK p \in Upcoming(j) :
          \/ PeriodDone(j, p, {})
          \/ \E T : job' = [job EXCEPT ![j].cur = p, ![j].basis = FiguresFor(p, T)]
    BY <1>2 DEF ComputeRead
  <2>3. PICK T : job' = [job EXCEPT ![j].cur = p, ![j].basis = FiguresFor(p, T)]
    BY <2>2, PeriodDoneOutside
  <2>4. job'[j].op = job[j].op /\ job'[j].cur = p BY <1>p, <2>3 DEF Job
  <2>5. job[j].op \in Readers BY <2>4 DEF Recomputing
  <2>6. job[j].cur \in Nexts(job[j]) BY <1>p, <2>1, <2>5 DEF PlacedAt
  <2>7. p \in Nexts(job[j]) BY UpcomingIsNexts
  <2>8. p = job[j].cur BY <1>p, <2>5, <2>6, <2>7, NextsUnique DEF PlacedAt
  <2> QED BY <1>2, <2>1, <2>4, <2>5, <2>8 DEF Recomputing
<1>3. CASE ComputeDelete(j)
  <2>1. UNCHANGED <<lock, job>> /\ pc[j] = "mdelete" BY <1>3 DEF ComputeDelete
  <2> QED BY <1>3, <2>1 DEF Recomputing
<1>4. CASE ComputeCommit(j)
  <2>1. PICK p, found : PeriodDone(j, p, found) BY <1>4 DEF ComputeCommit
  <2> QED BY <2>1, PeriodDoneOutside
<1>5. CASE Look(j)
  <2>1. PICK p \in Upcoming(j) :
          PeriodDone(j, p, IdsOf(BatchesOf(p))) \/ Goto(j, "lock")
    BY <1>5 DEF Look
  <2>2. pc'[j] = "lock" BY <2>1, PeriodDoneOutside
  <2> QED BY <2>2 DEF Recomputing
<1>6. CASE Refuse(j) \/ Close(j)
  <2>1. End(j) BY <1>6 DEF Refuse, Raise, Close
  <2>2. pc'[j] = "idle" BY <2>1 DEF End
  <2> QED BY <2>2 DEF Recomputing
<1>7. CASE PriorPeriod(j) \/ NarrativeDelete(j) \/ NarrativeSave(j)
  <2>1. pc'[j] \in {"llm", "look", "isave", "done"}
    BY <1>7 DEF PriorPeriod, NarrativeDelete, NarrativeSave
  <2> QED BY <2>1 DEF Recomputing
<1>8. CASE DropMetrics(j)
  <2>1. PICK p : PeriodDone(j, p, {}) BY <1>8 DEF DropMetrics
  <2> QED BY <2>1, PeriodDoneOutside
<1>9. CASE UploadCommit(j) \/ StartRun(j) \/ Fetch(j) \/ Score(j) \/ Invalidate(j) \/ DeleteRows(j)
           \/ DeleteDoc(j) \/ FinishDelete(j) \/ FinishReExtract(j) \/ Schedule(j)
           \/ AddInsert(j) \/ Refresh(j) \/ Persist(j) \/ ValidationRead(j)
  <2>1. pc'[j] \notin {"metrics", "mdelete", "mcommit"}
    BY <1>9
       DEF UploadCommit, StartRun, Fetch, Score, Invalidate, DeleteRows, DeleteDoc,
           AfterClearing, FinishDelete, FinishReExtract, Schedule, AddInsert, Refresh, Persist,
           ValidationRead
  <2> QED BY <2>1 DEF Recomputing
<1>10. CASE ValidationCommit(j) \/ ListRemaining(j) \/ ClearInsights(j)
  <2>1. pc[j] \in {"vcommit", "remain", "iclear"}
    BY <1>10 DEF ValidationCommit, ListRemaining, ClearInsights
  <2>2. job[j].op \notin Readers BY <1>p, <2>1 DEF PlacedAt, ReaderPCs
  <2>3. job'[j].op = job[j].op
    <3>1. CASE ValidationCommit(j)
      <4>1. job' = [job EXCEPT ![j].marks = {}, ![j].anchors = {}, ![j].seen = {}]
        BY <3>1 DEF ValidationCommit
      <4> QED BY <1>p, <4>1 DEF Job
    <3>2. CASE ListRemaining(j) BY <1>p, <3>2 DEF ListRemaining, Job
    <3>3. CASE ClearInsights(j) BY <3>3 DEF ClearInsights
    <3> QED BY <1>10, <3>1, <3>2, <3>3
  <2> QED BY <2>2, <2>3 DEF Recomputing
<1> QED BY <1>1, <1>2, <1>3, <1>4, <1>5, <1>6, <1>7, <1>8, <1>9, <1>10 DEF Step

LEMMA RecomputingPeriod ==
  ASSUME TypeOK, Placed, NEW j \in Jobs, Recomputing(j)
  PROVE  job[j].cur \in Periods
<1>1. PlacedAt(pc[j], job[j]) /\ job[j] \in Job BY DEF Placed, TypeOK
<1>2. CASE pc[j] = "metrics"
  <2>1. job[j].cur \in Nexts(job[j]) BY <1>1, <1>2 DEF PlacedAt, Recomputing
  <2> QED BY <1>1, <2>1 DEF Nexts, Job
<1>3. CASE pc[j] # "metrics" BY <1>1, <1>3 DEF PlacedAt, Recomputing
<1> QED BY <1>2, <1>3

LEMMA LocksHeldNext == TypeOK /\ Placed /\ LocksHeld /\ [Next]_vars => LocksHeld'
<1> SUFFICES ASSUME TypeOK, Placed, LocksHeld, [Next]_vars PROVE LocksHeld' OBVIOUS
<1>1. ASSUME NEW j \in Jobs, Request(j) \/ Step(j) \/ Raise(j) PROVE LocksHeld'
  <2>1. ASSUME NEW k \in Jobs \ {j}, Recomputing(k)' PROVE lock'[job'[k].cur] = k
    <3>1. /\ pc'[k] = pc[k] /\ job'[k] = job[k]
          /\ \A p \in Periods : lock[p] = k => lock'[p] = k
      BY <1>1, OthersKept
    <3>2. Recomputing(k) BY <2>1, <3>1 DEF Recomputing
    <3> QED BY <3>1, <3>2, RecomputingPeriod DEF LocksHeld
  <2>2. ASSUME Recomputing(j)' PROVE lock'[job'[j].cur] = j
    <3>1. ~Request(j) BY <2>2, RequestOutside
    <3>2. ~Raise(j) BY <2>2, RaisePlaced DEF Recomputing
    <3>3. Step(j) BY <1>1, <3>1, <3>2
    <3> QED BY <2>2, <3>3, StepsRecomputing DEF LocksHeld
  <2> QED BY <2>1, <2>2 DEF LocksHeld
<1>2. CASE UNCHANGED <<pc, job, lock>> BY <1>2 DEF LocksHeld, Recomputing
<1>3. CASE Crash
  <2>1. \A j \in Jobs : pc'[j] = "idle" BY <1>3 DEF Crash
  <2> QED BY <2>1 DEF LocksHeld, Recomputing
<1>4. ASSUME NEW d, GenerateReport(d) PROVE UNCHANGED <<pc, job, lock>>
  BY <1>4 DEF GenerateReport
<1>5. ASSUME NEW i, EditInsight(i) PROVE UNCHANGED <<pc, job, lock>>
  BY <1>5 DEF EditInsight
<1>6. CASE UNCHANGED vars BY <1>2, <1>6 DEF vars
<1> QED BY <1>1, <1>2, <1>3, <1>4, <1>5, <1>6, NextCases

LEMMA LocksHeldAlways == Spec => []LocksHeld
<1>1. Init => LocksHeld BY DEF Init, LocksHeld, Recomputing
<1> QED BY <1>1, LocksHeldNext, TypePlaced, PTL DEF Spec

(* From its second look to its commit, a reader that recomputes a period    *)
(* holds that period's advisory lock, whatever it and the others commit.    *)
THEOREM ReadersAreExclusive == Spec => []ReaderHoldsLock
<1>1. LocksHeld => ReaderHoldsLock BY DEF LocksHeld, ReaderHoldsLock, Recomputing, Readers
<1> QED BY <1>1, LocksHeldAlways, PTL

-----------------------------------------------------------------------------
(* Readers among themselves *)

(* The clients only read, edit narratives and ask for accuracy reports.     *)
ReadersOnly == Requests \subseteq {"view", "insight", "edit", "accuracy"}

(* No session drops metrics, and a period being recomputed has none.        *)
Calm ==
  /\ NoDuplicateBatches
  /\ \A j \in Jobs : /\ job[j].op \in Readers \cup {"none"}
                     /\ tx[j].drop = {}
                     /\ Recomputing(j) => BatchesOf(job[j].cur) = {}

LEMMA ReaderSteps ==
  ASSUME TypeOK, Placed, NEW j \in Jobs, Step(j), job[j].op \in Readers \cup {"none"}
  PROVE  \/ TakeLock(j) \/ Look(j) \/ ComputeRead(j) \/ ComputeDelete(j) \/ ComputeCommit(j)
         \/ PriorPeriod(j) \/ NarrativeDelete(j) \/ NarrativeSave(j) \/ Refuse(j) \/ Close(j)
<1>1. pc[j] \in ReaderPCs \cup {"idle"} BY DEF Placed, PlacedAt
<1>2. ASSUME \/ UploadCommit(j) \/ StartRun(j) \/ Fetch(j) \/ Persist(j) \/ Score(j)
             \/ ValidationRead(j) \/ ValidationCommit(j) \/ AddInsert(j) \/ Refresh(j)
             \/ Invalidate(j) \/ DeleteRows(j) \/ DeleteDoc(j) \/ ListRemaining(j)
             \/ ClearInsights(j) \/ FinishDelete(j) \/ FinishReExtract(j) \/ Schedule(j)
      PROVE  pc[j] \notin ReaderPCs \cup {"idle"}
  BY <1>2
     DEF UploadCommit, StartRun, Fetch, Persist, Score, ValidationRead, ValidationCommit,
         AddInsert, Refresh, Invalidate, DeleteRows, DeleteDoc, ListRemaining, ClearInsights,
         FinishDelete, FinishReExtract, Schedule, ReaderPCs
<1>3. ~DropMetrics(j) BY DEF DropMetrics, Clearing, Readers
<1> QED BY <1>1, <1>2, <1>3 DEF Step

(* What a reader leaves behind: its kind of request, no metrics dropped and *)
(* at most one batch more, of the period it was recomputing.                *)
LEMMA ReaderKeeps ==
  ASSUME TypeOK, Placed, Calm, NEW j \in Jobs, Step(j) \/ Raise(j)
  PROVE  /\ job'[j].op \in Readers \cup {"none"} /\ tx'[j].drop = {}
         /\ \/ metrics' = metrics
            \/ /\ Recomputing(j) /\ ~Recomputing(j)'
               /\ \E b : b.period = job[j].cur /\ metrics' = metrics \cup {b}
<1> USE DEF TypeOK, Goto, tables
<1>p. PlacedAt(pc[j], job[j]) /\ job[j] \in Job BY DEF Placed
<1>o. job[j].op \in Readers \cup {"none"} /\ tx[j].drop = {} BY DEF Calm
<1>d. ASSUME NEW p, NEW found, PeriodDone(j, p, found) PROVE job'[j].op = job[j].op
  BY <1>d, <1>p DEF PeriodDone, Job
<1>c. ASSUME NEW batch, NEW note, Commit(j, batch, note)
      PROVE  tx'[j].drop = {} /\ metrics' = metrics \cup batch
  BY <1>c, <1>o DEF Commit, NoTx
<1>e. ASSUME End(j) PROVE job'[j].op = "none" /\ tx'[j].drop = {}
  BY <1>e DEF End, Idle, NoTx
<1>1. CASE TakeLock(j) BY <1>1, <1>o, <1>d DEF TakeLock
<1>2. CASE Look(j)
  <2>1. tx' = tx /\ metrics' = metrics BY <1>2 DEF Look
  <2>2. PICK p \in Upcoming(j) :
          \/ PeriodDone(j, p, IdsOf(BatchesOf(p)))
          \/ job' = [job EXCEPT ![j].cur = p]
    BY <1>2 DEF Look
  <2>3. job'[j].op = job[j].op BY <2>2, <1>d, <1>p DEF Job
  <2> QED BY <2>1, <2>3, <1>o
<1>3. CASE ComputeRead(j)
  <2>1. tx' = tx /\ metrics' = metrics BY <1>3 DEF ComputeRead
  <2>2. PICK p \in Upcoming(j) :
          \/ PeriodDone(j, p, {})
          \/ \E T : job' = [job EXCEPT ![j].cur = p, ![j].basis = FiguresFor(p, T)]
    BY <1>3 DEF ComputeRead
  <2>3. job'[j].op = job[j].op
    <3>1. CASE PeriodDone(j, p, {}) BY <3>1, <1>d
    <3>2. CASE \E T : job' = [job EXCEPT ![j].cur = p, ![j].basis = FiguresFor(p, T)]
      <4>1. PICK T : job' = [job EXCEPT ![j].cur = p, ![j].basis = FiguresFor(p, T)] BY <3>2
      <4> QED BY <4>1, <1>p DEF Job
    <3> QED BY <2>2, <3>1, <3>2
  <2> QED BY <2>1, <2>3, <1>o
<1>4. CASE ComputeDelete(j)
  <2>1. Recomputing(j)
    <3>1. pc[j] = "mdelete" BY <1>4 DEF ComputeDelete
    <3>2. job[j].op # "none" BY <1>p, <3>1 DEF PlacedAt
    <3> QED BY <3>1, <3>2, <1>o DEF Recomputing
  <2>2. IdsOf(BatchesOf(job[j].cur)) = {} BY <2>1 DEF Calm, IdsOf
  <2>3. tx'[j].drop = {} BY <1>4, <2>2, <1>o DEF ComputeDelete, Tx
  <2> QED BY <1>4, <2>3, <1>o DEF ComputeDelete
<1>5. CASE ComputeCommit(j)
  <2> DEFINE b == [id |-> clock + 1, period |-> job[j].cur, basis |-> job[j].basis]
  <2>1. /\ Commit(j, {b}, {}) /\ PeriodDone(j, job[j].cur, {clock + 1})
        /\ pc[j] = "mcommit"
    BY <1>5 DEF ComputeCommit
  <2>2. job[j].op # "none" BY <1>p, <2>1 DEF PlacedAt
  <2>3. Recomputing(j) BY <2>1, <2>2, <1>o DEF Recomputing
  <2>4. ~Recomputing(j)' BY <2>1, PeriodDoneOutside
  <2>5. b.period = job[j].cur OBVIOUS
  <2> HIDE DEF b
  <2>6. tx'[j].drop = {} /\ metrics' = metrics \cup {b} BY <2>1, <1>c
  <2> QED BY <2>1, <2>3, <2>4, <2>5, <2>6, <1>d, <1>o
<1>6. CASE PriorPeriod(j)
  <2>1. PICK latest : job' = [job EXCEPT ![j].todo = latest] BY <1>6 DEF PriorPeriod
  <2>2. job'[j].op = job[j].op BY <2>1, <1>p DEF Job
  <2> QED BY <1>6, <2>2, <1>o DEF PriorPeriod
<1>7. CASE NarrativeDelete(j)
  <2>1. tx'[j].drop = tx[j].drop BY <1>7 DEF NarrativeDelete, Tx
  <2> QED BY <1>7, <2>1, <1>o DEF NarrativeDelete
<1>8. CASE NarrativeSave(j)
  <2>1. PICK note : Commit(j, {}, note) /\ UNCHANGED job BY <1>8 DEF NarrativeSave
  <2>2. tx'[j].drop = {} /\ metrics' = metrics BY <2>1, <1>c
  <2> QED BY <2>1, <2>2, <1>o
<1>9. CASE Raise(j) BY <1>9, <1>e DEF Raise
<1>10. CASE Close(j) BY <1>10, <1>e DEF Close
<1>11. CASE Refuse(j) BY <1>11, <1>9 DEF Refuse
<1> QED BY <1>o, <1>1, <1>2, <1>3, <1>4, <1>5, <1>6, <1>7, <1>8, <1>9, <1>10, <1>11, ReaderSteps

LEMMA ReaderRequests ==
  ASSUME ReadersOnly, TypeOK, Calm, NEW j \in Jobs, Request(j)
  PROVE  job'[j].op \in Readers /\ UNCHANGED <<tx, metrics>>
<1> USE DEF TypeOK, Goto, tables, ReadersOnly, Open, Idle
<1>1. ViewMetrics(j) \/ Narrate(j)
  BY DEF Request, Upload, DeleteFile, ReExtract, Override, AddCheck
<1>2. CASE ViewMetrics(j) BY <1>2 DEF ViewMetrics, Readers
<1>3. CASE Narrate(j) BY <1>3 DEF Narrate, Readers
<1> QED BY <1>1, <1>2, <1>3

LEMMA CalmNext ==
  ASSUME ReadersOnly, TypeOK, Placed, LocksHeld, Calm, [Next]_vars
  PROVE  Calm' /\ metrics \subseteq metrics'
<1>1. ASSUME NEW j \in Jobs, Request(j) \/ Step(j) \/ Raise(j)
      PROVE  Calm' /\ metrics \subseteq metrics'
  <2>1. ASSUME NEW k \in Jobs \ {j}
        PROVE  /\ pc'[k] = pc[k] /\ job'[k] = job[k] /\ tx'[k] = tx[k]
               /\ Recomputing(k)' <=> Recomputing(k)
    BY <1>1, <2>1, OthersKept DEF Recomputing
  <2>2. job'[j].op \in Readers \cup {"none"} /\ tx'[j].drop = {}
    BY <1>1, ReaderRequests, ReaderKeeps DEF Calm
  <2>3. CASE metrics' = metrics
    <3>1. Recomputing(j)' => BatchesOf(job[j].cur)' = {}
      <4> SUFFICES ASSUME Recomputing(j)' PROVE BatchesOf(job[j].cur)' = {} OBVIOUS
      <4>1. Step(j) BY <1>1, RequestOutside, RaisePlaced DEF Recomputing
      <4>2. job'[j].cur = job[j].cur /\ BatchesOf(job[j].cur) = {}
        BY <4>1, StepsRecomputing DEF Calm
      <4> QED BY <2>3, <4>2 DEF BatchesOf
    <3>2. \A k \in Jobs \ {j} : Recomputing(k)' => BatchesOf(job[k].cur)' = {}
      BY <2>1, <2>3 DEF Calm, BatchesOf
    <3>3. NoDuplicateBatches' BY <2>3 DEF Calm, NoDuplicateBatches
    <3>4. \A k \in Jobs : job'[k].op \in Readers \cup {"none"} /\ tx'[k].drop = {}
      BY <2>1, <2>2 DEF Calm
    <3> QED BY <2>3, <3>1, <3>2, <3>3, <3>4 DEF Calm
  <2>4. CASE metrics' # metrics
    <3>1. Step(j) \/ Raise(j) BY <1>1, <2>4, ReaderRequests
    <3>2. PICK b : /\ Recomputing(j) /\ ~Recomputing(j)'
                   /\ b.period = job[j].cur /\ metrics' = metrics \cup {b}
      BY <2>4, <3>1, ReaderKeeps
    <3>3. \A c \in metrics : c.period # b.period BY <3>2 DEF Calm, BatchesOf
    <3>4. NoDuplicateBatches' BY <3>2, <3>3 DEF Calm, NoDuplicateBatches
    <3>5. ASSUME NEW k \in Jobs, Recomputing(k)' PROVE BatchesOf(job[k].cur)' = {}
      <4>1. k # j BY <3>2, <3>5
      <4>2. Recomputing(k) /\ job'[k].cur = job[k].cur BY <2>1, <3>5, <4>1
      <4>3. lock[job[k].cur] = k /\ lock[job[j].cur] = j BY <3>2, <4>2 DEF LocksHeld
      <4>4. job[k].cur # b.period BY <3>2, <4>1, <4>3
      <4>5. BatchesOf(job[k].cur) = {} BY <4>2 DEF Calm
      <4> QED BY <3>2, <4>2, <4>4, <4>5 DEF BatchesOf
    <3>6. \A k \in Jobs : job'[k].op \in Readers \cup {"none"} /\ tx'[k].drop = {}
      BY <2>1, <2>2 DEF Calm
    <3> QED BY <3>2, <3>4, <3>5, <3>6 DEF Calm
  <2> QED BY <2>3, <2>4
<1>2. CASE UNCHANGED <<pc, job, tx, metrics>>
  BY <1>2 DEF Calm, NoDuplicateBatches, Recomputing, BatchesOf
<1>3. CASE Crash
  <2>1. metrics' = metrics /\ \A j \in Jobs : /\ pc'[j] = "idle" /\ job'[j].op = "none"
                                              /\ tx'[j].drop = {}
    BY <1>3 DEF Crash, tables, Idle, NoTx
  <2> QED BY <2>1 DEF Calm, NoDuplicateBatches, Recomputing
<1>4. ASSUME NEW d, GenerateReport(d) PROVE UNCHANGED <<pc, job, tx, metrics>>
  BY <1>4 DEF GenerateReport
<1>5. ASSUME NEW i, EditInsight(i) PROVE UNCHANGED <<pc, job, tx, metrics>>
  BY <1>5 DEF EditInsight
<1>6. CASE UNCHANGED vars BY <1>2, <1>6 DEF vars
<1> QED BY <1>1, <1>2, <1>3, <1>4, <1>5, <1>6, NextCases

LEMMA CalmAlways ==
  ASSUME ReadersOnly
  PROVE  Spec => []Calm /\ [][metrics \subseteq metrics']_vars
<1>1. Init => Calm BY DEF Init, Calm, NoDuplicateBatches, Recomputing, Idle, NoTx
<1>2. TypeOK /\ Placed /\ LocksHeld /\ Calm /\ [Next]_vars => Calm' BY CalmNext
<1>3. TypeOK /\ Placed /\ LocksHeld /\ Calm /\ [Next]_vars => [metrics \subseteq metrics']_vars
  BY CalmNext
<1> QED BY <1>1, <1>2, <1>3, TypePlaced, LocksHeldAlways, PTL DEF Spec

(* Readers alone never cache a period's metrics twice, however many of them *)
(* find the period uncomputed at once.                                      *)
THEOREM ReadersComputeOnce ==
  ASSUME ReadersOnly PROVE Spec => []NoDuplicateBatches
<1>1. Calm => NoDuplicateBatches BY DEF Calm
<1> QED BY <1>1, CalmAlways, PTL

-----------------------------------------------------------------------------
(* Readers fill the cache *)

(* Readers hold no statements and delete none.                              *)
Steady == \A j \in Jobs : tx[j].gone = {} /\ ~tx[j].docGone /\ job[j].mem = {}

Answered(j) ==
  Recomputing(j) /\ pc[j] # "metrics" => job[j].basis \in Answers(job[j].cur)

LEMMA SteadyEligible ==
  ASSUME NEW j \in Jobs, tx[j].gone = {}, job[j].mem = {}
  PROVE  Eligible(j) = {r \in rows : r.status # NEEDS_REVIEW}
<1>1. Visible(j) = rows BY DEF Visible
<1>2. \A r : Held(j, r) = {} BY DEF Held
<1>3. \A S : Loaded(j, S) = S
  <2> TAKE S
  <2>1. Loaded(j, S) = {IF Held(j, r) = {} THEN r ELSE CHOOSE m \in Held(j, r) : TRUE : r \in S}
    BY DEF Loaded
  <2> QED BY <1>2, <2>1
<1> QED BY <1>1, <1>3 DEF Eligible

(* A period with statements that passed has them in every resolution.       *)
LEMMA ResolvedAnswers ==
  ASSUME NEW p, NEW T \in Resolutions({r \in rows : r.status # NEEDS_REVIEW}),
         p \in PeriodsOf({r \in rows : r.status # NEEDS_REVIEW})
  PROVE  FiguresFor(p, T) \in Answers(p)
<1> DEFINE passed == {r \in rows : r.status # NEEDS_REVIEW}
<1>1. PICK r \in passed : r.period = p BY DEF PeriodsOf
<1>2. PICK t \in T : \A u \in T : SameFigure(u, r) <=> u = t BY <1>1 DEF Resolutions
<1>3. SameFigure(t, r) BY <1>2
<1>4. p \in PeriodsOf(T) BY <1>1, <1>2, <1>3 DEF SameFigure, PeriodsOf
<1> QED BY <1>4 DEF Answers

LEMMA SteadyCommit ==
  ASSUME NEW j \in Jobs, TypeOK, Steady, NEW batch, NEW note, Commit(j, batch, note)
  PROVE  rows' = rows /\ tx'[j].gone = {} /\ ~tx'[j].docGone
<1>1. Visible(j) = rows /\ ~tx[j].docGone BY DEF Steady, Visible
<1>2. tx'[j] = NoTx BY DEF Commit, TypeOK
<1>3. rows' = rows BY <1>1 DEF Commit
<1> QED BY <1>2, <1>3 DEF NoTx

(* What a reader leaves behind: the statements as they were, and one batch  *)
(* at most, of figures that they give.                                      *)
LEMMA ReaderFills ==
  ASSUME TypeOK, Placed, Calm, Steady, NEW j \in Jobs, Answered(j), Step(j) \/ Raise(j)
  PROVE  /\ rows' = rows /\ Answered(j)'
         /\ tx'[j].gone = {} /\ ~tx'[j].docGone /\ job'[j].mem = {}
         /\ \/ metrics' = metrics
            \/ /\ Recomputing(j)
               /\ \E b : /\ b.period = job[j].cur /\ b.basis \in Answers(job[j].cur)
                        /\ metrics' = metrics \cup {b}
<1> USE DEF TypeOK, Goto, tables
<1>p. PlacedAt(pc[j], job[j]) /\ job[j] \in Job BY DEF Placed
<1>o. /\ job[j].op \in Readers \cup {"none"} /\ tx[j].drop = {}
      /\ tx[j].gone = {} /\ ~tx[j].docGone /\ job[j].mem = {}
  BY DEF Calm, Steady
<1>d. ASSUME NEW p, NEW found, PeriodDone(j, p, found) PROVE job'[j].mem = {} /\ ~Recomputing(j)'
  <2>1. job'[j].mem = {} BY <1>d, <1>p, <1>o DEF PeriodDone, Job
  <2> QED BY <1>d, <2>1, PeriodDoneOutside
<1>e. ASSUME End(j) PROVE /\ tx'[j].gone = {} /\ ~tx'[j].docGone /\ job'[j].mem = {}
                          /\ Answered(j)'
  BY <1>e DEF End, Idle, NoTx, Answered, Recomputing
<1>n. ~Recomputing(j)' => Answered(j)' BY DEF Answered
<1>1. CASE TakeLock(j)
  <2>1. rows' = rows /\ metrics' = metrics /\ tx' = tx BY <1>1 DEF TakeLock
  <2>2. CASE \E found : PeriodDone(j, job[j].cur, found) BY <2>1, <2>2, <1>d, <1>o, <1>n
  <2>3. CASE pc'[j] = "metrics" /\ job' = job BY <2>1, <2>3, <1>o DEF Answered
  <2> QED BY <1>1, <2>2, <2>3 DEF TakeLock
<1>2. CASE Look(j)
  <2>1. rows' = rows /\ metrics' = metrics /\ tx' = tx BY <1>2 DEF Look
  <2>2. PICK p \in Upcoming(j) :
          \/ PeriodDone(j, p, IdsOf(BatchesOf(p)))
          \/ job' = [job EXCEPT ![j].cur = p] /\ pc'[j] = "lock"
    BY <1>2 DEF Look
  <2>3. CASE PeriodDone(j, p, IdsOf(BatchesOf(p))) BY <2>1, <2>3, <1>d, <1>o, <1>n
  <2>4. CASE job' = [job EXCEPT ![j].cur = p] /\ pc'[j] = "lock"
    <3>1. job'[j].mem = {} BY <2>4, <1>p, <1>o DEF Job
    <3>2. Answered(j)' BY <2>4 DEF Answered, Recomputing
    <3> QED BY <2>1, <3>1, <3>2, <1>o
  <2> QED BY <2>2, <2>3, <2>4
<1>3. CASE ComputeRead(j)
  <2>1. rows' = rows /\ metrics' = metrics /\ tx' = tx BY <1>3 DEF ComputeRead
  <2>2. PICK p \in Upcoming(j) :
          \/ PeriodDone(j, p, {})
          \/ /\ p \in PeriodsOf(Eligible(j))
             /\ \E T \in Resolutions(Eligible(j)) :
                  job' = [job EXCEPT ![j].cur = p, ![j].basis = FiguresFor(p, T)]
    BY <1>3 DEF ComputeRead
  <2>3. CASE PeriodDone(j, p, {}) BY <2>1, <2>3, <1>d, <1>o, <1>n
  <2>4. CASE /\ p \in PeriodsOf(Eligible(j))
             /\ \E T \in Resolutions(Eligible(j)) :
                  job' = [job EXCEPT ![j].cur = p, ![j].basis = FiguresFor(p, T)]
    <3>1. PICK T \in Resolutions(Eligible(j)) :
            job' = [job EXCEPT ![j].cur = p, ![j].basis = FiguresFor(p, T)]
      BY <2>4
    <3>2. FiguresFor(p, T) \in Answers(p)
      BY <2>4, <3>1, <1>o, SteadyEligible, ResolvedAnswers
    <3>3. job'[j].mem = {} /\ job'[j].cur = p /\ job'[j].basis = FiguresFor(p, T)
      BY <3>1, <1>p, <1>o DEF Job
    <3>4. Answers(p)' = Answers(p) BY <2>1 DEF Answers
    <3>5. Answered(j)'
      BY <3>2, <3>3, <3>4 DEF Answered, Answers
    <3> QED BY <2>1, <3>3, <3>5, <1>o
  <2> QED BY <2>2, <2>3, <2>4
<1>4. CASE ComputeDelete(j)
  <2>1. rows' = rows /\ metrics' = metrics /\ job' = job /\ pc[j] = "mdelete" BY <1>4 DEF ComputeDelete
  <2>2. tx'[j].gone = {} /\ ~tx'[j].docGone
    BY <1>4, <1>o DEF ComputeDelete, Tx
  <2>3. Answered(j)' BY <2>1 DEF Answered, Recomputing, Answers
  <2> QED BY <2>1, <2>2, <2>3, <1>o
<1>5. CASE ComputeCommit(j)
  <2> DEFINE b == [id |-> clock + 1, period |-> job[j].cur, basis |-> job[j].basis]
  <2>1. /\ Commit(j, {b}, {}) /\ PeriodDone(j, job[j].cur, {clock + 1})
        /\ pc[j] = "mcommit"
    BY <1>5 DEF ComputeCommit
  <2>2. job[j].op # "none" BY <1>p, <2>1 DEF PlacedAt
  <2>3. Recomputing(j) BY <2>1, <2>2, <1>o DEF Recomputing
  <2>4. b.period = job[j].cur /\ b.basis \in Answers(job[j].cur)
    BY <2>1, <2>3 DEF Answered
  <2> HIDE DEF b
  <2>5. rows' = rows /\ tx'[j].gone = {} /\ ~tx'[j].docGone BY <2>1, SteadyCommit
  <2>6. metrics' = metrics \cup {b} BY <2>1, <1>o DEF Commit
  <2> QED BY <2>1, <2>3, <2>4, <2>5, <2>6, <1>d, <1>n
<1>6. CASE PriorPeriod(j)
  <2>1. PICK latest : job' = [job EXCEPT ![j].todo = latest] BY <1>6 DEF PriorPeriod
  <2>2. job'[j].mem = {} BY <2>1, <1>p, <1>o DEF Job
  <2>3. pc'[j] \in {"llm", "look"} BY <1>6 DEF PriorPeriod
  <2> QED BY <1>6, <2>2, <2>3, <1>o DEF PriorPeriod, Answered, Recomputing
<1>7. CASE NarrativeDelete(j)
  <2>1. tx'[j].gone = tx[j].gone /\ tx'[j].docGone = tx[j].docGone BY <1>7 DEF NarrativeDelete, Tx
  <2>2. job' = job /\ rows' = rows /\ metrics' = metrics /\ pc'[j] = "isave"
    BY <1>7 DEF NarrativeDelete
  <2> QED BY <2>1, <2>2, <1>o DEF Answered, Recomputing
<1>8. CASE NarrativeSave(j)
  <2>1. PICK note : Commit(j, {}, note) /\ UNCHANGED job BY <1>8 DEF NarrativeSave
  <2>2. metrics' = metrics BY <2>1, <1>o DEF Commit
  <2>3. rows' = rows /\ tx'[j].gone = {} /\ ~tx'[j].docGone BY <2>1, SteadyCommit
  <2>4. pc'[j] = "done" BY <1>8 DEF NarrativeSave
  <2> QED BY <2>1, <2>2, <2>3, <2>4, <1>o DEF Answered, Recomputing
<1>9. CASE Raise(j)
  <2>1. rows' = rows /\ metrics' = metrics /\ End(j) BY <1>9, <1>o DEF Raise
  <2> QED BY <2>1, <1>e
<1>10. CASE Close(j) BY <1>10, <1>e DEF Close
<1>11. CASE Refuse(j) BY <1>11, <1>9 DEF Refuse
<1> QED BY <1>o, <1>1, <1>2, <1>3, <1>4, <1>5, <1>6, <1>7, <1>8, <1>9, <1>10, <1>11, ReaderSteps

LEMMA ReaderOpens ==
  ASSUME ReadersOnly, TypeOK, NEW j \in Jobs, Request(j)
  PROVE  job'[j].mem = {} /\ UNCHANGED <<tx, rows, metrics>>
<1> USE DEF TypeOK, Goto, tables, ReadersOnly, Open, Idle
<1>1. ViewMetrics(j) \/ Narrate(j)
  BY DEF Request, Upload, DeleteFile, ReExtract, Override, AddCheck
<1>2. CASE ViewMetrics(j) BY <1>2 DEF ViewMetrics
<1>3. CASE Narrate(j) BY <1>3 DEF Narrate
<1> QED BY <1>1, <1>2, <1>3

Given == [p \in Periods |-> Answers(p)]
Shown == [p \in Periods |-> BatchesOf(p)]

(* A batch more, of a period that had none, fills the cache.                *)
LEMMA BatchFills ==
  ASSUME NEW p \in Periods, BatchesOf(p) = {}, rows' = rows,
         NEW b, b.period = p, b.basis \in Answers(p), metrics' = metrics \cup {b}
  PROVE  Cache!Fill(p)
<1>1. Given' = Given
  BY DEF Given, Answers, PeriodsOf, Resolutions, FiguresFor, Preceding, SameFigure
<1>2. ASSUME NEW q \in Periods PROVE BatchesOf(q)' = IF q = p THEN {b} ELSE BatchesOf(q)
  BY DEF BatchesOf
<1>3. Shown' = [Shown EXCEPT ![p] = {b}]
  BY <1>2 DEF Shown
<1>4. Shown[p] = {} /\ b \in Shown'[p] /\ b.basis \in Given[p]
  BY <1>2 DEF Shown, Given
<1> QED BY <1>1, <1>3, <1>4 DEF Cache!Fill, Shown, Given

LEMMA FillsNext ==
  ASSUME ReadersOnly, TypeOK, Placed, Calm, Steady, \A j \in Jobs : Answered(j), [Next]_vars
  PROVE  /\ Steady' /\ \A j \in Jobs : Answered(j)'
         /\ [Cache!Next]_<<Given, Shown>>
<1>s. ASSUME rows' = rows, metrics' = metrics PROVE [Cache!Next]_<<Given, Shown>>
  BY <1>s DEF Given, Shown, Answers, BatchesOf, PeriodsOf, Resolutions, FiguresFor, Preceding,
              SameFigure
<1>1. ASSUME NEW j \in Jobs, Request(j) \/ Step(j) \/ Raise(j)
      PROVE  /\ Steady' /\ \A k \in Jobs : Answered(k)'
             /\ [Cache!Next]_<<Given, Shown>>
  <2>1. /\ rows' = rows /\ Answered(j)'
        /\ tx'[j].gone = {} /\ ~tx'[j].docGone /\ job'[j].mem = {}
        /\ \/ metrics' = metrics
           \/ /\ Recomputing(j)
              /\ \E b : /\ b.period = job[j].cur /\ b.basis \in Answers(job[j].cur)
                        /\ metrics' = metrics \cup {b}
    <3>1. CASE Request(j)
      BY <3>1, ReaderOpens, RequestOutside DEF Steady, Answered
    <3>2. CASE Step(j) \/ Raise(j)
      BY <3>2, ReaderFills
    <3> QED BY <1>1, <3>1, <3>2
  <2>2. ASSUME NEW k \in Jobs \ {j}
        PROVE  pc'[k] = pc[k] /\ job'[k] = job[k] /\ tx'[k] = tx[k]
    BY <1>1, <2>2, OthersKept
  <2>3. Steady' BY <2>1, <2>2 DEF Steady
  <2>4. ASSUME NEW k \in Jobs PROVE Answered(k)'
    <3>1. CASE k = j BY <2>1, <3>1
    <3>2. CASE k # j
      BY <2>1, <2>2, <3>2 DEF Answered, Recomputing, Answers
    <3> QED BY <3>1, <3>2
  <2>5. [Cache!Next]_<<Given, Shown>>
    <3>1. CASE metrics' = metrics BY <2>1, <3>1, <1>s
    <3>2. CASE metrics' # metrics
      <4>1. PICK b : /\ Recomputing(j) /\ b.period = job[j].cur
                     /\ b.basis \in Answers(job[j].cur) /\ metrics' = metrics \cup {b}
        BY <2>1, <3>2
      <4>2. job[j].cur \in Periods BY <4>1, RecomputingPeriod
      <4>3. BatchesOf(job[j].cur) = {} BY <4>1 DEF Calm
      <4>4. Cache!Fill(job[j].cur) BY <2>1, <4>1, <4>2, <4>3, BatchFills
      <4> QED BY <4>2, <4>4 DEF Cache!Next
    <3> QED BY <3>1, <3>2
  <2> QED BY <2>3, <2>4, <2>5
<1>2. ASSUME UNCHANGED <<pc, job, tx, rows, metrics>>
      PROVE  /\ Steady' /\ \A j \in Jobs : Answered(j)'
             /\ [Cache!Next]_<<Given, Shown>>
  BY <1>2, <1>s DEF Steady, Answered, Recomputing, Answers
<1>3. CASE Crash
  <2>1. rows' = rows /\ metrics' = metrics
        /\ \A j \in Jobs : pc'[j] = "idle" /\ job'[j] = Idle /\ tx'[j] = NoTx
    BY <1>3 DEF Crash, tables
  <2> QED BY <2>1, <1>s DEF Steady, Answered, Recomputing, Idle, NoTx
<1>4. ASSUME NEW d, GenerateReport(d) PROVE UNCHANGED <<pc, job, tx, rows, metrics>>
  BY <1>4 DEF GenerateReport
<1>5. ASSUME NEW i, EditInsight(i) PROVE UNCHANGED <<pc, job, tx, rows, metrics>>
  BY <1>5 DEF EditInsight
<1>6. CASE UNCHANGED vars BY <1>2, <1>6 DEF vars, tables
<1> QED BY <1>1, <1>2, <1>3, <1>4, <1>5, <1>6, NextCases

(* Where clients only read, the cache is one that readers fill: every step, *)
(* whatever overlaps, fails or crashes, caches for a period that had none   *)
(* one batch of what its statements give, or leaves the cache alone.        *)
THEOREM ReadersFillCache ==
  ASSUME ReadersOnly PROVE Spec => FillsCache
<1>1. Init => Steady /\ \A j \in Jobs : Answered(j)
  BY DEF Init, Steady, Answered, Recomputing, Idle, NoTx
<1>2. Init => Cache!Init
  BY DEF Init, Cache!Init, Cache!TypeOK, BatchesOf
<1>3. TypeOK /\ Placed /\ Calm /\ Steady /\ (\A j \in Jobs : Answered(j)) /\ [Next]_vars =>
        Steady' /\ (\A j \in Jobs : Answered(j))' /\ [Cache!Next]_<<Given, Shown>>
  BY FillsNext
<1> QED
  BY <1>1, <1>2, <1>3, TypePlaced, CalmAlways, PTL
     DEF Spec, FillsCache, Cache!Spec, Given, Shown
=============================================================================
