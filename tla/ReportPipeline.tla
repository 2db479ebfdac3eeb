--------------------------- MODULE ReportPipeline ---------------------------
(***************************************************************************)
(* One company's figures on their way to the board: uploaded documents,    *)
(* the statements extracted from them, the metrics cached from those       *)
(* statements, and the narrative insights cached from the metrics.         *)
(*                                                                         *)
(* Every request handler and background extraction runs as a job with a    *)
(* database session of its own.  A job moves from one await to the next;   *)
(* what it has deleted and not yet committed is in tx[j], what the session *)
(* holds in memory is in job[j], and other jobs see the tables only.       *)
(*                                                                         *)
(* A period stands for a (period_start, period_end) pair and is numbered   *)
(* in period_end order, one period_start to each period_end.               *)
(***************************************************************************)
EXTENDS ValidationRules, FiniteSets

CONSTANTS
  Docs,         (* documents that may be uploaded                           *)
  Periods,      (* reporting periods, positive numbers in period_end order  *)
  Codes,        (* taxonomy codes a statement may carry                     *)
  Values,       (* figures a statement may hold                             *)
  MaxLines,     (* bound on the line items the model returns for a document *)
  Audiences,    (* audiences a narrative is written for                     *)
  Jobs,         (* sessions that may be open at once                        *)
  None,         (* no document, no job, no audience                         *)
  Requests,     (* the kinds of request the clients issue                   *)
  MaxRequests,  (* bound on the requests issued                             *)
  MaxCrashes,   (* bound on the crashes of the process                      *)
  FailAt,       (* the points of a job where an exception may be raised     *)
  Seeds         (* what may be on record at the start: extracted documents,  *)
                (* and statements, of these documents or added by hand       *)

ASSUME PeriodsArePositive == Periods \subseteq Nat \ {0}
ASSUME ValuesAreIntegers  == Values \subseteq Int
ASSUME LinesAreCounted    == MaxLines \in Nat
ASSUME NoneIsFresh        == None \notin Docs \cup Jobs \cup Audiences
ASSUME FailuresAreRaised  == "idle" \notin FailAt

VARIABLES
  docs,      (* status of each document                                     *)
  files,     (* documents whose PDF is in the document store                *)
  rows,      (* financial_statement table                                   *)
  metrics,   (* metric table, one batch per compute_and_store_metrics call  *)
  insights,  (* insight table                                               *)
  reports,   (* latest accuracy report of each document that has one        *)
  lock,      (* holder of each period's advisory transaction lock           *)
  pc,        (* next step of each job                                       *)
  job,       (* what each job holds in memory                               *)
  tx,        (* what each job has deleted and not committed                 *)
  clock,     (* stamp of the last write, dates rows and names batches       *)
  issued,    (* requests issued so far                                      *)
  crashes    (* crashes so far                                              *)

tables == <<docs, rows, metrics, insights, reports>>
vars   == <<docs, files, rows, metrics, insights, reports, lock, pc, job, tx,
            clock, issued, crashes>>

-----------------------------------------------------------------------------
(* Tables *)

DocStatuses == {"absent", "pending", "processing", "extracted", "failed",
                "deleted"}

(* Mutant: a deleted document still counts as one on record.                *)
StoredOrDeleted == {d \in Docs : docs[d] # "absent"}

Stored == {d \in Docs : docs[d] \notin {"absent", "deleted"}}

(* line is the statement's place in the list the model returned, 0 where    *)
(* the statement was typed in.                                              *)
Row == [born : Nat, line : Nat, at : Nat, doc : Docs \cup {None}, period : Periods,
        code : Codes, value : Values, status : Statuses, validated : BOOLEAN]

(* A row's primary key: the write that created it, and its place there.     *)
RowId(r) == <<r.born, r.line, r.period, r.code>>
RowIds   == Nat \X Nat \X Periods \X Codes
Ids(S)   == {RowId(r) : r \in S}

ASSUME SeedsAreStatements ==
  \A seed \in Seeds :
    /\ seed.stored \subseteq Docs
    /\ seed.rows \subseteq Row
    /\ \A r \in seed.rows : r.born = 0 /\ r.at = 0 /\ r.doc \in seed.stored \cup {None}

(* Mutant: the status column without its default.                           *)
NewRowWithoutStatus(stamp, n, d, p, c, v) ==
  [born |-> stamp, line |-> n, at |-> stamp, doc |-> d, period |-> p, code |-> c,
   value |-> v, status |-> None, validated |-> FALSE]

NewRow(stamp, n, d, p, c, v) ==
  [born |-> stamp, line |-> n, at |-> stamp, doc |-> d, period |-> p, code |-> c,
   value |-> v, status |-> CONFIRMED, validated |-> FALSE]

(* A figure a batch of metrics was computed from.                           *)
Figure == [id : RowIds, period : Periods, code : Codes, value : Values]
Batch  == [id : Nat, period : Periods, basis : SUBSET Figure]

(* src is source_metric_ids: the batches whose metrics the narrative read.  *)
Insight == [id : Nat, period : Periods, aud : Audiences, src : SUBSET Nat,
            edited : BOOLEAN]

(* Mutant: invalidation spares what an analyst edited.                      *)
UneditedNotesOf(p) == {i \in insights : i.period = p /\ ~i.edited}

BatchesOf(p)   == {b \in metrics : b.period = p}
NotesOf(p)     == {i \in insights : i.period = p}
NoteFor(p, a)  == {i \in NotesOf(p) : i.aud = a}
IdsOf(S)       == {s.id : s \in S}
PeriodsOf(S)   == {r.period : r \in S}

SameFigure(r, s) == r.period = s.period /\ r.code = s.code

(* Mutant: duplicates sorted the other way round.                           *)
Earliest(S) == {r \in S : \A s \in S : SameFigure(r, s) => s.at >= r.at}

(* The most recently updated rows of each code and period: several where    *)
(* one extraction returned the figure several times.                        *)
Latest(S) == {r \in S : \A s \in S : SameFigure(r, s) => s.at <= r.at}

(* One row for each code and period, whichever a query that does not order  *)
(* duplicates lists last.                                                   *)
Resolutions(S) ==
  {T \in SUBSET S : \A r \in S : \E t \in T : \A u \in T : SameFigure(u, r) <=> u = t}

(* The values of rows of one period, one for each code.                     *)
Sheet(S) == [c \in {r.code : r \in S} |-> (CHOOSE r \in S : r.code = c).value]
-----------------------------------------------------------------------------
(* Sessions *)

Clearing == {"reextract", "delete"}
Writing  == {"extract", "override", "add"}
OpNames  == Clearing \cup Writing \cup {"none", "view", "insight"}

Job == [op     : OpNames,
        doc    : Docs \cup {None},
        score  : BOOLEAN,              (* generate_accuracy_report          *)
        mem    : SUBSET Row,           (* statements the handler holds      *)
        seen   : SUBSET (RowIds \X Values),    (* figures run_validation read *)
        marks  : SUBSET (RowIds \X Statuses),  (* statuses it will change     *)
        anchors: SUBSET RowIds,        (* statements it anchors results to  *)
        todo   : SUBSET Periods,       (* periods still to be recomputed    *)
        left   : SUBSET Periods,       (* remaining_period_ends             *)
        cur    : Periods \cup {0},
        basis  : SUBSET Figure,        (* what the new metrics are made of  *)
        target : Periods \cup {0},
        aud    : Audiences \cup {None},
        pended : BOOLEAN,              (* the document was loaded pending   *)
        src    : SUBSET Nat]

Idle == [op |-> "none", doc |-> None, score |-> FALSE, mem |-> {},
         seen |-> {}, marks |-> {}, anchors |-> {}, todo |-> {}, left |-> {},
         cur |-> 0, basis |-> {}, target |-> 0, aud |-> None,
         pended |-> FALSE, src |-> {}]

Tx   == [gone : SUBSET RowIds, drop : SUBSET Nat, dropI : SUBSET Nat,
         docGone : BOOLEAN]
NoTx == [gone |-> {}, drop |-> {}, dropI |-> {}, docGone |-> FALSE]

PCs == {"idle", "saved", "start", "fetch", "persist", "insert", "refresh",
        "vread", "vcommit", "metrics", "mdelete", "mcommit", "score",
        "invalidate", "drows", "ddoc", "remain", "iclear", "close", "reload",
        "look", "lock", "prior", "llm", "isave", "done"}

Goto(j, l) == pc' = [pc EXCEPT ![j] = l]

(* Rows, and documents, that another open transaction has deleted: a write  *)
(* that touches one waits for that transaction to end.                      *)
LockedRows(j) == UNION {tx[k].gone : k \in Jobs \ {j}}
LockedDoc(j)  == \E k \in Jobs \ {j} : tx[k].docGone /\ job[k].doc = job[j].doc

(* What a query for the rows S yields in the session of j: a row already    *)
(* held in memory comes back as the held object, not as the stored one.     *)
Held(j, r)   == {m \in job[j].mem : RowId(m) = RowId(r)}
Loaded(j, S) ==
  {IF Held(j, r) = {} THEN r ELSE CHOOSE m \in Held(j, r) : TRUE : r \in S}

Visible(j) == {r \in rows : RowId(r) \notin tx[j].gone}

(* A client issues a request: a session opens.                              *)
Open(j, request) ==
  /\ request \in Requests
  /\ pc[j] = "idle"
  /\ issued < MaxRequests
  /\ issued' = issued + 1

(* Mutant: a session-level advisory lock, which a commit does not release.  *)
StillLocked(j) == lock

Unlocked(j) == [p \in Periods |-> IF lock[p] = j THEN None ELSE lock[p]]

(* The commit of j's session: its deletes take effect, a deleted document   *)
(* leaves the rows that still name it behind without a document, and its    *)
(* advisory locks are released.                                             *)
Commit(j, batch, note) ==
  LET orphan(r) == tx[j].docGone /\ r.doc = job[j].doc IN
  /\ rows' = {IF orphan(r) THEN [r EXCEPT !.doc = None] ELSE r : r \in Visible(j)}
  /\ metrics' = {b \in metrics : b.id \notin tx[j].drop} \cup batch
  /\ insights' = {i \in insights : i.id \notin tx[j].dropI} \cup note
  /\ reports' = {r \in reports : ~(tx[j].docGone /\ r.doc = job[j].doc)}
  /\ tx' = [tx EXCEPT ![j] = NoTx]
  /\ lock' = Unlocked(j)

(* Mutant: the deletion of the document row is not flushed.                 *)
DocsKept(j) == docs

DocsAfter(j) ==
  IF tx[j].docGone THEN [docs EXCEPT ![job[j].doc] = "deleted"] ELSE docs

(* The session of j ends, and with it whatever it has not committed.        *)
End(j) ==
  /\ pc' = [pc EXCEPT ![j] = "idle"]
  /\ job' = [job EXCEPT ![j] = Idle]
  /\ tx' = [tx EXCEPT ![j] = NoTx]
  /\ lock' = Unlocked(j)

Close(j) ==
  /\ pc[j] = "done"
  /\ End(j)
  /\ UNCHANGED <<tables, files, clock, issued, crashes>>

-----------------------------------------------------------------------------
(* Upload and extraction *)

Upload(j, d) ==
  /\ Open(j, "upload")
  /\ docs[d] = "absent" /\ d \notin files
  /\ files' = files \cup {d}
  /\ job' = [job EXCEPT ![j] = [Idle EXCEPT !.op = "extract", !.doc = d]]
  /\ Goto(j, "saved")
  /\ UNCHANGED <<tables, lock, tx, clock, crashes>>

(* The document row is committed; the response is sent and the background  *)
(* task that the same request scheduled follows.                            *)
UploadCommit(j) ==
  /\ pc[j] = "saved"
  /\ docs' = [docs EXCEPT ![job[j].doc] = "pending"]
  /\ Goto(j, "start")
  /\ UNCHANGED <<files, rows, metrics, insights, reports, lock, job, tx, clock,
                 issued, crashes>>

StartRun(j) ==
  /\ pc[j] = "start"
  /\ ~LockedDoc(j)
  /\ job[j].doc \in Stored
  /\ docs' = [docs EXCEPT ![job[j].doc] = "processing"]
  /\ Goto(j, "fetch")
  /\ UNCHANGED <<files, rows, metrics, insights, reports, lock, job, tx, clock,
                 issued, crashes>>

Fetch(j) ==
  /\ pc[j] = "fetch"
  /\ job[j].doc \in files
  /\ Goto(j, "persist")
  /\ UNCHANGED <<tables, files, lock, job, tx, clock, issued, crashes>>

(* What the model may return for a PDF: any list of line items, those that  *)
(* repeat a code and period included.                                       *)
LineItem    == [period : Periods, code : Codes, value : Values]
Extractions == UNION {[1..n -> LineItem] : n \in 0..MaxLines}

(* The foreign key admits no line item of a document that is gone.          *)
(* Mutant: no foreign key.                                                  *)
AnyReference(d, new)  == TRUE
ValidReference(d, new) == new # {} => d \in Stored

(* Every line item and the document's status, in one commit.                *)
Persist(j) ==
  LET d == job[j].doc IN
  /\ pc[j] = "persist"
  /\ ~LockedDoc(j)
  /\ \E found \in Extractions :
       LET new == {NewRow(clock + 1, n, d, found[n].period, found[n].code, found[n].value) :
                     n \in DOMAIN found}
       IN  /\ ValidReference(d, new)
           /\ rows' = rows \cup new
           /\ job' = [job EXCEPT ![j].mem = new, ![j].todo = PeriodsOf(new)]
  /\ docs' = IF d \in Stored THEN [docs EXCEPT ![d] = "extracted"] ELSE docs
  /\ clock' = clock + 1
  /\ Goto(j, "vread")
  /\ UNCHANGED <<files, metrics, insights, reports, lock, tx, issued, crashes>>

(* build_accuracy_report, best effort: neither a document that is gone nor   *)
(* any other failure reaches the outer handler.                             *)
Score(j) ==
  LET d == job[j].doc IN
  /\ pc[j] = "score"
  /\ ~LockedDoc(j)
  /\ \/ /\ d \in Stored
        /\ reports' = {r \in reports : r.doc # d} \cup
             {[doc |-> d, scored |-> Ids({r \in rows : r.doc = d})]}
     \/ d \notin Stored /\ UNCHANGED reports
  /\ Goto(j, "done")
  /\ UNCHANGED <<docs, files, rows, metrics, insights, lock, job, tx, clock,
                 issued, crashes>>

(* POST accuracy-report, refused until the document is extracted.           *)
GenerateReport(d) ==
  /\ "accuracy" \in Requests /\ issued < MaxRequests
  /\ docs[d] = "extracted"
  /\ \A j \in Jobs : ~(tx[j].docGone /\ job[j].doc = d)
  /\ reports' = {r \in reports : r.doc # d} \cup
        {[doc |-> d, scored |-> Ids({r \in rows : r.doc = d})]}
  /\ issued' = issued + 1
  /\ UNCHANGED <<docs, files, rows, metrics, insights, lock, pc, job, tx, clock,
                 crashes>>

-----------------------------------------------------------------------------
(* Validation *)

(* run_validation: of each code, a latest row; its verdict on their sheet.  *)
Current(j)    == Resolutions(Latest(Loaded(j, {r \in rows : r.period \in job[j].todo})))
VerdictOf(S)  == Verdict(Sheet(S))
Changed(S)    == {r \in S : /\ r.code \in DOMAIN VerdictOf(S)
                             /\ VerdictOf(S)[r.code] # r.status}
Anchored(S)   == {r \in S : r.code \in AnchorCodes(Sheet(S))}

ValidationRead(j) ==
  /\ pc[j] = "vread"
  /\ \E picked \in Current(j) :
       LET sheets == {{r \in picked : r.period = p} : p \in job[j].todo} IN
       job' = [job EXCEPT
         ![j].marks   = UNION {{<<RowId(r), VerdictOf(S)[r.code]>> : r \in Changed(S)}
                                 : S \in sheets},
         ![j].anchors = UNION {Ids(Anchored(S)) : S \in sheets},
         ![j].seen    = {<<RowId(r), r.value>> : r \in picked}]
  /\ Goto(j, "vcommit")
  /\ UNCHANGED <<tables, files, lock, tx, clock, issued, crashes>>

(* The rows whose update or whose ValidationResult needs them to exist.     *)
Touched(j) == {m[1] : m \in job[j].marks} \cup job[j].anchors

RunEnd(j) == IF job[j].score THEN "score" ELSE "done"

ValidationCommit(j) ==
  LET marked(r) == \E s \in Statuses : <<RowId(r), s>> \in job[j].marks
      settle(r) ==
        [r EXCEPT
           !.status = IF marked(r)
                      THEN CHOOSE s \in Statuses : <<RowId(r), s>> \in job[j].marks
                      ELSE @,
           !.at = IF marked(r) THEN clock + 1 ELSE @,
           !.validated = @ \/ <<RowId(r), r.value>> \in job[j].seen]
  IN
  /\ pc[j] = "vcommit"
  /\ Touched(j) \subseteq Ids(rows)
  /\ Touched(j) \cap LockedRows(j) = {}
  /\ rows' = {settle(r) : r \in rows}
  /\ clock' = clock + 1
  /\ job' = [job EXCEPT ![j].marks = {}, ![j].anchors = {}, ![j].seen = {}]
  /\ Goto(j, IF job[j].todo = {} THEN RunEnd(j) ELSE "metrics")
  /\ UNCHANGED <<docs, files, metrics, insights, reports, lock, tx, issued, crashes>>

-----------------------------------------------------------------------------
(* compute_and_store_metrics *)

(* Mutant: exclude_needs_review left at its default.                        *)
EligibleOrFlagged(j) == Loaded(j, Visible(j))

(* The statements metrics may read: needs_review is filtered in the query,  *)
(* the figures come from the session.                                       *)
Eligible(j) == Loaded(j, {r \in Visible(j) : r.status # NEEDS_REVIEW})

(* The period growth metrics compare with.                                  *)
Preceding(p, S) ==
  {q \in PeriodsOf(S) : q < p /\ \A x \in PeriodsOf(S) : x < p => x <= q}

FiguresFor(p, T) ==
  {[id |-> RowId(r), period |-> r.period, code |-> r.code, value |-> r.value] :
      r \in {t \in T : t.period \in {p} \cup Preceding(p, T)}}

(* Period p is done: on to the next one, or past the loop.                  *)
AfterPeriod(j, p) ==
  LET op   == job[j].op
      rest == job[j].todo \ {p}
  IN CASE op \in Clearing            -> "iclear"
       [] op \in {"override", "add"} -> "invalidate"
       [] op = "insight"             -> IF p = job[j].target THEN "prior" ELSE "llm"
       [] op = "view"                -> IF rest = {} THEN "done" ELSE "look"
       [] op = "extract"             -> IF rest = {} THEN RunEnd(j) ELSE "metrics"
       [] OTHER                      -> "done"

(* found: the batches get_or_compute_metrics returns for p.                 *)
PeriodDone(j, p, found) ==
  /\ job' = [job EXCEPT ![j].todo = @ \ {p}, ![j].cur = p, ![j].basis = {},
                        ![j].src = IF job[j].op = "insight" /\ p = job[j].target
                                   THEN found ELSE @]
  /\ Goto(j, AfterPeriod(j, p))

(* Periods a job may take next: a view goes through them in order, the      *)
(* loops over a Python set in any order.                                    *)
Upcoming(j) ==
  {p \in job[j].todo : job[j].op = "view" => \A q \in job[j].todo : p <= q}

ComputeRead(j) ==
  /\ pc[j] = "metrics"
  /\ \E p \in Upcoming(j) :
       /\ job[j].op \in Clearing => p \in job[j].left
       /\ \/ /\ p \notin PeriodsOf(Eligible(j))
             /\ PeriodDone(j, p, {})
          \/ /\ p \in PeriodsOf(Eligible(j))
             /\ \E T \in Resolutions(Eligible(j)) :
                  job' = [job EXCEPT ![j].cur = p, ![j].basis = FiguresFor(p, T)]
             /\ Goto(j, "mdelete")
  /\ UNCHANGED <<tables, files, lock, tx, clock, issued, crashes>>

(* delete_for_period removes the batches it can see; those other sessions   *)
(* commit from here on are not among them.                                  *)
ComputeDelete(j) ==
  /\ pc[j] = "mdelete"
  /\ tx' = [tx EXCEPT ![j].drop = @ \cup IdsOf(BatchesOf(job[j].cur))]
  /\ Goto(j, "mcommit")
  /\ UNCHANGED <<tables, files, lock, job, clock, issued, crashes>>

ComputeCommit(j) ==
  LET p == job[j].cur IN
  /\ pc[j] = "mcommit"
  /\ Commit(j, {[id |-> clock + 1, period |-> p, basis |-> job[j].basis]}, {})
  /\ docs' = DocsAfter(j)
  /\ clock' = clock + 1
  /\ PeriodDone(j, p, {clock + 1})
  /\ UNCHANGED <<files, issued, crashes>>

-----------------------------------------------------------------------------
(* Reading metrics: get_or_compute_metrics, one period at a time *)

(* GET metrics asks for one period, GET metrics/history for every period    *)
(* that has statements.                                                     *)
ViewMetrics(j) ==
  /\ Open(j, "view")
  /\ \E S \in {{p} : p \in Periods} \cup {PeriodsOf(rows)} :
       /\ S # {}
       /\ job' = [job EXCEPT ![j] = [Idle EXCEPT !.op = "view", !.todo = S]]
  /\ Goto(j, "look")
  /\ UNCHANGED <<tables, files, lock, tx, clock, crashes>>

(* Mutant: recomputation without the advisory lock.                         *)
LookWithoutLock(j) ==
  /\ pc[j] = "look"
  /\ \E p \in Upcoming(j) :
       \/ BatchesOf(p) # {} /\ PeriodDone(j, p, IdsOf(BatchesOf(p)))
       \/ BatchesOf(p) = {} /\ job' = [job EXCEPT ![j].cur = p] /\ Goto(j, "metrics")
  /\ UNCHANGED <<tables, files, lock, tx, clock, issued, crashes>>

Look(j) ==
  /\ pc[j] = "look"
  /\ \E p \in Upcoming(j) :
       \/ BatchesOf(p) # {} /\ PeriodDone(j, p, IdsOf(BatchesOf(p)))
       \/ /\ BatchesOf(p) = {}
          /\ job' = [job EXCEPT ![j].cur = p]
          /\ Goto(j, "lock")
  /\ UNCHANGED <<tables, files, lock, tx, clock, issued, crashes>>

(* Mutant: no second look under the lock.                                   *)
TakeLockBlindly(j) ==
  /\ pc[j] = "lock"
  /\ lock[job[j].cur] \in {None, j}
  /\ lock' = [lock EXCEPT ![job[j].cur] = j]
  /\ Goto(j, "metrics")
  /\ UNCHANGED <<tables, files, job, tx, clock, issued, crashes>>

(* The advisory lock, and the second look once it is held.                  *)
TakeLock(j) ==
  LET p == job[j].cur IN
  /\ pc[j] = "lock"
  /\ lock[p] \in {None, j}
  /\ lock' = [lock EXCEPT ![p] = j]
  /\ \/ BatchesOf(p) # {} /\ PeriodDone(j, p, IdsOf(BatchesOf(p)))
     \/ BatchesOf(p) = {} /\ Goto(j, "metrics") /\ UNCHANGED job
  /\ UNCHANGED <<tables, files, tx, clock, issued, crashes>>

-----------------------------------------------------------------------------
(* Manual entries and overrides *)

(* PATCH a statement: the new value is committed before anything checks it. *)
Override(j) ==
  /\ Open(j, "override")
  /\ \E r \in rows, v \in Values :
       LET changed == [r EXCEPT !.value = v, !.validated = FALSE, !.at = clock + 1] IN
       /\ v # r.value
       /\ RowId(r) \notin LockedRows(j)
       /\ rows' = (rows \ {r}) \cup {changed}
       /\ job' = [job EXCEPT ![j] = [Idle EXCEPT !.op = "override", !.mem = {changed},
                                                !.todo = {r.period}]]
  /\ clock' = clock + 1
  /\ Goto(j, "refresh")
  /\ UNCHANGED <<docs, files, metrics, insights, reports, lock, tx, crashes>>

(* POST a statement: refused when the code already has a value ...          *)
AddCheck(j) ==
  /\ Open(j, "add")
  /\ \E p \in Periods, c \in Codes, v \in Values :
       /\ ~\E r \in rows : r.period = p /\ r.code = c
       /\ job' = [job EXCEPT ![j] = [Idle EXCEPT
                     !.op = "add", !.mem = {NewRow(0, 0, None, p, c, v)}, !.todo = {p}]]
  /\ Goto(j, "insert")
  /\ UNCHANGED <<tables, files, lock, tx, clock, crashes>>

(* ... and inserted by a later statement, under no unique constraint.       *)
AddInsert(j) ==
  LET new == {NewRow(clock + 1, 0, None, m.period, m.code, m.value) : m \in job[j].mem} IN
  /\ pc[j] = "insert"
  /\ rows' = rows \cup new
  /\ job' = [job EXCEPT ![j].mem = new]
  /\ clock' = clock + 1
  /\ Goto(j, "refresh")
  /\ UNCHANGED <<docs, files, metrics, insights, reports, lock, tx, issued, crashes>>

(* db.refresh(statement), which raises when the row is gone.                *)
Refresh(j) ==
  LET stored == {r \in rows : RowId(r) \in Ids(job[j].mem)} IN
  /\ pc[j] = "refresh"
  /\ stored # {}
  /\ job' = [job EXCEPT ![j].mem = stored]
  /\ Goto(j, "vread")
  /\ UNCHANGED <<tables, files, lock, tx, clock, issued, crashes>>

(* The narratives of the period, of every audience, go in the last commit.  *)
Invalidate(j) ==
  /\ pc[j] = "invalidate"
  /\ insights' = insights \ NotesOf(job[j].cur)
  /\ lock' = Unlocked(j)
  /\ Goto(j, "done")
  /\ UNCHANGED <<docs, files, rows, metrics, reports, job, tx, clock, issued, crashes>>

-----------------------------------------------------------------------------
(* Deleting and re-extracting a document *)

(* Mutant: only confirmed line items are cleared.                           *)
ConfirmedOfDoc(d) == {r \in rows : r.doc = d /\ r.status = CONFIRMED}

OfDoc(d) == {r \in rows : r.doc = d}

(* delete_document lists the periods it affects and removes the PDF ...     *)
DeleteFile(j, d) ==
  /\ Open(j, "delete")
  /\ d \in Stored
  /\ files' = files \ {d}
  /\ job' = [job EXCEPT ![j] = [Idle EXCEPT !.op = "delete", !.doc = d,
                                           !.todo = PeriodsOf(OfDoc(d))]]
  /\ Goto(j, "drows")
  /\ UNCHANGED <<tables, lock, tx, clock, crashes>>

(* re_extract_document lists the periods its document contributes to,       *)
(* whatever run of the document may still be in progress.                   *)
ReExtract(j, d) ==
  /\ Open(j, "reextract")
  /\ d \in Stored
  /\ job' = [job EXCEPT ![j] = [Idle EXCEPT
                !.op = "reextract", !.doc = d, !.pended = (docs[d] = "pending"),
                !.todo = PeriodsOf(OfDoc(d))]]
  /\ Goto(j, "drows")
  /\ UNCHANGED <<tables, files, lock, tx, clock, crashes>>

(* Either handler asks which periods still have statements only where some  *)
(* are affected.                                                            *)
AfterClearing(j) == IF job[j].todo = {} THEN "close" ELSE "remain"

(* Both delete the statements they then find ...                            *)
DeleteRows(j) ==
  LET doomed == Ids(OfDoc(job[j].doc)) IN
  /\ pc[j] = "drows"
  /\ doomed \cap LockedRows(j) = {}
  /\ tx' = [tx EXCEPT ![j].gone = doomed]
  /\ Goto(j, IF job[j].op = "delete" THEN "ddoc" ELSE AfterClearing(j))
  /\ UNCHANGED <<tables, files, lock, job, clock, issued, crashes>>

(* ... delete_document the document row as well ...                         *)
DeleteDoc(j) ==
  /\ pc[j] = "ddoc"
  /\ ~LockedDoc(j)
  /\ Ids(OfDoc(job[j].doc)) \cap LockedRows(j) = {}
  /\ tx' = [tx EXCEPT ![j].docGone = TRUE]
  /\ Goto(j, AfterClearing(j))
  /\ UNCHANGED <<tables, files, lock, job, clock, issued, crashes>>

(* ... and list the periods that still have statements.                     *)
ListRemaining(j) ==
  /\ pc[j] = "remain"
  /\ job' = [job EXCEPT ![j].left = PeriodsOf(Visible(j))]
  /\ Goto(j, "metrics")
  /\ UNCHANGED <<tables, files, lock, tx, clock, issued, crashes>>

(* Mutant: the metrics of such a period are left alone.                     *)
DropNothing(j) ==
  /\ pc[j] = "metrics"
  /\ job[j].op \in Clearing
  /\ \E p \in Upcoming(j) \ job[j].left : PeriodDone(j, p, {})
  /\ UNCHANGED <<tables, files, lock, tx, clock, issued, crashes>>

(* A period nothing else contributes to loses its metrics outright.         *)
DropMetrics(j) ==
  /\ pc[j] = "metrics"
  /\ job[j].op \in Clearing
  /\ \E p \in Upcoming(j) \ job[j].left :
       /\ tx' = [tx EXCEPT ![j].drop = @ \cup IdsOf(BatchesOf(p))]
       /\ PeriodDone(j, p, {})
  /\ UNCHANGED <<tables, files, lock, clock, issued, crashes>>

ClearInsights(j) ==
  /\ pc[j] = "iclear"
  /\ tx' = [tx EXCEPT ![j].dropI = @ \cup IdsOf(NotesOf(job[j].cur))]
  /\ Goto(j, IF job[j].todo = {} THEN "close" ELSE "metrics")
  /\ UNCHANGED <<tables, files, lock, job, clock, issued, crashes>>

(* The last commit.                                                         *)
FinishDelete(j) ==
  /\ pc[j] = "close"
  /\ job[j].op = "delete"
  /\ Commit(j, {}, {})
  /\ docs' = DocsAfter(j)
  /\ Goto(j, "done")
  /\ UNCHANGED <<files, job, clock, issued, crashes>>

(* The last commit of a re-extraction.  A document loaded pending is not    *)
(* written, so neither waited for nor missed when it is gone.               *)
FinishReExtract(j) ==
  LET d == job[j].doc IN
  /\ pc[j] = "close"
  /\ job[j].op = "reextract"
  /\ \/ job[j].pended /\ UNCHANGED docs
     \/ /\ ~job[j].pended /\ ~LockedDoc(j) /\ d \in Stored
        /\ docs' = [docs EXCEPT ![d] = "pending"]
  /\ Commit(j, {}, {})
  /\ Goto(j, "reload")
  /\ UNCHANGED <<files, job, clock, issued, crashes>>

(* Mutant: a document that was pending already is not scheduled again.      *)
ScheduleUnlessPended(j) ==
  LET run == [Idle EXCEPT !.op = "extract", !.doc = job[j].doc, !.score = TRUE] IN
  /\ pc[j] = "reload"
  /\ job[j].doc \in Stored
  /\ \/ ~job[j].pended /\ job' = [job EXCEPT ![j] = run] /\ Goto(j, "start")
     \/ job[j].pended /\ Goto(j, "done") /\ UNCHANGED job
  /\ UNCHANGED <<tables, files, lock, tx, clock, issued, crashes>>

(* db.refresh(document), which raises when the document is gone; only then  *)
(* is the run scheduled, which the session becomes.                         *)
Schedule(j) ==
  LET run == [Idle EXCEPT !.op = "extract", !.doc = job[j].doc, !.score = TRUE] IN
  /\ pc[j] = "reload"
  /\ job[j].doc \in Stored
  /\ job' = [job EXCEPT ![j] = run]
  /\ Goto(j, "start")
  /\ UNCHANGED <<tables, files, lock, tx, clock, issued, crashes>>

-----------------------------------------------------------------------------
(* Narrative insights *)

(* GET an insight that is not cached, or POST regenerate: refused over an   *)
(* edit unless the client confirmed.  Two cached rows raise in either.      *)
Narrate(j) ==
  /\ Open(j, "insight")
  /\ \E p \in Periods, a \in Audiences, regenerate, confirm \in BOOLEAN :
       /\ regenerate \/ (NoteFor(p, a) = {} /\ ~confirm)
       /\ \A i, k \in NoteFor(p, a) : i = k
       /\ (\E i \in NoteFor(p, a) : i.edited) => confirm
       /\ job' = [job EXCEPT ![j] = [Idle EXCEPT
                     !.op = "insight", !.target = p, !.aud = a, !.todo = {p}]]
  /\ Goto(j, "look")
  /\ UNCHANGED <<tables, files, lock, tx, clock, crashes>>

(* _get_prior_period_metrics: the latest earlier period with statements.    *)
PriorPeriod(j) ==
  LET earlier == {q \in PeriodsOf(rows) : q < job[j].target}
      latest  == {q \in earlier : \A x \in earlier : x <= q}
  IN
  /\ pc[j] = "prior"
  /\ job' = [job EXCEPT ![j].todo = latest]
  /\ Goto(j, IF latest = {} THEN "llm" ELSE "look")
  /\ UNCHANGED <<tables, files, lock, tx, clock, issued, crashes>>

(* The model answers; only then is the cached narrative deleted.            *)
NarrativeDelete(j) ==
  /\ pc[j] = "llm"
  /\ tx' = [tx EXCEPT ![j].dropI = IdsOf(NoteFor(job[j].target, job[j].aud))]
  /\ Goto(j, "isave")
  /\ UNCHANGED <<tables, files, lock, job, clock, issued, crashes>>

NarrativeSave(j) ==
  /\ pc[j] = "isave"
  /\ Commit(j, {}, {[id |-> clock + 1, period |-> job[j].target, aud |-> job[j].aud,
                     src |-> job[j].src, edited |-> FALSE]})
  /\ clock' = clock + 1
  /\ Goto(j, "done")
  /\ UNCHANGED <<docs, files, job, issued, crashes>>

(* An analyst edits the narrative, or reverts it to the generated text.     *)
EditInsight(i) ==
  /\ "edit" \in Requests /\ issued < MaxRequests
  /\ \A j \in Jobs : i.id \notin tx[j].dropI
  /\ \E e \in BOOLEAN : insights' = (insights \ {i}) \cup {[i EXCEPT !.edited = e]}
  /\ issued' = issued + 1
  /\ UNCHANGED <<docs, files, rows, metrics, reports, lock, pc, job, tx, clock, crashes>>

-----------------------------------------------------------------------------
(* Failures *)

(* Postgres ends a cycle of sessions that wait for each other's locks by    *)
(* raising in one of them.                                                  *)
Deadlocked(j) ==
  \E S \in SUBSET Jobs :
    /\ j \in S
    /\ \A k \in S : pc[k] = "lock" /\ lock[job[k].cur] \in S \ {k}

(* Steps the tables no longer allow: the document or its PDF is gone, a     *)
(* statement about to be updated is, or the session is a deadlock victim.   *)
Refused(j) ==
  LET gone == job[j].doc \notin Stored IN
  \/ pc[j] \in {"start", "persist", "reload"} /\ gone
  \/ pc[j] = "close" /\ job[j].op = "reextract" /\ gone /\ ~job[j].pended
  \/ pc[j] = "fetch" /\ job[j].doc \notin files
  \/ pc[j] = "vcommit" /\ ~(Touched(j) \subseteq Ids(rows))
  \/ pc[j] = "refresh" /\ Ids(job[j].mem) \cap Ids(rows) = {}
  \/ Deadlocked(j)

(* Mutant: the document is fetched ahead of the try block.                  *)
GuardedAfterFetch(j) ==
  job[j].op = "extract" /\ pc[j] \notin {"saved", "start", "fetch", "score", "done"}

(* The steps _run_extraction takes inside its try block, which begins after *)
(* the commit of the status processing.                                     *)
Guarded(j) ==
  job[j].op = "extract" /\ pc[j] \notin {"saved", "start", "score", "done"}

(* An exception: whatever is uncommitted is rolled back.  An extraction     *)
(* marks its document failed; any other handler answers 500.                *)
Raise(j) ==
  /\ \/ ~Guarded(j) /\ UNCHANGED docs
     \/ /\ Guarded(j) /\ ~LockedDoc(j)
        /\ docs' = IF job[j].doc \in Stored
                   THEN [docs EXCEPT ![job[j].doc] = "failed"] ELSE docs
  /\ End(j)
  /\ UNCHANGED <<files, rows, metrics, insights, reports, clock, issued, crashes>>

Refuse(j) == Refused(j) /\ Raise(j)
Fail(j)   == pc[j] \in FailAt /\ Raise(j)

(* The process dies and comes back: every session is gone, and with it the  *)
(* background task that followed the response.                              *)
Crash ==
  /\ crashes < MaxCrashes
  /\ crashes' = crashes + 1
  /\ pc' = [j \in Jobs |-> "idle"]
  /\ job' = [j \in Jobs |-> Idle]
  /\ tx' = [j \in Jobs |-> NoTx]
  /\ lock' = [p \in Periods |-> None]
  /\ UNCHANGED <<tables, files, clock, issued>>

-----------------------------------------------------------------------------
(* The system *)

Init ==
  /\ \E seed \in Seeds :
       /\ docs = [d \in Docs |-> IF d \in seed.stored THEN "extracted" ELSE "absent"]
       /\ files = seed.stored
       /\ rows = seed.rows
  /\ metrics = {} /\ insights = {} /\ reports = {}
  /\ lock = [p \in Periods |-> None]
  /\ pc = [j \in Jobs |-> "idle"]
  /\ job = [j \in Jobs |-> Idle]
  /\ tx = [j \in Jobs |-> NoTx]
  /\ clock = 0 /\ issued = 0 /\ crashes = 0

Request(j) ==
  \/ \E d \in Docs : Upload(j, d) \/ DeleteFile(j, d) \/ ReExtract(j, d)
  \/ ViewMetrics(j) \/ Override(j) \/ AddCheck(j) \/ Narrate(j)

(* What a session does once its request is issued.                          *)
Step(j) ==
  \/ UploadCommit(j) \/ StartRun(j) \/ Fetch(j) \/ Persist(j) \/ Score(j)
  \/ ValidationRead(j) \/ ValidationCommit(j)
  \/ ComputeRead(j) \/ ComputeDelete(j) \/ ComputeCommit(j)
  \/ Look(j) \/ TakeLock(j)
  \/ AddInsert(j) \/ Refresh(j) \/ Invalidate(j)
  \/ DeleteRows(j) \/ DeleteDoc(j) \/ ListRemaining(j) \/ DropMetrics(j) \/ ClearInsights(j)
  \/ FinishDelete(j) \/ FinishReExtract(j) \/ Schedule(j)
  \/ PriorPeriod(j) \/ NarrativeDelete(j) \/ NarrativeSave(j)
  \/ Refuse(j) \/ Close(j)

Next ==
  \/ \E j \in Jobs : Request(j) \/ Step(j) \/ Fail(j)
  \/ \E d \in Docs : GenerateReport(d)
  \/ \E i \in insights : EditInsight(i)
  \/ Crash

Spec == Init /\ [][Next]_vars

(* The event loop runs every handler on; nothing obliges a client to issue  *)
(* a request, an exception to be raised or the process to die.              *)
LiveSpec == Spec /\ \A j \in Jobs : WF_vars(Step(j))

-----------------------------------------------------------------------------
(* Properties *)

TypeOK ==
  /\ docs \in [Docs -> DocStatuses]
  /\ files \subseteq Docs
  /\ rows \subseteq Row
  /\ metrics \subseteq Batch
  /\ insights \subseteq Insight
  /\ reports \subseteq [doc : Docs, scored : SUBSET RowIds]
  /\ lock \in [Periods -> Jobs \cup {None}]
  /\ pc \in [Jobs -> PCs]
  /\ job \in [Jobs -> Job]
  /\ tx \in [Jobs -> Tx]
  /\ clock \in Nat /\ issued \in Nat /\ crashes \in Nat

(* Nothing is in progress: what the tables say is what the board reads.     *)
Quiet == \A j \in Jobs : pc[j] = "idle"

EligibleRows(p) == {r \in rows : r.period = p /\ r.status # NEEDS_REVIEW}

(* A figure of b's own period, as opposed to the one growth compares with.  *)
Own(b) == {f \in b.basis : f.period = b.period}

(* One session at a time: whenever a period has statements that passed      *)
(* validation, its cached metrics hold a value for each of their codes, and *)
(* every value they hold is one such statement's value now.                 *)
QuietMetricsMatch ==
  Quiet => \A b \in metrics : EligibleRows(b.period) # {} =>
    /\ \A r \in EligibleRows(b.period) : \E f \in Own(b) : f.code = r.code
    /\ \A f \in Own(b) : \E r \in EligibleRows(b.period) :
         RowId(r) = f.id /\ r.value = f.value

(* One session at a time: deleting or re-extracting a document leaves no    *)
(* metrics for a period whose last statement went with it.                  *)
QuietNoOrphanMetrics ==
  Quiet => \A b \in metrics : \E r \in rows : r.period = b.period

(* One session at a time: the line items of a document are all of one run,  *)
(* however often it is extracted and whatever fails on the way.             *)
LineItemsOfOneRun ==
  \A r, s \in rows : r.doc # None /\ r.doc = s.doc => r.born = s.born

(* Without a crash the document store and the document table agree but for  *)
(* the uploads not yet committed and the deletions under way.               *)
FilesMatchDocuments ==
  crashes = 0 =>
    /\ \A d \in Stored \ files : \E j \in Jobs : job[j].op = "delete" /\ job[j].doc = d
    /\ \A d \in files \ Stored : \E j \in Jobs : pc[j] = "saved" /\ job[j].doc = d

(* One session at a time: of the line items of each document for a code and *)
(* period, and of the entries typed in for them, one that none was updated  *)
(* after went through run_validation with the value it has now.             *)
QuietAllValidated ==
  Quiet => \A r \in rows : \E s \in rows :
    s.doc = r.doc /\ SameFigure(r, s) /\ s.at >= r.at /\ s.validated

(* No chart displays a value that has not been through run_validation.      *)
QuietShownValidated ==
  Quiet => \A b \in metrics : \A f \in Own(b) :
    \E r \in rows : RowId(r) = f.id /\ r.validated

(* No cached metric, the growth on an earlier period included, is computed  *)
(* from a statement that validation has flagged.                            *)
QuietNoFlaggedFigure ==
  Quiet => \A b \in metrics, r \in rows :
    r.status = NEEDS_REVIEW => RowId(r) \notin {f.id : f \in b.basis}

(* Where a code has several statements that passed validation, the cached   *)
(* metrics hold the value of the most recently updated one.                 *)
QuietLatestValue ==
  Quiet => \A b \in metrics :
    \A f \in Own(b), r \in Latest(EligibleRows(b.period)) :
      r.code = f.code => r.value = f.value

(* One session at a time: a cached narrative cites metrics that are still   *)
(* cached, unless a document extracted since it was written contributes to  *)
(* its period.  Whatever else replaces the metrics (a manual entry, an      *)
(* override, a deletion, a re-extraction) drops the narratives with them.   *)
InsightsFollowMetrics ==
  Quiet => \A i \in insights :
    \/ i.src \subseteq IdsOf(metrics)
    \/ \E r \in rows : r.period = i.period /\ r.doc # None /\ r.born > i.id

(* No statement names a document that is gone, however its deletion         *)
(* interleaves with an extraction that still runs.                          *)
NoRowOfDeletedDoc == \A r \in rows : r.doc # None => r.doc \in Stored

(* A run that outlives its document never brings it back.                   *)
DeletedStaysDeleted ==
  [][\A d \in Docs : docs[d] = "deleted" => docs'[d] = "deleted"]_vars

(* A reader that recomputes a period holds the advisory lock of that        *)
(* period from its second look until its commit, across other commits of    *)
(* its own.                                                                 *)
ReaderHoldsLock ==
  \A j \in Jobs :
    job[j].op \in {"view", "insight"} /\ pc[j] \in {"mdelete", "mcommit"}
      => lock[job[j].cur] = j

(* Readers alone never cache a period's metrics twice.                      *)
NoDuplicateBatches == \A b, c \in metrics : b.period = c.period => b = c

(* The figures that the statements which passed validation give a period:   *)
(* of several for one code, any may count.                                  *)
Answers(p) ==
  LET passed == {r \in rows : r.status # NEEDS_REVIEW}
  IN  {FiguresFor(p, T) : T \in {S \in Resolutions(passed) : p \in PeriodsOf(S)}}

Cache == INSTANCE MetricCache WITH
  answers <- [p \in Periods |-> Answers(p)],
  cached  <- [p \in Periods |-> BatchesOf(p)]

(* Readers alone fill the cache and do nothing else to it: however they     *)
(* overlap, fail and crash, what they store for a period is what its        *)
(* statements give, and they never replace metrics another reader may be    *)
(* citing.                                                                  *)
FillsCache == Cache!Spec

(* A run of document d that has yet to commit what it finds.                *)
Underway(d) ==
  \E j \in Jobs : job[j].op = "extract" /\ job[j].doc = d /\ pc[j] \in {"fetch", "persist"}

(* ... or that has yet to begin.                                            *)
Scheduled(d) ==
  \/ Underway(d)
  \/ \E j \in Jobs : job[j].doc = d /\ pc[j] \in {"reload", "start"}

(* A document whose run has begun is extracted, failed or deleted in the    *)
(* end, whatever exception strikes the run and whoever sets the document    *)
(* back to pending meanwhile.  (The update that marks it failed does not    *)
(* raise.)                                                                  *)
ExtractionEnds ==
  \A d \in Docs :
    docs[d] = "processing" \/ (docs[d] = "pending" /\ Underway(d))
      ~> docs[d] \in {"extracted", "failed", "deleted"}

(* A pending document has a run on its way to it.  Only an exception that   *)
(* strikes the request or the run between the commit of pending and the try *)
(* block, or a crash, leaves it without one.                                *)
PendingIsScheduled ==
  [][\A d \in Docs :
       (docs[d] = "pending" /\ ~Scheduled(d))' =>
         \/ docs[d] = "pending" /\ ~Scheduled(d)
         \/ \E j \in Jobs :
              /\ job[j].doc = d
              /\ pc[j] \in {"reload", "start"} /\ pc'[j] = "idle"
         \/ crashes' # crashes]_vars

(* Every session ends, whoever it waits for.                                *)
SessionsEnd == \A j \in Jobs : pc[j] # "idle" ~> pc[j] = "idle"
=============================================================================
