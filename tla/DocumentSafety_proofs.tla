----------------------- MODULE DocumentSafety_proofs -----------------------
(***************************************************************************)
(* Deleted documents stay deleted.  Background runs, re-extractions and    *)
(* deletions of the same document interleave freely, any of them may fail  *)
(* and the process may crash: no statement ever names a document that is   *)
(* gone, no run brings one back, and a pending document has a run on its   *)
(* way.  Where nothing fails, the document store and the document table    *)
(* agree but for what is under way.                                        *)
(***************************************************************************)
EXTENDS ReportPipeline_proofs

-----------------------------------------------------------------------------
(* The foreign key of line items *)

(* A session's step never takes a document off the table while a statement  *)
(* it leaves behind names it.                                               *)
LEMMA CommitKeepsReferences ==
  ASSUME TypeOK, NoRowOfDeletedDoc, NEW j \in Jobs, NEW batch, NEW note,
         Commit(j, batch, note), docs' \in {docs, DocsAfter(j)}
  PROVE  NoRowOfDeletedDoc'
<1> SUFFICES ASSUME NEW r \in rows', r.doc # None PROVE r.doc \in Stored'
  BY DEF NoRowOfDeletedDoc
<1> DEFINE orphan(s) == tx[j].docGone /\ s.doc = job[j].doc
<1>1. PICK s \in rows : r = IF orphan(s) THEN [s EXCEPT !.doc = None] ELSE s
  BY DEF Commit, Visible
<1>2. s \in Row BY DEF TypeOK
<1>3. r = s /\ ~orphan(s) BY <1>1, <1>2 DEF Row
<1>4. s.doc \in Docs /\ docs[s.doc] \notin {"absent", "deleted"}
  BY <1>3 DEF NoRowOfDeletedDoc, Stored
<1>5. docs'[s.doc] = docs[s.doc] BY <1>3, <1>4 DEF DocsAfter, TypeOK
<1> QED BY <1>3, <1>4, <1>5 DEF Stored

(* Where no statement takes a new document and none is taken off the table, *)
(* references hold on.                                                      *)
LEMMA ReferencesKept ==
  ASSUME NoRowOfDeletedDoc, Stored \subseteq Stored',
         \A r \in rows' : r.doc = None \/ r.doc \in Stored' \/ \E s \in rows : s.doc = r.doc
  PROVE  NoRowOfDeletedDoc'
  BY DEF NoRowOfDeletedDoc

LEMMA StoredGrows ==
  ASSUME TypeOK, NEW d, NEW s \in {"pending", "processing", "extracted", "failed"},
         docs' = [docs EXCEPT ![d] = s]
  PROVE  Stored \subseteq Stored'
  BY DEF TypeOK, Stored

LEMMA ReferencesStep ==
  TypeOK /\ NoRowOfDeletedDoc /\ [Next]_vars => NoRowOfDeletedDoc'
<1> SUFFICES ASSUME TypeOK, NoRowOfDeletedDoc, [Next]_vars PROVE NoRowOfDeletedDoc' OBVIOUS
<1> USE DEF tables
<1>a. CASE UNCHANGED <<docs, rows>> BY <1>a DEF NoRowOfDeletedDoc, Stored
<1>b. ASSUME NEW j \in Jobs, Raise(j) PROVE NoRowOfDeletedDoc'
  <2>1. rows' = rows BY <1>b DEF Raise
  <2>2. Stored \subseteq Stored'
    <3>1. docs' = docs \/ docs' = [docs EXCEPT ![job[j].doc] = "failed"]
      BY <1>b DEF Raise
    <3> QED BY <3>1, StoredGrows DEF Stored
  <2> QED BY <2>1, <2>2, ReferencesKept
<1>c. ASSUME NEW j \in Jobs, Request(j) PROVE NoRowOfDeletedDoc'
  <2>1. CASE Override(j)
    <3>1. docs' = docs BY <2>1 DEF Override
    <3>2. PICK r \in rows, v \in Values :
            rows' = (rows \ {r}) \cup
              {[r EXCEPT !.value = v, !.validated = FALSE, !.at = clock + 1]}
      BY <2>1 DEF Override
    <3>3. r \in Row BY DEF TypeOK
    <3>4. [r EXCEPT !.value = v, !.validated = FALSE, !.at = clock + 1].doc = r.doc
      BY <3>3 DEF Row
    <3>5. \A t \in rows' : \E s \in rows : s.doc = t.doc BY <3>2, <3>4
    <3> QED BY <3>1, <3>5, ReferencesKept DEF Stored
  <2>2. CASE ~Override(j)
    <3>1. UNCHANGED <<docs, rows>>
      BY <1>c, <2>2
         DEF Request, Upload, DeleteFile, ReExtract, ViewMetrics, AddCheck, Narrate
    <3> QED BY <3>1, <1>a
  <2> QED BY <2>1, <2>2
<1>d. ASSUME NEW j \in Jobs, Step(j) PROVE NoRowOfDeletedDoc'
  <2>1. CASE UploadCommit(j)
    BY <2>1, StoredGrows, ReferencesKept DEF UploadCommit
  <2>2. CASE StartRun(j)
    BY <2>2, StoredGrows, ReferencesKept DEF StartRun
  <2>3. CASE Persist(j)
    <3> DEFINE d == job[j].doc
               Found(found) ==
                 {NewRow(clock + 1, n, d, found[n].period, found[n].code, found[n].value) :
                    n \in DOMAIN found}
    <3>1. PICK found \in Extractions :
            ValidReference(d, Found(found)) /\ rows' = rows \cup Found(found)
      BY <2>3 DEF Persist
    <3>2. docs' = docs \/ docs' = [docs EXCEPT ![d] = "extracted"] BY <2>3 DEF Persist
    <3>3. Stored \subseteq Stored' BY <3>2, StoredGrows DEF Stored
    <3>4. \A r \in Found(found) : r.doc = d BY DEF NewRow
    <3>5. \A r \in Found(found) : r.doc \in Stored'
      <4>1. Found(found) # {} => d \in Stored BY <3>1 DEF ValidReference
      <4> HIDE DEF Found
      <4> QED BY <4>1, <3>3, <3>4
    <3> HIDE DEF Found
    <3> QED BY <3>1, <3>3, <3>5, ReferencesKept
  <2>4. CASE ValidationCommit(j)
    <3>1. docs' = docs BY <2>4 DEF ValidationCommit
    <3>2. \A t \in rows' : \E s \in rows : s.doc = t.doc
      <4> SUFFICES ASSUME NEW t \in rows' PROVE \E s \in rows : s.doc = t.doc OBVIOUS
      <4> DEFINE marked(s) == \E x \in Statuses : <<RowId(s), x>> \in job[j].marks
                 settle(s) ==
                   [s EXCEPT
                      !.status = IF marked(s)
                                 THEN CHOOSE x \in Statuses : <<RowId(s), x>> \in job[j].marks
                                 ELSE @,
                      !.at = IF marked(s) THEN clock + 1 ELSE @,
                      !.validated = @ \/ <<RowId(s), s.value>> \in job[j].seen]
      <4>0. rows' = {settle(s) : s \in rows} BY <2>4 DEF ValidationCommit
      <4>1. PICK s \in rows : t = settle(s) BY <4>0
      <4>2. s \in Row BY DEF TypeOK
      <4>3. settle(s).doc = s.doc BY <4>2 DEF Row
      <4> QED BY <4>1, <4>3
    <3> QED BY <3>1, <3>2, ReferencesKept DEF Stored
  <2>5. CASE AddInsert(j)
    <3> DEFINE new == {NewRow(clock + 1, 0, None, m.period, m.code, m.value) : m \in job[j].mem}
    <3>1. docs' = docs /\ rows' = rows \cup new BY <2>5 DEF AddInsert
    <3>2. \A r \in new : r.doc = None BY DEF NewRow
    <3> HIDE DEF new
    <3> QED BY <3>1, <3>2, ReferencesKept DEF Stored
  <2>6. CASE ComputeCommit(j)
    <3>1. PICK batch : Commit(j, batch, {}) /\ docs' = DocsAfter(j) BY <2>6 DEF ComputeCommit
    <3> QED BY <3>1, CommitKeepsReferences
  <2>7. CASE FinishDelete(j) BY <2>7, CommitKeepsReferences DEF FinishDelete
  <2>8. CASE Schedule(j) BY <2>8, <1>a DEF Schedule
  <2>9. CASE NarrativeSave(j)
    <3>1. PICK note : Commit(j, {}, note) /\ docs' = docs BY <2>9 DEF NarrativeSave
    <3> QED BY <3>1, CommitKeepsReferences
  <2>10. CASE FinishReExtract(j)
    <3>1. Commit(j, {}, {}) BY <2>10 DEF FinishReExtract
    <3>2. docs' = docs \/ docs' = [docs EXCEPT ![job[j].doc] = "pending"]
      BY <2>10 DEF FinishReExtract
    <3>3. Stored \subseteq Stored' BY <3>2, StoredGrows DEF Stored
    <3>4. \A r \in rows' : r.doc = None \/ \E s \in rows : s.doc = r.doc
      <4> SUFFICES ASSUME NEW r \in rows' PROVE r.doc = None \/ \E s \in rows : s.doc = r.doc
        OBVIOUS
      <4>1. PICK s \in rows : r = s \/ r = [s EXCEPT !.doc = None]
        BY <3>1 DEF Commit, Visible
      <4>2. s \in Row BY DEF TypeOK
      <4> QED BY <4>1, <4>2 DEF Row
    <3> QED BY <3>3, <3>4, ReferencesKept
  <2>11. CASE Refuse(j) BY <2>11, <1>b DEF Refuse
  <2>12. CASE \/ Fetch(j) \/ Score(j) \/ ValidationRead(j) \/ ComputeRead(j)
              \/ ComputeDelete(j) \/ Look(j) \/ TakeLock(j) \/ Refresh(j) \/ Invalidate(j)
              \/ DeleteRows(j) \/ DeleteDoc(j) \/ ListRemaining(j) \/ DropMetrics(j)
              \/ ClearInsights(j) \/ PriorPeriod(j) \/ NarrativeDelete(j) \/ Close(j)
    <3>1. UNCHANGED <<docs, rows>>
      BY <2>12
         DEF Fetch, Score, ValidationRead, ComputeRead, ComputeDelete, Look, TakeLock, Refresh,
             Invalidate, DeleteRows, DeleteDoc, ListRemaining, DropMetrics, ClearInsights,
             PriorPeriod, NarrativeDelete, Close
    <3> QED BY <3>1, <1>a
  <2> QED BY <1>d, <2>1, <2>2, <2>3, <2>4, <2>5, <2>6, <2>7, <2>8, <2>9, <2>10, <2>11, <2>12
          DEF Step
<1>e. ASSUME NEW d, GenerateReport(d) PROVE UNCHANGED <<docs, rows>>
  BY <1>e DEF GenerateReport
<1>f. ASSUME NEW i, EditInsight(i) PROVE UNCHANGED <<docs, rows>>
  BY <1>f DEF EditInsight
<1>g. CASE Crash BY <1>g, <1>a DEF Crash
<1>h. CASE UNCHANGED vars BY <1>a, <1>h DEF vars
<1> QED BY <1>a, <1>b, <1>c, <1>d, <1>e, <1>f, <1>g, <1>h, NextCases

LEMMA ReferencesInit == Init => NoRowOfDeletedDoc
<1> SUFFICES ASSUME Init, NEW r \in rows, r.doc # None PROVE r.doc \in Stored
  BY DEF NoRowOfDeletedDoc
<1>1. PICK seed \in Seeds :
        /\ docs = [d \in Docs |-> IF d \in seed.stored THEN "extracted" ELSE "absent"]
        /\ rows = seed.rows
  BY DEF Init
<1>2. r.doc \in seed.stored /\ seed.stored \subseteq Docs BY <1>1, SeedsAreStatements
<1> QED BY <1>1, <1>2 DEF Stored

(* No interleaving of runs, deletions, re-extractions, failures and crashes *)
(* leaves a statement that names a document which is not on record: what a  *)
(* run that outlives its document tries to store, its commit refuses.       *)
THEOREM ReferencesHold == Spec => []NoRowOfDeletedDoc
<1>1. Init => NoRowOfDeletedDoc BY ReferencesInit
<1> QED BY <1>1, ReferencesStep, TypeCorrect, PTL DEF Spec

-----------------------------------------------------------------------------
(* No run brings a deleted document back *)

(* A session on its way to delete the document it names.                    *)
Deleting(j) ==
  \/ pc[j] = "drows" /\ job[j].op = "delete"
  \/ pc[j] = "ddoc"
  \/ tx[j].docGone

(* An upload that is saved but not committed has a document of its own that *)
(* no table knows, and whose PDF keeps a second upload away from it; a      *)
(* deletion under way has a document the tables have known.                 *)
Claims ==
  /\ \A j \in Jobs : pc[j] = "saved" =>
       job[j].doc \in files /\ docs[job[j].doc] = "absent"
  /\ \A j, k \in Jobs :
       pc[j] = "saved" /\ pc[k] = "saved" /\ job[j].doc = job[k].doc => j = k
  /\ \A j \in Jobs : Deleting(j) => job[j].doc \in Docs /\ docs[job[j].doc] # "absent"
  /\ \A j \in Jobs : pc[j] = "idle" => ~tx[j].docGone

(* What a session's step may do to the status of a document: one on record  *)
(* stays on record, but for the one that the session commits, which was not *)
(* on record, and the one whose deletion it commits.                        *)
DocMoves(j, d) ==
  \/ docs'[d] = docs[d]
  \/ d \in Stored /\ docs'[d] \notin {"absent", "deleted"}
  \/ pc[j] = "saved" /\ d = job[j].doc /\ docs'[d] = "pending"
  \/ tx[j].docGone /\ d = job[j].doc /\ docs'[d] = "deleted"

(* ... and to its own claim: it keeps the document it is deleting, and what *)
(* it saves or sets out to delete it has just been asked for.               *)
Claimed(j) ==
  /\ pc'[j] # "saved"
  /\ Deleting(j)' => Deleting(j) /\ job'[j].doc = job[j].doc
  /\ pc'[j] = "idle" => ~tx'[j].docGone
  /\ files' = files

LEMMA CommitClears ==
  ASSUME TypeOK, NEW j \in Jobs, NEW batch, NEW note, Commit(j, batch, note)
  PROVE  tx'[j].docGone = FALSE
  BY DEF Commit, TypeOK, NoTx

LEMMA CommitMoves ==
  ASSUME TypeOK, NEW j \in Jobs, docs' \in {docs, DocsAfter(j)}, NEW d \in Docs
  PROVE  DocMoves(j, d)
  BY DEF DocMoves, DocsAfter, TypeOK

LEMMA StoredMoves ==
  ASSUME TypeOK, NEW j \in Jobs, NEW d \in Docs, job[j].doc \in Stored,
         NEW s \in {"pending", "processing", "extracted", "failed"},
         docs' = [docs EXCEPT ![job[j].doc] = s]
  PROVE  DocMoves(j, d)
  BY DEF DocMoves, TypeOK

(* Past a period a session neither saves an upload nor starts a deletion.   *)
LEMMA PeriodDoneMoves ==
  ASSUME TypeOK, NEW j \in Jobs, NEW p, NEW found, PeriodDone(j, p, found)
  PROVE  pc'[j] \notin {"saved", "drows", "ddoc", "idle"} /\ job'[j].doc = job[j].doc
<1>1. job[j] \in Job BY DEF TypeOK
<1>2. pc'[j] = AfterPeriod(j, p) BY DEF PeriodDone, Goto, TypeOK
<1>3. AfterPeriod(j, p) \in {"iclear", "invalidate", "prior", "llm", "done", "look",
                             "metrics", "score"}
  BY DEF AfterPeriod, RunEnd
<1>4. job'[j].doc = job[j].doc BY <1>1 DEF PeriodDone, TypeOK, Job
<1> QED BY <1>2, <1>3, <1>4

LEMMA EndMoves ==
  ASSUME TypeOK, NEW j \in Jobs, End(j)
  PROVE  pc'[j] = "idle" /\ tx'[j].docGone = FALSE
  BY DEF End, TypeOK, NoTx

LEMMA RaiseMoves ==
  ASSUME TypeOK, NEW j \in Jobs, Raise(j)
  PROVE  Claimed(j) /\ \A d \in Docs : DocMoves(j, d)
<1>1. Claimed(j)
  <2>1. End(j) /\ files' = files BY DEF Raise
  <2> QED BY <2>1, EndMoves DEF Claimed, Deleting
<1>2. docs' = docs \/ (job[j].doc \in Stored /\ docs' = [docs EXCEPT ![job[j].doc] = "failed"])
  BY DEF Raise
<1> QED BY <1>1, <1>2, StoredMoves DEF DocMoves

LEMMA StepMoves ==
  ASSUME TypeOK, NEW j \in Jobs, Step(j)
  PROVE  Claimed(j) /\ \A d \in Docs : DocMoves(j, d)
<1> USE DEF TypeOK, Goto, tables
<1>s. ASSUME docs' = docs PROVE \A d \in Docs : DocMoves(j, d) BY <1>s DEF DocMoves
<1>m. job[j] \in Job OBVIOUS
<1>1. CASE UploadCommit(j)
  BY <1>1 DEF UploadCommit, DocMoves, Claimed, Deleting
<1>2. CASE StartRun(j)
  <2>1. Claimed(j) BY <1>2 DEF StartRun, Claimed, Deleting
  <2> QED BY <1>2, <2>1, StoredMoves DEF StartRun
<1>3. CASE Fetch(j) BY <1>3, <1>s DEF Fetch, Claimed, Deleting
<1>4. CASE Persist(j)
  <2>1. PICK new : job' = [job EXCEPT ![j].mem = new, ![j].todo = PeriodsOf(new)]
    BY <1>4 DEF Persist
  <2>2. job'[j].doc = job[j].doc BY <2>1, <1>m DEF Job
  <2>3. pc'[j] = "vread" /\ tx' = tx /\ files' = files BY <1>4 DEF Persist
  <2>4. Claimed(j) BY <2>2, <2>3 DEF Claimed, Deleting
  <2>5. docs' = docs \/ (job[j].doc \in Stored /\ docs' = [docs EXCEPT ![job[j].doc] = "extracted"])
    BY <1>4 DEF Persist
  <2> QED BY <2>4, <2>5, <1>s, StoredMoves
<1>5. CASE Score(j) BY <1>5, <1>s DEF Score, Claimed, Deleting
<1>6. CASE ValidationRead(j)
  <2>1. PICK x, y, z : job' = [job EXCEPT ![j].marks = x, ![j].anchors = y, ![j].seen = z]
    BY <1>6 DEF ValidationRead
  <2>2. job'[j].doc = job[j].doc BY <2>1, <1>m DEF Job
  <2>3. pc'[j] = "vcommit" /\ tx' = tx /\ files' = files /\ docs' = docs
    BY <1>6 DEF ValidationRead
  <2> QED BY <2>2, <2>3, <1>s DEF Claimed, Deleting
<1>7. CASE ValidationCommit(j)
  <2>1. job' = [job EXCEPT ![j].marks = {}, ![j].anchors = {}, ![j].seen = {}]
    BY <1>7 DEF ValidationCommit
  <2>2. job'[j].doc = job[j].doc BY <2>1, <1>m DEF Job
  <2>3. /\ pc' = [pc EXCEPT ![j] = IF job[j].todo = {} THEN RunEnd(j) ELSE "metrics"]
        /\ tx' = tx /\ files' = files /\ docs' = docs
    BY <1>7 DEF ValidationCommit
  <2>4. pc'[j] \in {"score", "done", "metrics"} BY <2>3 DEF RunEnd
  <2> QED BY <2>2, <2>3, <2>4, <1>s DEF Claimed, Deleting
<1>8. CASE ComputeRead(j)
  <2>1. tx' = tx /\ files' = files /\ docs' = docs BY <1>8 DEF ComputeRead
  <2>2. PICK p \in Upcoming(j) :
          \/ PeriodDone(j, p, {})
          \/ /\ \E T : job' = [job EXCEPT ![j].cur = p, ![j].basis = FiguresFor(p, T)]
             /\ Goto(j, "mdelete")
    BY <1>8 DEF ComputeRead
  <2>3. CASE PeriodDone(j, p, {})
    BY <2>1, <2>3, <1>s, PeriodDoneMoves DEF Claimed, Deleting
  <2>4. CASE /\ \E T : job' = [job EXCEPT ![j].cur = p, ![j].basis = FiguresFor(p, T)]
             /\ Goto(j, "mdelete")
    <3>1. PICK T : job' = [job EXCEPT ![j].cur = p, ![j].basis = FiguresFor(p, T)] BY <2>4
    <3>2. job'[j].doc = job[j].doc BY <3>1, <1>m DEF Job
    <3>3. pc'[j] = "mdelete" BY <2>4
    <3> QED BY <2>1, <3>2, <3>3, <1>s DEF Claimed, Deleting
  <2> QED BY <2>2, <2>3, <2>4
<1>9. CASE ComputeDelete(j)
  <2>1. tx'[j].docGone = tx[j].docGone BY <1>9 DEF ComputeDelete, Tx
  <2> QED BY <1>9, <2>1, <1>s DEF ComputeDelete, Claimed, Deleting
<1>10. CASE ComputeCommit(j)
  <2>1. PICK p, batch, found : Commit(j, batch, {}) /\ PeriodDone(j, p, found)
    BY <1>10 DEF ComputeCommit
  <2>2. docs' = DocsAfter(j) /\ files' = files BY <1>10 DEF ComputeCommit
  <2>3. Claimed(j) BY <2>1, <2>2, CommitClears, PeriodDoneMoves DEF Claimed, Deleting
  <2> QED BY <2>2, <2>3, CommitMoves
<1>11. CASE Look(j)
  <2>1. tx' = tx /\ files' = files /\ docs' = docs BY <1>11 DEF Look
  <2>2. PICK p \in Upcoming(j) :
          \/ PeriodDone(j, p, IdsOf(BatchesOf(p)))
          \/ job' = [job EXCEPT ![j].cur = p] /\ Goto(j, "lock")
    BY <1>11 DEF Look
  <2>3. CASE PeriodDone(j, p, IdsOf(BatchesOf(p)))
    BY <2>1, <2>3, <1>s, PeriodDoneMoves DEF Claimed, Deleting
  <2>4. CASE job' = [job EXCEPT ![j].cur = p] /\ Goto(j, "lock")
    <3>1. job'[j].doc = job[j].doc /\ pc'[j] = "lock" BY <2>4, <1>m DEF Job
    <3> QED BY <2>1, <3>1, <1>s DEF Claimed, Deleting
  <2> QED BY <2>2, <2>3, <2>4
<1>12. CASE TakeLock(j)
  <2>1. tx' = tx /\ files' = files /\ docs' = docs BY <1>12 DEF TakeLock
  <2>2. CASE \E p, found : PeriodDone(j, p, found)
    BY <2>1, <2>2, <1>s, PeriodDoneMoves DEF Claimed, Deleting
  <2>3. CASE Goto(j, "metrics") /\ UNCHANGED job
    BY <2>1, <2>3, <1>s DEF Claimed, Deleting
  <2> QED BY <1>12, <2>2, <2>3 DEF TakeLock
<1>13. CASE AddInsert(j)
  <2>1. PICK new : job' = [job EXCEPT ![j].mem = new] BY <1>13 DEF AddInsert
  <2>2. job'[j].doc = job[j].doc BY <2>1, <1>m DEF Job
  <2> QED BY <1>13, <2>2, <1>s DEF AddInsert, Claimed, Deleting
<1>14. CASE Refresh(j)
  <2>1. PICK new : job' = [job EXCEPT ![j].mem = new] BY <1>14 DEF Refresh
  <2>2. job'[j].doc = job[j].doc BY <2>1, <1>m DEF Job
  <2> QED BY <1>14, <2>2, <1>s DEF Refresh, Claimed, Deleting
<1>15. CASE Invalidate(j) BY <1>15, <1>s DEF Invalidate, Claimed, Deleting
<1>16. CASE DeleteRows(j) BY <1>16, <1>s DEF DeleteRows, AfterClearing, Claimed, Deleting
<1>17. CASE DeleteDoc(j)
  <2>1. job'[j].doc = job[j].doc BY <1>17 DEF DeleteDoc
  <2>2. pc[j] = "ddoc" /\ pc'[j] \in {"close", "remain"} /\ files' = files /\ docs' = docs
    BY <1>17 DEF DeleteDoc, AfterClearing
  <2> QED BY <2>1, <2>2, <1>s DEF Claimed, Deleting
<1>28. CASE ListRemaining(j)
  <2>1. PICK left : job' = [job EXCEPT ![j].left = left] BY <1>28 DEF ListRemaining
  <2>2. job'[j].doc = job[j].doc BY <2>1, <1>m DEF Job
  <2> QED BY <1>28, <2>2, <1>s DEF ListRemaining, Claimed, Deleting
<1>18. CASE DropMetrics(j)
  <2>1. PICK p : PeriodDone(j, p, {}) BY <1>18 DEF DropMetrics
  <2>2. tx'[j].docGone = tx[j].docGone BY <1>18 DEF DropMetrics, Tx
  <2>3. files' = files /\ docs' = docs BY <1>18 DEF DropMetrics
  <2> QED BY <2>1, <2>2, <2>3, <1>s, PeriodDoneMoves DEF Claimed, Deleting
<1>19. CASE ClearInsights(j)
  <2>1. tx'[j].docGone = tx[j].docGone BY <1>19 DEF ClearInsights, Tx
  <2> QED BY <1>19, <2>1, <1>s DEF ClearInsights, Claimed, Deleting
<1>20. CASE FinishDelete(j)
  <2>1. Claimed(j) BY <1>20, CommitClears DEF FinishDelete, Claimed, Deleting
  <2> QED BY <1>20, <2>1, CommitMoves DEF FinishDelete
<1>21. CASE FinishReExtract(j)
  <2>1. tx'[j].docGone = FALSE BY <1>21, CommitClears DEF FinishReExtract
  <2>2. pc'[j] = "reload" /\ files' = files BY <1>21 DEF FinishReExtract
  <2>3. Claimed(j) BY <2>1, <2>2 DEF Claimed, Deleting
  <2>4. docs' = docs \/ (job[j].doc \in Stored /\ docs' = [docs EXCEPT ![job[j].doc] = "pending"])
    BY <1>21 DEF FinishReExtract
  <2> QED BY <2>3, <2>4, <1>s, StoredMoves
<1>22. CASE Schedule(j) BY <1>22, <1>s DEF Schedule, Claimed, Deleting, Idle
<1>23. CASE PriorPeriod(j)
  <2>1. PICK latest : job' = [job EXCEPT ![j].todo = latest] BY <1>23 DEF PriorPeriod
  <2>2. job'[j].doc = job[j].doc BY <2>1, <1>m DEF Job
  <2>3. pc'[j] \in {"llm", "look"} /\ tx' = tx /\ files' = files /\ docs' = docs
    BY <1>23 DEF PriorPeriod
  <2> QED BY <2>2, <2>3, <1>s DEF Claimed, Deleting
<1>24. CASE NarrativeDelete(j)
  <2>1. tx'[j].docGone = tx[j].docGone BY <1>24 DEF NarrativeDelete, Tx
  <2> QED BY <1>24, <2>1, <1>s DEF NarrativeDelete, Claimed, Deleting
<1>25. CASE NarrativeSave(j)
  <2>1. tx'[j].docGone = FALSE BY <1>25, CommitClears DEF NarrativeSave
  <2> QED BY <1>25, <2>1, <1>s DEF NarrativeSave, Claimed, Deleting
<1>26. CASE Refuse(j) BY <1>26, RaiseMoves DEF Refuse
<1>27. CASE Close(j) BY <1>27, <1>s, EndMoves DEF Close, Claimed, Deleting
<1> QED BY <1>1, <1>2, <1>3, <1>4, <1>5, <1>6, <1>7, <1>8, <1>9, <1>10, <1>11, <1>12, <1>13, <1>14,
           <1>15, <1>16, <1>17, <1>18, <1>19, <1>20, <1>21, <1>22, <1>23, <1>24, <1>25, <1>26,
           <1>27, <1>28 DEF Step

(* A request claims a document only to save it or to delete it.             *)
LEMMA RequestMoves ==
  ASSUME TypeOK, NEW j \in Jobs, Request(j)
  PROVE  /\ docs' = docs /\ pc[j] = "idle" /\ pc'[j] # "idle"
         /\ tx'[j].docGone = tx[j].docGone
         /\ \/ \E d \in Docs \ files : /\ pc'[j] = "saved" /\ job'[j].doc = d
                                       /\ docs[d] = "absent" /\ files' = files \cup {d}
            \/ \E d \in Stored : /\ pc'[j] = "drows" /\ job'[j].doc = d
                                 /\ files' = files \ {d}
            \/ /\ pc'[j] \notin {"saved", "ddoc"} /\ files' = files
               /\ pc'[j] = "drows" => job'[j].op # "delete"
<1> USE DEF TypeOK, Goto, tables, Open, Idle
<1>1. ASSUME NEW d \in Docs, Upload(j, d)
      PROVE  /\ pc'[j] = "saved" /\ job'[j].doc = d /\ files' = files \cup {d}
             /\ docs[d] = "absent" /\ d \notin files
             /\ docs' = docs /\ pc[j] = "idle" /\ tx' = tx
  BY <1>1 DEF Upload
<1>2. ASSUME NEW d \in Docs, DeleteFile(j, d)
      PROVE  /\ pc'[j] = "drows" /\ job'[j].doc = d /\ files' = files \ {d} /\ d \in Stored
             /\ docs' = docs /\ pc[j] = "idle" /\ tx' = tx
  BY <1>2 DEF DeleteFile
<1>3. ASSUME NEW d \in Docs, ReExtract(j, d)
      PROVE  /\ pc'[j] = "drows" /\ job'[j].op = "reextract" /\ files' = files
             /\ docs' = docs /\ pc[j] = "idle" /\ tx' = tx
  BY <1>3 DEF ReExtract
<1>4. CASE ViewMetrics(j) BY <1>4 DEF ViewMetrics
<1>5. CASE Override(j) BY <1>5 DEF Override
<1>6. CASE AddCheck(j) BY <1>6 DEF AddCheck
<1>7. CASE Narrate(j) BY <1>7 DEF Narrate
<1>8. CASE \E d \in Docs : Upload(j, d) BY <1>1, <1>8
<1>9. CASE \E d \in Docs : DeleteFile(j, d) BY <1>2, <1>9
<1>10. CASE \E d \in Docs : ReExtract(j, d)
  <2>1. PICK d \in Docs : ReExtract(j, d) BY <1>10
  <2> QED BY <1>3, <2>1
<1> QED BY <1>4, <1>5, <1>6, <1>7, <1>8, <1>9, <1>10 DEF Request

LEMMA ClaimsStep ==
  ASSUME TypeOK, Claims, NEW j \in Jobs, Claimed(j), \A d \in Docs : DocMoves(j, d),
         \A k \in Jobs \ {j} : pc'[k] = pc[k] /\ job'[k] = job[k] /\ tx'[k] = tx[k]
  PROVE  Claims'
<1>1. \A k \in Jobs \ {j} : Deleting(k)' <=> Deleting(k) BY DEF Deleting
<1>2. ASSUME NEW d \in Docs, docs[d] # "absent" PROVE docs'[d] # "absent"
  <2>1. DocMoves(j, d) OBVIOUS
  <2> QED BY <1>2, <2>1 DEF DocMoves
<1>3. ASSUME NEW k \in Jobs, pc'[k] = "saved"
      PROVE  k # j /\ pc[k] = "saved" /\ job'[k].doc = job[k].doc
  BY <1>3 DEF Claimed
<1>4. ASSUME NEW k \in Jobs, pc'[k] = "saved"
      PROVE  job'[k].doc \in files' /\ docs'[job'[k].doc] = "absent"
  <2> DEFINE d == job[k].doc
  <2>1. k # j /\ pc[k] = "saved" /\ job'[k].doc = d BY <1>3, <1>4
  <2>2. d \in files /\ docs[d] = "absent" BY <2>1 DEF Claims
  <2>3. d \in Docs BY <2>2 DEF TypeOK
  <2>4. ~(pc[j] = "saved" /\ d = job[j].doc) BY <2>1 DEF Claims
  <2>5. ~(tx[j].docGone /\ d = job[j].doc) BY <2>2 DEF Claims, Deleting
  <2>6. DocMoves(j, d) BY <2>3
  <2>7. docs'[d] = docs[d] BY <2>2, <2>4, <2>5, <2>6 DEF DocMoves, Stored
  <2> QED BY <2>1, <2>2, <2>7 DEF Claimed
<1>5. ASSUME NEW k \in Jobs, Deleting(k)'
      PROVE  job'[k].doc \in Docs /\ docs'[job'[k].doc] # "absent"
  <2>1. Deleting(k) /\ job'[k].doc = job[k].doc BY <1>1, <1>5 DEF Claimed
  <2>2. job[k].doc \in Docs /\ docs[job[k].doc] # "absent" BY <2>1 DEF Claims
  <2> QED BY <1>2, <2>1, <2>2
<1>6. ASSUME NEW k \in Jobs, pc'[k] = "idle" PROVE ~tx'[k].docGone
  BY <1>6 DEF Claims, Claimed
<1>7. \A k, l \in Jobs :
        pc'[k] = "saved" /\ pc'[l] = "saved" /\ job'[k].doc = job'[l].doc => k = l
  BY <1>3 DEF Claims
<1> QED BY <1>4, <1>5, <1>6, <1>7 DEF Claims

LEMMA ClaimsRequest ==
  ASSUME TypeOK, Claims, NEW j \in Jobs, Request(j),
         \A k \in Jobs \ {j} : pc'[k] = pc[k] /\ job'[k] = job[k] /\ tx'[k] = tx[k]
  PROVE  Claims'
<1>0. /\ docs' = docs /\ pc[j] = "idle" /\ pc'[j] # "idle" /\ ~tx'[j].docGone
  BY RequestMoves DEF Claims
<1>1. \A k \in Jobs \ {j} : Deleting(k)' <=> Deleting(k) BY DEF Deleting
<1>2. \A k \in Jobs \ {j} : Deleting(k)' =>
         job'[k].doc \in Docs /\ docs'[job'[k].doc] # "absent"
  BY <1>0, <1>1 DEF Claims
<1>3. \A k \in Jobs : pc'[k] = "idle" => ~tx'[k].docGone BY <1>0 DEF Claims
<1>4. \A k \in Jobs \ {j} : pc'[k] = "saved" => pc[k] = "saved" /\ job'[k].doc = job[k].doc
  OBVIOUS
<1>5. \A k \in Jobs \ {j} : pc[k] = "saved" => job[k].doc \in files /\ docs[job[k].doc] = "absent"
  BY DEF Claims
<1>6. CASE \E d \in Docs \ files : /\ pc'[j] = "saved" /\ job'[j].doc = d
                                   /\ docs[d] = "absent" /\ files' = files \cup {d}
  <2>1. ~Deleting(j)' BY <1>0, <1>6 DEF Deleting
  <2>2. \A k \in Jobs : pc'[k] = "saved" =>
           job'[k].doc \in files' /\ docs'[job'[k].doc] = "absent"
    BY <1>0, <1>4, <1>5, <1>6
  <2>3. \A k \in Jobs \ {j} : pc'[k] = "saved" => job'[k].doc # job'[j].doc
    BY <1>4, <1>5, <1>6
  <2>4. \A k, l \in Jobs :
          pc'[k] = "saved" /\ pc'[l] = "saved" /\ job'[k].doc = job'[l].doc => k = l
    BY <2>3, <1>4 DEF Claims
  <2> QED BY <1>2, <1>3, <2>1, <2>2, <2>4 DEF Claims
<1>7. CASE \E d \in Stored : /\ pc'[j] = "drows" /\ job'[j].doc = d /\ files' = files \ {d}
  <2>1. job'[j].doc \in Docs /\ docs'[job'[j].doc] # "absent" BY <1>0, <1>7 DEF Stored
  <2>2. \A k \in Jobs : pc'[k] = "saved" =>
           job'[k].doc \in files' /\ docs'[job'[k].doc] = "absent"
    BY <1>0, <1>4, <1>5, <1>7 DEF Stored
  <2>3. \A k, l \in Jobs :
          pc'[k] = "saved" /\ pc'[l] = "saved" /\ job'[k].doc = job'[l].doc => k = l
    BY <1>4, <1>7 DEF Claims
  <2> QED BY <1>2, <1>3, <2>1, <2>2, <2>3 DEF Claims
<1>8. CASE /\ pc'[j] \notin {"saved", "ddoc"} /\ files' = files
           /\ pc'[j] = "drows" => job'[j].op # "delete"
  <2>1. ~Deleting(j)' BY <1>0, <1>8 DEF Deleting
  <2>2. \A k \in Jobs : pc'[k] = "saved" =>
           job'[k].doc \in files' /\ docs'[job'[k].doc] = "absent"
    BY <1>0, <1>4, <1>5, <1>8
  <2>3. \A k, l \in Jobs :
          pc'[k] = "saved" /\ pc'[l] = "saved" /\ job'[k].doc = job'[l].doc => k = l
    BY <1>4, <1>8 DEF Claims
  <2> QED BY <1>2, <1>3, <2>1, <2>2, <2>3 DEF Claims
<1> QED BY <1>6, <1>7, <1>8, RequestMoves

(* Every kind of step keeps the claims, and with them a deleted document.   *)
LEMMA ClaimsNext ==
  ASSUME TypeOK, Claims, [Next]_vars
  PROVE  Claims' /\ \A d \in Docs : docs[d] = "deleted" => docs'[d] = "deleted"
<1>1. ASSUME NEW j \in Jobs, Request(j)
      PROVE  Claims' /\ \A d \in Docs : docs[d] = "deleted" => docs'[d] = "deleted"
  <2>1. \A k \in Jobs \ {j} : pc'[k] = pc[k] /\ job'[k] = job[k] /\ tx'[k] = tx[k]
    BY <1>1, OthersKept
  <2> QED BY <1>1, <2>1, RequestMoves, ClaimsRequest
<1>2. ASSUME NEW j \in Jobs, Step(j) \/ Raise(j)
      PROVE  Claims' /\ \A d \in Docs : docs[d] = "deleted" => docs'[d] = "deleted"
  <2>1. \A k \in Jobs \ {j} : pc'[k] = pc[k] /\ job'[k] = job[k] /\ tx'[k] = tx[k]
    BY <1>2, OthersKept
  <2>2. Claimed(j) /\ \A d \in Docs : DocMoves(j, d) BY <1>2, StepMoves, RaiseMoves
  <2>3. ASSUME NEW d \in Docs, docs[d] = "deleted" PROVE docs'[d] = "deleted"
    <3>1. ~(pc[j] = "saved" /\ d = job[j].doc) BY <2>3 DEF Claims
    <3>2. DocMoves(j, d) BY <2>2
    <3> QED BY <2>3, <3>1, <3>2 DEF DocMoves, Stored
  <2>4. Claims' BY <2>1, <2>2, ClaimsStep
  <2> QED BY <2>3, <2>4
<1>3. CASE UNCHANGED <<docs, files, pc, job, tx>> BY <1>3 DEF Claims, Deleting
<1>4. CASE Crash
  <2>1. docs' = docs BY <1>4 DEF Crash, tables
  <2>2. \A j \in Jobs : pc'[j] = "idle" /\ ~tx'[j].docGone BY <1>4 DEF Crash, NoTx
  <2> QED BY <2>1, <2>2 DEF Claims, Deleting
<1>5. ASSUME NEW d, GenerateReport(d) PROVE UNCHANGED <<docs, files, pc, job, tx>>
  BY <1>5 DEF GenerateReport
<1>6. ASSUME NEW i, EditInsight(i) PROVE UNCHANGED <<docs, files, pc, job, tx>>
  BY <1>6 DEF EditInsight
<1>7. CASE UNCHANGED vars BY <1>3, <1>7 DEF vars
<1> QED BY <1>1, <1>2, <1>3, <1>4, <1>5, <1>6, <1>7, NextCases

(* A run that outlives its document never brings it back: a deleted         *)
(* document is written by no status update, and no upload claims it again.  *)
THEOREM DeletionIsFinal == Spec => DeletedStaysDeleted
<1>1. Init => Claims BY DEF Init, Claims, Deleting, NoTx
<1>2. TypeOK /\ Claims /\ [Next]_vars => Claims' BY ClaimsNext
<1>3. TypeOK /\ Claims /\ [Next]_vars =>
        [\A d \in Docs : docs[d] = "deleted" => docs'[d] = "deleted"]_vars
  BY ClaimsNext
<1> QED BY <1>1, <1>2, <1>3, TypeCorrect, PTL DEF Spec, DeletedStaysDeleted

-----------------------------------------------------------------------------
(* Pending documents and their runs *)

(* j is on its way to a run of d that has yet to commit what it finds.      *)
Heads(j, d) ==
  /\ job[j].doc = d
  /\ \/ pc[j] \in {"reload", "start"}
     \/ job[j].op = "extract" /\ pc[j] \in {"fetch", "persist"}

LEMMA HeadsAreScheduled ==
  ASSUME NEW d PROVE Scheduled(d) <=> \E j \in Jobs : Heads(j, d)
  BY DEF Scheduled, Underway, Heads

(* The steps from the commit of pending to that of what a run has found; no *)
(* other sets a document to pending, and none of the others is taken by a   *)
(* session in between.                                                      *)
LEMMA StepsOfRuns ==
  ASSUME TypeOK, NEW j \in Jobs, Step(j)
  PROVE  \/ UploadCommit(j) \/ FinishReExtract(j) \/ Schedule(j)
         \/ StartRun(j) \/ Fetch(j) \/ Persist(j) \/ Refuse(j)
         \/ /\ pc[j] \notin {"reload", "start", "fetch", "persist"}
            /\ docs' \in {docs, DocsAfter(j)}
<1> USE DEF tables
<1>1. CASE Score(j) BY <1>1 DEF Score
<1>2. CASE ValidationRead(j) BY <1>2 DEF ValidationRead
<1>3. CASE ValidationCommit(j) BY <1>3 DEF ValidationCommit
<1>4. CASE ComputeRead(j) BY <1>4 DEF ComputeRead
<1>5. CASE ComputeDelete(j) BY <1>5 DEF ComputeDelete
<1>6. CASE ComputeCommit(j) BY <1>6 DEF ComputeCommit
<1>7. CASE Look(j) BY <1>7 DEF Look
<1>8. CASE TakeLock(j) BY <1>8 DEF TakeLock
<1>9. CASE AddInsert(j) BY <1>9 DEF AddInsert
<1>10. CASE Refresh(j) BY <1>10 DEF Refresh
<1>11. CASE Invalidate(j) BY <1>11 DEF Invalidate
<1>12. CASE DeleteRows(j) BY <1>12 DEF DeleteRows
<1>13. CASE DeleteDoc(j) BY <1>13 DEF DeleteDoc
<1>14. CASE ListRemaining(j) BY <1>14 DEF ListRemaining
<1>15. CASE DropMetrics(j) BY <1>15 DEF DropMetrics
<1>16. CASE ClearInsights(j) BY <1>16 DEF ClearInsights
<1>17. CASE FinishDelete(j) BY <1>17 DEF FinishDelete
<1>18. CASE PriorPeriod(j) BY <1>18 DEF PriorPeriod
<1>19. CASE NarrativeDelete(j) BY <1>19 DEF NarrativeDelete
<1>20. CASE NarrativeSave(j) BY <1>20 DEF NarrativeSave
<1>21. CASE Close(j) BY <1>21 DEF Close
<1> QED BY <1>1, <1>2, <1>3, <1>4, <1>5, <1>6, <1>7, <1>8, <1>9, <1>10, <1>11, <1>12, <1>13,
           <1>14, <1>15, <1>16, <1>17, <1>18, <1>19, <1>20, <1>21 DEF Step

(* A session that heads for a run of a document goes on, settles it, or is  *)
(* struck before its try block; one that sets a document to pending heads   *)
(* for a run of it.                                                         *)
LEMMA StepHeads ==
  ASSUME TypeOK, NEW j \in Jobs, Step(j) \/ Raise(j), NEW d \in Docs, docs'[d] = "pending"
  PROVE  /\ docs[d] # "pending" => Heads(j, d)'
         /\ Heads(j, d) => Heads(j, d)' \/ (pc[j] \in {"reload", "start"} /\ pc'[j] = "idle")
<1> USE DEF TypeOK, Goto, Heads
<1>r. CASE Raise(j)
  <2>1. pc'[j] = "idle" BY <1>r, EndMoves DEF Raise
  <2>2. docs' = docs \/ docs' = [docs EXCEPT ![job[j].doc] = "failed"] BY <1>r DEF Raise
  <2>3. docs[d] = "pending" BY <2>2
  <2>4. Heads(j, d) => pc[j] \in {"reload", "start"}
    <3> SUFFICES ASSUME Heads(j, d), pc[j] \in {"fetch", "persist"} PROVE FALSE OBVIOUS
    <3>1. Guarded(j) BY DEF Guarded
    <3>2. docs' = [docs EXCEPT ![d] = "failed"] BY <1>r, <3>1, <2>3 DEF Raise, Stored
    <3> QED BY <3>2
  <2> QED BY <2>1, <2>3, <2>4
<1>1. CASE UploadCommit(j) BY <1>1 DEF UploadCommit
<1>2. CASE FinishReExtract(j) BY <1>2 DEF FinishReExtract
<1>3. CASE Schedule(j) BY <1>3 DEF Schedule, tables, Idle
<1>4. CASE StartRun(j) BY <1>4 DEF StartRun
<1>5. CASE Fetch(j) BY <1>5 DEF Fetch, tables
<1>6. CASE Persist(j)
  <2>1. pc[j] = "persist" BY <1>6 DEF Persist
  <2>2. docs' = IF job[j].doc \in Stored THEN [docs EXCEPT ![job[j].doc] = "extracted"] ELSE docs
    BY <1>6 DEF Persist
  <2>3. docs[d] = "pending" /\ job[j].doc # d BY <2>2 DEF Stored
  <2> QED BY <2>1, <2>3
<1>7. CASE /\ pc[j] \notin {"reload", "start", "fetch", "persist"}
           /\ docs' \in {docs, DocsAfter(j)}
  BY <1>7 DEF DocsAfter
<1>8. CASE Refuse(j) BY <1>r, <1>8 DEF Refuse
<1> QED BY <1>r, <1>1, <1>2, <1>3, <1>4, <1>5, <1>6, <1>7, <1>8, StepsOfRuns

(* However uploads, runs, re-extractions and deletions interleave, and      *)
(* whatever strikes them, a document waits for a run that nobody has        *)
(* scheduled only after an exception between the commit of pending and the  *)
(* try block, or a crash.                                                   *)
THEOREM PendingRunsCome == Spec => PendingIsScheduled
<1>1. TypeOK /\ [Next]_vars =>
        [\A d \in Docs :
           (docs[d] = "pending" /\ ~Scheduled(d))' =>
             \/ docs[d] = "pending" /\ ~Scheduled(d)
             \/ \E j \in Jobs :
                  /\ job[j].doc = d
                  /\ pc[j] \in {"reload", "start"} /\ pc'[j] = "idle"
             \/ crashes' # crashes]_vars
  <2> SUFFICES ASSUME TypeOK, Next, NEW d \in Docs, docs'[d] = "pending", ~Scheduled(d)',
                      ~(docs[d] = "pending" /\ ~Scheduled(d)), crashes' = crashes
               PROVE  \E j \in Jobs : /\ job[j].doc = d
                                      /\ pc[j] \in {"reload", "start"} /\ pc'[j] = "idle"
    OBVIOUS
  <2>1. \A k \in Jobs : ~Heads(k, d)' BY DEF Scheduled, Underway, Heads
  <2>2. ~UNCHANGED <<docs, pc, job>> BY <2>1, HeadsAreScheduled DEF Heads
  <2>3. PICK j \in Jobs : Request(j) \/ Step(j) \/ Raise(j)
    BY <2>2, NextCases DEF GenerateReport, EditInsight, Crash, TypeOK
  <2>4. \A k \in Jobs \ {j} : pc'[k] = pc[k] /\ job'[k] = job[k] BY <2>3, OthersKept
  <2>5. \A k \in Jobs \ {j} : ~Heads(k, d) BY <2>1, <2>4 DEF Heads
  <2>6. CASE Request(j)
    <3>1. docs' = docs /\ pc[j] = "idle" BY <2>6, RequestMoves
    <3>2. ~Heads(j, d) BY <3>1 DEF Heads
    <3> QED BY <2>5, <3>1, <3>2, HeadsAreScheduled
  <2>7. CASE Step(j) \/ Raise(j)
    <3>1. docs[d] = "pending" BY <2>1, <2>7, StepHeads
    <3>2. Heads(j, d) BY <2>5, <3>1, HeadsAreScheduled
    <3>3. pc[j] \in {"reload", "start"} /\ pc'[j] = "idle" BY <2>1, <2>7, <3>2, StepHeads
    <3> QED BY <3>2, <3>3 DEF Heads
  <2> QED BY <2>3, <2>6, <2>7
<1> QED BY <1>1, TypeCorrect, PTL DEF Spec, PendingIsScheduled

-----------------------------------------------------------------------------
(* The document store and the document table *)

DeletePCs == {"drows", "ddoc", "remain", "metrics", "mdelete", "mcommit", "iclear", "close",
              "done"}

(* A deletion has taken the PDF away, and does not end before the document  *)
(* is off the table.                                                        *)
DeleteAt(j) ==
  /\ Deleting(j) => job[j].op = "delete"
  /\ job[j].op = "delete" =>
       /\ pc[j] \in DeletePCs /\ job[j].doc \in Docs \ files
       /\ Deleting(j) \/ docs[job[j].doc] = "deleted"
       /\ pc[j] = "done" => docs[job[j].doc] = "deleted"

FilesInv == FilesMatchDocuments /\ \A j \in Jobs : DeleteAt(j)

(* A session works for one request to its end; a re-extraction becomes the  *)
(* run it scheduled.                                                        *)
LEMMA StepOp ==
  ASSUME TypeOK, NEW j \in Jobs, Step(j)
  PROVE  \/ job'[j].op = job[j].op /\ job'[j].doc = job[j].doc
         \/ Schedule(j) /\ pc[j] = "reload" /\ job'[j].op = "extract"
         \/ (Close(j) \/ Refuse(j)) /\ pc'[j] = "idle" /\ job'[j] = Idle
<1> USE DEF TypeOK, Goto, tables
<1>m. job[j] \in Job OBVIOUS
<1>d. ASSUME NEW p, NEW found, PeriodDone(j, p, found)
      PROVE  job'[j].op = job[j].op /\ job'[j].doc = job[j].doc
  BY <1>m, <1>d DEF PeriodDone, Job
<1>1. CASE UploadCommit(j) BY <1>1 DEF UploadCommit
<1>2. CASE StartRun(j) BY <1>2 DEF StartRun
<1>3. CASE Fetch(j) BY <1>3 DEF Fetch
<1>4. CASE Persist(j)
  <2>1. PICK new : job' = [job EXCEPT ![j].mem = new, ![j].todo = PeriodsOf(new)]
    BY <1>4 DEF Persist
  <2> QED BY <1>m, <2>1 DEF Job
<1>5. CASE Score(j) BY <1>5 DEF Score
<1>6. CASE ValidationRead(j)
  <2>1. PICK x, y, z : job' = [job EXCEPT ![j].marks = x, ![j].anchors = y, ![j].seen = z]
    BY <1>6 DEF ValidationRead
  <2> QED BY <1>m, <2>1 DEF Job
<1>7. CASE ValidationCommit(j)
  <2>1. job' = [job EXCEPT ![j].marks = {}, ![j].anchors = {}, ![j].seen = {}]
    BY <1>7 DEF ValidationCommit
  <2> QED BY <1>m, <2>1 DEF Job
<1>8. CASE ComputeRead(j)
  <2>1. PICK p \in Upcoming(j) :
          \/ PeriodDone(j, p, {})
          \/ \E T : job' = [job EXCEPT ![j].cur = p, ![j].basis = FiguresFor(p, T)]
    BY <1>8 DEF ComputeRead
  <2> QED BY <1>m, <1>d, <2>1 DEF Job
<1>9. CASE ComputeDelete(j) BY <1>9 DEF ComputeDelete
<1>10. CASE ComputeCommit(j) BY <1>10, <1>d DEF ComputeCommit
<1>11. CASE Look(j)
  <2>1. PICK p \in Upcoming(j) :
          PeriodDone(j, p, IdsOf(BatchesOf(p))) \/ job' = [job EXCEPT ![j].cur = p]
    BY <1>11 DEF Look
  <2> QED BY <1>m, <1>d, <2>1 DEF Job
<1>12. CASE TakeLock(j) BY <1>12, <1>d DEF TakeLock
<1>13. CASE AddInsert(j)
  <2>1. PICK new : job' = [job EXCEPT ![j].mem = new] BY <1>13 DEF AddInsert
  <2> QED BY <1>m, <2>1 DEF Job
<1>14. CASE Refresh(j)
  <2>1. PICK new : job' = [job EXCEPT ![j].mem = new] BY <1>14 DEF Refresh
  <2> QED BY <1>m, <2>1 DEF Job
<1>15. CASE Invalidate(j) BY <1>15 DEF Invalidate
<1>16. CASE DeleteRows(j) BY <1>16 DEF DeleteRows
<1>17. CASE DeleteDoc(j) BY <1>17 DEF DeleteDoc
<1>27. CASE ListRemaining(j)
  <2>1. PICK left : job' = [job EXCEPT ![j].left = left] BY <1>27 DEF ListRemaining
  <2> QED BY <1>m, <2>1 DEF Job
<1>18. CASE DropMetrics(j) BY <1>18, <1>d DEF DropMetrics
<1>19. CASE ClearInsights(j) BY <1>19 DEF ClearInsights
<1>20. CASE FinishDelete(j) BY <1>20 DEF FinishDelete
<1>21. CASE FinishReExtract(j) BY <1>21 DEF FinishReExtract
<1>22. CASE Schedule(j) BY <1>22 DEF Schedule, Idle
<1>23. CASE PriorPeriod(j)
  <2>1. PICK todo : job' = [job EXCEPT ![j].todo = todo] BY <1>23 DEF PriorPeriod
  <2> QED BY <1>m, <2>1 DEF Job
<1>24. CASE NarrativeDelete(j) BY <1>24 DEF NarrativeDelete
<1>25. CASE NarrativeSave(j) BY <1>25 DEF NarrativeSave
<1>26. CASE Refuse(j) \/ Close(j) BY <1>26 DEF Refuse, Raise, Close, End
<1> QED BY <1>1, <1>2, <1>3, <1>4, <1>5, <1>6, <1>7, <1>8, <1>9, <1>10, <1>11, <1>12, <1>13,
           <1>14, <1>15, <1>16, <1>17, <1>18, <1>19, <1>20, <1>21, <1>22, <1>23, <1>24, <1>25,
           <1>26, <1>27 DEF Step

(* The steps of a deletion, from its first to its last.                     *)
LEMMA DeletionSteps ==
  ASSUME TypeOK, NEW j \in Jobs, Step(j), job[j].op = "delete", pc[j] \in DeletePCs
  PROVE  \/ Close(j) /\ pc[j] = "done"
         \/ /\ pc[j] # "done" /\ job'[j].op = "delete" /\ job'[j].doc = job[j].doc
            /\ pc'[j] \in DeletePCs
            /\ pc'[j] = "done" => pc[j] = "close"
            /\ \/ Deleting(j) => Deleting(j)' /\ pc[j] # "close"
               \/ docs' = DocsAfter(j) /\ pc[j] \notin {"drows", "ddoc"}
<1> USE DEF TypeOK, Goto, tables, DeletePCs
<1>m. job[j] \in Job /\ tx[j] \in Tx OBVIOUS
<1>d. ASSUME NEW p, NEW found, PeriodDone(j, p, found)
      PROVE  job'[j].op = job[j].op /\ job'[j].doc = job[j].doc /\ pc'[j] = "iclear"
  BY <1>m, <1>d DEF PeriodDone, Job, AfterPeriod, Clearing
<1>1. CASE DeleteRows(j)
  <2>1. pc[j] = "drows" /\ pc'[j] = "ddoc" /\ job' = job BY <1>1 DEF DeleteRows
  <2> QED BY <2>1 DEF Deleting
<1>2. CASE DeleteDoc(j)
  <2>1. job' = job BY <1>2 DEF DeleteDoc
  <2>2. tx'[j].docGone = TRUE BY <1>2, <1>m DEF DeleteDoc, Tx
  <2>3. pc[j] = "ddoc" /\ pc'[j] \in {"close", "remain"} BY <1>2 DEF DeleteDoc, AfterClearing
  <2> QED BY <2>1, <2>2, <2>3 DEF Deleting
<1>13. CASE ListRemaining(j)
  <2>1. PICK left : job' = [job EXCEPT ![j].left = left] BY <1>13 DEF ListRemaining
  <2>2. job'[j].op = job[j].op /\ job'[j].doc = job[j].doc BY <1>m, <2>1 DEF Job
  <2>3. pc[j] = "remain" /\ pc'[j] = "metrics" /\ tx' = tx BY <1>13 DEF ListRemaining
  <2> QED BY <2>2, <2>3 DEF Deleting
<1>3. CASE ComputeRead(j)
  <2>1. PICK p \in Upcoming(j) :
          \/ PeriodDone(j, p, {})
          \/ /\ \E T : job' = [job EXCEPT ![j].cur = p, ![j].basis = FiguresFor(p, T)]
             /\ Goto(j, "mdelete")
    BY <1>3 DEF ComputeRead
  <2>2. pc[j] = "metrics" /\ tx' = tx BY <1>3 DEF ComputeRead
  <2>3. /\ job'[j].op = job[j].op /\ job'[j].doc = job[j].doc
        /\ pc'[j] \in {"iclear", "mdelete"}
    BY <1>m, <1>d, <2>1 DEF Job
  <2> QED BY <2>2, <2>3 DEF Deleting
<1>4. CASE ComputeDelete(j)
  <2>1. pc[j] = "mdelete" /\ pc'[j] = "mcommit" /\ job' = job BY <1>4 DEF ComputeDelete
  <2>2. tx'[j].docGone = tx[j].docGone BY <1>4, <1>m DEF ComputeDelete, Tx
  <2> QED BY <2>1, <2>2 DEF Deleting
<1>5. CASE ComputeCommit(j)
  <2>1. pc[j] = "mcommit" /\ docs' = DocsAfter(j) BY <1>5 DEF ComputeCommit
  <2>2. PICK p, found : PeriodDone(j, p, found) BY <1>5 DEF ComputeCommit
  <2> QED BY <1>d, <2>1, <2>2
<1>6. CASE DropMetrics(j)
  <2>1. PICK p : PeriodDone(j, p, {})
                 /\ tx' = [tx EXCEPT ![j].drop = @ \cup IdsOf(BatchesOf(p))]
    BY <1>6 DEF DropMetrics
  <2>2. tx'[j].docGone = tx[j].docGone BY <1>m, <2>1 DEF Tx
  <2>3. pc[j] = "metrics" BY <1>6 DEF DropMetrics
  <2> QED BY <1>d, <2>1, <2>2, <2>3 DEF Deleting
<1>7. CASE ClearInsights(j)
  <2>1. pc[j] = "iclear" /\ pc'[j] \in {"close", "metrics"} /\ job' = job
    BY <1>7 DEF ClearInsights
  <2>2. tx'[j].docGone = tx[j].docGone BY <1>7, <1>m DEF ClearInsights, Tx
  <2> QED BY <2>1, <2>2 DEF Deleting
<1>8. CASE FinishDelete(j)
  <2>1. pc[j] = "close" /\ pc'[j] = "done" /\ job' = job /\ docs' = DocsAfter(j)
    BY <1>8 DEF FinishDelete
  <2> QED BY <2>1
<1>9. CASE Close(j) BY <1>9 DEF Close
<1>10. ~Refuse(j) BY DEF Refuse, Refused, Deadlocked
<1>11. CASE FinishReExtract(j) \/ Schedule(j) BY <1>11 DEF FinishReExtract, Schedule
<1>12. CASE \/ UploadCommit(j) \/ StartRun(j) \/ Fetch(j) \/ Persist(j) \/ Score(j)
            \/ ValidationRead(j) \/ ValidationCommit(j) \/ Look(j) \/ TakeLock(j)
            \/ AddInsert(j) \/ Refresh(j) \/ Invalidate(j)
            \/ PriorPeriod(j) \/ NarrativeDelete(j) \/ NarrativeSave(j)
  BY <1>12
     DEF UploadCommit, StartRun, Fetch, Persist, Score, ValidationRead, ValidationCommit,
         Look, TakeLock, AddInsert, Refresh, Invalidate, PriorPeriod, NarrativeDelete,
         NarrativeSave
<1> QED BY <1>1, <1>2, <1>3, <1>4, <1>5, <1>6, <1>7, <1>8, <1>9, <1>10, <1>11, <1>12, <1>13
       DEF Step

(* Neither an upload nor a deletion is left half done by an exception.      *)
Completed == FailAt \cap ({"saved"} \cup DeletePCs) \subseteq {"done"}

LEMMA StepDeleteAt ==
  ASSUME TypeOK, Claims, NEW j \in Jobs, Step(j), DeleteAt(j)
  PROVE  DeleteAt(j)'
<1>0. Claimed(j) /\ \A d \in Docs : DocMoves(j, d) BY StepMoves
<1>1. CASE job'[j].op = "delete"
  <2>1. job[j].op = "delete" /\ job'[j].doc = job[j].doc BY <1>1, StepOp DEF Idle
  <2> DEFINE d == job[j].doc
  <2>2. /\ pc[j] \in DeletePCs /\ d \in Docs /\ d \notin files'
        /\ Deleting(j) \/ docs[d] = "deleted"
    BY <1>0, <2>1 DEF DeleteAt, Claimed
  <2>3. ~Close(j) BY <1>1 DEF Close, End, Idle, TypeOK
  <2>4. docs[d] = "deleted" => docs'[d] = "deleted"
    <3>1. pc[j] # "saved" BY <2>2 DEF DeletePCs
    <3>2. DocMoves(j, d) BY <1>0, <2>2
    <3> QED BY <3>1, <3>2 DEF DocMoves, Stored
  <2>5. CASE (Deleting(j) => Deleting(j)' /\ pc[j] # "close")
    <3>1. Deleting(j)' \/ docs'[d] = "deleted" BY <2>2, <2>4, <2>5
    <3>2. pc'[j] = "done" => docs'[d] = "deleted"
      BY <2>1, <2>2, <2>3, <2>4, <2>5, DeletionSteps
    <3> QED BY <1>1, <2>1, <2>2, <2>3, <3>1, <3>2, DeletionSteps DEF DeleteAt
  <2>6. CASE docs' = DocsAfter(j) /\ pc[j] \notin {"drows", "ddoc"}
    <3>1. docs'[d] = "deleted" BY <2>2, <2>6 DEF DocsAfter, Deleting, TypeOK
    <3> QED BY <1>1, <2>1, <2>2, <2>3, <3>1, DeletionSteps DEF DeleteAt
  <2> QED BY <2>1, <2>2, <2>3, <2>5, <2>6, DeletionSteps
<1>2. CASE job'[j].op # "delete"
  <2>1. ASSUME Deleting(j)' PROVE FALSE
    <3>1. Deleting(j) BY <1>0, <2>1 DEF Claimed
    <3>2. job[j].op = "delete" /\ pc[j] \in DeletePCs BY <3>1 DEF DeleteAt
    <3>3. Close(j) /\ pc[j] = "done" BY <1>2, <3>2, DeletionSteps
    <3>4. pc'[j] = "idle" /\ tx'[j].docGone = FALSE BY <3>3, EndMoves DEF Close
    <3> QED BY <2>1, <3>4 DEF Deleting
  <2> QED BY <1>2, <2>1 DEF DeleteAt
<1> QED BY <1>1, <1>2

(* Where j alone moves, a document on record keeps its PDF unless it is     *)
(* being deleted, and a PDF its document unless it is being uploaded.       *)
LEMMA FilesStep ==
  ASSUME TypeOK, Claims, FilesInv, NEW j \in Jobs, Step(j) \/ (Raise(j) /\ pc[j] \in FailAt),
         Completed, crashes' = crashes,
         \A k \in Jobs \ {j} : pc'[k] = pc[k] /\ job'[k] = job[k] /\ tx'[k] = tx[k]
  PROVE  FilesInv'
<1>0. Claimed(j) /\ \A d \in Docs : DocMoves(j, d) BY StepMoves, RaiseMoves
<1>f. files' = files BY <1>0 DEF Claimed
<1>d. \A d \in Docs : docs[d] = "deleted" => docs'[d] = "deleted"
  <2> TAKE d \in Docs
  <2>1. pc[j] = "saved" => docs[job[j].doc] = "absent" BY DEF Claims
  <2>2. DocMoves(j, d) BY <1>0
  <2> QED BY <2>1, <2>2 DEF DocMoves, Stored
<1>e. ASSUME job[j].op = "delete", job'[j].op # "delete" PROVE docs'[job[j].doc] = "deleted"
  <2>1. pc[j] \in DeletePCs /\ job[j].doc \in Docs BY <1>e DEF FilesInv, DeleteAt
  <2>2. pc[j] = "done"
    <3>1. CASE Step(j) BY <1>e, <2>1, <3>1, DeletionSteps
    <3>2. CASE pc[j] \in FailAt BY <2>1, <3>2 DEF Completed
    <3> QED BY <3>1, <3>2
  <2>3. docs[job[j].doc] = "deleted" BY <1>e, <2>2 DEF FilesInv, DeleteAt
  <2> QED BY <1>d, <2>1, <2>3
<1>1. \A k \in Jobs : DeleteAt(k)'
  <2>1. \A k \in Jobs \ {j} : DeleteAt(k)'
    <3> SUFFICES ASSUME NEW k \in Jobs \ {j} PROVE DeleteAt(k)' OBVIOUS
    <3>1. pc'[k] = pc[k] /\ job'[k] = job[k] /\ tx'[k] = tx[k] /\ DeleteAt(k) BY DEF FilesInv
    <3> QED BY <1>d, <1>f, <3>1 DEF DeleteAt, Deleting
  <2>2. CASE Step(j) BY <2>1, <2>2, StepDeleteAt DEF FilesInv
  <2>3. CASE Raise(j)
    <3>1. pc'[j] = "idle" /\ job'[j] = Idle /\ tx'[j].docGone = FALSE
      BY <2>3, EndMoves DEF Raise, End, TypeOK
    <3> QED BY <2>1, <3>1 DEF DeleteAt, Deleting, Idle
  <2> QED BY <2>2, <2>3
<1>2. ASSUME crashes' = 0, NEW d \in Stored' \ files'
      PROVE  \E k \in Jobs : job'[k].op = "delete" /\ job'[k].doc = d
  <2>1. d \in Docs /\ docs'[d] \notin {"absent", "deleted"} BY <1>2 DEF Stored
  <2>2. d \in Stored
    <3>1. DocMoves(j, d) BY <1>0, <2>1
    <3>2. ~(pc[j] = "saved" /\ d = job[j].doc) BY <1>2, <1>f DEF Claims
    <3> QED BY <2>1, <3>1, <3>2 DEF DocMoves, Stored
  <2>3. PICK k \in Jobs : job[k].op = "delete" /\ job[k].doc = d
    BY <1>2, <1>f, <2>2 DEF FilesInv, FilesMatchDocuments
  <2>4. CASE k # j BY <2>3, <2>4
  <2>5. CASE k = j
    <3>1. job'[j].op = "delete" BY <1>e, <2>1, <2>3, <2>5
    <3>2. job'[j].doc = d
      <4>1. CASE Step(j) BY <2>3, <2>5, <3>1, <4>1, StepOp DEF Idle
      <4>2. CASE Raise(j) BY <3>1, <4>2 DEF Raise, End, Idle, TypeOK
      <4> QED BY <4>1, <4>2
    <3> QED BY <3>1, <3>2
  <2> QED BY <2>4, <2>5
<1>3. ASSUME crashes' = 0, NEW d \in files' \ Stored'
      PROVE  \E k \in Jobs : pc'[k] = "saved" /\ job'[k].doc = d
  <2>1. d \in Docs /\ d \in files /\ docs'[d] \in {"absent", "deleted"}
    BY <1>3, <1>f DEF Stored, TypeOK
  <2>2. DocMoves(j, d) BY <1>0, <2>1
  <2>3. ~(tx[j].docGone /\ d = job[j].doc) BY <2>1 DEF FilesInv, DeleteAt, Deleting
  <2>4. ~(pc[j] = "saved" /\ d = job[j].doc)
    <3> SUFFICES ASSUME pc[j] = "saved", d = job[j].doc PROVE docs'[d] = "pending"
      BY <2>1
    <3>1. ~(pc[j] \in FailAt) BY DEF Completed, DeletePCs
    <3>2. ~Refuse(j) BY DEF Refuse, Refused, Deadlocked
    <3>3. UploadCommit(j)
      BY <3>1, <3>2
         DEF Step, StartRun, Fetch, Persist, Score, ValidationRead, ValidationCommit,
             ComputeRead, ComputeDelete, ComputeCommit, Look, TakeLock, AddInsert, Refresh,
             Invalidate, DeleteRows, DeleteDoc, ListRemaining, DropMetrics, ClearInsights,
             FinishDelete, FinishReExtract, Schedule, PriorPeriod, NarrativeDelete,
             NarrativeSave, Close
    <3> QED BY <2>1, <3>3 DEF UploadCommit, TypeOK
  <2>5. d \notin Stored BY <2>1, <2>2, <2>3 DEF DocMoves, Stored
  <2>6. PICK k \in Jobs : pc[k] = "saved" /\ job[k].doc = d
    BY <1>3, <2>1, <2>5 DEF FilesInv, FilesMatchDocuments
  <2>7. k # j BY <2>4, <2>6
  <2> QED BY <2>6, <2>7
<1> QED BY <1>1, <1>2, <1>3 DEF FilesInv, FilesMatchDocuments

LEMMA FilesRequest ==
  ASSUME TypeOK, Claims, FilesInv, NEW j \in Jobs, Request(j), crashes' = crashes,
         \A k \in Jobs \ {j} : pc'[k] = pc[k] /\ job'[k] = job[k] /\ tx'[k] = tx[k]
  PROVE  FilesInv'
<1>0. docs' = docs /\ pc[j] = "idle" BY RequestMoves
<1>1. ~Deleting(j) /\ job[j].op # "delete"
  BY <1>0 DEF FilesInv, DeleteAt, DeletePCs, Deleting, Claims
<1>2. ASSUME files' = files, ~Deleting(j)', job'[j].op # "delete" PROVE FilesInv'
  BY <1>0, <1>1, <1>2 DEF FilesInv, FilesMatchDocuments, DeleteAt, Deleting, Stored
<1>3. CASE \E d \in Docs : Upload(j, d)
  <2>1. PICK d \in Docs : Upload(j, d) BY <1>3
  <2>2. /\ files' = files \cup {d} /\ docs[d] = "absent" /\ pc'[j] = "saved"
        /\ job'[j].doc = d /\ job'[j].op = "extract" /\ tx' = tx
    BY <2>1 DEF Upload, Goto, Idle, TypeOK
  <2>3. ~Deleting(j)' BY <1>1, <2>2 DEF Deleting
  <2>4. \A k \in Jobs \ {j} : DeleteAt(k)'
    <3> SUFFICES ASSUME NEW k \in Jobs \ {j} PROVE DeleteAt(k)' OBVIOUS
    <3>1. pc'[k] = pc[k] /\ job'[k] = job[k] /\ tx'[k] = tx[k] /\ DeleteAt(k) BY DEF FilesInv
    <3>2. job[k].op = "delete" => job[k].doc # d
      BY <2>2, <3>1 DEF DeleteAt, Claims
    <3> QED BY <1>0, <2>2, <3>1, <3>2 DEF DeleteAt, Deleting
  <2>5. FilesMatchDocuments'
    BY <1>0, <1>1, <2>2 DEF FilesInv, FilesMatchDocuments, Stored
  <2> QED BY <2>2, <2>3, <2>4, <2>5 DEF FilesInv, DeleteAt
<1>4. CASE \E d \in Docs : DeleteFile(j, d)
  <2>1. PICK d \in Docs : DeleteFile(j, d) BY <1>4
  <2>2. /\ files' = files \ {d} /\ d \in Stored /\ pc'[j] = "drows"
        /\ job'[j].doc = d /\ job'[j].op = "delete" /\ tx' = tx
    BY <2>1 DEF DeleteFile, Goto, Idle, TypeOK
  <2>3. DeleteAt(j)' BY <2>2 DEF DeleteAt, Deleting, DeletePCs
  <2>4. \A k \in Jobs \ {j} : DeleteAt(k)'
    <3> SUFFICES ASSUME NEW k \in Jobs \ {j} PROVE DeleteAt(k)' OBVIOUS
    <3>1. pc'[k] = pc[k] /\ job'[k] = job[k] /\ tx'[k] = tx[k] /\ DeleteAt(k) BY DEF FilesInv
    <3> QED BY <1>0, <2>2, <3>1 DEF DeleteAt, Deleting
  <2>5. FilesMatchDocuments'
    BY <1>0, <1>1, <2>2 DEF FilesInv, FilesMatchDocuments, Stored
  <2> QED BY <2>3, <2>4, <2>5 DEF FilesInv
<1> USE DEF Goto, TypeOK, Open, Idle
<1>5. CASE \E d \in Docs : ReExtract(j, d)
  <2>1. PICK d \in Docs : ReExtract(j, d) BY <1>5
  <2>2. /\ job'[j].op = "reextract" /\ pc'[j] = "drows" /\ files' = files /\ tx' = tx
    BY <2>1 DEF ReExtract
  <2> QED BY <1>1, <1>2, <2>2 DEF Deleting
<1> USE DEF tables
<1>6. ASSUME job'[j].op # "delete", tx' = tx, pc'[j] \notin {"drows", "ddoc"}, files' = files
      PROVE  FilesInv'
  BY <1>1, <1>2, <1>6 DEF Deleting
<1>7. CASE ViewMetrics(j) BY <1>6, <1>7 DEF ViewMetrics
<1>8. CASE Override(j) BY <1>6, <1>8 DEF Override
<1>9. CASE AddCheck(j) BY <1>6, <1>9 DEF AddCheck
<1>10. CASE Narrate(j) BY <1>6, <1>10 DEF Narrate
<1> QED BY <1>3, <1>4, <1>5, <1>7, <1>8, <1>9, <1>10 DEF Request

LEMMA CrashesKept ==
  ASSUME NEW j \in Jobs, Request(j) \/ Step(j) \/ Raise(j)
  PROVE  crashes' = crashes
<1>1. CASE Request(j)
  BY <1>1 DEF Request, Upload, DeleteFile, ReExtract, ViewMetrics, Override, AddCheck, Narrate
<1>2. CASE Raise(j) BY <1>2 DEF Raise
<1>3. CASE Step(j)
  BY <1>2, <1>3
     DEF Step, UploadCommit, StartRun, Fetch, Persist, Score, ValidationRead, ValidationCommit,
         ComputeRead, ComputeDelete, ComputeCommit, Look, TakeLock, AddInsert, Refresh,
         Invalidate, DeleteRows, DeleteDoc, ListRemaining, DropMetrics, ClearInsights,
         FinishDelete, FinishReExtract, Schedule, PriorPeriod, NarrativeDelete, NarrativeSave,
         Close, Refuse
<1> QED BY <1>1, <1>2, <1>3

LEMMA FilesNext ==
  ASSUME Completed, TypeOK, Claims, FilesInv, [Next]_vars
  PROVE  FilesInv'
<1>1. ASSUME NEW j \in Jobs, Request(j) PROVE FilesInv'
  BY <1>1, OthersKept, CrashesKept, FilesRequest
<1>2. ASSUME NEW j \in Jobs, Step(j) \/ Fail(j) PROVE FilesInv'
  <2>1. Step(j) \/ (Raise(j) /\ pc[j] \in FailAt) BY <1>2 DEF Fail
  <2> QED BY <2>1, OthersKept, CrashesKept, FilesStep
<1>3. CASE UNCHANGED <<docs, files, pc, job, tx, crashes>>
  BY <1>3 DEF FilesInv, FilesMatchDocuments, DeleteAt, Deleting, Stored
<1>4. CASE Crash
  <2>1. \A j \in Jobs : pc'[j] = "idle" /\ job'[j].op = "none" /\ ~tx'[j].docGone
    BY <1>4 DEF Crash, Idle, NoTx
  <2>2. crashes' # 0 BY <1>4 DEF Crash, TypeOK
  <2> QED BY <2>1, <2>2 DEF FilesInv, FilesMatchDocuments, DeleteAt, Deleting
<1>5. ASSUME NEW d, GenerateReport(d) PROVE UNCHANGED <<docs, files, pc, job, tx, crashes>>
  BY <1>5 DEF GenerateReport
<1>6. ASSUME NEW i, EditInsight(i) PROVE UNCHANGED <<docs, files, pc, job, tx, crashes>>
  BY <1>6 DEF EditInsight
<1>7. CASE UNCHANGED vars BY <1>3, <1>7 DEF vars
<1> QED BY <1>1, <1>2, <1>3, <1>4, <1>5, <1>6, <1>7 DEF Next

(* Where no exception cuts an upload or a deletion short and the process    *)
(* survives, store and table agree but for what is under way, whichever     *)
(* uploads, runs, re-extractions and deletions interleave.                  *)
THEOREM FilesAgree ==
  ASSUME Completed PROVE Spec => []FilesMatchDocuments
<1>1. Init => Claims /\ FilesInv
  <2> SUFFICES ASSUME Init PROVE Claims /\ FilesInv OBVIOUS
  <2>1. Claims BY DEF Init, Claims, Deleting, NoTx
  <2>2. \A j \in Jobs : DeleteAt(j) BY DEF Init, DeleteAt, Deleting, NoTx, Idle
  <2>3. PICK seed \in Seeds :
          /\ docs = [d \in Docs |-> IF d \in seed.stored THEN "extracted" ELSE "absent"]
          /\ files = seed.stored
    BY DEF Init
  <2>4. Stored = files BY <2>3, SeedsAreStatements DEF Stored
  <2> QED BY <2>1, <2>2, <2>4 DEF FilesInv, FilesMatchDocuments
<1>2. TypeOK /\ Claims /\ [Next]_vars => Claims' BY ClaimsNext
<1>3. TypeOK /\ Claims /\ FilesInv /\ [Next]_vars => FilesInv' BY FilesNext
<1>4. FilesInv => FilesMatchDocuments BY DEF FilesInv
<1> QED BY <1>1, <1>2, <1>3, <1>4, TypeCorrect, PTL DEF Spec
=============================================================================
