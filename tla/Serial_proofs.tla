--------------------------- MODULE Serial_proofs ---------------------------
(***************************************************************************)
(* One session at a time.  Whatever sequence of requests is served, at     *)
(* rest the tables agree: the line items of a document are of one run,     *)
(* statements are validated, cached metrics are those of the statements,   *)
(* and narratives cite metrics that are still there.                       *)
(***************************************************************************)
EXTENDS DocumentSafety_proofs

-----------------------------------------------------------------------------
(* What each step leaves in the memory of the session *)

Same(j) ==
  /\ job'[j].op = job[j].op /\ job'[j].doc = job[j].doc /\ job'[j].left = job[j].left
  /\ job'[j].target = job[j].target

Noted(j) ==
  /\ job'[j].seen = job[j].seen /\ job'[j].marks = job[j].marks
  /\ job'[j].anchors = job[j].anchors

Passed(j, p, found) ==
  /\ Same(j) /\ Noted(j) /\ job'[j].mem = job[j].mem
  /\ job'[j].todo = job[j].todo \ {p} /\ job'[j].cur = p /\ job'[j].basis = {}
  /\ job'[j].src = IF job[j].op = "insight" /\ p = job[j].target THEN found ELSE job[j].src
  /\ pc'[j] = AfterPeriod(j, p)

LEMMA PassEffect ==
  ASSUME TypeOK, NEW j \in Jobs, NEW p, NEW found, PeriodDone(j, p, found)
  PROVE  Passed(j, p, found)
<1>1. job[j] \in Job BY DEF TypeOK
<1> DEFINE src == IF job[j].op = "insight" /\ p = job[j].target THEN found ELSE job[j].src
<1>2. job' = [job EXCEPT ![j].todo = @ \ {p}, ![j].cur = p, ![j].basis = {}, ![j].src = src]
  BY DEF PeriodDone
<1> HIDE DEF src
<1>3. /\ Same(j) /\ Noted(j) /\ job'[j].mem = job[j].mem
      /\ job'[j].todo = job[j].todo \ {p} /\ job'[j].cur = p /\ job'[j].basis = {}
      /\ job'[j].src = src
  BY <1>1, <1>2 DEF TypeOK, Job, Same, Noted
<1>4. pc'[j] = AfterPeriod(j, p) BY DEF PeriodDone, Goto, TypeOK
<1> QED BY <1>3, <1>4 DEF Passed, src

(* Statements stored in one transaction.                                    *)
Fresh(S, d) ==
  /\ S \subseteq Row
  /\ \A r \in S : r.born = clock + 1 /\ r.at = clock + 1 /\ r.doc = d /\ ~r.validated
  /\ \A r, s \in S : RowId(r) = RowId(s) => r = s

LEMMA PersistEffect ==
  ASSUME TypeOK, NEW j \in Jobs, Persist(j)
  PROVE  /\ pc[j] = "persist" /\ pc'[j] = "vread" /\ clock' = clock + 1
         /\ metrics' = metrics /\ insights' = insights /\ tx' = tx
         /\ Same(j) /\ Noted(j)
         /\ job'[j].cur = job[j].cur /\ job'[j].basis = job[j].basis
         /\ \E new : /\ rows' = rows \cup new /\ Fresh(new, job[j].doc)
                     /\ job'[j].mem = new /\ job'[j].todo = PeriodsOf(new)
<1>1. job[j] \in Job BY DEF TypeOK
<1> DEFINE New(found) ==
             {NewRow(clock + 1, n, job[j].doc, found[n].period, found[n].code, found[n].value) :
                n \in DOMAIN found}
<1>2. PICK found \in Extractions :
        /\ rows' = rows \cup New(found)
        /\ job' = [job EXCEPT ![j].mem = New(found), ![j].todo = PeriodsOf(New(found))]
  BY DEF Persist
<1>3. ASSUME NEW n \in DOMAIN found PROVE n \in Nat /\ found[n] \in LineItem
  BY DEF Extractions
<1>4. Fresh(New(found), job[j].doc)
  <2>1. ASSUME NEW n \in DOMAIN found
        PROVE  NewRow(clock + 1, n, job[j].doc, found[n].period, found[n].code, found[n].value)
                 \in Row
    <3>1. n \in Nat /\ job[j].doc \in Docs \cup {None} BY <1>1, <1>3 DEF Job
    <3>2. found[n].period \in Periods /\ found[n].code \in Codes /\ found[n].value \in Values
      BY <1>3 DEF LineItem
    <3>3. clock + 1 \in Nat BY DEF TypeOK
    <3> QED BY <3>1, <3>2, <3>3, NewRowTyped
  <2>2. \A r \in New(found) :
          r.born = clock + 1 /\ r.at = clock + 1 /\ r.doc = job[j].doc /\ ~r.validated
    BY DEF NewRow
  <2>3. ASSUME NEW r \in New(found), NEW s \in New(found), RowId(r) = RowId(s) PROVE r = s
    <3>1. PICK x \in DOMAIN found :
            r = NewRow(clock + 1, x, job[j].doc, found[x].period, found[x].code, found[x].value)
      OBVIOUS
    <3>2. PICK y \in DOMAIN found :
            s = NewRow(clock + 1, y, job[j].doc, found[y].period, found[y].code, found[y].value)
      OBVIOUS
    <3>3. r.line = x /\ s.line = y BY <3>1, <3>2 DEF NewRow
    <3>4. x = y BY <2>3, <3>3 DEF RowId
    <3> QED BY <3>1, <3>2, <3>4
  <2> QED BY <2>1, <2>2, <2>3 DEF Fresh
<1> HIDE DEF New
<1>5. /\ Same(j) /\ Noted(j) /\ job'[j].mem = New(found) /\ job'[j].todo = PeriodsOf(New(found))
      /\ job'[j].cur = job[j].cur /\ job'[j].basis = job[j].basis
  BY <1>1, <1>2 DEF TypeOK, Job, Same, Noted
<1> QED BY <1>2, <1>4, <1>5 DEF Persist, Goto, TypeOK

(* The statements the run validates: of each period and code, one of the    *)
(* most recently updated rows.                                              *)
LEMMA ReadEffect ==
  ASSUME TypeOK, NEW j \in Jobs, ValidationRead(j)
  PROVE  /\ pc[j] = "vread" /\ pc'[j] = "vcommit" /\ clock' = clock
         /\ rows' = rows /\ metrics' = metrics /\ insights' = insights /\ tx' = tx
         /\ Same(j) /\ job'[j].mem = job[j].mem /\ job'[j].todo = job[j].todo
         /\ \E picked \in Current(j) :
              /\ \A r \in picked : <<RowId(r), r.value>> \in job'[j].seen
              /\ \A m \in job'[j].marks : \E r \in picked : m[1] = RowId(r)
              /\ \A a \in job'[j].anchors : \E r \in picked : a = RowId(r)
<1>1. job[j] \in Job BY DEF TypeOK
<1> DEFINE sheets(picked) == {{r \in picked : r.period = p} : p \in job[j].todo}
           x(picked) == UNION {{<<RowId(r), VerdictOf(S)[r.code]>> : r \in Changed(S)}
                                 : S \in sheets(picked)}
           y(picked) == UNION {Ids(Anchored(S)) : S \in sheets(picked)}
           z(picked) == {<<RowId(r), r.value>> : r \in picked}
<1>2. PICK picked \in Current(j) :
        job' = [job EXCEPT ![j].marks = x(picked), ![j].anchors = y(picked),
                           ![j].seen = z(picked)]
  BY DEF ValidationRead
<1>3. \A r \in picked : <<RowId(r), r.value>> \in z(picked) OBVIOUS
<1>4. \A m \in x(picked) : \E r \in picked : m[1] = RowId(r) BY DEF Changed
<1>5. \A a \in y(picked) : \E r \in picked : a = RowId(r) BY DEF Anchored, Ids
<1> HIDE DEF x, y, z
<1>6. /\ Same(j) /\ job'[j].mem = job[j].mem /\ job'[j].todo = job[j].todo
      /\ job'[j].marks = x(picked) /\ job'[j].anchors = y(picked)
      /\ job'[j].seen = z(picked)
  BY <1>1, <1>2 DEF TypeOK, Job, Same
<1>7. /\ \A r \in picked : <<RowId(r), r.value>> \in job'[j].seen
      /\ \A m \in job'[j].marks : \E r \in picked : m[1] = RowId(r)
      /\ \A a \in job'[j].anchors : \E r \in picked : a = RowId(r)
  BY <1>3, <1>4, <1>5, <1>6
<1> QED BY <1>6, <1>7 DEF ValidationRead, tables, Goto, TypeOK

(* A statement after the validation of the session's commit.                *)
Settled(j, r) ==
  LET marked == \E s \in Statuses : <<RowId(r), s>> \in job[j].marks IN
  [r EXCEPT
     !.status = IF marked
                THEN CHOOSE s \in Statuses : <<RowId(r), s>> \in job[j].marks
                ELSE @,
     !.at = IF marked THEN clock + 1 ELSE @,
     !.validated = @ \/ <<RowId(r), r.value>> \in job[j].seen]

LEMMA SettledRow ==
  ASSUME TypeOK, NEW j \in Jobs, NEW r \in Row
  PROVE  /\ RowId(Settled(j, r)) = RowId(r)
         /\ Settled(j, r).born = r.born /\ Settled(j, r).period = r.period
         /\ Settled(j, r).code = r.code /\ Settled(j, r).value = r.value
         /\ Settled(j, r).doc = r.doc
         /\ Settled(j, r).at \in {r.at, clock + 1}
         /\ Settled(j, r).validated <=> (r.validated \/ <<RowId(r), r.value>> \in job[j].seen)
         /\ Settled(j, r).status = r.status \/ \E m \in job[j].marks : m[1] = RowId(r)
         /\ Settled(j, r).at = r.at \/ \E m \in job[j].marks : m[1] = RowId(r)
<1> DEFINE marked == \E s \in Statuses : <<RowId(r), s>> \in job[j].marks
           status == IF marked THEN CHOOSE s \in Statuses : <<RowId(r), s>> \in job[j].marks
                     ELSE r.status
           at == IF marked THEN clock + 1 ELSE r.at
           validated == r.validated \/ <<RowId(r), r.value>> \in job[j].seen
<1>1. Settled(j, r) = [r EXCEPT !.status = status, !.at = at, !.validated = validated]
  BY DEF Settled, Row
<1>2. status = r.status \/ \E m \in job[j].marks : m[1] = RowId(r) OBVIOUS
<1>3. at \in {r.at, clock + 1} /\ (at = r.at \/ \E m \in job[j].marks : m[1] = RowId(r))
  OBVIOUS
<1> HIDE DEF status, at
<1>4. Settled(j, r).validated = validated BY <1>1 DEF Row
<1>5. /\ Settled(j, r).status = status /\ Settled(j, r).at = at
      /\ Settled(j, r).born = r.born /\ Settled(j, r).line = r.line
      /\ Settled(j, r).period = r.period /\ Settled(j, r).code = r.code
      /\ Settled(j, r).value = r.value /\ Settled(j, r).doc = r.doc
  <2> HIDE DEF validated
  <2> QED BY <1>1 DEF Row
<1> QED BY <1>2, <1>3, <1>4, <1>5 DEF RowId

LEMMA SettleEffect ==
  ASSUME TypeOK, NEW j \in Jobs, ValidationCommit(j)
  PROVE  /\ pc[j] = "vcommit" /\ clock' = clock + 1
         /\ pc'[j] = IF job[j].todo = {} THEN RunEnd(j) ELSE "metrics"
         /\ rows' = {Settled(j, r) : r \in rows}
         /\ metrics' = metrics /\ insights' = insights /\ tx' = tx
         /\ Same(j) /\ job'[j].mem = job[j].mem /\ job'[j].todo = job[j].todo
<1>1. job[j] \in Job BY DEF TypeOK
<1>2. job' = [job EXCEPT ![j].marks = {}, ![j].anchors = {}, ![j].seen = {}]
  BY DEF ValidationCommit
<1>3. Same(j) /\ job'[j].mem = job[j].mem /\ job'[j].todo = job[j].todo
  BY <1>1, <1>2 DEF TypeOK, Job, Same
<1>4. rows' = {Settled(j, r) : r \in rows} BY DEF ValidationCommit, Settled
<1> QED BY <1>3, <1>4 DEF ValidationCommit, Goto, TypeOK

(* A statement after a commit: one of the document deleted loses it.        *)
Detached(j, r) ==
  IF tx[j].docGone /\ r.doc = job[j].doc THEN [r EXCEPT !.doc = None] ELSE r

LEMMA DetachedRow ==
  ASSUME NEW j \in Jobs, NEW r \in Row
  PROVE  /\ RowId(Detached(j, r)) = RowId(r)
         /\ Detached(j, r).born = r.born /\ Detached(j, r).at = r.at
         /\ Detached(j, r).period = r.period /\ Detached(j, r).code = r.code
         /\ Detached(j, r).value = r.value /\ Detached(j, r).status = r.status
         /\ Detached(j, r).validated = r.validated
         /\ Detached(j, r).doc = IF tx[j].docGone /\ r.doc = job[j].doc THEN None ELSE r.doc
<1>1. CASE tx[j].docGone /\ r.doc = job[j].doc
  <2>1. Detached(j, r) = [r EXCEPT !.doc = None] BY <1>1 DEF Detached
  <2> QED BY <1>1, <2>1 DEF Row, RowId
<1>2. CASE ~(tx[j].docGone /\ r.doc = job[j].doc)
  <2>1. Detached(j, r) = r BY <1>2 DEF Detached
  <2> QED BY <1>2, <2>1
<1> QED BY <1>1, <1>2

LEMMA CommitEffect ==
  ASSUME TypeOK, NEW j \in Jobs, NEW batch, NEW note, Commit(j, batch, note)
  PROVE  /\ rows' = {Detached(j, r) : r \in Visible(j)}
         /\ metrics' = {b \in metrics : b.id \notin tx[j].drop} \cup batch
         /\ insights' = {i \in insights : i.id \notin tx[j].dropI} \cup note
         /\ tx'[j] = NoTx
  BY DEF Commit, Detached, TypeOK

LEMMA ComputeReadEffect ==
  ASSUME TypeOK, NEW j \in Jobs, ComputeRead(j)
  PROVE  /\ pc[j] = "metrics" /\ clock' = clock
         /\ rows' = rows /\ metrics' = metrics /\ insights' = insights /\ tx' = tx
         /\ \E p \in job[j].todo :
              /\ p \in Upcoming(j)
              /\ job[j].op \in Clearing => p \in job[j].left
              /\ \/ p \notin PeriodsOf(Eligible(j)) /\ Passed(j, p, {})
                 \/ /\ p \in PeriodsOf(Eligible(j)) /\ pc'[j] = "mdelete"
                    /\ Same(j) /\ Noted(j) /\ job'[j].mem = job[j].mem
                    /\ job'[j].todo = job[j].todo /\ job'[j].src = job[j].src
                    /\ job'[j].cur = p
                    /\ \E T \in Resolutions(Eligible(j)) : job'[j].basis = FiguresFor(p, T)
<1>1. job[j] \in Job BY DEF TypeOK
<1>2. PICK p \in Upcoming(j) :
        /\ job[j].op \in Clearing => p \in job[j].left
        /\ \/ p \notin PeriodsOf(Eligible(j)) /\ PeriodDone(j, p, {})
           \/ /\ p \in PeriodsOf(Eligible(j)) /\ Goto(j, "mdelete")
              /\ \E T \in Resolutions(Eligible(j)) :
                   job' = [job EXCEPT ![j].cur = p, ![j].basis = FiguresFor(p, T)]
  BY DEF ComputeRead
<1>3. p \in job[j].todo BY DEF Upcoming
<1>4. CASE PeriodDone(j, p, {}) /\ p \notin PeriodsOf(Eligible(j))
  BY <1>2, <1>3, <1>4, PassEffect DEF ComputeRead, tables
<1>5. CASE /\ p \in PeriodsOf(Eligible(j)) /\ Goto(j, "mdelete")
           /\ \E T \in Resolutions(Eligible(j)) :
                job' = [job EXCEPT ![j].cur = p, ![j].basis = FiguresFor(p, T)]
  <2>1. PICK T \in Resolutions(Eligible(j)) :
          job' = [job EXCEPT ![j].cur = p, ![j].basis = FiguresFor(p, T)]
    BY <1>5
  <2>2. /\ Same(j) /\ Noted(j) /\ job'[j].mem = job[j].mem
        /\ job'[j].todo = job[j].todo /\ job'[j].src = job[j].src
        /\ job'[j].cur = p /\ job'[j].basis = FiguresFor(p, T)
    BY <1>1, <2>1 DEF TypeOK, Job, Same, Noted
  <2>3. pc'[j] = "mdelete" BY <1>5 DEF Goto, TypeOK
  <2> QED BY <1>2, <1>3, <1>5, <2>2, <2>3 DEF ComputeRead, tables
<1> QED BY <1>2, <1>4, <1>5

LEMMA ComputeDeleteEffect ==
  ASSUME TypeOK, NEW j \in Jobs, ComputeDelete(j)
  PROVE  /\ pc[j] = "mdelete" /\ pc'[j] = "mcommit" /\ clock' = clock
         /\ rows' = rows /\ metrics' = metrics /\ insights' = insights /\ job' = job
         /\ tx'[j].gone = tx[j].gone /\ tx'[j].dropI = tx[j].dropI
         /\ tx'[j].docGone = tx[j].docGone
         /\ tx'[j].drop = tx[j].drop \cup IdsOf(BatchesOf(job[j].cur))
  BY DEF ComputeDelete, TypeOK, Tx, Goto, tables

LEMMA ComputeCommitEffect ==
  ASSUME TypeOK, NEW j \in Jobs, ComputeCommit(j)
  PROVE  /\ pc[j] = "mcommit" /\ clock' = clock + 1 /\ tx'[j] = NoTx
         /\ rows' = {Detached(j, r) : r \in Visible(j)}
         /\ metrics' = {b \in metrics : b.id \notin tx[j].drop}
                          \cup {[id |-> clock + 1, period |-> job[j].cur,
                                 basis |-> job[j].basis]}
         /\ insights' = {i \in insights : i.id \notin tx[j].dropI}
         /\ Passed(j, job[j].cur, {clock + 1})
  BY CommitEffect, PassEffect DEF ComputeCommit

LEMMA LookEffect ==
  ASSUME TypeOK, NEW j \in Jobs, Look(j) \/ TakeLock(j)
  PROVE  /\ pc[j] \in {"look", "lock"} /\ clock' = clock
         /\ rows' = rows /\ metrics' = metrics /\ insights' = insights /\ tx' = tx
         /\ \/ \E p : Passed(j, p, IdsOf(BatchesOf(p)))
            \/ /\ Same(j) /\ Noted(j) /\ job'[j].mem = job[j].mem
               /\ job'[j].todo = job[j].todo /\ job'[j].src = job[j].src
               /\ \/ pc'[j] = "lock"
                  \/ pc'[j] = "metrics" /\ job'[j].cur = job[j].cur
                     /\ BatchesOf(job[j].cur) = {}
<1>1. job[j] \in Job BY DEF TypeOK
<1>2. CASE TakeLock(j)
  <2>1. CASE PeriodDone(j, job[j].cur, IdsOf(BatchesOf(job[j].cur)))
    BY <1>2, <2>1, PassEffect DEF TakeLock, tables
  <2>2. CASE BatchesOf(job[j].cur) = {} /\ Goto(j, "metrics") /\ UNCHANGED job
    BY <1>2, <2>2 DEF TakeLock, tables, Goto, TypeOK, Same, Noted
  <2> QED BY <1>2, <2>1, <2>2 DEF TakeLock
<1>3. CASE Look(j)
  <2>1. PICK p \in Upcoming(j) :
          \/ PeriodDone(j, p, IdsOf(BatchesOf(p)))
          \/ job' = [job EXCEPT ![j].cur = p] /\ Goto(j, "lock")
    BY <1>3 DEF Look
  <2>2. CASE PeriodDone(j, p, IdsOf(BatchesOf(p)))
    BY <1>3, <2>2, PassEffect DEF Look, tables
  <2>3. CASE job' = [job EXCEPT ![j].cur = p] /\ Goto(j, "lock")
    <3>1. /\ Same(j) /\ Noted(j) /\ job'[j].mem = job[j].mem
          /\ job'[j].todo = job[j].todo /\ job'[j].src = job[j].src
      BY <1>1, <2>3 DEF TypeOK, Job, Same, Noted
    <3> QED BY <1>3, <2>3, <3>1 DEF Look, tables, Goto, TypeOK
  <2> QED BY <2>1, <2>2, <2>3
<1> QED BY <1>2, <1>3

LEMMA AddEffect ==
  ASSUME TypeOK, NEW j \in Jobs, AddInsert(j), \A m, n \in job[j].mem : m = n
  PROVE  /\ pc[j] = "insert" /\ pc'[j] = "refresh" /\ clock' = clock + 1
         /\ metrics' = metrics /\ insights' = insights /\ tx' = tx
         /\ Same(j) /\ Noted(j) /\ job'[j].todo = job[j].todo
         /\ \E new : /\ rows' = rows \cup new /\ Fresh(new, None)
                     /\ \A r \in new : \E m \in job[j].mem : r.period = m.period
                     /\ job'[j].mem = new /\ (job[j].mem # {} => new # {})
<1>1. job[j] \in Job BY DEF TypeOK
<1> DEFINE new == {NewRow(clock + 1, 0, None, m.period, m.code, m.value) : m \in job[j].mem}
<1>2. rows' = rows \cup new /\ job' = [job EXCEPT ![j].mem = new] BY DEF AddInsert
<1>3. \A m \in job[j].mem : NewRow(clock + 1, 0, None, m.period, m.code, m.value) \in Row
  <2> SUFFICES ASSUME NEW m \in job[j].mem
               PROVE  NewRow(clock + 1, 0, None, m.period, m.code, m.value) \in Row
    OBVIOUS
  <2>1. m \in Row BY <1>1 DEF Job
  <2>2. m.period \in Periods /\ m.code \in Codes /\ m.value \in Values /\ clock + 1 \in Nat
    BY <2>1 DEF Row, TypeOK
  <2> QED BY <2>2, NewRowTyped
<1>4. Fresh(new, None)
  <2>1. \A r \in new : r.born = clock + 1 /\ r.at = clock + 1 /\ r.doc = None /\ ~r.validated
    BY DEF NewRow
  <2>2. \A r, s \in new : r = s OBVIOUS
  <2> QED BY <1>3, <2>1, <2>2 DEF Fresh
<1>5. \A r \in new : \E m \in job[j].mem : r.period = m.period BY DEF NewRow
<1>6. job[j].mem # {} => new # {} OBVIOUS
<1> HIDE DEF new
<1>7. Same(j) /\ Noted(j) /\ job'[j].todo = job[j].todo /\ job'[j].mem = new
  BY <1>1, <1>2 DEF TypeOK, Job, Same, Noted
<1> QED BY <1>2, <1>4, <1>5, <1>6, <1>7 DEF AddInsert, Goto, TypeOK

LEMMA RefreshEffect ==
  ASSUME TypeOK, NEW j \in Jobs, Refresh(j)
  PROVE  /\ pc[j] = "refresh" /\ pc'[j] = "vread" /\ clock' = clock
         /\ rows' = rows /\ metrics' = metrics /\ insights' = insights /\ tx' = tx
         /\ Same(j) /\ Noted(j) /\ job'[j].todo = job[j].todo
         /\ job'[j].mem \subseteq rows
<1>1. job[j] \in Job BY DEF TypeOK
<1> DEFINE new == {r \in rows : RowId(r) \in Ids(job[j].mem)}
<1>2. job' = [job EXCEPT ![j].mem = new] BY DEF Refresh
<1>3. new \subseteq rows OBVIOUS
<1> HIDE DEF new
<1>4. Same(j) /\ Noted(j) /\ job'[j].todo = job[j].todo /\ job'[j].mem = new
  BY <1>1, <1>2 DEF TypeOK, Job, Same, Noted
<1> QED BY <1>3, <1>4 DEF Refresh, Goto, TypeOK, tables

(* Deleting and re-extracting: what is left to do, and what is deleted.     *)
LEMMA DeleteRowsEffect ==
  ASSUME TypeOK, NEW j \in Jobs, DeleteRows(j)
  PROVE  /\ pc[j] = "drows" /\ clock' = clock
         /\ pc'[j] = IF job[j].op = "delete" THEN "ddoc" ELSE AfterClearing(j)
         /\ rows' = rows /\ metrics' = metrics /\ insights' = insights /\ job' = job
         /\ tx'[j].gone = Ids(OfDoc(job[j].doc))
         /\ tx'[j].drop = tx[j].drop /\ tx'[j].dropI = tx[j].dropI
         /\ tx'[j].docGone = tx[j].docGone
<1>1. tx[j] \in Tx BY DEF TypeOK
<1> DEFINE doomed == Ids(OfDoc(job[j].doc))
<1>2. tx' = [tx EXCEPT ![j].gone = doomed] BY DEF DeleteRows
<1> HIDE DEF doomed
<1>3. /\ tx'[j].gone = doomed /\ tx'[j].drop = tx[j].drop /\ tx'[j].dropI = tx[j].dropI
      /\ tx'[j].docGone = tx[j].docGone
  BY <1>1, <1>2 DEF Tx, TypeOK
<1> QED BY <1>3 DEF DeleteRows, Goto, TypeOK, tables, doomed

LEMMA DeleteDocEffect ==
  ASSUME TypeOK, NEW j \in Jobs, DeleteDoc(j)
  PROVE  /\ pc[j] = "ddoc" /\ pc'[j] = AfterClearing(j) /\ clock' = clock
         /\ rows' = rows /\ metrics' = metrics /\ insights' = insights /\ job' = job
         /\ tx'[j].gone = tx[j].gone /\ tx'[j].docGone
         /\ tx'[j].drop = tx[j].drop /\ tx'[j].dropI = tx[j].dropI
<1>1. tx[j] \in Tx BY DEF TypeOK
<1>2. tx' = [tx EXCEPT ![j].docGone = TRUE] BY DEF DeleteDoc
<1>3. /\ tx'[j].gone = tx[j].gone /\ tx'[j].docGone
      /\ tx'[j].drop = tx[j].drop /\ tx'[j].dropI = tx[j].dropI
  BY <1>1, <1>2 DEF Tx, TypeOK
<1> QED BY <1>3 DEF DeleteDoc, Goto, TypeOK, tables

LEMMA RemainEffect ==
  ASSUME TypeOK, NEW j \in Jobs, ListRemaining(j)
  PROVE  /\ pc[j] = "remain" /\ pc'[j] = "metrics" /\ clock' = clock
         /\ rows' = rows /\ metrics' = metrics /\ insights' = insights /\ tx' = tx
         /\ job'[j].op = job[j].op /\ job'[j].doc = job[j].doc /\ Noted(j)
         /\ job'[j].mem = job[j].mem /\ job'[j].todo = job[j].todo
         /\ job'[j].left = PeriodsOf(Visible(j))
<1>1. job[j] \in Job BY DEF TypeOK
<1> DEFINE left == PeriodsOf(Visible(j))
<1>2. job' = [job EXCEPT ![j].left = left] BY DEF ListRemaining
<1> HIDE DEF left
<1>3. /\ job'[j].op = job[j].op /\ job'[j].doc = job[j].doc /\ Noted(j)
      /\ job'[j].mem = job[j].mem /\ job'[j].todo = job[j].todo /\ job'[j].left = left
  BY <1>1, <1>2 DEF TypeOK, Job, Noted
<1> QED BY <1>3 DEF ListRemaining, Goto, TypeOK, tables, left

LEMMA DropEffect ==
  ASSUME TypeOK, NEW j \in Jobs, DropMetrics(j)
  PROVE  /\ pc[j] = "metrics" /\ clock' = clock /\ job[j].op \in Clearing
         /\ rows' = rows /\ metrics' = metrics /\ insights' = insights
         /\ tx'[j].gone = tx[j].gone /\ tx'[j].dropI = tx[j].dropI
         /\ tx'[j].docGone = tx[j].docGone
         /\ \E p \in job[j].todo : /\ Passed(j, p, {})
                                   /\ tx'[j].drop = tx[j].drop \cup IdsOf(BatchesOf(p))
<1>1. tx[j] \in Tx BY DEF TypeOK
<1>2. PICK p \in Upcoming(j) :
        PeriodDone(j, p, {}) /\ tx' = [tx EXCEPT ![j].drop = @ \cup IdsOf(BatchesOf(p))]
  BY DEF DropMetrics
<1>3. p \in job[j].todo BY DEF Upcoming
<1>4. /\ tx'[j].gone = tx[j].gone /\ tx'[j].dropI = tx[j].dropI
      /\ tx'[j].docGone = tx[j].docGone
      /\ tx'[j].drop = tx[j].drop \cup IdsOf(BatchesOf(p))
  BY <1>1, <1>2 DEF Tx, TypeOK
<1> QED BY <1>2, <1>3, <1>4, PassEffect DEF DropMetrics, tables

LEMMA ClearEffect ==
  ASSUME TypeOK, NEW j \in Jobs, ClearInsights(j)
  PROVE  /\ pc[j] = "iclear" /\ clock' = clock
         /\ pc'[j] = IF job[j].todo = {} THEN "close" ELSE "metrics"
         /\ rows' = rows /\ metrics' = metrics /\ insights' = insights /\ job' = job
         /\ tx'[j].gone = tx[j].gone /\ tx'[j].drop = tx[j].drop
         /\ tx'[j].docGone = tx[j].docGone
         /\ tx'[j].dropI = tx[j].dropI \cup IdsOf(NotesOf(job[j].cur))
<1>1. tx[j] \in Tx BY DEF TypeOK
<1>2. tx' = [tx EXCEPT ![j].dropI = @ \cup IdsOf(NotesOf(job[j].cur))] BY DEF ClearInsights
<1>3. /\ tx'[j].gone = tx[j].gone /\ tx'[j].drop = tx[j].drop
      /\ tx'[j].docGone = tx[j].docGone
      /\ tx'[j].dropI = tx[j].dropI \cup IdsOf(NotesOf(job[j].cur))
  BY <1>1, <1>2 DEF Tx, TypeOK
<1> QED BY <1>3 DEF ClearInsights, Goto, TypeOK, tables

LEMMA FinishEffect ==
  ASSUME TypeOK, NEW j \in Jobs, FinishDelete(j) \/ FinishReExtract(j)
  PROVE  /\ pc[j] = "close" /\ clock' = clock /\ tx'[j] = NoTx /\ job' = job
         /\ rows' = {Detached(j, r) : r \in Visible(j)}
         /\ metrics' = {b \in metrics : b.id \notin tx[j].drop}
         /\ insights' = {i \in insights : i.id \notin tx[j].dropI}
         /\ \/ FinishDelete(j) /\ pc'[j] = "done" /\ job[j].op = "delete"
            \/ FinishReExtract(j) /\ pc'[j] = "reload" /\ job[j].op = "reextract"
<1>1. Commit(j, {}, {}) BY DEF FinishDelete, FinishReExtract
<1>2. /\ rows' = {Detached(j, r) : r \in Visible(j)}
      /\ metrics' = {b \in metrics : b.id \notin tx[j].drop}
      /\ insights' = {i \in insights : i.id \notin tx[j].dropI}
      /\ tx'[j] = NoTx
  BY <1>1, CommitEffect
<1> QED BY <1>2 DEF FinishDelete, FinishReExtract, Goto, TypeOK

LEMMA ScheduleEffect ==
  ASSUME TypeOK, NEW j \in Jobs, Schedule(j)
  PROVE  /\ pc[j] = "reload" /\ pc'[j] = "start" /\ job[j].doc \in Stored
         /\ UNCHANGED <<docs, rows, metrics, insights, tx, clock>>
         /\ job'[j] = [Idle EXCEPT !.op = "extract", !.doc = job[j].doc, !.score = TRUE]
  BY DEF Schedule, Goto, TypeOK, tables

(* Narratives.                                                              *)
LEMMA PriorEffect ==
  ASSUME TypeOK, NEW j \in Jobs, PriorPeriod(j)
  PROVE  /\ pc[j] = "prior" /\ clock' = clock /\ pc'[j] \in {"llm", "look"}
         /\ rows' = rows /\ metrics' = metrics /\ insights' = insights /\ tx' = tx
         /\ Same(j) /\ Noted(j) /\ job'[j].mem = job[j].mem /\ job'[j].src = job[j].src
         /\ \A p \in job'[j].todo : p # job[j].target
<1>1. job[j] \in Job BY DEF TypeOK
<1> DEFINE earlier == {q \in PeriodsOf(rows) : q < job[j].target}
           todo == {q \in earlier : \A x \in earlier : x <= q}
<1>2. job' = [job EXCEPT ![j].todo = todo] BY DEF PriorPeriod
<1>3. \A p \in todo : p # job[j].target
  <2>0. job[j].target \in Periods \cup {0} BY <1>1 DEF Job
  <2>1. \A p \in Periods \cup {0} : p \in Nat BY PeriodsArePositive
  <2> QED BY <2>0, <2>1
<1> HIDE DEF todo
<1>4. /\ Same(j) /\ Noted(j) /\ job'[j].mem = job[j].mem /\ job'[j].src = job[j].src
      /\ job'[j].todo = todo
  BY <1>1, <1>2 DEF TypeOK, Job, Same, Noted
<1> QED BY <1>3, <1>4 DEF PriorPeriod, Goto, TypeOK, tables

LEMMA NarrativeDeleteEffect ==
  ASSUME TypeOK, NEW j \in Jobs, NarrativeDelete(j)
  PROVE  /\ pc[j] = "llm" /\ pc'[j] = "isave" /\ clock' = clock
         /\ rows' = rows /\ metrics' = metrics /\ insights' = insights /\ job' = job
         /\ tx'[j].gone = tx[j].gone /\ tx'[j].drop = tx[j].drop
         /\ tx'[j].docGone = tx[j].docGone
<1>1. tx[j] \in Tx BY DEF TypeOK
<1>2. PICK x : tx' = [tx EXCEPT ![j].dropI = x] BY DEF NarrativeDelete
<1>3. /\ tx'[j].gone = tx[j].gone /\ tx'[j].drop = tx[j].drop
      /\ tx'[j].docGone = tx[j].docGone
  BY <1>1, <1>2 DEF Tx, TypeOK
<1> QED BY <1>3 DEF NarrativeDelete, Goto, TypeOK, tables

LEMMA SaveEffect ==
  ASSUME TypeOK, NEW j \in Jobs, NarrativeSave(j)
  PROVE  /\ pc[j] = "isave" /\ pc'[j] = "done" /\ clock' = clock + 1 /\ tx'[j] = NoTx
         /\ job' = job
         /\ rows' = {Detached(j, r) : r \in Visible(j)}
         /\ metrics' = {b \in metrics : b.id \notin tx[j].drop}
         /\ insights' = {i \in insights : i.id \notin tx[j].dropI}
              \cup {[id |-> clock + 1, period |-> job[j].target, aud |-> job[j].aud,
                     src |-> job[j].src, edited |-> FALSE]}
<1>1. Commit(j, {}, {[id |-> clock + 1, period |-> job[j].target, aud |-> job[j].aud,
                      src |-> job[j].src, edited |-> FALSE]})
  BY DEF NarrativeSave
<1>2. /\ rows' = {Detached(j, r) : r \in Visible(j)}
      /\ metrics' = {b \in metrics : b.id \notin tx[j].drop}
      /\ insights' = {i \in insights : i.id \notin tx[j].dropI}
           \cup {[id |-> clock + 1, period |-> job[j].target, aud |-> job[j].aud,
                  src |-> job[j].src, edited |-> FALSE]}
      /\ tx'[j] = NoTx
  BY <1>1, CommitEffect
<1> QED BY <1>2 DEF NarrativeSave, Goto, TypeOK

(* A statement after its value is overridden.                               *)
Overridden(r, v) == [r EXCEPT !.value = v, !.validated = FALSE, !.at = clock + 1]

LEMMA OverriddenRow ==
  ASSUME NEW r \in Row, NEW v
  PROVE  /\ RowId(Overridden(r, v)) = RowId(r) /\ Overridden(r, v).born = r.born
         /\ Overridden(r, v).doc = r.doc /\ Overridden(r, v).period = r.period
         /\ Overridden(r, v).code = r.code /\ Overridden(r, v).value = v
         /\ Overridden(r, v).at = clock + 1 /\ ~Overridden(r, v).validated
  BY DEF Overridden, Row, RowId

(* What a request finds, and what its session starts with.                  *)
Opened(j, l, op, doc, mem, todo) ==
  /\ pc'[j] = l /\ job'[j].op = op /\ job'[j].doc = doc /\ job'[j].mem = mem
  /\ job'[j].todo = todo

LEMMA RequestEffect ==
  ASSUME TypeOK, NEW j \in Jobs, Request(j)
  PROVE  /\ pc[j] = "idle" /\ docs' = docs /\ metrics' = metrics /\ insights' = insights
         /\ job'[j].src = {} /\ tx' = tx
         /\ \/ /\ rows' = rows /\ clock' = clock
               /\ \/ \E d \in Docs : /\ docs[d] = "absent"
                                     /\ Opened(j, "saved", "extract", d, {}, {})
                  \/ \E d \in Stored : \E op \in Clearing :
                       Opened(j, "drows", op, d, {}, PeriodsOf(OfDoc(d)))
                  \/ \E op \in {"view", "insight"} : \E todo :
                       Opened(j, "look", op, None, {}, todo)
                  \/ \E p \in Periods, c \in Codes, v \in Values :
                       /\ ~\E r \in rows : r.period = p /\ r.code = c
                       /\ Opened(j, "insert", "add", None, {NewRow(0, 0, None, p, c, v)}, {p})
            \/ /\ clock' = clock + 1
               /\ \E r \in rows, v \in Values :
                    /\ rows' = (rows \ {r}) \cup {Overridden(r, v)}
                    /\ Opened(j, "refresh", "override", None, {Overridden(r, v)}, {r.period})
<1> USE DEF TypeOK, Goto, tables, Open
<1>1. ASSUME NEW d \in Docs, Upload(j, d)
      PROVE  /\ pc[j] = "idle" /\ docs' = docs /\ metrics' = metrics /\ insights' = insights
             /\ job'[j].src = {} /\ rows' = rows /\ clock' = clock /\ tx' = tx
             /\ docs[d] = "absent" /\ Opened(j, "saved", "extract", d, {}, {})
  BY <1>1 DEF Upload, Opened, Idle
<1>2. ASSUME NEW d \in Docs, DeleteFile(j, d)
      PROVE  /\ pc[j] = "idle" /\ docs' = docs /\ metrics' = metrics /\ insights' = insights
             /\ job'[j].src = {} /\ rows' = rows /\ clock' = clock /\ tx' = tx
             /\ d \in Stored /\ Opened(j, "drows", "delete", d, {}, PeriodsOf(OfDoc(d)))
  BY <1>2 DEF DeleteFile, Opened, Idle
<1>3. ASSUME NEW d \in Docs, ReExtract(j, d)
      PROVE  /\ pc[j] = "idle" /\ docs' = docs /\ metrics' = metrics /\ insights' = insights
             /\ job'[j].src = {} /\ rows' = rows /\ clock' = clock /\ tx' = tx
             /\ d \in Stored /\ Opened(j, "drows", "reextract", d, {}, PeriodsOf(OfDoc(d)))
  BY <1>3 DEF ReExtract, Opened, Idle
<1>4. CASE ViewMetrics(j)
  <2>1. PICK S : job' = [job EXCEPT ![j] = [Idle EXCEPT !.op = "view", !.todo = S]]
    BY <1>4 DEF ViewMetrics
  <2>2. Opened(j, "look", "view", None, {}, S) /\ job'[j].src = {}
    BY <1>4, <2>1 DEF ViewMetrics, Opened, Idle
  <2> QED BY <1>4, <2>2 DEF ViewMetrics
<1>5. CASE Override(j)
  <2>1. PICK r \in rows, v \in Values :
          /\ rows' = (rows \ {r}) \cup {Overridden(r, v)}
          /\ job' = [job EXCEPT ![j] = [Idle EXCEPT !.op = "override",
                                           !.mem = {Overridden(r, v)}, !.todo = {r.period}]]
    BY <1>5 DEF Override, Overridden
  <2>2. /\ Opened(j, "refresh", "override", None, {Overridden(r, v)}, {r.period})
        /\ job'[j].src = {}
    BY <1>5, <2>1 DEF Override, Opened, Idle
  <2> QED BY <1>5, <2>1, <2>2 DEF Override
<1>6. CASE AddCheck(j)
  <2>1. PICK p \in Periods, c \in Codes, v \in Values :
          /\ ~\E r \in rows : r.period = p /\ r.code = c
          /\ job' = [job EXCEPT ![j] = [Idle EXCEPT
                        !.op = "add", !.mem = {NewRow(0, 0, None, p, c, v)}, !.todo = {p}]]
    BY <1>6 DEF AddCheck
  <2>2. /\ Opened(j, "insert", "add", None, {NewRow(0, 0, None, p, c, v)}, {p})
        /\ job'[j].src = {}
    BY <1>6, <2>1 DEF AddCheck, Opened, Idle
  <2> QED BY <1>6, <2>1, <2>2 DEF AddCheck
<1>7. CASE Narrate(j)
  <2>1. PICK p \in Periods, a \in Audiences :
          job' = [job EXCEPT ![j] = [Idle EXCEPT !.op = "insight", !.target = p, !.aud = a,
                                           !.todo = {p}]]
    BY <1>7 DEF Narrate
  <2>2. Opened(j, "look", "insight", None, {}, {p}) /\ job'[j].src = {}
    BY <1>7, <2>1 DEF Narrate, Opened, Idle
  <2> QED BY <1>7, <2>2 DEF Narrate
<1>8. CASE \E d \in Docs : Upload(j, d) BY <1>1, <1>8
<1>9. CASE \E d \in Docs : DeleteFile(j, d)
  <2>1. PICK d \in Docs : DeleteFile(j, d) BY <1>9
  <2> QED BY <1>2, <2>1 DEF Clearing
<1>10. CASE \E d \in Docs : ReExtract(j, d)
  <2>1. PICK d \in Docs : ReExtract(j, d) BY <1>10
  <2> QED BY <1>3, <2>1 DEF Clearing
<1> QED BY <1>4, <1>5, <1>6, <1>7, <1>8, <1>9, <1>10 DEF Request

-----------------------------------------------------------------------------
(* Where a session may stand, and what it has deleted by then *)

Before   == {"saved", "start", "fetch", "persist"}
RunPCs   == Before \cup {"vread", "vcommit", "metrics", "mdelete", "mcommit", "score", "done"}
EntryPCs == {"insert", "refresh", "vread", "vcommit", "metrics", "mdelete", "mcommit",
             "invalidate", "score", "done"}

Stationed(j) ==
  /\ job[j].op = "none" <=> pc[j] = "idle"
  /\ job[j].op = "extract" => pc[j] \in RunPCs
  /\ job[j].op \in {"override", "add"} => pc[j] \in EntryPCs
  /\ job[j].op = "delete" => pc[j] \in DeletePCs
  /\ job[j].op = "reextract" => pc[j] \in DeletePCs \cup {"reload"}
  /\ job[j].op \in Readers => pc[j] \in ReaderPCs
  /\ pc[j] = "drows" => job[j].op \in Clearing
  /\ pc[j] = "ddoc" => job[j].op = "delete"
  /\ pc[j] = "reload" => tx[j] = NoTx
  /\ pc[j] = "insert" => job[j].op = "add"
  /\ job[j].op \in {"extract", "reextract"} => job[j].doc \in Docs
  /\ tx[j].docGone => job[j].op = "delete"

LEMMA PassStationed ==
  ASSUME TypeOK, NEW j \in Jobs, NEW p, NEW found, Stationed(j), Passed(j, p, found),
         pc[j] \in {"metrics", "mcommit", "look", "lock"},
         tx'[j].docGone => tx[j].docGone
  PROVE  Stationed(j)'
<1>1. job[j].op \in OpNames /\ job[j].op # "none" BY DEF TypeOK, Job, Stationed
<1>2. pc'[j] = AfterPeriod(j, p) /\ job'[j].op = job[j].op /\ job'[j].doc = job[j].doc
  BY DEF Passed, Same
<1>3. CASE job[j].op \in Clearing
  <2>1. pc'[j] = "iclear" BY <1>2, <1>3 DEF AfterPeriod, Clearing
  <2> QED BY <1>2, <1>3, <2>1 DEF Stationed, Clearing, DeletePCs, Readers
<1>4. CASE job[j].op \in {"override", "add"}
  <2>1. pc'[j] = "invalidate" BY <1>2, <1>4 DEF AfterPeriod, Clearing
  <2> QED BY <1>2, <1>4, <2>1 DEF Stationed, Clearing, EntryPCs, Readers
<1>5. CASE job[j].op = "extract"
  <2>1. pc'[j] \in {"score", "done", "metrics"} BY <1>2, <1>5 DEF AfterPeriod, Clearing, RunEnd
  <2> QED BY <1>2, <1>5, <2>1 DEF Stationed, Clearing, RunPCs, Readers
<1>6. CASE job[j].op \in Readers
  <2>1. pc'[j] \in {"prior", "llm", "done", "look"}
    BY <1>2, <1>6 DEF AfterPeriod, Clearing, Readers
  <2> QED BY <1>2, <1>6, <2>1 DEF Stationed, Clearing, ReaderPCs, Readers
<1> QED BY <1>1, <1>3, <1>4, <1>5, <1>6 DEF OpNames, Clearing, Writing, Readers

LEMMA StationedStep ==
  ASSUME TypeOK, NEW j \in Jobs, Stationed(j), Placed, Step(j)
  PROVE  Stationed(j)'
<1> USE DEF Readers, Clearing
<1>m. job[j].op \in OpNames /\ PlacedAt(pc[j], job[j]) BY DEF TypeOK, Job, Placed
<1>a. ASSUME job'[j].op = job[j].op, job'[j].doc = job[j].doc, tx'[j].docGone => tx[j].docGone,
             pc[j] # "idle", pc'[j] \notin {"idle", "drows", "ddoc", "insert", "reload"},
             job[j].op = "extract" => pc'[j] \in RunPCs,
             job[j].op \in {"override", "add"} => pc'[j] \in EntryPCs,
             job[j].op \in Clearing => pc'[j] \in DeletePCs,
             job[j].op \in Readers => pc'[j] \in ReaderPCs
      PROVE  Stationed(j)'
  BY <1>a DEF Stationed
<1> USE DEF RunPCs, EntryPCs, DeletePCs, ReaderPCs, Before
<1>0. CASE Score(j)
  <2>1. job' = job /\ tx' = tx /\ pc[j] = "score" /\ pc'[j] = "done"
    BY <1>0 DEF Score, Goto, TypeOK
  <2> QED BY <1>a, <2>1 DEF Stationed
<1>1. CASE UploadCommit(j) \/ StartRun(j) \/ Fetch(j)
  <2>1. /\ job' = job /\ tx' = tx /\ pc[j] \in {"saved", "start", "fetch"}
        /\ pc'[j] \in {"start", "fetch", "persist"}
    BY <1>1 DEF UploadCommit, StartRun, Fetch, Goto, TypeOK, tables
  <2>2. job[j].op = "extract" BY <2>1, <1>m DEF Stationed, OpNames, Writing
  <2> QED BY <1>a, <2>1, <2>2
<1>2. CASE Persist(j)
  <2>1. /\ pc[j] = "persist" /\ pc'[j] = "vread" /\ tx' = tx
        /\ job'[j].op = job[j].op /\ job'[j].doc = job[j].doc
    BY <1>2, PersistEffect DEF Same
  <2>2. job[j].op = "extract" BY <2>1, <1>m DEF Stationed, OpNames, Writing
  <2> QED BY <1>a, <2>1, <2>2
<1>3. CASE ValidationRead(j) \/ Refresh(j)
  <2>1. /\ pc[j] \in {"vread", "refresh"} /\ pc'[j] \in {"vread", "vcommit"} /\ tx' = tx
        /\ job'[j].op = job[j].op /\ job'[j].doc = job[j].doc
    BY <1>3, ReadEffect, RefreshEffect DEF Same
  <2> QED BY <1>a, <2>1 DEF Stationed
<1>4. CASE ValidationCommit(j)
  <2>1. /\ pc[j] = "vcommit" /\ tx' = tx /\ job'[j].op = job[j].op /\ job'[j].doc = job[j].doc
        /\ pc'[j] \in {"score", "done", "metrics"}
        /\ pc'[j] = "score" => job[j].score
    BY <1>4, SettleEffect DEF Same, RunEnd
  <2>2. job[j].op \in Writing BY <2>1, <1>m DEF Stationed, OpNames
  <2> QED BY <1>a, <2>1, <2>2 DEF Stationed, Writing
<1>5. CASE ComputeRead(j)
  <2>1. /\ pc[j] = "metrics" /\ tx' = tx
        /\ \/ \E p : Passed(j, p, {})
           \/ pc'[j] = "mdelete" /\ job'[j].op = job[j].op /\ job'[j].doc = job[j].doc
    BY <1>5, ComputeReadEffect DEF Same
  <2> QED BY <1>a, <2>1, PassStationed DEF Stationed
<1>6. CASE ComputeDelete(j)
  <2>1. /\ pc[j] = "mdelete" /\ pc'[j] = "mcommit" /\ job' = job
        /\ tx'[j].docGone = tx[j].docGone
    BY <1>6, ComputeDeleteEffect
  <2> QED BY <1>a, <2>1 DEF Stationed
<1>7. CASE ComputeCommit(j)
  <2>1. pc[j] = "mcommit" /\ tx'[j] = NoTx /\ Passed(j, job[j].cur, {clock + 1})
    BY <1>7, ComputeCommitEffect
  <2> QED BY <2>1, PassStationed DEF NoTx
<1>8. CASE Look(j) \/ TakeLock(j)
  <2>1. /\ pc[j] \in {"look", "lock"} /\ tx' = tx
        /\ \/ \E p, found : Passed(j, p, found)
           \/ /\ pc'[j] \in {"lock", "metrics"}
              /\ job'[j].op = job[j].op /\ job'[j].doc = job[j].doc
    BY <1>8, LookEffect DEF Same
  <2>2. job[j].op \in Readers BY <2>1, <1>m DEF Stationed, OpNames, Writing
  <2> QED BY <1>a, <2>1, <2>2, PassStationed
<1>9. CASE AddInsert(j)
  <2>1. PICK new : job' = [job EXCEPT ![j].mem = new] BY <1>9 DEF AddInsert
  <2>2. job'[j].op = job[j].op /\ job'[j].doc = job[j].doc BY <2>1 DEF TypeOK, Job
  <2>3. pc[j] = "insert" /\ pc'[j] = "refresh" /\ tx' = tx
    BY <1>9 DEF AddInsert, Goto, TypeOK
  <2> QED BY <1>a, <2>2, <2>3 DEF Stationed
<1>10. CASE Invalidate(j)
  <2>1. pc[j] = "invalidate" /\ pc'[j] = "done" /\ tx' = tx /\ job' = job
    BY <1>10 DEF Invalidate, Goto, TypeOK
  <2> QED BY <1>a, <2>1 DEF Stationed
<1>11. CASE DeleteRows(j)
  <2>1. /\ pc[j] = "drows" /\ job' = job /\ tx'[j].docGone = tx[j].docGone
        /\ pc'[j] = IF job[j].op = "delete" THEN "ddoc" ELSE AfterClearing(j)
    BY <1>11, DeleteRowsEffect
  <2> QED BY <2>1 DEF Stationed, AfterClearing
<1>12. CASE DeleteDoc(j)
  <2>1. /\ pc[j] = "ddoc" /\ pc'[j] \in {"close", "remain"} /\ job' = job
    BY <1>12, DeleteDocEffect DEF AfterClearing
  <2> QED BY <2>1 DEF Stationed
<1>18. CASE ListRemaining(j)
  <2>1. /\ pc[j] = "remain" /\ pc'[j] = "metrics" /\ tx' = tx
        /\ job'[j].op = job[j].op /\ job'[j].doc = job[j].doc
    BY <1>18, RemainEffect
  <2>2. job[j].op \in Clearing BY <2>1, <1>m DEF Stationed, OpNames, Writing
  <2> QED BY <1>a, <2>1, <2>2 DEF Stationed
<1>13. CASE DropMetrics(j)
  <2>1. pc[j] = "metrics" /\ tx'[j].docGone = tx[j].docGone /\ \E p : Passed(j, p, {})
    BY <1>13, DropEffect
  <2> QED BY <2>1, PassStationed
<1>14. CASE ClearInsights(j)
  <2>1. /\ pc[j] = "iclear" /\ pc'[j] \in {"close", "metrics"} /\ job' = job
        /\ tx'[j].docGone = tx[j].docGone
    BY <1>14, ClearEffect
  <2>2. job[j].op \in Clearing BY <2>1, <1>m DEF Stationed, OpNames, Writing
  <2> QED BY <1>a, <2>1, <2>2 DEF Stationed
<1>15. CASE FinishDelete(j) \/ FinishReExtract(j)
  <2>1. /\ pc[j] = "close" /\ tx'[j] = NoTx /\ job' = job
        /\ \/ pc'[j] = "done" /\ job[j].op = "delete"
           \/ pc'[j] = "reload" /\ job[j].op = "reextract"
    BY <1>15, FinishEffect
  <2> QED BY <2>1 DEF Stationed, NoTx
<1>19. CASE Schedule(j)
  <2>1. /\ pc[j] = "reload" /\ pc'[j] = "start" /\ tx' = tx
        /\ job'[j] = [Idle EXCEPT !.op = "extract", !.doc = job[j].doc, !.score = TRUE]
    BY <1>19, ScheduleEffect
  <2>2. job[j].op = "reextract" BY <2>1, <1>m DEF Stationed, OpNames, Writing
  <2>3. job'[j].op = "extract" /\ job'[j].doc = job[j].doc BY <2>1 DEF Idle
  <2> QED BY <2>1, <2>2, <2>3 DEF Stationed
<1>16. CASE PriorPeriod(j) \/ NarrativeDelete(j) \/ NarrativeSave(j)
  <2>1. /\ pc[j] \in {"prior", "llm", "isave"} /\ pc'[j] \in {"llm", "look", "isave", "done"}
        /\ job'[j].op = job[j].op /\ job'[j].doc = job[j].doc
        /\ tx'[j].docGone => tx[j].docGone
    BY <1>16, PriorEffect, NarrativeDeleteEffect, SaveEffect DEF Same, NoTx
  <2>2. job[j].op \in Readers BY <2>1, <1>m DEF Stationed, OpNames, Writing
  <2> QED BY <1>a, <2>1, <2>2
<1>17. CASE Refuse(j) \/ Close(j)
  <2>1. pc'[j] = "idle" /\ job'[j] = Idle /\ tx'[j] = NoTx
    BY <1>17 DEF Refuse, Raise, Close, End, TypeOK
  <2> QED BY <2>1 DEF Stationed, Idle, NoTx
<1> QED BY <1>0, <1>1, <1>2, <1>3, <1>4, <1>5, <1>6, <1>7, <1>8, <1>9, <1>10, <1>11, <1>12, <1>13,
           <1>14, <1>15, <1>16, <1>17, <1>18, <1>19 DEF Step

LEMMA StationedRequest ==
  ASSUME TypeOK, NEW j \in Jobs, Stationed(j), Request(j)
  PROVE  Stationed(j)'
<1>1. pc[j] = "idle" /\ tx'[j].docGone = tx[j].docGone /\ ~tx[j].docGone
  BY RequestEffect DEF Stationed
<1> USE DEF Opened
<1>2. \/ /\ pc'[j] = "saved" /\ job'[j].op = "extract" /\ job'[j].doc \in Docs
      \/ pc'[j] = "drows" /\ job'[j].op \in Clearing /\ job'[j].doc \in Docs
      \/ pc'[j] = "look" /\ job'[j].op \in Readers
      \/ pc'[j] = "insert" /\ job'[j].op = "add"
      \/ pc'[j] = "refresh" /\ job'[j].op = "override"
  BY RequestEffect DEF Readers, Stored
<1> QED
  BY <1>1, <1>2
     DEF Stationed, Clearing, Readers, RunPCs, Before, EntryPCs, DeletePCs, ReaderPCs

LEMMA StationedIdle ==
  ASSUME NEW j \in Jobs, pc'[j] = "idle", job'[j] = Idle, tx'[j] = NoTx
  PROVE  Stationed(j)'
  BY DEF Stationed, Idle, NoTx, Clearing, Readers

LEMMA RaiseEffect ==
  ASSUME TypeOK, NEW j \in Jobs, Raise(j)
  PROVE  /\ pc'[j] = "idle" /\ job'[j] = Idle /\ tx'[j] = NoTx
         /\ rows' = rows /\ metrics' = metrics /\ insights' = insights /\ clock' = clock
  BY DEF Raise, End, TypeOK

LEMMA CrashEffect ==
  ASSUME NEW j \in Jobs, Crash
  PROVE  /\ pc'[j] = "idle" /\ job'[j] = Idle /\ tx'[j] = NoTx
         /\ rows' = rows /\ metrics' = metrics /\ insights' = insights /\ clock' = clock
         /\ docs' = docs
  BY DEF Crash, tables

(* What no session does: a report is scored, a narrative edited.            *)
LEMMA AsideEffect ==
  ASSUME (\E d \in Docs : GenerateReport(d)) \/ (\E i \in insights : EditInsight(i))
         \/ UNCHANGED vars
  PROVE  /\ UNCHANGED <<docs, files, rows, metrics, pc, job, tx, clock>>
         /\ \/ insights' = insights
            \/ \E i \in insights, e \in BOOLEAN :
                 insights' = (insights \ {i}) \cup {[i EXCEPT !.edited = e]}
  BY DEF GenerateReport, EditInsight, vars

(* The steps of a system with one session.                                  *)
LEMMA SoleCases ==
  ASSUME NEW s, Jobs = {s}, [Next]_vars
  PROVE  \/ Request(s) \/ Step(s) \/ Fail(s) \/ Crash
         \/ (\E d \in Docs : GenerateReport(d)) \/ (\E i \in insights : EditInsight(i))
         \/ UNCHANGED vars
  BY DEF Next

LEMMA StationedNext ==
  ASSUME NEW s, Jobs = {s}, TypeOK, Placed, Stationed(s), [Next]_vars
  PROVE  Stationed(s)'
<1>s. s \in Jobs OBVIOUS
<1>1. CASE Request(s) BY <1>s, <1>1, StationedRequest
<1>2. CASE Step(s) BY <1>s, <1>2, StationedStep
<1>3. CASE Fail(s) BY <1>s, <1>3, RaiseEffect, StationedIdle DEF Fail
<1>4. CASE Crash BY <1>s, <1>4, CrashEffect, StationedIdle
<1>5. CASE \/ (\E d \in Docs : GenerateReport(d)) \/ (\E i \in insights : EditInsight(i))
           \/ UNCHANGED vars
  BY <1>5, AsideEffect DEF Stationed
<1> QED BY <1>1, <1>2, <1>3, <1>4, <1>5, SoleCases

-----------------------------------------------------------------------------
(* The line items of a document are of one run *)

(* A run finds no line item of its document, whether it was uploaded or its *)
(* re-extraction has cleared them.                                          *)
Cleared(j) ==
  /\ job[j].op = "extract" /\ pc[j] \in Before => OfDoc(job[j].doc) = {}
  /\ job[j].op = "reextract" /\ pc[j] # "drows" =>
       Ids(OfDoc(job[j].doc)) \subseteq tx[j].gone

LEMMA PassClear ==
  ASSUME TypeOK, NEW j \in Jobs, NEW p, NEW found, Passed(j, p, found), Stationed(j),
         pc[j] \in {"metrics", "mcommit", "look", "lock"}
  PROVE  /\ job'[j].op = job[j].op /\ job'[j].doc = job[j].doc
         /\ pc'[j] \notin Before \cup {"drows"}
<1>1. pc'[j] = AfterPeriod(j, p) BY DEF Passed
<1>2. AfterPeriod(j, p) \in {"iclear", "invalidate", "prior", "llm", "done", "look",
                             "metrics", "score"}
  BY DEF AfterPeriod, RunEnd
<1> QED BY <1>1, <1>2 DEF Passed, Same, Before

(* A step that maps the statements and keeps their document or takes it away.*)
LEMMA MappedOnce ==
  ASSUME LineItemsOfOneRun,
         \A x \in rows' : \E r \in rows : x.born = r.born /\ (x.doc = r.doc \/ x.doc = None)
  PROVE  LineItemsOfOneRun'
<1> SUFFICES ASSUME NEW x \in rows', NEW y \in rows', x.doc # None, x.doc = y.doc
             PROVE  x.born = y.born
  BY DEF LineItemsOfOneRun
<1>1. PICK r \in rows : x.born = r.born /\ x.doc = r.doc OBVIOUS
<1>2. PICK t \in rows : y.born = t.born /\ y.doc = t.doc OBVIOUS
<1> QED BY <1>1, <1>2 DEF LineItemsOfOneRun

(* A commit leaves no line item of a document being re-extracted.           *)
LEMMA CommitOnce ==
  ASSUME TypeOK, NEW j \in Jobs, LineItemsOfOneRun,
         rows' = {Detached(j, r) : r \in Visible(j)}
  PROVE  /\ LineItemsOfOneRun'
         /\ \A d \in Docs : Ids(OfDoc(d)) \subseteq tx[j].gone => OfDoc(d)' = {}
<1>1. Visible(j) \subseteq rows /\ rows \subseteq Row BY DEF Visible, TypeOK
<1>2. ASSUME NEW x \in rows'
      PROVE  \E r \in rows : x.born = r.born /\ (x.doc = r.doc \/ x.doc = None)
  <2>1. PICK r \in Visible(j) : x = Detached(j, r) OBVIOUS
  <2> QED BY <1>1, <2>1, DetachedRow
<1>4. ASSUME NEW d \in Docs, Ids(OfDoc(d)) \subseteq tx[j].gone PROVE OfDoc(d)' = {}
  <2> SUFFICES ASSUME NEW x \in rows', x.doc = d PROVE FALSE BY DEF OfDoc
  <2>1. PICK r \in Visible(j) : x = Detached(j, r) OBVIOUS
  <2>2. r.doc = d BY <1>1, <2>1, DetachedRow, NoneIsFresh
  <2>3. RowId(r) \in Ids(OfDoc(d)) BY <1>1, <2>2 DEF OfDoc, Ids
  <2> QED BY <1>4, <2>3 DEF Visible
<1> QED BY <1>2, <1>4, MappedOnce

LEMMA OnceStep ==
  ASSUME TypeOK, Placed, NEW j \in Jobs, Stationed(j), LineItemsOfOneRun, Cleared(j), Step(j)
  PROVE  LineItemsOfOneRun' /\ Cleared(j)'
<1>q. ASSUME rows' = rows, tx'[j].gone = tx[j].gone,
             job'[j].op = job[j].op, job'[j].doc = job[j].doc,
             pc'[j] \in Before => pc[j] \in Before, pc[j] = "drows" => pc'[j] = "drows"
      PROVE  LineItemsOfOneRun' /\ Cleared(j)'
  BY <1>q DEF LineItemsOfOneRun, Cleared, OfDoc
<1>i. ASSUME pc'[j] = "idle", job'[j] = Idle PROVE Cleared(j)'
  BY <1>i DEF Cleared, Idle
<1> USE DEF Before
<1>1. CASE UploadCommit(j) \/ StartRun(j) \/ Fetch(j) \/ Score(j) \/ Invalidate(j)
  BY <1>1, <1>q
     DEF UploadCommit, StartRun, Fetch, Score, Invalidate, Goto, TypeOK, tables
<1>2. CASE Persist(j)
  <2>1. PICK new : rows' = rows \cup new /\ Fresh(new, job[j].doc)
    BY <1>2, PersistEffect
  <2>2. pc[j] = "persist" /\ pc'[j] = "vread" /\ job'[j].op = job[j].op
    BY <1>2, PersistEffect DEF Same
  <2>3. job[j].op = "extract"
    BY <2>2
       DEF Stationed, TypeOK, Job, OpNames, Clearing, Writing, DeletePCs, EntryPCs, Readers,
           ReaderPCs
  <2>4. OfDoc(job[j].doc) = {} BY <2>2, <2>3 DEF Cleared
  <2>5. LineItemsOfOneRun'
    <3> SUFFICES ASSUME NEW x \in rows', NEW y \in rows', x.doc # None, x.doc = y.doc
                 PROVE  x.born = y.born
      BY DEF LineItemsOfOneRun
    <3>1. \A r \in rows : r.doc # job[j].doc BY <2>4 DEF OfDoc
    <3> QED BY <2>1, <3>1 DEF Fresh, LineItemsOfOneRun
  <2> QED BY <2>2, <2>3, <2>5 DEF Cleared
<1>3. CASE ValidationRead(j) \/ Refresh(j)
  BY <1>3, <1>q, ReadEffect, RefreshEffect DEF Same
<1>4. CASE ValidationCommit(j)
  <2>1. rows' = {Settled(j, r) : r \in rows} BY <1>4, SettleEffect
  <2>2. \A r \in rows : Settled(j, r).born = r.born /\ Settled(j, r).doc = r.doc
    BY SettledRow DEF TypeOK
  <2>3. /\ pc[j] = "vcommit" /\ pc'[j] \in {"score", "done", "metrics"} /\ job'[j].op = job[j].op
    BY <1>4, SettleEffect DEF Same, RunEnd
  <2>4. job[j].op # "reextract" BY <2>3 DEF Stationed, Clearing, DeletePCs
  <2>5. LineItemsOfOneRun'
    <3>1. ASSUME NEW x \in rows'
          PROVE  \E r \in rows : x.born = r.born /\ (x.doc = r.doc \/ x.doc = None)
      <4>1. PICK r \in rows : x = Settled(j, r) BY <2>1
      <4> QED BY <2>2, <4>1
    <3> QED BY <3>1, MappedOnce
  <2> QED BY <2>3, <2>4, <2>5 DEF Cleared
<1>5. CASE ComputeRead(j)
  BY <1>5, <1>q, ComputeReadEffect, PassClear DEF Same
<1>6. CASE ComputeDelete(j) BY <1>6, <1>q, ComputeDeleteEffect
<1>7. CASE ComputeCommit(j)
  <2>1. /\ pc[j] = "mcommit" /\ rows' = {Detached(j, r) : r \in Visible(j)}
        /\ Passed(j, job[j].cur, {clock + 1})
    BY <1>7, ComputeCommitEffect
  <2>2. job'[j].op = job[j].op /\ job'[j].doc = job[j].doc /\ pc'[j] \notin Before
    BY <2>1, PassClear
  <2>3. ASSUME job'[j].op = "reextract" PROVE OfDoc(job[j].doc)' = {}
    BY <2>1, <2>2, <2>3, CommitOnce DEF Cleared, Stationed
  <2>4. ASSUME job'[j].op = "reextract"
        PROVE  (Ids(OfDoc(job[j].doc)) \subseteq tx[j].gone)'
    <3>1. OfDoc(job[j].doc)' = {} BY <2>3, <2>4
    <3> QED BY <3>1 DEF Ids
  <2> QED BY <2>1, <2>2, <2>4, CommitOnce DEF Cleared
<1>8. CASE Look(j) \/ TakeLock(j)
  BY <1>8, <1>q, LookEffect, PassClear DEF Same
<1>9. CASE AddInsert(j)
  <2> DEFINE new == {NewRow(clock + 1, 0, None, m.period, m.code, m.value) : m \in job[j].mem}
  <2>0. rows' = rows \cup new /\ job' = [job EXCEPT ![j].mem = new] BY <1>9 DEF AddInsert
  <2>1. \A r \in new : r.doc = None BY DEF NewRow
  <2> HIDE DEF new
  <2>2. job'[j].op = job[j].op BY <2>0 DEF TypeOK, Job
  <2>3. pc[j] = "insert" /\ pc'[j] = "refresh" BY <1>9 DEF AddInsert, Goto, TypeOK
  <2>4. LineItemsOfOneRun' BY <2>0, <2>1 DEF LineItemsOfOneRun
  <2> QED BY <2>2, <2>3, <2>4 DEF Cleared, Stationed
<1>10. CASE DeleteRows(j)
  <2>1. /\ pc[j] = "drows" /\ job' = job /\ rows' = rows /\ tx'[j].gone = Ids(OfDoc(job[j].doc))
    BY <1>10, DeleteRowsEffect
  <2>2. job[j].op \in {"delete", "reextract"} BY <2>1 DEF Stationed, Clearing
  <2>3. OfDoc(job[j].doc)' = OfDoc(job[j].doc) BY <2>1 DEF OfDoc
  <2> QED BY <2>1, <2>2, <2>3 DEF Cleared, LineItemsOfOneRun, Ids
<1>11. CASE DeleteDoc(j)
  BY <1>11, <1>q, DeleteDocEffect DEF AfterClearing
<1>19. CASE ListRemaining(j) BY <1>19, <1>q, RemainEffect
<1>12. CASE DropMetrics(j) BY <1>12, <1>q, DropEffect, PassClear
<1>13. CASE ClearInsights(j) BY <1>13, <1>q, ClearEffect
<1>14. CASE FinishDelete(j) \/ FinishReExtract(j)
  <2>1. rows' = {Detached(j, r) : r \in Visible(j)} /\ job' = job /\ pc[j] = "close"
    BY <1>14, FinishEffect
  <2>2. LineItemsOfOneRun' BY <2>1, CommitOnce
  <2>3. CASE FinishDelete(j)
    <3>1. job[j].op = "delete" BY <2>3 DEF FinishDelete
    <3> QED BY <2>1, <2>2, <3>1 DEF Cleared
  <2>4. CASE FinishReExtract(j)
    <3>0. job[j].op = "reextract" BY <2>4 DEF FinishReExtract
    <3>2. OfDoc(job[j].doc)' = {} BY <2>1, <3>0, CommitOnce DEF Cleared, Stationed
    <3>3. (Ids(OfDoc(job[j].doc)) \subseteq tx[j].gone)' BY <2>1, <3>2 DEF Ids
    <3> QED BY <2>1, <2>2, <3>0, <3>3 DEF Cleared
  <2> QED BY <1>14, <2>3, <2>4
<1>20. CASE Schedule(j)
  <2>1. /\ pc[j] = "reload" /\ rows' = rows
        /\ job'[j] = [Idle EXCEPT !.op = "extract", !.doc = job[j].doc, !.score = TRUE]
    BY <1>20, ScheduleEffect
  <2>2. job[j].op = "reextract" /\ tx[j] = NoTx
    BY <2>1
       DEF Stationed, Placed, PlacedAt, TypeOK, Job, OpNames, Clearing, Writing, RunPCs, EntryPCs,
           DeletePCs, Readers, ReaderPCs
  <2>3. Ids(OfDoc(job[j].doc)) = {} BY <2>1, <2>2 DEF Cleared, NoTx
  <2>4. OfDoc(job[j].doc) = {} BY <2>3 DEF Ids
  <2>5. job'[j].op = "extract" /\ job'[j].doc = job[j].doc BY <2>1 DEF Idle
  <2> QED BY <2>1, <2>4, <2>5 DEF Cleared, LineItemsOfOneRun, OfDoc
<1>15. CASE PriorPeriod(j) BY <1>15, <1>q, PriorEffect DEF Same
<1>16. CASE NarrativeDelete(j) BY <1>16, <1>q, NarrativeDeleteEffect
<1>17. CASE NarrativeSave(j)
  <2>1. /\ pc[j] = "isave" /\ pc'[j] = "done" /\ job' = job
        /\ rows' = {Detached(j, r) : r \in Visible(j)}
    BY <1>17, SaveEffect
  <2>2. job[j].op # "reextract" BY <2>1 DEF Stationed, Clearing, DeletePCs
  <2> QED BY <2>1, <2>2, CommitOnce DEF Cleared
<1>18. CASE Refuse(j) \/ Close(j)
  <2>1. pc'[j] = "idle" /\ job'[j] = Idle /\ rows' = rows
    BY <1>18, RaiseEffect DEF Refuse, Close, End, TypeOK, tables
  <2> QED BY <1>i, <2>1 DEF LineItemsOfOneRun
<1> QED BY <1>1, <1>2, <1>3, <1>4, <1>5, <1>6, <1>7, <1>8, <1>9, <1>10, <1>11, <1>12, <1>13,
           <1>14, <1>15, <1>16, <1>17, <1>18, <1>19, <1>20 DEF Step

LEMMA OnceRequest ==
  ASSUME TypeOK, NoRowOfDeletedDoc, NEW j \in Jobs, Stationed(j), LineItemsOfOneRun,
         Request(j)
  PROVE  LineItemsOfOneRun' /\ Cleared(j)'
<1> USE DEF Opened
<1>1. CASE rows' = rows
  <2>1. LineItemsOfOneRun' BY <1>1 DEF LineItemsOfOneRun
  <2>2. CASE \E d \in Docs : docs[d] = "absent" /\ Opened(j, "saved", "extract", d, {}, {})
    <3>1. PICK d \in Docs : docs[d] = "absent" /\ Opened(j, "saved", "extract", d, {}, {})
      BY <2>2
    <3>2. \A r \in rows : r.doc # d BY <3>1, NoneIsFresh DEF NoRowOfDeletedDoc, Stored
    <3>3. OfDoc(job[j].doc)' = {} BY <1>1, <3>1, <3>2 DEF OfDoc
    <3> QED BY <2>1, <3>1, <3>3 DEF Cleared
  <2>3. CASE pc'[j] = "drows" /\ job'[j].op \in Clearing
    BY <2>1, <2>3 DEF Cleared, Clearing
  <2>4. CASE job'[j].op \notin {"extract", "reextract"} BY <2>1, <2>4 DEF Cleared
  <2> QED BY <1>1, <2>2, <2>3, <2>4, RequestEffect
<1>2. CASE \E r \in rows, v \in Values :
             /\ rows' = (rows \ {r}) \cup {Overridden(r, v)}
             /\ Opened(j, "refresh", "override", None, {Overridden(r, v)}, {r.period})
  <2>1. PICK r \in rows, v \in Values :
          /\ rows' = (rows \ {r}) \cup {Overridden(r, v)}
          /\ Opened(j, "refresh", "override", None, {Overridden(r, v)}, {r.period})
    BY <1>2
  <2>2. Overridden(r, v).doc = r.doc /\ Overridden(r, v).born = r.born
    BY OverriddenRow DEF TypeOK
  <2>3. LineItemsOfOneRun' BY <2>1, <2>2 DEF LineItemsOfOneRun
  <2> QED BY <2>1, <2>3 DEF Cleared
<1> QED BY <1>1, <1>2, RequestEffect

LEMMA OnceNext ==
  ASSUME NEW s, Jobs = {s}, TypeOK, Placed, NoRowOfDeletedDoc, Stationed(s),
         LineItemsOfOneRun, Cleared(s), [Next]_vars
  PROVE  LineItemsOfOneRun' /\ Cleared(s)'
<1>s. s \in Jobs OBVIOUS
<1>i. ASSUME rows' = rows, job'[s] = Idle PROVE LineItemsOfOneRun' /\ Cleared(s)'
  BY <1>i DEF LineItemsOfOneRun, Cleared, Idle
<1>1. CASE Request(s) BY <1>s, <1>1, OnceRequest
<1>2. CASE Step(s) BY <1>s, <1>2, OnceStep
<1>3. CASE Fail(s) BY <1>s, <1>i, <1>3, RaiseEffect DEF Fail
<1>4. CASE Crash BY <1>s, <1>i, <1>4, CrashEffect
<1>5. CASE \/ (\E d \in Docs : GenerateReport(d)) \/ (\E i \in insights : EditInsight(i))
           \/ UNCHANGED vars
  BY <1>5, AsideEffect DEF LineItemsOfOneRun, Cleared, OfDoc
<1> QED BY <1>1, <1>2, <1>3, <1>4, <1>5, SoleCases

LEMMA StationedInit ==
  ASSUME NEW s, Jobs = {s}, Init
  PROVE  Stationed(s) /\ pc[s] = "idle" /\ job[s] = Idle /\ tx[s] = NoTx
  BY DEF Init, Stationed, Idle, NoTx, Clearing, Readers

LEMMA StationedAlways ==
  ASSUME NEW s, Jobs = {s} PROVE Spec => [](TypeOK /\ Placed /\ Stationed(s))
<1>1. Init => Stationed(s) BY StationedInit
<1>2. TypeOK /\ Placed /\ Stationed(s) /\ [Next]_vars => Stationed(s)' BY StationedNext
<1> QED BY <1>1, <1>2, TypePlaced, PTL DEF Spec

(* The system serves one session at a time.                                 *)
OneSession == \E s : Jobs = {s}

(* What is on record at the start has no two rows of one key.               *)
SeedsAreKeyed == \A seed \in Seeds : \A r, s \in seed.rows : RowId(r) = RowId(s) => r = s

(* However often documents are uploaded, extracted, re-extracted and        *)
(* deleted, one request after the other, and whatever list of line items    *)
(* the model returns, those on record for a document are of one run of it,  *)
(* whatever fails and whenever the process crashes.                         *)
THEOREM LineItemsStayOfOneRun ==
  ASSUME OneSession PROVE Spec => []LineItemsOfOneRun
<1>1. PICK s : Jobs = {s} BY DEF OneSession
<1>2. Init => LineItemsOfOneRun /\ Cleared(s)
  <2> SUFFICES ASSUME Init PROVE LineItemsOfOneRun /\ Cleared(s) OBVIOUS
  <2>1. Cleared(s) BY <1>1, StationedInit DEF Cleared, Idle
  <2>2. PICK seed \in Seeds : rows = seed.rows BY DEF Init
  <2>3. \A r \in rows : r.born = 0 BY <2>2, SeedsAreStatements
  <2> QED BY <2>1, <2>3 DEF LineItemsOfOneRun
<1>3. TypeOK /\ Placed /\ Stationed(s) /\ NoRowOfDeletedDoc
        /\ (LineItemsOfOneRun /\ Cleared(s)) /\ [Next]_vars
      => (LineItemsOfOneRun /\ Cleared(s))'
  BY <1>1, OnceNext
<1>4. Spec => [](TypeOK /\ Placed /\ Stationed(s)) BY <1>1, StationedAlways
<1> QED BY <1>2, <1>3, <1>4, ReferencesHold, PTL DEF Spec

-----------------------------------------------------------------------------
(* What the session keeps in step with the tables *)

(* The document a session extracts anew, or is about to, is on record.      *)
OnRecord(j) ==
  job[j].op \in {"extract", "reextract"} /\ pc[j] # "saved" => job[j].doc \in Stored

LEMMA OnRecordStep ==
  ASSUME TypeOK, Placed, NEW j \in Jobs, Stationed(j), OnRecord(j), Step(j)
  PROVE  OnRecord(j)'
<1> SUFFICES ASSUME job'[j].op \in {"extract", "reextract"} PROVE job'[j].doc \in Stored'
  BY DEF OnRecord
<1>1. job'[j].doc = job[j].doc /\ job[j].op \in {"extract", "reextract"}
  <2>1. CASE Schedule(j)
    <3>1. job'[j].doc = job[j].doc /\ pc[j] = "reload" BY <2>1, ScheduleEffect DEF Idle
    <3>2. job[j].op = "reextract"
      BY <3>1
         DEF Stationed, TypeOK, Job, OpNames, Clearing, Writing, RunPCs, Before, EntryPCs,
             DeletePCs, Readers, ReaderPCs
    <3> QED BY <3>1, <3>2
  <2> QED BY <2>1, StepOp DEF Idle
<1>2. job[j].doc \in Docs /\ ~tx[j].docGone BY <1>1 DEF Stationed
<1>3. DocMoves(j, job[j].doc) BY <1>2, StepMoves
<1>4. CASE pc[j] = "saved"
  <2>1. UploadCommit(j)
    <3>1. ~Refuse(j) BY <1>4 DEF Refuse, Refused, Deadlocked
    <3> QED
      BY <1>4, <3>1
         DEF Step, StartRun, Fetch, Persist, Score, ValidationRead, ValidationCommit, ComputeRead,
             ComputeDelete, ComputeCommit, Look, TakeLock, AddInsert, Refresh, Invalidate,
             DeleteRows, DeleteDoc, ListRemaining, DropMetrics, ClearInsights, FinishDelete,
             FinishReExtract, Schedule, PriorPeriod, NarrativeDelete, NarrativeSave, Close
  <2> QED BY <1>1, <1>2, <2>1 DEF UploadCommit, Stored, TypeOK
<1>5. CASE pc[j] # "saved"
  <2>1. job[j].doc \in Stored BY <1>1, <1>5 DEF OnRecord
  <2> QED BY <1>1, <1>2, <1>3, <1>5, <2>1 DEF DocMoves, Stored
<1> QED BY <1>4, <1>5

(* The statements a session holds are the stored ones where it reads them,  *)
(* and everywhere past the entry of a new one they have the stored values;  *)
(* those whose validation it commits are still there, read as they are.     *)
Synced(j) ==
  /\ pc[j] \in {"refresh", "vread"} => job[j].mem \subseteq rows
  /\ pc[j] \in {"insert", "refresh"} => job[j].mem # {}
  /\ pc[j] = "insert" => /\ \A m, n \in job[j].mem : m = n
                         /\ \A m \in job[j].mem : m.period \in job[j].todo
  /\ pc[j] # "insert" => \A m \in job[j].mem, r \in rows : RowId(m) = RowId(r) => m.value = r.value
  /\ pc[j] = "vcommit" =>
       /\ Touched(j) \subseteq Ids(rows)
       /\ \A m \in job[j].marks, r \in rows :
            RowId(r) = m[1] => <<RowId(r), r.value>> \in job[j].seen

(* Rows, batches and narratives are dated no later than the clock, and a    *)
(* primary key names one row.                                               *)
Stamped ==
  /\ \A r \in rows : r.born <= clock /\ r.at <= clock
  /\ \A r, t \in rows : RowId(r) = RowId(t) => r = t
  /\ \A b \in metrics : b.id <= clock
  /\ \A b, c \in metrics : b.id = c.id => b = c
  /\ \A i \in insights : i.id <= clock

(* What a step of a session does to the statements ...                      *)
RowsMove(j) ==
  \/ rows' = rows /\ clock' >= clock
  \/ /\ clock' = clock + 1 /\ pc[j] \in {"persist", "insert"}
     /\ \E new : \E d \in Docs \cup {None} : Fresh(new, d) /\ rows' = rows \cup new
  \/ pc[j] = "vcommit" /\ rows' = {Settled(j, r) : r \in rows} /\ clock' = clock + 1
  \/ rows' = {Detached(j, r) : r \in Visible(j)} /\ clock' >= clock
  \/ /\ pc[j] = "idle" /\ clock' = clock + 1
     /\ \E r \in rows, v \in Values : rows' = (rows \ {r}) \cup {Overridden(r, v)}

(* ... and to the batches and the narratives cached from them.              *)
CacheMove ==
  /\ \/ metrics' \subseteq metrics
     \/ /\ clock' = clock + 1
        /\ \E b : \E kept \in SUBSET metrics : b.id = clock + 1 /\ metrics' = kept \cup {b}
  /\ \/ insights' \subseteq insights
     \/ /\ clock' = clock + 1
        /\ \E i : \E kept \in SUBSET insights : i.id = clock + 1 /\ insights' = kept \cup {i}

LEMMA StepTables ==
  ASSUME TypeOK, NEW j \in Jobs, Step(j) \/ Raise(j), pc[j] = "insert" => \A m, n \in job[j].mem : m = n
  PROVE  RowsMove(j) /\ CacheMove
<1> USE DEF RowsMove, CacheMove
<1>c. clock + 1 >= clock /\ clock >= clock BY DEF TypeOK
<1>d. job[j].doc \in Docs \cup {None} BY DEF TypeOK, Job
<1>q. ASSUME UNCHANGED <<rows, metrics, insights, clock>> PROVE RowsMove(j) /\ CacheMove
  BY <1>c, <1>q
<1>1. CASE UploadCommit(j) \/ StartRun(j) \/ Fetch(j) \/ Score(j) \/ Close(j)
  BY <1>1, <1>q DEF UploadCommit, StartRun, Fetch, Score, Close, tables
<1>2. CASE Persist(j) BY <1>2, <1>d, PersistEffect
<1>3. CASE ValidationRead(j) \/ Refresh(j) BY <1>3, <1>q, ReadEffect, RefreshEffect
<1>4. CASE ValidationCommit(j) BY <1>4, SettleEffect
<1>5. CASE ComputeRead(j) \/ ComputeDelete(j) BY <1>5, <1>q, ComputeReadEffect, ComputeDeleteEffect
<1>6. CASE ComputeCommit(j)
  <2> DEFINE b == [id |-> clock + 1, period |-> job[j].cur, basis |-> job[j].basis]
             kept == {c \in metrics : c.id \notin tx[j].drop}
  <2>1. b.id = clock + 1 /\ kept \in SUBSET metrics OBVIOUS
  <2>2. /\ metrics' = kept \cup {b} /\ clock' = clock + 1 /\ insights' \subseteq insights
        /\ rows' = {Detached(j, r) : r \in Visible(j)}
    BY <1>6, ComputeCommitEffect
  <2> HIDE DEF b, kept
  <2> QED BY <1>c, <2>1, <2>2
<1>7. CASE Look(j) \/ TakeLock(j) BY <1>7, <1>q, LookEffect
<1>8. CASE AddInsert(j)
  <2>1. pc[j] = "insert" BY <1>8 DEF AddInsert
  <2> QED BY <1>8, <2>1, AddEffect
<1>9. CASE Invalidate(j) BY <1>9, <1>c DEF Invalidate
<1>10. CASE DeleteRows(j) \/ DeleteDoc(j) \/ ListRemaining(j) \/ Schedule(j)
  BY <1>10, <1>q, DeleteRowsEffect, DeleteDocEffect, RemainEffect, ScheduleEffect
<1>11. CASE DropMetrics(j) \/ ClearInsights(j) BY <1>11, <1>q, DropEffect, ClearEffect
<1>12. CASE FinishDelete(j) \/ FinishReExtract(j) BY <1>12, <1>c, FinishEffect
<1>13. CASE PriorPeriod(j) \/ NarrativeDelete(j) BY <1>13, <1>q, PriorEffect, NarrativeDeleteEffect
<1>14. CASE NarrativeSave(j)
  <2> DEFINE i == [id |-> clock + 1, period |-> job[j].target, aud |-> job[j].aud,
                   src |-> job[j].src, edited |-> FALSE]
             kept == {k \in insights : k.id \notin tx[j].dropI}
  <2>1. i.id = clock + 1 /\ kept \in SUBSET insights OBVIOUS
  <2>2. /\ insights' = kept \cup {i} /\ clock' = clock + 1 /\ metrics' \subseteq metrics
        /\ rows' = {Detached(j, r) : r \in Visible(j)}
    BY <1>14, SaveEffect
  <2> HIDE DEF i, kept
  <2> QED BY <1>c, <2>1, <2>2
<1>15. CASE Raise(j) \/ Refuse(j) BY <1>15, <1>q, RaiseEffect DEF Refuse
<1> QED BY <1>1, <1>2, <1>3, <1>4, <1>5, <1>6, <1>7, <1>8, <1>9, <1>10, <1>11, <1>12, <1>13, <1>14,
           <1>15 DEF Step

LEMMA StampedKept ==
  ASSUME TypeOK, TypeOK', NEW j \in Jobs, Stamped, RowsMove(j), CacheMove
  PROVE  Stamped'
<1>r. rows \subseteq Row /\ rows' \subseteq Row /\ clock \in Nat /\ clock' \in Nat BY DEF TypeOK
<1>n. /\ \A r \in rows : r.born \in Nat /\ r.at \in Nat
      /\ \A b \in metrics : b.id \in Nat
      /\ \A i \in insights : i.id \in Nat
  BY DEF TypeOK, Row, Batch, Insight
<1>c. clock' >= clock BY <1>r DEF RowsMove
<1>1. \A r \in rows' : r.born <= clock' /\ r.at <= clock'
  <2>1. CASE rows' = rows BY <1>c, <1>n, <1>r, <2>1 DEF Stamped
  <2>2. CASE \E new : \E d \in Docs \cup {None} :
               Fresh(new, d) /\ rows' = rows \cup new /\ clock' = clock + 1
    BY <1>c, <1>n, <1>r, <2>2 DEF Stamped, Fresh
  <2>3. CASE rows' = {Settled(j, r) : r \in rows} /\ clock' = clock + 1
    <3> SUFFICES ASSUME NEW x \in rows' PROVE x.born <= clock' /\ x.at <= clock' OBVIOUS
    <3>1. PICK r \in rows : x = Settled(j, r) BY <2>3
    <3>2. x.born = r.born /\ x.at \in {r.at, clock + 1} BY <1>r, <3>1, SettledRow
    <3> QED BY <1>c, <1>n, <1>r, <2>3, <3>2 DEF Stamped
  <2>4. CASE rows' = {Detached(j, r) : r \in Visible(j)}
    <3> SUFFICES ASSUME NEW x \in rows' PROVE x.born <= clock' /\ x.at <= clock' OBVIOUS
    <3>1. PICK r \in rows : x = Detached(j, r) BY <2>4 DEF Visible
    <3>2. x.born = r.born /\ x.at = r.at BY <1>r, <3>1, DetachedRow
    <3> QED BY <1>c, <1>n, <1>r, <3>2 DEF Stamped
  <2>5. CASE \E r \in rows, v \in Values :
               rows' = (rows \ {r}) \cup {Overridden(r, v)} /\ clock' = clock + 1
    <3>1. PICK r \in rows, v \in Values :
            rows' = (rows \ {r}) \cup {Overridden(r, v)} /\ clock' = clock + 1
      BY <2>5
    <3>2. Overridden(r, v).born = r.born /\ Overridden(r, v).at = clock + 1
      BY <1>r, OverriddenRow
    <3> QED BY <1>c, <1>n, <1>r, <3>1, <3>2 DEF Stamped
  <2> QED BY <2>1, <2>2, <2>3, <2>4, <2>5 DEF RowsMove
<1>2. \A x, y \in rows' : RowId(x) = RowId(y) => x = y
  <2> SUFFICES ASSUME NEW x \in rows', NEW y \in rows', RowId(x) = RowId(y) PROVE x = y OBVIOUS
  <2>u. \A r, t \in rows : RowId(r) = RowId(t) => r = t BY DEF Stamped
  <2>1. CASE rows' = rows BY <2>1, <2>u
  <2>2. CASE \E new : \E d \in Docs \cup {None} : Fresh(new, d) /\ rows' = rows \cup new
    <3>1. PICK new, d : Fresh(new, d) /\ rows' = rows \cup new BY <2>2
    <3>2. \A r \in rows : r.born # clock + 1 BY <1>n, <1>r DEF Stamped
    <3>3. \A r \in new : r.born = clock + 1 BY <3>1 DEF Fresh
    <3>4. x.born = y.born BY DEF RowId
    <3> QED BY <2>u, <3>1, <3>2, <3>3, <3>4 DEF Fresh
  <2>3. CASE rows' = {Settled(j, r) : r \in rows}
    <3>1. PICK r \in rows : x = Settled(j, r) BY <2>3
    <3>2. PICK t \in rows : y = Settled(j, t) BY <2>3
    <3>3. RowId(r) = RowId(t) BY <1>r, <3>1, <3>2, SettledRow
    <3> QED BY <2>u, <3>1, <3>2, <3>3
  <2>4. CASE rows' = {Detached(j, r) : r \in Visible(j)}
    <3>1. PICK r \in rows : x = Detached(j, r) BY <2>4 DEF Visible
    <3>2. PICK t \in rows : y = Detached(j, t) BY <2>4 DEF Visible
    <3>3. RowId(r) = RowId(t) BY <1>r, <3>1, <3>2, DetachedRow
    <3> QED BY <2>u, <3>1, <3>2, <3>3
  <2>5. CASE \E r \in rows, v \in Values : rows' = (rows \ {r}) \cup {Overridden(r, v)}
    <3>1. PICK r \in rows, v \in Values : rows' = (rows \ {r}) \cup {Overridden(r, v)}
      BY <2>5
    <3>2. RowId(Overridden(r, v)) = RowId(r) BY <1>r, OverriddenRow
    <3> QED BY <2>u, <3>1, <3>2
  <2> QED BY <2>1, <2>2, <2>3, <2>4, <2>5 DEF RowsMove
<1>3. (\A b \in metrics' : b.id <= clock') /\ (\A b, c \in metrics' : b.id = c.id => b = c)
  <2>1. CASE metrics' \subseteq metrics BY <1>c, <1>n, <1>r, <2>1 DEF Stamped
  <2>2. CASE clock' = clock + 1 /\
             \E b : \E kept \in SUBSET metrics : b.id = clock + 1 /\ metrics' = kept \cup {b}
    <3>1. PICK b, kept : /\ kept \in SUBSET metrics /\ b.id = clock + 1
                         /\ metrics' = kept \cup {b}
      BY <2>2
    <3>0. kept \subseteq metrics BY <3>1
    <3>2. \A c \in kept : c.id <= clock /\ c.id \in Nat BY <1>n, <3>0 DEF Stamped
    <3>3. \A c \in kept : c.id # clock + 1 BY <1>r, <3>2
    <3>4. \A c, e \in kept : c.id = e.id => c = e BY <3>0 DEF Stamped
    <3> QED BY <1>r, <2>2, <3>1, <3>2, <3>3, <3>4
  <2> QED BY <2>1, <2>2 DEF CacheMove
<1>4. \A i \in insights' : i.id <= clock'
  <2>1. CASE insights' \subseteq insights BY <1>c, <1>n, <1>r, <2>1 DEF Stamped
  <2>2. CASE clock' = clock + 1 /\
             \E i : \E kept \in SUBSET insights : i.id = clock + 1 /\ insights' = kept \cup {i}
    BY <1>n, <1>r, <2>2 DEF Stamped
  <2> QED BY <2>1, <2>2 DEF CacheMove
<1> QED BY <1>1, <1>2, <1>3, <1>4 DEF Stamped

LEMMA StampedRequest ==
  ASSUME TypeOK, TypeOK', NEW j \in Jobs, Stamped, Request(j)
  PROVE  Stamped'
<1>0. clock \in Nat BY DEF TypeOK
<1>1. RowsMove(j)
  <2>1. \/ rows' = rows /\ clock' = clock
        \/ /\ clock' = clock + 1 /\ pc[j] = "idle"
           /\ \E r \in rows, v \in Values : rows' = (rows \ {r}) \cup {Overridden(r, v)}
    BY RequestEffect
  <2> QED BY <1>0, <2>1 DEF RowsMove
<1>2. CacheMove BY RequestEffect DEF CacheMove
<1> QED BY <1>1, <1>2, StampedKept

LEMMA StampedAside ==
  ASSUME TypeOK, Stamped, UNCHANGED <<rows, metrics, clock>>,
         \/ insights' = insights
         \/ \E i \in insights, e \in BOOLEAN :
              insights' = (insights \ {i}) \cup {[i EXCEPT !.edited = e]}
  PROVE  Stamped'
<1>1. ASSUME NEW i \in insights, NEW e \in BOOLEAN PROVE [i EXCEPT !.edited = e].id = i.id
  BY DEF TypeOK, Insight
<1> QED BY <1>1 DEF Stamped

(* Of the statements it reads, a session in step gets the stored ones.      *)
LEMMA LoadedStored ==
  ASSUME NEW j \in Jobs, Stamped, job[j].mem \subseteq rows, NEW S, S \subseteq rows
  PROVE  Loaded(j, S) = S
<1>1. ASSUME NEW r \in S
      PROVE  (IF Held(j, r) = {} THEN r ELSE CHOOSE m \in Held(j, r) : TRUE) = r
  <2>1. \A m \in Held(j, r) : m = r BY DEF Held, Stamped
  <2> QED BY <2>1
<1> QED BY <1>1 DEF Loaded

(* What a session in step marks in validation is on record.                 *)
LEMMA ReadTouches ==
  ASSUME TypeOK, NEW j \in Jobs, Stamped, Synced(j), ValidationRead(j)
  PROVE  /\ Touched(j)' \subseteq Ids(rows)
         /\ \A m \in job'[j].marks, r \in rows :
              RowId(r) = m[1] => <<RowId(r), r.value>> \in job'[j].seen
<1>1. job[j].mem \subseteq rows BY ReadEffect DEF Synced
<1>2. PICK picked \in Current(j) :
        /\ \A r \in picked : <<RowId(r), r.value>> \in job'[j].seen
        /\ \A m \in job'[j].marks : \E r \in picked : m[1] = RowId(r)
        /\ \A a \in job'[j].anchors : \E r \in picked : a = RowId(r)
  BY ReadEffect
<1>3. picked \subseteq rows
  <2> DEFINE S == {r \in rows : r.period \in job[j].todo}
  <2>1. Loaded(j, S) = S BY <1>1, LoadedStored
  <2>2. picked \subseteq Latest(S) BY <1>2, <2>1 DEF Current, Resolutions
  <2> QED BY <2>2 DEF Latest
<1>4. ASSUME NEW k \in Touched(j)' PROVE \E r \in picked : k = RowId(r)
  BY <1>2, <1>4 DEF Touched
<1>5. ASSUME NEW m \in job'[j].marks, NEW r \in rows, RowId(r) = m[1]
      PROVE  <<RowId(r), r.value>> \in job'[j].seen
  <2>1. PICK t \in picked : m[1] = RowId(t) BY <1>2
  <2>2. r = t BY <1>3, <1>5, <2>1 DEF Stamped
  <2> QED BY <1>2, <2>2
<1> QED BY <1>3, <1>4, <1>5 DEF Ids

LEMMA SyncedStep ==
  ASSUME TypeOK, NEW j \in Jobs, Stamped, Stamped', Synced(j), Step(j) \/ Raise(j)
  PROVE  Synced(j)'
<1>v. pc[j] # "insert" => \A m \in job[j].mem, r \in rows : RowId(m) = RowId(r) => m.value = r.value
  BY DEF Synced
<1>r. rows \subseteq Row BY DEF TypeOK
<1>a. ASSUME job'[j].mem = job[j].mem, pc[j] # "insert",
             pc'[j] \notin {"refresh", "vread", "insert", "vcommit"},
             \A x \in rows' : \E r \in rows : RowId(x) = RowId(r) /\ x.value = r.value
      PROVE  Synced(j)'
  BY <1>v, <1>a DEF Synced
<1>q. ASSUME job'[j].mem = job[j].mem, pc[j] # "insert",
             pc'[j] \notin {"refresh", "vread", "insert", "vcommit"}, rows' = rows
      PROVE  Synced(j)'
  BY <1>a, <1>q
<1>d. ASSUME NEW x \in {Detached(j, r) : r \in Visible(j)}
      PROVE  \E r \in rows : RowId(x) = RowId(r) /\ x.value = r.value
  BY <1>r, DetachedRow DEF Visible
<1>p. ASSUME NEW p, NEW found, Passed(j, p, found)
      PROVE  /\ job'[j].mem = job[j].mem
             /\ pc'[j] \notin {"refresh", "vread", "insert", "vcommit"}
  BY <1>p DEF Passed, AfterPeriod, RunEnd
<1>i. ASSUME job'[j].mem = {}, pc'[j] \in {"idle", "start"} PROVE Synced(j)'
  BY <1>i DEF Synced
<1>1. CASE UploadCommit(j) \/ StartRun(j) \/ Fetch(j) \/ Score(j) \/ Invalidate(j)
  BY <1>1, <1>q DEF UploadCommit, StartRun, Fetch, Score, Invalidate, tables, Goto, TypeOK
<1>2. CASE Persist(j)
  <2>1. PICK new : rows' = rows \cup new /\ job'[j].mem = new BY <1>2, PersistEffect
  <2>2. pc'[j] = "vread" BY <1>2, PersistEffect
  <2>3. \A m \in new, r \in rows' : RowId(m) = RowId(r) => m = r BY <2>1 DEF Stamped
  <2> QED BY <2>1, <2>2, <2>3 DEF Synced
<1>3. CASE Refresh(j)
  <2>1. pc'[j] = "vread" /\ job'[j].mem \subseteq rows /\ rows' = rows BY <1>3, RefreshEffect
  <2> QED BY <2>1 DEF Synced, Stamped
<1>4. CASE ValidationRead(j)
  <2>1. pc[j] = "vread" /\ pc'[j] = "vcommit" /\ job'[j].mem = job[j].mem /\ rows' = rows
    BY <1>4, ReadEffect
  <2>2. Touched(j)' \subseteq Ids(rows') BY <1>4, <2>1, ReadTouches
  <2>3. \A m \in job'[j].marks, r \in rows' :
          RowId(r) = m[1] => <<RowId(r), r.value>> \in job'[j].seen
    BY <1>4, <2>1, ReadTouches
  <2> QED BY <1>v, <2>1, <2>2, <2>3 DEF Synced
<1>5. CASE ValidationCommit(j)
  <2>1. /\ pc[j] = "vcommit" /\ pc'[j] \in {"score", "done", "metrics"}
        /\ job'[j].mem = job[j].mem /\ rows' = {Settled(j, r) : r \in rows}
    BY <1>5, SettleEffect DEF RunEnd
  <2>2. ASSUME NEW x \in rows' PROVE \E r \in rows : RowId(x) = RowId(r) /\ x.value = r.value
    <3>1. PICK r \in rows : x = Settled(j, r) BY <2>1
    <3>2. RowId(x) = RowId(r) /\ x.value = r.value BY <1>r, <3>1, SettledRow
    <3> QED BY <3>2
  <2> QED BY <1>a, <2>1, <2>2
<1>6. CASE ComputeRead(j)
  <2>1. pc[j] = "metrics" /\ rows' = rows BY <1>6, ComputeReadEffect
  <2>2. \/ \E p : Passed(j, p, {})
        \/ pc'[j] = "mdelete" /\ job'[j].mem = job[j].mem
    BY <1>6, ComputeReadEffect
  <2> QED BY <1>p, <1>q, <2>1, <2>2
<1>7. CASE ComputeDelete(j) BY <1>7, <1>q, ComputeDeleteEffect
<1>8. CASE ComputeCommit(j)
  <2>1. /\ pc[j] = "mcommit" /\ rows' = {Detached(j, r) : r \in Visible(j)}
        /\ Passed(j, job[j].cur, {clock + 1})
    BY <1>8, ComputeCommitEffect
  <2> QED BY <1>a, <1>d, <1>p, <2>1
<1>9. CASE Look(j) \/ TakeLock(j)
  <2>1. /\ pc[j] \in {"look", "lock"} /\ rows' = rows
        /\ \/ \E p, found : Passed(j, p, found)
           \/ job'[j].mem = job[j].mem /\ pc'[j] \in {"lock", "metrics"}
    BY <1>9, LookEffect
  <2> QED BY <1>p, <1>q, <2>1
<1>10. CASE AddInsert(j)
  <2>0. pc[j] = "insert" BY <1>10 DEF AddInsert
  <2>1. (\A m, n \in job[j].mem : m = n) /\ job[j].mem # {} BY <2>0 DEF Synced
  <2>2. PICK new : rows' = rows \cup new /\ job'[j].mem = new /\ new # {}
    BY <1>10, <2>1, AddEffect
  <2>3. pc'[j] = "refresh" BY <1>10, <2>1, AddEffect
  <2>4. \A m \in new, r \in rows' : RowId(m) = RowId(r) => m = r BY <2>2 DEF Stamped
  <2> QED BY <2>2, <2>3, <2>4 DEF Synced
<1>11. CASE DeleteRows(j) \/ ClearInsights(j)
  BY <1>11, <1>q, DeleteRowsEffect, ClearEffect DEF AfterClearing
<1>12. CASE DeleteDoc(j) \/ ListRemaining(j)
  BY <1>12, <1>q, DeleteDocEffect, RemainEffect DEF AfterClearing
<1>13. CASE DropMetrics(j)
  <2>1. pc[j] = "metrics" /\ rows' = rows /\ \E p : Passed(j, p, {}) BY <1>13, DropEffect
  <2> QED BY <1>p, <1>q, <2>1
<1>14. CASE FinishDelete(j) \/ FinishReExtract(j)
  <2>1. /\ pc[j] = "close" /\ rows' = {Detached(j, r) : r \in Visible(j)}
        /\ job' = job /\ pc'[j] \in {"done", "reload"}
    BY <1>14, FinishEffect
  <2> QED BY <1>a, <1>d, <2>1
<1>19. CASE Schedule(j)
  <2>1. job'[j].mem = {} /\ pc'[j] = "start" BY <1>19, ScheduleEffect DEF Idle
  <2> QED BY <1>i, <2>1
<1>15. CASE PriorPeriod(j) BY <1>15, <1>q, PriorEffect
<1>16. CASE NarrativeDelete(j) BY <1>16, <1>q, NarrativeDeleteEffect
<1>17. CASE NarrativeSave(j)
  <2>1. /\ pc[j] = "isave" /\ pc'[j] = "done" /\ job' = job
        /\ rows' = {Detached(j, r) : r \in Visible(j)}
    BY <1>17, SaveEffect
  <2> QED BY <1>a, <1>d, <2>1
<1>18. CASE Raise(j) \/ Refuse(j) \/ Close(j)
  <2>1. pc'[j] = "idle" /\ job'[j] = Idle
    BY <1>18, RaiseEffect DEF Refuse, Close, End, TypeOK
  <2> QED BY <1>i, <2>1 DEF Idle
<1> QED BY <1>1, <1>2, <1>3, <1>4, <1>5, <1>6, <1>7, <1>8, <1>9, <1>10, <1>11, <1>12, <1>13, <1>14,
           <1>15, <1>16, <1>17, <1>18, <1>19 DEF Step

LEMMA SyncedRequest ==
  ASSUME TypeOK, NEW j \in Jobs, Stamped', Request(j)
  PROVE  Synced(j)'
<1> USE DEF Opened
<1>1. CASE job'[j].mem = {} /\ pc'[j] \notin {"insert", "refresh", "vread", "vcommit"}
  BY <1>1 DEF Synced
<1>2. CASE \E p \in Periods, c \in Codes, v \in Values :
             Opened(j, "insert", "add", None, {NewRow(0, 0, None, p, c, v)}, {p})
  BY <1>2 DEF Synced, NewRow
<1>3. CASE \E r \in rows, v \in Values :
             /\ rows' = (rows \ {r}) \cup {Overridden(r, v)}
             /\ Opened(j, "refresh", "override", None, {Overridden(r, v)}, {r.period})
  <2>1. PICK m : m \in rows' /\ job'[j].mem = {m} /\ pc'[j] = "refresh" BY <1>3
  <2> QED BY <2>1 DEF Synced, Stamped
<1>4. \/ \E op, doc, todo : Opened(j, "saved", op, doc, {}, todo)
                            \/ Opened(j, "drows", op, doc, {}, todo)
                            \/ Opened(j, "look", op, doc, {}, todo)
      \/ \E p \in Periods, c \in Codes, v \in Values :
           Opened(j, "insert", "add", None, {NewRow(0, 0, None, p, c, v)}, {p})
      \/ \E r \in rows, v \in Values :
           /\ rows' = (rows \ {r}) \cup {Overridden(r, v)}
           /\ Opened(j, "refresh", "override", None, {Overridden(r, v)}, {r.period})
  <2> HIDE DEF Opened
  <2> QED BY RequestEffect
<1>6. CASE \E op, doc, todo : \/ Opened(j, "saved", op, doc, {}, todo)
                               \/ Opened(j, "drows", op, doc, {}, todo)
                               \/ Opened(j, "look", op, doc, {}, todo)
  BY <1>1, <1>6
<1> HIDE DEF Opened
<1> QED BY <1>2, <1>3, <1>4, <1>6

(* Where one session is served, only a PDF that is gone stops it.           *)
LEMMA SoleRefusal ==
  ASSUME NEW s, Jobs = {s}, TypeOK, Placed, Stationed(s), OnRecord(s), Synced(s), Refuse(s)
  PROVE  pc[s] = "fetch"
<1>1. Refused(s) /\ ~Deadlocked(s) BY DEF Refuse, Deadlocked
<1>2. ~(pc[s] = "vcommit" /\ ~(Touched(s) \subseteq Ids(rows))) BY DEF Synced
<1>3. ~(pc[s] = "refresh" /\ Ids(job[s].mem) \cap Ids(rows) = {})
  <2> SUFFICES ASSUME pc[s] = "refresh" PROVE Ids(job[s].mem) \cap Ids(rows) # {} OBVIOUS
  <2>1. PICK m \in job[s].mem : m \in rows BY DEF Synced
  <2> QED BY <2>1 DEF Ids
<1>4. ASSUME pc[s] \in {"start", "persist", "reload"} PROVE job[s].op \in {"extract", "reextract"}
  <2>1. job[s].op \in OpNames BY DEF TypeOK, Job
  <2>2. PlacedAt(pc[s], job[s]) BY DEF Placed
  <2> QED BY <1>4, <2>1, <2>2
             DEF PlacedAt, Stationed, OpNames, Clearing, Writing, DeletePCs, EntryPCs, Readers,
                 ReaderPCs
<1>5. job[s].op \in {"extract", "reextract"} /\ pc[s] # "saved" => job[s].doc \in Stored
  BY DEF OnRecord
<1> QED BY <1>1, <1>2, <1>3, <1>4, <1>5 DEF Refused

(* One session, in step with the tables.                                    *)
InStep(s) == /\ TypeOK /\ Placed /\ NoRowOfDeletedDoc
             /\ Stationed(s) /\ OnRecord(s) /\ Stamped /\ Synced(s)

LEMMA InStepNext ==
  ASSUME NEW s, Jobs = {s}, InStep(s), TypeOK', [Next]_vars
  PROVE  OnRecord(s)' /\ Stamped' /\ Synced(s)'
<1> USE DEF InStep
<1>s. s \in Jobs OBVIOUS
<1>1. CASE Request(s)
  <2>1. OnRecord(s)'
    BY <1>s, <1>1, RequestEffect DEF OnRecord, Opened, Stored
  <2>2. Stamped' BY <1>s, <1>1, StampedRequest
  <2> QED BY <1>s, <1>1, <2>1, <2>2, SyncedRequest
<1>2. CASE Step(s) \/ Fail(s)
  <2>1. Step(s) \/ Raise(s) BY <1>2 DEF Fail
  <2>2. OnRecord(s)'
    <3>1. CASE Step(s) BY <1>s, <3>1, OnRecordStep
    <3>2. CASE Raise(s) BY <1>s, <3>2, RaiseEffect DEF OnRecord, Idle
    <3> QED BY <2>1, <3>1, <3>2
  <2>3. Stamped' BY <1>s, <2>1, StepTables, StampedKept DEF Synced
  <2> QED BY <1>s, <2>1, <2>2, <2>3, SyncedStep
<1>3. CASE Crash
  <2>1. OnRecord(s)' /\ Synced(s)' BY <1>s, <1>3, CrashEffect DEF OnRecord, Synced, Idle
  <2> QED BY <1>s, <1>3, <2>1, CrashEffect, StampedAside
<1>4. CASE \/ (\E d \in Docs : GenerateReport(d)) \/ (\E i \in insights : EditInsight(i))
           \/ UNCHANGED vars
  <2>1. OnRecord(s)' /\ Synced(s)'
    BY <1>4, AsideEffect DEF OnRecord, Synced, Stored, Touched
  <2> QED BY <1>4, <2>1, AsideEffect, StampedAside
<1> QED BY <1>1, <1>2, <1>3, <1>4, SoleCases

LEMMA InStepAlways ==
  ASSUME NEW s, Jobs = {s}, SeedsAreKeyed PROVE Spec => []InStep(s)
<1>1. Init => OnRecord(s) /\ Stamped /\ Synced(s)
  <2> SUFFICES ASSUME Init PROVE OnRecord(s) /\ Stamped /\ Synced(s) OBVIOUS
  <2>1. OnRecord(s) /\ Synced(s) BY StationedInit DEF OnRecord, Synced, Idle
  <2>2. PICK seed \in Seeds : rows = seed.rows BY DEF Init
  <2>3. \A r \in rows : r.born = 0 /\ r.at = 0 BY <2>2, SeedsAreStatements
  <2> QED BY <2>1, <2>2, <2>3 DEF Init, Stamped, SeedsAreKeyed
<1>2. /\ TypeOK /\ Placed /\ Stationed(s) /\ NoRowOfDeletedDoc
      /\ OnRecord(s) /\ Stamped /\ Synced(s) /\ TypeOK' /\ [Next]_vars
      => (OnRecord(s) /\ Stamped /\ Synced(s))'
  <2> SUFFICES ASSUME TypeOK, Placed, Stationed(s), NoRowOfDeletedDoc, OnRecord(s), Stamped,
                      Synced(s), TypeOK', [Next]_vars
               PROVE  (OnRecord(s) /\ Stamped /\ Synced(s))'
    OBVIOUS
  <2>1. InStep(s) BY DEF InStep
  <2> QED BY <2>1, InStepNext
<1>3. Spec => [](TypeOK /\ Placed /\ Stationed(s)) BY StationedAlways
<1>4. /\ TypeOK /\ Placed /\ Stationed(s) /\ NoRowOfDeletedDoc
      /\ OnRecord(s) /\ Stamped /\ Synced(s)
      => InStep(s)
  BY DEF InStep
<1> QED BY <1>1, <1>2, <1>3, <1>4, ReferencesHold, PTL DEF Spec

(* Nothing fails at the places of S and the process never dies.             *)
Undisturbed(S) == MaxCrashes = 0 /\ FailAt \cap S = {}

LEMMA NoCrash == ASSUME TypeOK, MaxCrashes = 0 PROVE ~Crash
  BY DEF Crash, TypeOK

-----------------------------------------------------------------------------
(* What a session has deleted, and which periods it has left *)

(* Only a deletion or a re-extraction carries deletes past a commit, and    *)
(* what it deletes of a document is every line item of it.                  *)
Booked(j) ==
  /\ job[j].op \notin Clearing => /\ tx[j].gone = {}
                                  /\ pc[j] # "mcommit" => tx[j].drop = {}
                                  /\ pc[j] # "isave" => tx[j].dropI = {}
  /\ pc[j] = "drows" => tx[j].gone = {}
  /\ pc[j] \in {"drows", "ddoc", "remain"} => tx[j].drop = {} /\ tx[j].dropI = {}
  /\ tx[j].gone # {} => tx[j].gone = Ids(OfDoc(job[j].doc))
  /\ pc[j] = "done" => tx[j].gone = {} /\ tx[j].drop = {} /\ tx[j].dropI = {}
  /\ tx[j].docGone \/ pc[j] = "ddoc" => Ids(OfDoc(job[j].doc)) \subseteq tx[j].gone

(* A writer leaves its loop once every period it has changed is recomputed. *)
Agenda(j) ==
  /\ job[j].op \in Writing \cup Clearing
       /\ pc[j] \in {"done", "score", "invalidate", "close", "reload"}
       => job[j].todo = {}
  /\ job[j].op = "extract" /\ pc[j] \in Before => job[j].todo = {}
  /\ job[j].op \in {"override", "add"} => \A p, q \in job[j].todo : p = q
  /\ pc[j] = "drows" => PeriodsOf(OfDoc(job[j].doc)) \subseteq job[j].todo
  /\ pc[j] \in {"mdelete", "mcommit"} /\ job[j].op \notin Readers => job[j].cur \in job[j].todo

LEMMA BookedStep ==
  ASSUME TypeOK, Placed, NEW j \in Jobs, Stationed(j), Booked(j), Step(j) \/ Raise(j)
  PROVE  Booked(j)'
<1>n. ASSUME tx'[j] = NoTx, pc'[j] # "ddoc" PROVE Booked(j)'
  BY <1>n DEF Booked, NoTx
<1>q. ASSUME tx'[j].gone = tx[j].gone, tx'[j].docGone = tx[j].docGone, rows' = rows,
             job'[j].op = job[j].op, job'[j].doc = job[j].doc,
             pc'[j] \notin {"drows", "ddoc", "remain"},
             pc'[j] = "done" => job[j].op \notin Clearing,
             job[j].op \notin Clearing => /\ pc'[j] = "mcommit" \/ tx'[j].drop = {}
                                          /\ pc'[j] = "isave" \/ tx'[j].dropI = {}
      PROVE  Booked(j)'
  BY <1>q DEF Booked, OfDoc
<1>w. ASSUME tx' = tx, job'[j].op = job[j].op, pc[j] \in {"persist", "vcommit", "insert"},
             pc'[j] \in {"vread", "refresh", "score", "done", "metrics"}
      PROVE  Booked(j)'
  BY <1>w DEF Booked, Stationed, Clearing, DeletePCs
<1>p. ASSUME NEW p, NEW found, Passed(j, p, found)
      PROVE  /\ job'[j].op = job[j].op /\ job'[j].doc = job[j].doc
             /\ pc'[j] \notin {"drows", "ddoc", "remain", "isave", "mcommit"}
             /\ pc'[j] = "done" => job[j].op \notin Clearing
  <2>1. job[j].op \in Clearing => AfterPeriod(j, p) = "iclear" BY DEF AfterPeriod, Clearing
  <2>2. AfterPeriod(j, p) \notin {"drows", "ddoc", "remain", "isave", "mcommit"}
    BY DEF AfterPeriod, RunEnd
  <2> QED BY <1>p, <2>1, <2>2 DEF Passed, Same
<1>b. job[j].op \notin Clearing =>
        /\ pc[j] \notin {"mcommit", "isave"} => tx[j].drop = {} /\ tx[j].dropI = {}
        /\ pc[j] = "mcommit" => tx[j].dropI = {}
  BY DEF Booked
<1>c. pc[j] \in {"saved", "start", "fetch", "score", "invalidate", "vread", "refresh", "look",
                 "lock", "prior", "llm"} => job[j].op \notin Clearing
  BY DEF Stationed, DeletePCs, Clearing
<1>1. CASE UploadCommit(j) \/ StartRun(j) \/ Fetch(j) \/ Score(j) \/ Invalidate(j)
  <2>1. /\ tx' = tx /\ rows' = rows /\ job' = job
        /\ pc[j] \in {"saved", "start", "fetch", "score", "invalidate"}
        /\ pc'[j] \in {"start", "fetch", "persist", "done"}
    BY <1>1 DEF UploadCommit, StartRun, Fetch, Score, Invalidate, tables, Goto, TypeOK
  <2> QED BY <1>b, <1>c, <1>q, <2>1
<1>2. CASE Persist(j) BY <1>2, <1>w, PersistEffect DEF Same
<1>3. CASE ValidationRead(j) \/ Refresh(j)
  BY <1>3, <1>b, <1>c, <1>q, ReadEffect, RefreshEffect DEF Same
<1>4. CASE ValidationCommit(j) BY <1>4, <1>w, SettleEffect DEF Same, RunEnd
<1>5. CASE ComputeRead(j)
  <2>1. /\ pc[j] = "metrics" /\ tx' = tx /\ rows' = rows
        /\ \/ \E p : Passed(j, p, {})
           \/ pc'[j] = "mdelete" /\ job'[j].op = job[j].op /\ job'[j].doc = job[j].doc
    BY <1>5, ComputeReadEffect DEF Same
  <2> QED BY <1>b, <1>p, <1>q, <2>1
<1>6. CASE ComputeDelete(j) BY <1>6, <1>b, <1>q, ComputeDeleteEffect
<1>7. CASE ComputeCommit(j) BY <1>7, <1>n, <1>p, ComputeCommitEffect
<1>8. CASE Look(j) \/ TakeLock(j)
  <2>1. /\ pc[j] \in {"look", "lock"} /\ tx' = tx /\ rows' = rows
        /\ \/ \E p, found : Passed(j, p, found)
           \/ /\ pc'[j] \in {"lock", "metrics"}
              /\ job'[j].op = job[j].op /\ job'[j].doc = job[j].doc
    BY <1>8, LookEffect DEF Same
  <2> QED BY <1>b, <1>c, <1>p, <1>q, <2>1
<1>9. CASE AddInsert(j)
  <2>1. PICK new : job' = [job EXCEPT ![j].mem = new] BY <1>9 DEF AddInsert
  <2>2. job'[j].op = job[j].op BY <2>1 DEF TypeOK, Job
  <2>3. pc[j] = "insert" /\ pc'[j] = "refresh" /\ tx' = tx
    BY <1>9 DEF AddInsert, Goto, TypeOK
  <2> QED BY <1>w, <2>2, <2>3
<1>10. CASE DeleteRows(j)
  <2>1. /\ pc[j] = "drows" /\ pc'[j] \in {"ddoc", "close", "remain"} /\ job' = job
        /\ rows' = rows /\ tx'[j].gone = Ids(OfDoc(job[j].doc))
        /\ tx'[j].drop = tx[j].drop /\ tx'[j].dropI = tx[j].dropI
    BY <1>10, DeleteRowsEffect DEF AfterClearing
  <2>2. job[j].op \in Clearing BY <2>1 DEF Stationed
  <2> QED BY <2>1, <2>2 DEF Booked, OfDoc
<1>11. CASE DeleteDoc(j)
  <2>1. /\ pc[j] = "ddoc" /\ pc'[j] \in {"close", "remain"} /\ rows' = rows /\ job' = job
        /\ tx'[j].gone = tx[j].gone /\ tx'[j].drop = tx[j].drop /\ tx'[j].dropI = tx[j].dropI
    BY <1>11, DeleteDocEffect DEF AfterClearing
  <2>2. job[j].op \in Clearing BY <2>1 DEF Stationed, Clearing
  <2> QED BY <2>1, <2>2 DEF Booked, OfDoc
<1>19. CASE ListRemaining(j)
  <2>1. pc[j] = "remain" BY <1>19, RemainEffect
  <2>2. job[j].op \in Clearing
    BY <2>1
       DEF Stationed, TypeOK, Job, OpNames, Writing, RunPCs, Before, EntryPCs, Readers, ReaderPCs
  <2> QED BY <1>19, <1>q, <2>2, RemainEffect
<1>12. CASE DropMetrics(j) BY <1>12, <1>p, <1>q, DropEffect
<1>13. CASE ClearInsights(j)
  <2>1. pc[j] = "iclear" BY <1>13, ClearEffect
  <2>2. job[j].op \in Clearing
    BY <2>1
       DEF Stationed, TypeOK, Job, OpNames, Writing, RunPCs, Before, EntryPCs, Readers, ReaderPCs
  <2> QED BY <1>13, <1>q, <2>2, ClearEffect
<1>14. CASE FinishDelete(j) \/ FinishReExtract(j) BY <1>14, <1>n, FinishEffect
<1>20. CASE Schedule(j) BY <1>20, <1>n, ScheduleEffect DEF Stationed
<1>15. CASE PriorPeriod(j) BY <1>15, <1>b, <1>c, <1>q, PriorEffect DEF Same
<1>16. CASE NarrativeDelete(j)
  BY <1>16, <1>b, <1>c, <1>q, NarrativeDeleteEffect
<1>17. CASE NarrativeSave(j) BY <1>17, <1>n, SaveEffect
<1>18. CASE Raise(j) \/ Refuse(j) \/ Close(j)
  <2>1. pc'[j] = "idle" /\ tx'[j] = NoTx
    BY <1>18 DEF Refuse, Raise, Close, End, TypeOK
  <2> QED BY <1>n, <2>1
<1> QED BY <1>1, <1>2, <1>3, <1>4, <1>5, <1>6, <1>7, <1>8, <1>9, <1>10, <1>11, <1>12, <1>13, <1>14,
           <1>15, <1>16, <1>17, <1>18, <1>19, <1>20 DEF Step

LEMMA BookedRequest ==
  ASSUME TypeOK, NEW j \in Jobs, Stationed(j), Booked(j), Request(j)
  PROVE  Booked(j)'
<1> USE DEF Opened
<1>1. job[j].op = "none" BY RequestEffect DEF Stationed
<1>2. tx[j].gone = {} /\ tx[j].drop = {} /\ tx[j].dropI = {} /\ ~tx[j].docGone
  BY <1>1, RequestEffect DEF Booked, Stationed, Clearing
<1>3. tx' = tx /\ pc'[j] \notin {"ddoc", "remain", "done"} BY RequestEffect
<1> QED BY <1>2, <1>3 DEF Booked, Clearing

LEMMA AgendaStep ==
  ASSUME TypeOK, Placed, NEW j \in Jobs, Stationed(j), Agenda(j), Step(j) \/ Raise(j)
  PROVE  Agenda(j)'
<1>o. job[j].op \in OpNames BY DEF TypeOK, Job
<1>a. ASSUME job'[j].op = job[j].op, job'[j].todo = job[j].todo,
             pc'[j] \notin {"drows", "mdelete", "mcommit"},
             job[j].op = "extract" => pc'[j] \notin Before \/ pc[j] \in Before,
             \/ pc'[j] \notin {"done", "score", "invalidate", "close", "reload"}
             \/ pc[j] \in {"done", "score", "invalidate", "close", "reload"}
             \/ job[j].op \in Readers
             \/ job[j].todo = {}
      PROVE  Agenda(j)'
  BY <1>a DEF Agenda, Readers, Writing, Clearing
<1>p. ASSUME NEW p, NEW found, Passed(j, p, found), job[j].op \notin Readers => p \in job[j].todo
      PROVE  Agenda(j)'
  <2>1. job'[j].op = job[j].op /\ job'[j].todo = job[j].todo \ {p} /\ pc'[j] = AfterPeriod(j, p)
    BY <1>p DEF Passed, Same
  <2>2. AfterPeriod(j, p) \notin Before \cup {"drows", "mdelete", "mcommit", "close", "reload"}
    BY DEF AfterPeriod, RunEnd, Before
  <2>3. ASSUME job[j].op \in Writing \cup Clearing,
               AfterPeriod(j, p) \in {"done", "score", "invalidate"}
        PROVE  job[j].todo \ {p} = {}
    <3>1. CASE job[j].op = "extract" BY <2>3, <3>1 DEF AfterPeriod, Clearing
    <3>2. CASE job[j].op \in {"override", "add"} BY <1>p, <3>2 DEF Agenda, Readers
    <3>3. CASE job[j].op \in Clearing BY <2>3, <3>3 DEF AfterPeriod, Clearing
    <3> QED BY <2>3, <3>1, <3>2, <3>3 DEF Writing
  <2> QED BY <2>1, <2>2, <2>3 DEF Agenda
<1> USE DEF Before
<1>1. CASE UploadCommit(j) \/ StartRun(j) \/ Fetch(j) \/ Score(j) \/ Invalidate(j)
  <2>1. /\ job' = job
        /\ \/ pc[j] \in Before /\ pc'[j] \in Before
           \/ pc[j] \in {"score", "invalidate"} /\ pc'[j] = "done"
    BY <1>1 DEF UploadCommit, StartRun, Fetch, Score, Invalidate, Goto, TypeOK, tables
  <2> QED BY <1>a, <2>1
<1>2. CASE Persist(j)
  <2>1. pc[j] = "persist" /\ pc'[j] = "vread" /\ job'[j].op = job[j].op
    BY <1>2, PersistEffect DEF Same
  <2>2. job[j].op \notin {"override", "add"} BY <2>1 DEF Stationed, EntryPCs
  <2> QED BY <2>1, <2>2 DEF Agenda
<1>3. CASE ValidationRead(j) \/ Refresh(j)
  BY <1>3, <1>a, ReadEffect, RefreshEffect DEF Same
<1>4. CASE ValidationCommit(j) BY <1>4, <1>a, SettleEffect DEF Same, RunEnd
<1>5. CASE ComputeRead(j)
  <2>1. PICK p \in job[j].todo :
          \/ Passed(j, p, {})
          \/ /\ pc'[j] = "mdelete" /\ job'[j].op = job[j].op /\ job'[j].todo = job[j].todo
             /\ job'[j].cur = p
    BY <1>5, ComputeReadEffect DEF Same
  <2>2. CASE Passed(j, p, {}) BY <1>p, <2>2
  <2> QED BY <2>1, <2>2 DEF Agenda
<1>6. CASE ComputeDelete(j) BY <1>6, ComputeDeleteEffect DEF Agenda
<1>7. CASE ComputeCommit(j)
  <2>1. pc[j] = "mcommit" /\ Passed(j, job[j].cur, {clock + 1}) BY <1>7, ComputeCommitEffect
  <2> QED BY <1>p, <2>1 DEF Agenda
<1>8. CASE Look(j) \/ TakeLock(j)
  <2>1. /\ pc[j] \in {"look", "lock"}
        /\ \/ \E p, found : Passed(j, p, found)
           \/ /\ pc'[j] \in {"lock", "metrics"}
              /\ job'[j].op = job[j].op /\ job'[j].todo = job[j].todo
    BY <1>8, LookEffect DEF Same
  <2>2. job[j].op \in Readers
    BY <1>o, <2>1 DEF Stationed, OpNames, Writing, Clearing, DeletePCs, RunPCs, EntryPCs, Readers
  <2> QED BY <1>a, <1>p, <2>1, <2>2
<1>9. CASE AddInsert(j)
  <2>1. PICK new : job' = [job EXCEPT ![j].mem = new] BY <1>9 DEF AddInsert
  <2>2. job'[j].op = job[j].op /\ job'[j].todo = job[j].todo BY <2>1 DEF TypeOK, Job
  <2>3. pc[j] = "insert" /\ pc'[j] = "refresh" BY <1>9 DEF AddInsert, Goto, TypeOK
  <2> QED BY <1>a, <2>2, <2>3
<1>10. CASE DeleteRows(j) \/ DeleteDoc(j) \/ ClearInsights(j)
  BY <1>10, <1>a, DeleteRowsEffect, DeleteDocEffect, ClearEffect DEF AfterClearing
<1>15. CASE ListRemaining(j) BY <1>15, <1>a, RemainEffect
<1>11. CASE DropMetrics(j) BY <1>11, <1>p, DropEffect
<1>12. CASE FinishDelete(j) \/ FinishReExtract(j)
  <2>1. pc[j] = "close" /\ job' = job /\ pc'[j] \in {"done", "reload"}
    BY <1>12, FinishEffect
  <2> QED BY <1>a, <2>1
<1>16. CASE Schedule(j)
  <2>1. /\ pc'[j] = "start"
        /\ job'[j] = [Idle EXCEPT !.op = "extract", !.doc = job[j].doc, !.score = TRUE]
    BY <1>16, ScheduleEffect
  <2>2. job'[j].todo = {} BY <2>1 DEF Idle
  <2> QED BY <2>1, <2>2 DEF Agenda
<1>13. CASE PriorPeriod(j) \/ NarrativeDelete(j) \/ NarrativeSave(j)
  <2>1. /\ pc[j] \in {"prior", "llm", "isave"} /\ pc'[j] \in {"llm", "look", "isave", "done"}
        /\ job'[j].op = job[j].op
    BY <1>13, PriorEffect, NarrativeDeleteEffect, SaveEffect DEF Same
  <2>2. PlacedAt(pc[j], job[j]) BY DEF Placed
  <2>3. job[j].op = "insight" BY <2>1, <2>2 DEF PlacedAt
  <2> QED BY <2>1, <2>3 DEF Agenda, Writing, Clearing
<1>14. CASE Raise(j) \/ Refuse(j) \/ Close(j)
  <2>1. pc'[j] = "idle" /\ job'[j] = Idle
    BY <1>14, RaiseEffect DEF Refuse, Close, End, TypeOK
  <2>2. job'[j].todo = {} BY <2>1 DEF Idle
  <2> QED BY <2>1, <2>2 DEF Agenda
<1> QED BY <1>1, <1>2, <1>3, <1>4, <1>5, <1>6, <1>7, <1>8, <1>9, <1>10, <1>11, <1>12, <1>13, <1>14,
           <1>15, <1>16 DEF Step

LEMMA AgendaRequest ==
  ASSUME TypeOK, NEW j \in Jobs, Request(j)
  PROVE  Agenda(j)'
<1>1. CASE \E d \in Docs : Opened(j, "saved", "extract", d, {}, {})
  BY <1>1 DEF Opened, Agenda, Before, Writing, Clearing
<1>2. CASE /\ rows' = rows
           /\ \E d \in Stored : \E op \in Clearing :
                Opened(j, "drows", op, d, {}, PeriodsOf(OfDoc(d)))
  BY <1>2 DEF Opened, Agenda, OfDoc, Clearing
<1>3. CASE \E op \in {"view", "insight"} : \E todo : Opened(j, "look", op, None, {}, todo)
  BY <1>3 DEF Opened, Agenda
<1>4. CASE \E p, mem : \/ Opened(j, "insert", "add", None, mem, {p})
                       \/ Opened(j, "refresh", "override", None, mem, {p})
  BY <1>4 DEF Opened, Agenda
<1> QED BY <1>1, <1>2, <1>3, <1>4, RequestEffect

(* One session in step with the tables, its deletes and its periods in order.*)
Tidy(s) == InStep(s) /\ Booked(s) /\ Agenda(s)

LEMMA TidyNext ==
  ASSUME NEW s, Jobs = {s}, Tidy(s), [Next]_vars
  PROVE  Booked(s)' /\ Agenda(s)'
<1> USE DEF Tidy, InStep
<1>s. s \in Jobs OBVIOUS
<1>1. CASE Request(s) BY <1>s, <1>1, BookedRequest, AgendaRequest
<1>2. CASE Step(s) \/ Fail(s) BY <1>s, <1>2, BookedStep, AgendaStep DEF Fail
<1>3. CASE Crash BY <1>s, <1>3, CrashEffect DEF Booked, Agenda, Idle, NoTx
<1>4. CASE \/ (\E d \in Docs : GenerateReport(d)) \/ (\E i \in insights : EditInsight(i))
           \/ UNCHANGED vars
  BY <1>4, AsideEffect DEF Booked, Agenda, OfDoc
<1> QED BY <1>1, <1>2, <1>3, <1>4, SoleCases

LEMMA TidyAlways ==
  ASSUME NEW s, Jobs = {s}, SeedsAreKeyed PROVE Spec => []Tidy(s)
<1>1. Init => Booked(s) /\ Agenda(s)
  BY StationedInit DEF Booked, Agenda, Idle, NoTx
<1>2. InStep(s) /\ Booked(s) /\ Agenda(s) /\ [Next]_vars => (Booked(s) /\ Agenda(s))'
  BY TidyNext DEF Tidy
<1>3. Spec => []InStep(s) BY InStepAlways
<1>4. InStep(s) /\ Booked(s) /\ Agenda(s) => Tidy(s) BY DEF Tidy
<1> QED BY <1>1, <1>2, <1>3, <1>4, PTL DEF Spec

(* What a session commits is what it sees.                                  *)
LEMMA CommittedRows ==
  ASSUME NEW j \in Jobs, Booked(j)
  PROVE  {Detached(j, r) : r \in Visible(j)} = Visible(j)
<1>1. ASSUME NEW r \in Visible(j) PROVE Detached(j, r) = r
  <2>1. CASE tx[j].docGone /\ r.doc = job[j].doc
    <3>1. RowId(r) \in Ids(OfDoc(job[j].doc)) BY <2>1 DEF Visible, OfDoc, Ids
    <3> QED BY <2>1, <3>1 DEF Booked, Visible
  <2> QED BY <2>1 DEF Detached
<1> QED BY <1>1

(* A statement with the key of one of a document is that one.               *)
LEMMA KeyOfDoc ==
  ASSUME Stamped, NEW d, NEW r \in rows, RowId(r) \in Ids(OfDoc(d))
  PROVE  r \in OfDoc(d) /\ r.period \in PeriodsOf(OfDoc(d))
  BY DEF Stamped, OfDoc, Ids, PeriodsOf

(* A statement loaded has the key of a stored one, and the other way round. *)
LEMMA LoadedKeys ==
  ASSUME NEW j \in Jobs, NEW S
  PROVE  /\ \A x \in Loaded(j, S) : \E r \in S :
              RowId(x) = RowId(r) /\ (x = r \/ x \in job[j].mem)
         /\ \A r \in S : \E x \in Loaded(j, S) : RowId(x) = RowId(r)
<1> DEFINE L(r) == IF Held(j, r) = {} THEN r ELSE CHOOSE m \in Held(j, r) : TRUE
<1>1. ASSUME NEW r \in S PROVE RowId(L(r)) = RowId(r) /\ (L(r) = r \/ L(r) \in job[j].mem)
  <2>1. CASE Held(j, r) = {} BY <2>1
  <2>2. CASE Held(j, r) # {}
    <3>1. (CHOOSE m \in Held(j, r) : TRUE) \in Held(j, r) BY <2>2
    <3> QED BY <2>2, <3>1 DEF Held
  <2> QED BY <2>1, <2>2
<1>2. Loaded(j, S) = {L(r) : r \in S} BY DEF Loaded
<1> HIDE DEF L
<1> QED BY <1>1, <1>2

-----------------------------------------------------------------------------
(* Statements are validated *)

(* A statement speaks for another: of the same source, for the same code    *)
(* and period, and updated no earlier.                                      *)
Vouches(s, r) == s.doc = r.doc /\ SameFigure(r, s) /\ s.at >= r.at

(* Nothing of another source was updated as late for its code and period.   *)
Leads(r) == \A t \in rows : SameFigure(t, r) => t.at <= r.at /\ (t.at = r.at => t.doc = r.doc)

(* The session is about to validate a statement that speaks for r.          *)
Checking(j, r) ==
  /\ pc[j] \in {"refresh", "vread", "vcommit"}
  /\ r.period \in job[j].todo
  /\ Leads(r)
  /\ pc[j] = "vcommit" =>
       \E s \in rows : Vouches(s, r) /\ <<RowId(s), s.value>> \in job[j].seen

Checked(j) ==
  \A r \in rows : \E s \in rows : Vouches(s, r) /\ (s.validated \/ Checking(j, s))

LEMMA VouchesThrough ==
  ASSUME NEW r \in Row, NEW s \in Row, NEW u \in Row, Vouches(s, r), Vouches(u, s)
  PROVE  Vouches(u, r)
<1>1. r.at \in Nat /\ s.at \in Nat /\ u.at \in Nat BY DEF Row
<1> QED BY <1>1 DEF Vouches, SameFigure

LEMMA VouchesSelf ==
  ASSUME NEW r \in Row PROVE Vouches(r, r)
<1>1. r.at \in Nat BY DEF Row
<1> QED BY <1>1 DEF Vouches, SameFigure

LEMMA CheckedStep ==
  ASSUME TypeOK, TypeOK', NEW j \in Jobs, Stamped, Synced(j), Booked(j), Checked(j),
         \/ Step(j) /\ ~Refuse(j)
         \/ Raise(j) /\ pc[j] \notin {"refresh", "vread", "vcommit"}
  PROVE  Checked(j)'
<1>r. rows \subseteq Row /\ rows' \subseteq Row /\ clock \in Nat BY DEF TypeOK
<1>n. \A r \in rows : r.at \in Nat /\ r.at <= clock BY <1>r DEF Row, Stamped
<1>v. pc[j] \notin {"refresh", "vread", "vcommit"} =>
        \A r \in rows : \E s \in rows : Vouches(s, r) /\ s.validated
  BY DEF Checked, Checking
<1>m. ASSUME NEW new, NEW d \in Docs \cup {None}, Fresh(new, d), rows' = rows \cup new,
             pc[j] \in {"persist", "insert"}, pc'[j] \in {"vread", "refresh"},
             \A r \in new : r.period \in job'[j].todo
      PROVE  Checked(j)'
  <2>1. \A r \in new : r.at = clock + 1 /\ r.doc = d BY <1>m DEF Fresh
  <2>2. \A r \in new, t \in rows' : t.at <= r.at /\ (t.at = r.at => t.doc = r.doc)
    BY <1>m, <1>n, <1>r, <2>1
  <2>3. \A r \in new : Checking(j, r)' BY <1>m, <2>2 DEF Checking, Leads
  <2>4. \A r \in new : Vouches(r, r) BY <1>m, <1>r, VouchesSelf
  <2>5. \A r \in rows : \E s \in rows : Vouches(s, r) /\ s.validated BY <1>m, <1>v
  <2>6. ASSUME NEW r \in rows'
        PROVE  \E s \in rows' : Vouches(s, r) /\ (s.validated \/ Checking(j, s)')
    <3>1. CASE r \in new BY <1>m, <2>3, <2>4, <3>1
    <3>2. CASE r \in rows BY <1>m, <2>5, <3>2
    <3> QED BY <1>m, <3>1, <3>2
  <2> QED BY <2>6 DEF Checked, Vouches, SameFigure
<1>1. CASE Persist(j)
  <2>1. job[j].doc \in Docs \cup {None} BY DEF TypeOK, Job
  <2>2. PICK new : /\ rows' = rows \cup new /\ Fresh(new, job[j].doc)
                   /\ job'[j].todo = PeriodsOf(new)
    BY <1>1, PersistEffect
  <2>3. \A r \in new : r.period \in job'[j].todo BY <2>2 DEF PeriodsOf
  <2>4. pc[j] = "persist" /\ pc'[j] = "vread" BY <1>1, PersistEffect
  <2> QED BY <1>m, <2>1, <2>2, <2>3, <2>4
<1>2. CASE AddInsert(j)
  <2>0. pc[j] = "insert" BY <1>2 DEF AddInsert
  <2>1. /\ \A m, n \in job[j].mem : m = n
        /\ \A m \in job[j].mem : m.period \in job[j].todo
    BY <2>0 DEF Synced
  <2>2. PICK new : /\ rows' = rows \cup new /\ Fresh(new, None)
                   /\ \A r \in new : \E m \in job[j].mem : r.period = m.period
    BY <1>2, <2>1, AddEffect
  <2>3. pc'[j] = "refresh" /\ job'[j].todo = job[j].todo BY <1>2, <2>1, AddEffect
  <2> QED BY <1>m, <2>0, <2>1, <2>2, <2>3
<1>3. CASE Refresh(j)
  <2>1. /\ pc[j] = "refresh" /\ pc'[j] = "vread" /\ rows' = rows /\ job'[j].todo = job[j].todo
    BY <1>3, RefreshEffect
  <2>2. \A s \in rows : Checking(j, s) => Checking(j, s)' BY <2>1 DEF Checking, Leads
  <2> QED BY <2>1, <2>2 DEF Checked, Vouches, SameFigure
<1>4. CASE ValidationRead(j)
  <2>1. /\ pc[j] = "vread" /\ pc'[j] = "vcommit" /\ rows' = rows /\ job'[j].todo = job[j].todo
    BY <1>4, ReadEffect
  <2> DEFINE S == {t \in rows : t.period \in job[j].todo}
  <2>2. Loaded(j, S) = S BY <2>1, LoadedStored DEF Synced
  <2>3. PICK picked \in Resolutions(Latest(S)) :
          \A r \in picked : <<RowId(r), r.value>> \in job'[j].seen
    BY <1>4, <2>2, ReadEffect DEF Current
  <2>4. ASSUME NEW r \in rows, Checking(j, r) PROVE Checking(j, r)'
    <3>1. r \in Latest(S) BY <2>4 DEF Checking, Leads, Latest, SameFigure
    <3>2. PICK u \in picked : SameFigure(u, r)
      <4>1. PICK u \in picked : \A w \in picked : SameFigure(w, r) <=> w = u
        BY <2>3, <3>1 DEF Resolutions
      <4> QED BY <4>1
    <3>3. u \in Latest(S) BY <2>3 DEF Resolutions
    <3>4. u \in rows /\ u.at >= r.at
      <4>1. u \in S /\ r \in S BY <3>1, <3>3 DEF Latest
      <4> HIDE DEF S
      <4>2. r.at <= u.at BY <3>2, <3>3, <4>1 DEF Latest
      <4> QED BY <1>n, <4>1, <4>2 DEF S
    <3>5. u.at = r.at /\ u.doc = r.doc
      <4>1. u.at <= r.at /\ (u.at = r.at => u.doc = r.doc)
        BY <2>4, <3>2, <3>4 DEF Checking, Leads
      <4> QED BY <1>n, <3>4, <4>1
    <3>6. Vouches(u, r) BY <3>2, <3>4, <3>5 DEF Vouches, SameFigure
    <3>7. \E s \in rows : Vouches(s, r) /\ <<RowId(s), s.value>> \in job'[j].seen
      BY <2>3, <3>4, <3>6
    <3> QED BY <2>1, <2>4, <3>7 DEF Checking, Leads
  <2> QED BY <2>1, <2>4 DEF Checked, Vouches, SameFigure
<1>5. CASE ValidationCommit(j)
  <2>1. pc[j] = "vcommit" /\ rows' = {Settled(j, r) : r \in rows} BY <1>5, SettleEffect
  <2>2. ASSUME NEW r \in rows
        PROVE  \E s \in rows : Vouches(s, r) /\ (s.validated \/ <<RowId(s), s.value>> \in job[j].seen)
    <3>1. PICK s \in rows : Vouches(s, r) /\ (s.validated \/ Checking(j, s)) BY DEF Checked
    <3>2. CASE Checking(j, s)
      <4>1. PICK u \in rows : Vouches(u, s) /\ <<RowId(u), u.value>> \in job[j].seen
        BY <2>1, <3>2 DEF Checking
      <4>2. Vouches(u, r) BY <1>r, <3>1, <4>1, VouchesThrough
      <4> QED BY <4>1, <4>2
    <3> QED BY <3>1, <3>2
  <2>3. ASSUME NEW x \in rows' PROVE \E y \in rows' : Vouches(y, x) /\ y.validated
    <3>1. PICK r \in rows : x = Settled(j, r) BY <2>1
    <3>2. /\ x.period = r.period /\ x.code = r.code /\ x.doc = r.doc
          /\ x.validated <=> (r.validated \/ <<RowId(r), r.value>> \in job[j].seen)
      BY <1>r, <3>1, SettledRow
    <3>3. CASE \E m \in job[j].marks : m[1] = RowId(r)
      <4>1. <<RowId(r), r.value>> \in job[j].seen BY <2>1, <3>3 DEF Synced
      <4>2. Vouches(x, x) BY <1>r, VouchesSelf
      <4> QED BY <3>2, <4>1, <4>2
    <3>4. CASE ~\E m \in job[j].marks : m[1] = RowId(r)
      <4>1. x.at = r.at BY <1>r, <3>1, <3>4, SettledRow
      <4>2. PICK s \in rows :
              Vouches(s, r) /\ (s.validated \/ <<RowId(s), s.value>> \in job[j].seen)
        BY <2>2
      <4> DEFINE y == Settled(j, s)
      <4>3. /\ y \in rows' /\ y.period = s.period /\ y.code = s.code /\ y.doc = s.doc
            /\ y.at \in {s.at, clock + 1} /\ y.validated
        BY <1>r, <2>1, <4>2, SettledRow
      <4>4. y.at >= r.at BY <1>n, <1>r, <4>2, <4>3 DEF Vouches
      <4> HIDE DEF y
      <4>5. Vouches(y, x) BY <3>2, <4>1, <4>2, <4>3, <4>4 DEF Vouches, SameFigure
      <4> QED BY <4>3, <4>5
    <3> QED BY <3>3, <3>4
  <2> QED BY <2>3 DEF Checked, Vouches, SameFigure
<1>6. CASE ~(Persist(j) \/ AddInsert(j) \/ Refresh(j) \/ ValidationRead(j) \/ ValidationCommit(j))
  <2>1. pc[j] \notin {"refresh", "vread", "vcommit"}
    BY <1>6
       DEF Step, UploadCommit, StartRun, Fetch, Score, ComputeRead, ComputeDelete, ComputeCommit,
           Look, TakeLock, Invalidate, DeleteRows, DeleteDoc, ListRemaining, DropMetrics,
           ClearInsights, FinishDelete, FinishReExtract, Schedule, PriorPeriod, NarrativeDelete,
           NarrativeSave, Close
  <2>2. \/ rows' = rows
        \/ rows' = {Detached(j, r) : r \in Visible(j)}
    BY <1>6, ComputeReadEffect, ComputeDeleteEffect, ComputeCommitEffect, LookEffect,
       DeleteRowsEffect, DeleteDocEffect, RemainEffect, DropEffect, ClearEffect, FinishEffect,
       ScheduleEffect, PriorEffect, NarrativeDeleteEffect, SaveEffect, RaiseEffect
       DEF Step, UploadCommit, StartRun, Fetch, Score, Invalidate, Close, Refuse, tables
  <2>3. \A r \in rows : \E s \in rows : Vouches(s, r) /\ s.validated BY <1>v, <2>1
  <2>4. CASE rows' = {Detached(j, r) : r \in Visible(j)}
    <3>0. rows' = Visible(j) BY <2>4, CommittedRows
    <3>1. ASSUME NEW r \in rows' PROVE \E s \in rows' : Vouches(s, r) /\ s.validated
      <4>1. r \in rows /\ RowId(r) \notin tx[j].gone BY <3>0 DEF Visible
      <4>2. PICK s \in rows : Vouches(s, r) /\ s.validated BY <2>3, <4>1
      <4>3. ASSUME RowId(s) \in tx[j].gone PROVE FALSE
        <5>1. tx[j].gone = Ids(OfDoc(job[j].doc)) BY <4>3 DEF Booked
        <5>0. RowId(s) \in Ids(OfDoc(job[j].doc)) BY <4>3, <5>1
        <5>a. PICK d : d = job[j].doc OBVIOUS
        <5>b. s \in OfDoc(d) BY <4>2, <5>0, <5>a, KeyOfDoc
        <5>2. s.doc = job[j].doc BY <5>a, <5>b DEF OfDoc
        <5>3. r.doc = job[j].doc BY <4>2, <5>2 DEF Vouches
        <5> QED BY <4>1, <5>1, <5>3 DEF OfDoc, Ids
      <4> QED BY <3>0, <4>2, <4>3 DEF Visible
    <3> QED BY <3>1 DEF Checked, Vouches, SameFigure
  <2> QED BY <2>2, <2>3, <2>4 DEF Checked, Vouches, SameFigure
<1> QED BY <1>1, <1>2, <1>3, <1>4, <1>5, <1>6

LEMMA CheckedRequest ==
  ASSUME TypeOK, NEW j \in Jobs, Stamped, Checked(j), Request(j)
  PROVE  Checked(j)'
<1>r. rows \subseteq Row /\ clock \in Nat BY DEF TypeOK
<1>v. \A r \in rows : \E s \in rows : Vouches(s, r) /\ s.validated
  BY RequestEffect DEF Checked, Checking
<1>1. CASE rows' = rows BY <1>1, <1>v DEF Checked, Vouches, SameFigure
<1>2. CASE \E r \in rows, v \in Values :
             /\ rows' = (rows \ {r}) \cup {Overridden(r, v)}
             /\ Opened(j, "refresh", "override", None, {Overridden(r, v)}, {r.period})
  <2>1. PICK r \in rows, v \in Values :
          /\ rows' = (rows \ {r}) \cup {Overridden(r, v)}
          /\ Opened(j, "refresh", "override", None, {Overridden(r, v)}, {r.period})
    BY <1>2
  <2>0. PICK o \in rows' : o = Overridden(r, v) /\ rows' = (rows \ {r}) \cup {o} BY <2>1
  <2>2. o.at = clock + 1 /\ o.period = r.period /\ o.code = r.code /\ o.doc = r.doc
    BY <1>r, <2>0, OverriddenRow
  <2>5. pc'[j] = "refresh" /\ job'[j].todo = {r.period} BY <2>1 DEF Opened
  <2>3. \A t \in rows : t.at \in Nat /\ t.at <= clock BY <1>r DEF Row, Stamped
  <2>4. \A t \in rows' : t.at <= o.at /\ (t.at = o.at => t = o) BY <1>r, <2>0, <2>2, <2>3
  <2>6. Checking(j, o)' BY <2>2, <2>4, <2>5 DEF Checking, Leads
  <2>7. ASSUME NEW x \in rows'
        PROVE  \E y \in rows' : Vouches(y, x) /\ (y.validated \/ Checking(j, y)')
    <3>1. CASE x = o
      <4>1. Vouches(o, o) BY <1>r, <2>2 DEF Vouches, SameFigure
      <4> QED BY <2>2, <2>6, <3>1, <4>1
    <3>2. CASE x # o
      <4>1. x \in rows BY <2>0, <3>2
      <4>2. PICK s \in rows : Vouches(s, x) /\ s.validated BY <1>v, <4>1
      <4>3. CASE s = r
        <5>1. Vouches(o, x) BY <1>r, <2>2, <2>3, <4>1, <4>2, <4>3 DEF Vouches, SameFigure
        <5> QED BY <2>2, <2>6, <5>1
      <4>4. CASE s # r BY <2>0, <4>2, <4>4
      <4> QED BY <4>3, <4>4
    <3> QED BY <3>1, <3>2
  <2> QED BY <2>7 DEF Checked, Vouches, SameFigure
<1> QED BY <1>1, <1>2, RequestEffect

MidCheck == {"refresh", "vread", "vcommit"}

LEMMA CheckedNext ==
  ASSUME NEW s, Jobs = {s}, Undisturbed(MidCheck), Tidy(s), TypeOK', Checked(s), [Next]_vars
  PROVE  Checked(s)'
<1> USE DEF Tidy, InStep
<1>s. s \in Jobs OBVIOUS
<1>1. CASE Request(s) BY <1>s, <1>1, CheckedRequest
<1>2. CASE Step(s) \/ Fail(s)
  <2>1. CASE Step(s) /\ ~Refuse(s) BY <1>s, <2>1, CheckedStep
  <2>2. CASE Fail(s) \/ Refuse(s)
    <3>1. pc[s] \notin {"refresh", "vread", "vcommit"} /\ Raise(s)
      BY <2>2, SoleRefusal DEF Fail, Refuse, MidCheck, Undisturbed
    <3> QED BY <1>s, <3>1, CheckedStep
  <2> QED BY <1>2, <2>1, <2>2
<1>3. ~Crash BY NoCrash DEF Undisturbed
<1>4. CASE \/ (\E d \in Docs : GenerateReport(d)) \/ (\E i \in insights : EditInsight(i))
           \/ UNCHANGED vars
  <2>1. rows' = rows /\ pc' = pc /\ job' = job BY <1>4, AsideEffect
  <2>2. ASSUME NEW r \in rows, Checking(s, r) PROVE Checking(s, r)'
    BY <2>1, <2>2 DEF Checking, Leads, Vouches, SameFigure
  <2>3. ASSUME NEW r \in rows
        PROVE  \E x \in rows : Vouches(x, r) /\ (x.validated \/ Checking(s, x)')
    BY <2>2 DEF Checked
  <2> QED BY <2>1, <2>3 DEF Checked, Vouches, SameFigure
<1> QED BY <1>1, <1>2, <1>3, <1>4, SoleCases

(* What is on record at the start has been validated.                       *)
SeedsAreValidated == \A seed \in Seeds : \A r \in seed.rows : r.validated

(* One session after the other, whatever fails but in the validation itself:*)
(* at rest, of the line items of each document for a code and period, and   *)
(* of the entries typed in for them, one that none was updated after went   *)
(* through run_validation with the value it has now.                        *)
THEOREM AllValidated ==
  ASSUME OneSession, SeedsAreKeyed, SeedsAreValidated, Undisturbed(MidCheck)
  PROVE  Spec => []QuietAllValidated
<1>1. PICK s : Jobs = {s} BY DEF OneSession
<1>2. TypeOK /\ Init => Checked(s)
  <2> SUFFICES ASSUME TypeOK, Init PROVE Checked(s) OBVIOUS
  <2>1. PICK seed \in Seeds : rows = seed.rows BY DEF Init
  <2>2. \A r \in rows : r.validated /\ Vouches(r, r)
    BY <2>1, VouchesSelf DEF SeedsAreValidated, TypeOK
  <2> QED BY <2>2 DEF Checked
<1>3. Tidy(s) /\ Checked(s) /\ TypeOK' /\ [Next]_vars => Checked(s)'
  BY <1>1, CheckedNext
<1>4. Checked(s) => QuietAllValidated
  BY <1>1 DEF Checked, Checking, Vouches, QuietAllValidated, Quiet
<1>5. Spec => []Tidy(s) BY <1>1, TidyAlways
<1> QED BY <1>2, <1>3, <1>4, <1>5, TypeCorrect, PTL DEF Spec

-----------------------------------------------------------------------------
(* No metrics without statements *)

(* The periods a session still sees statements of.                          *)
Seen(j) == PeriodsOf(Visible(j))

(* A batch of a period without statements is about to go: the session has   *)
(* deleted it already, or has its period on its agenda.                     *)
Backed(j) ==
  /\ \A b \in metrics : \/ b.id \in tx[j].drop
                        \/ b.period \in Seen(j)
                        \/ job[j].op \in Clearing /\ b.period \in job[j].todo
  /\ pc[j] \in {"drows", "ddoc", "remain"} => \A b \in metrics : b.period \in PeriodsOf(rows)
  /\ job[j].op \in Clearing /\ pc[j] \in {"metrics", "mdelete", "mcommit", "iclear"}
       => job[j].left \subseteq Seen(j)
  /\ pc[j] \in {"mdelete", "mcommit"} => job[j].cur \in Seen(j)

LEMMA BackedStep ==
  ASSUME TypeOK, Placed, NEW j \in Jobs, Stationed(j), Stamped, Synced(j), Booked(j), Agenda(j),
         Backed(j), Step(j) /\ ~Refuse(j)
  PROVE  Backed(j)'
<1>r. rows \subseteq Row BY DEF TypeOK
<1>o. job[j].op \in OpNames BY DEF TypeOK, Job
<1>a. ASSUME metrics' = metrics, tx'[j].drop = tx[j].drop, Seen(j) \subseteq Seen(j)',
             job'[j].op = job[j].op, job'[j].left = job[j].left,
             job[j].op \in Clearing => job[j].todo \subseteq job'[j].todo,
             pc'[j] \notin {"drows", "ddoc", "remain", "mdelete", "mcommit"},
             job[j].op \in Clearing => pc[j] \in {"metrics", "mdelete", "mcommit", "iclear"}
      PROVE  Backed(j)'
  BY <1>a DEF Backed
<1>n. ASSUME tx'[j].gone = tx[j].gone, rows' = rows PROVE Seen(j)' = Seen(j)
  BY <1>n DEF Seen, Visible
<1>g. ASSUME NEW new, rows' = rows \cup new, tx' = tx PROVE Seen(j) \subseteq Seen(j)'
  BY <1>g DEF Seen, Visible, PeriodsOf
<1>k. ASSUME rows' = {Detached(j, r) : r \in Visible(j)}, tx'[j] = NoTx
      PROVE  Seen(j)' = Seen(j)
  <2>1. rows' = Visible(j) BY <1>k, CommittedRows
  <2>2. tx'[j].gone = {} BY <1>k DEF NoTx
  <2>3. Visible(j)' = Visible(j) BY <2>1, <2>2 DEF Visible
  <2> QED BY <2>3 DEF Seen
<1>p. ASSUME NEW p, NEW found, Passed(j, p, found), metrics' = metrics, rows' = rows,
             tx'[j].gone = tx[j].gone, tx[j].drop \subseteq tx'[j].drop,
             pc[j] \in {"metrics", "look", "lock"},
             job[j].op \in Clearing =>
               p \in Seen(j) \/ IdsOf(BatchesOf(p)) \subseteq tx'[j].drop
      PROVE  Backed(j)'
  <2>1. Seen(j)' = Seen(j) BY <1>n, <1>p
  <2>2. /\ job'[j].op = job[j].op /\ job'[j].left = job[j].left
        /\ job'[j].todo = job[j].todo \ {p}
    BY <1>p DEF Passed, Same
  <2>3. pc'[j] \notin {"drows", "ddoc", "remain", "mdelete", "mcommit"}
    BY <1>p DEF Passed, AfterPeriod, RunEnd
  <2>4. ASSUME NEW b \in metrics
        PROVE  \/ b.id \in tx'[j].drop
               \/ b.period \in Seen(j)
               \/ job[j].op \in Clearing /\ b.period \in job[j].todo \ {p}
    <3>1. CASE b.period = p /\ job[j].op \in Clearing BY <1>p, <3>1 DEF IdsOf, BatchesOf
    <3>2. CASE ~(b.period = p /\ job[j].op \in Clearing) BY <1>p, <3>2 DEF Backed
    <3> QED BY <3>1, <3>2
  <2>5. job[j].op \in Clearing => job[j].left \subseteq Seen(j)
    BY <1>p DEF Backed, Stationed, DeletePCs, Clearing
  <2> QED BY <1>p, <2>1, <2>2, <2>3, <2>4, <2>5 DEF Backed
<1>1. CASE UploadCommit(j) \/ StartRun(j) \/ Fetch(j) \/ Score(j) \/ Invalidate(j)
  <2>1. metrics' = metrics /\ tx' = tx /\ job' = job /\ rows' = rows
    BY <1>1 DEF UploadCommit, StartRun, Fetch, Score, Invalidate, tables
  <2>2. /\ pc[j] \in {"saved", "start", "fetch", "score", "invalidate"}
        /\ pc'[j] \in {"start", "fetch", "persist", "done"}
    BY <1>1 DEF UploadCommit, StartRun, Fetch, Score, Invalidate, Goto, TypeOK
  <2>3. job[j].op \notin Clearing BY <2>2 DEF Stationed, DeletePCs, Clearing
  <2> QED BY <1>a, <1>n, <2>1, <2>2, <2>3
<1>2. CASE Persist(j)
  <2>1. /\ pc[j] = "persist" /\ pc'[j] = "vread" /\ metrics' = metrics /\ tx' = tx
        /\ job'[j].op = job[j].op /\ job'[j].left = job[j].left
        /\ \E new : rows' = rows \cup new
    BY <1>2, PersistEffect DEF Same
  <2>2. job[j].op \notin Clearing BY <2>1 DEF Stationed, DeletePCs, Clearing
  <2> QED BY <1>a, <1>g, <2>1, <2>2
<1>3. CASE ValidationRead(j) \/ Refresh(j)
  <2>1. /\ pc[j] \in {"vread", "refresh"} /\ pc'[j] \in {"vread", "vcommit"}
        /\ metrics' = metrics /\ tx' = tx /\ rows' = rows
        /\ job'[j].op = job[j].op /\ job'[j].left = job[j].left
    BY <1>3, ReadEffect, RefreshEffect DEF Same
  <2>2. job[j].op \notin Clearing BY <2>1 DEF Stationed, DeletePCs, Clearing
  <2> QED BY <1>a, <1>n, <2>1, <2>2
<1>4. CASE ValidationCommit(j)
  <2>1. /\ pc[j] = "vcommit" /\ pc'[j] \in {"score", "done", "metrics"}
        /\ metrics' = metrics /\ tx' = tx /\ rows' = {Settled(j, r) : r \in rows}
        /\ job'[j].op = job[j].op /\ job'[j].left = job[j].left
    BY <1>4, SettleEffect DEF Same, RunEnd
  <2>2. job[j].op \notin Clearing BY <2>1 DEF Stationed, DeletePCs, Clearing
  <2>3. Seen(j) \subseteq Seen(j)'
    <3> SUFFICES ASSUME NEW r \in Visible(j) PROVE r.period \in Seen(j)'
      BY DEF Seen, PeriodsOf
    <3>1. RowId(Settled(j, r)) = RowId(r) /\ Settled(j, r).period = r.period
      BY <1>r, SettledRow DEF Visible
    <3>2. Settled(j, r) \in Visible(j)' BY <2>1, <3>1 DEF Visible
    <3> QED BY <3>1, <3>2 DEF Seen, PeriodsOf
  <2> QED BY <1>a, <2>1, <2>2, <2>3
<1>5. CASE ComputeRead(j)
  <2>1. /\ pc[j] = "metrics" /\ metrics' = metrics /\ rows' = rows /\ tx' = tx
        /\ \E p \in job[j].todo :
             /\ job[j].op \in Clearing => p \in job[j].left
             /\ \/ Passed(j, p, {})
                \/ /\ p \in PeriodsOf(Eligible(j)) /\ pc'[j] = "mdelete" /\ Same(j)
                   /\ job'[j].cur = p /\ job'[j].todo = job[j].todo
    BY <1>5, ComputeReadEffect
  <2>2. PICK p \in job[j].todo :
             /\ job[j].op \in Clearing => p \in job[j].left
             /\ \/ Passed(j, p, {})
                \/ /\ p \in PeriodsOf(Eligible(j)) /\ pc'[j] = "mdelete" /\ Same(j)
                   /\ job'[j].cur = p /\ job'[j].todo = job[j].todo
    BY <2>1
  <2>3. CASE Passed(j, p, {}) BY <1>p, <2>1, <2>2, <2>3 DEF Backed
  <2>4. CASE /\ p \in PeriodsOf(Eligible(j)) /\ pc'[j] = "mdelete" /\ Same(j)
             /\ job'[j].cur = p /\ job'[j].todo = job[j].todo
    <3>1. p \in Seen(j)
      <4>1. PICK x \in Eligible(j) : x.period = p BY <2>4 DEF PeriodsOf
      <4>2. PICK r \in Visible(j) : RowId(x) = RowId(r) BY <4>1, LoadedKeys DEF Eligible
      <4> QED BY <4>1, <4>2 DEF RowId, Seen, PeriodsOf
    <3>2. Seen(j)' = Seen(j) BY <1>n, <2>1
    <3> QED BY <2>1, <2>4, <3>1, <3>2 DEF Backed, Same
  <2> QED BY <2>2, <2>3, <2>4
<1>6. CASE ComputeDelete(j)
  <2>1. Seen(j)' = Seen(j) BY <1>6, <1>n, ComputeDeleteEffect
  <2> QED BY <1>6, <2>1, ComputeDeleteEffect DEF Backed
<1>7. CASE ComputeCommit(j)
  <2> DEFINE p == job[j].cur
  <2>1. /\ pc[j] = "mcommit" /\ tx'[j] = NoTx
        /\ rows' = {Detached(j, r) : r \in Visible(j)}
        /\ metrics' = {b \in metrics : b.id \notin tx[j].drop}
                         \cup {[id |-> clock + 1, period |-> p, basis |-> job[j].basis]}
        /\ Passed(j, p, {clock + 1})
    BY <1>7, ComputeCommitEffect
  <2>2. Seen(j)' = Seen(j) BY <1>k, <2>1
  <2>3. /\ job'[j].op = job[j].op /\ job'[j].left = job[j].left
        /\ job'[j].todo = job[j].todo \ {p}
    BY <2>1 DEF Passed, Same
  <2>4. pc'[j] \notin {"drows", "ddoc", "remain", "mdelete", "mcommit"}
    BY <2>1 DEF Passed, AfterPeriod, RunEnd
  <2>5. p \in Seen(j) /\ (job[j].op \in Clearing => job[j].left \subseteq Seen(j))
    BY <2>1 DEF Backed
  <2>6. ASSUME NEW b \in metrics'
        PROVE  b.period \in Seen(j) \/ (job[j].op \in Clearing /\ b.period \in job[j].todo \ {p})
    <3>1. CASE b.period = p BY <2>5, <3>1
    <3>2. CASE b.period # p BY <2>1, <3>2 DEF Backed
    <3> QED BY <3>1, <3>2
  <2> QED BY <2>2, <2>3, <2>4, <2>5, <2>6 DEF Backed
<1>8. CASE Look(j) \/ TakeLock(j)
  <2>1. /\ pc[j] \in {"look", "lock"} /\ metrics' = metrics /\ rows' = rows /\ tx' = tx
        /\ \/ \E p, found : Passed(j, p, found)
           \/ Same(j) /\ job'[j].todo = job[j].todo /\ pc'[j] \in {"lock", "metrics"}
    BY <1>8, LookEffect
  <2>2. job[j].op \notin Clearing BY <2>1 DEF Stationed, DeletePCs, Clearing
  <2> QED BY <1>a, <1>n, <1>p, <2>1, <2>2 DEF Same
<1>9. CASE AddInsert(j)
  <2>0. pc[j] = "insert" BY <1>9 DEF AddInsert
  <2>1. /\ pc'[j] = "refresh" /\ metrics' = metrics /\ tx' = tx
        /\ job'[j].op = job[j].op /\ job'[j].left = job[j].left
        /\ \E new : rows' = rows \cup new
    BY <1>9, <2>0, AddEffect DEF Same, Synced
  <2>2. job[j].op \notin Clearing BY <2>0 DEF Stationed, DeletePCs, Clearing
  <2> QED BY <1>a, <1>g, <2>0, <2>1, <2>2
<1>10. CASE DeleteRows(j)
  <2>1. /\ pc[j] = "drows" /\ pc'[j] \in {"ddoc", "remain", "close"} /\ job' = job /\ rows' = rows /\ metrics' = metrics
        /\ tx'[j].gone = Ids(OfDoc(job[j].doc)) /\ tx'[j].drop = tx[j].drop
    BY <1>10, DeleteRowsEffect DEF AfterClearing
  <2>2. job[j].op \in Clearing BY <2>1 DEF Stationed, Clearing
  <2>3. ASSUME NEW b \in metrics PROVE b.period \in Seen(j)' \/ b.period \in job[j].todo
    <3>1. PICK r \in rows : r.period = b.period BY <2>1 DEF Backed, PeriodsOf
    <3>2. CASE RowId(r) \in Ids(OfDoc(job[j].doc))
      BY <2>1, <3>1, <3>2, KeyOfDoc DEF Agenda
    <3>3. CASE RowId(r) \notin Ids(OfDoc(job[j].doc))
      BY <2>1, <3>1, <3>3 DEF Seen, Visible, PeriodsOf
    <3> QED BY <3>2, <3>3
  <2> QED BY <2>1, <2>2, <2>3 DEF Backed
<1>11. CASE DeleteDoc(j)
  <2>1. /\ pc[j] = "ddoc" /\ pc'[j] \in {"close", "remain"} /\ rows' = rows
        /\ metrics' = metrics /\ job' = job /\ tx'[j].gone = tx[j].gone
        /\ tx'[j].drop = tx[j].drop
    BY <1>11, DeleteDocEffect DEF AfterClearing
  <2>2. Seen(j)' = Seen(j) BY <1>n, <2>1
  <2> QED BY <2>1, <2>2 DEF Backed
<1>17. CASE ListRemaining(j)
  <2>1. /\ pc'[j] = "metrics" /\ rows' = rows /\ metrics' = metrics /\ tx' = tx
        /\ job'[j].op = job[j].op /\ job'[j].todo = job[j].todo /\ job'[j].left = Seen(j)
    BY <1>17, RemainEffect DEF Seen
  <2>2. Seen(j)' = Seen(j) BY <1>n, <2>1
  <2> QED BY <2>1, <2>2 DEF Backed
<1>12. CASE DropMetrics(j)
  <2>1. PICK p : Passed(j, p, {}) /\ tx'[j].drop = tx[j].drop \cup IdsOf(BatchesOf(p))
    BY <1>12, DropEffect
  <2> QED BY <1>12, <1>p, <2>1, DropEffect
<1>13. CASE ClearInsights(j)
  <2>1. /\ pc[j] = "iclear" /\ pc'[j] \in {"close", "metrics"} /\ rows' = rows
        /\ metrics' = metrics /\ job' = job /\ tx'[j].gone = tx[j].gone
        /\ tx'[j].drop = tx[j].drop
    BY <1>13, ClearEffect
  <2> QED BY <1>a, <1>n, <2>1
<1>14. CASE FinishDelete(j) \/ FinishReExtract(j) \/ NarrativeSave(j)
  <2>1. /\ pc[j] \in {"close", "isave"} /\ pc'[j] \in {"done", "reload"} /\ tx'[j] = NoTx
        /\ job' = job /\ rows' = {Detached(j, r) : r \in Visible(j)}
        /\ metrics' = {b \in metrics : b.id \notin tx[j].drop}
    BY <1>14, FinishEffect, SaveEffect
  <2>2. Seen(j)' = Seen(j) BY <1>k, <2>1
  <2>3. job[j].op \in Clearing => job[j].todo = {}
    BY <2>1 DEF Agenda, Stationed, DeletePCs, Clearing
  <2> QED BY <2>1, <2>2, <2>3 DEF Backed
<1>15. CASE PriorPeriod(j) \/ NarrativeDelete(j)
  <2>1. /\ pc[j] \in {"prior", "llm"} /\ pc'[j] \in {"llm", "look", "isave"}
        /\ rows' = rows /\ metrics' = metrics /\ tx'[j].gone = tx[j].gone
        /\ tx'[j].drop = tx[j].drop /\ job'[j].op = job[j].op /\ job'[j].left = job[j].left
    BY <1>15, PriorEffect, NarrativeDeleteEffect DEF Same
  <2>2. job[j].op \notin Clearing BY <2>1 DEF Stationed, DeletePCs, Clearing
  <2> QED BY <1>a, <1>n, <2>1, <2>2
<1>16. CASE Close(j)
  <2>1. /\ pc[j] = "done" /\ pc'[j] = "idle" /\ tx'[j] = NoTx /\ rows' = rows
        /\ metrics' = metrics /\ job'[j] = Idle
    BY <1>16 DEF Close, End, TypeOK, tables
  <2>2. Seen(j)' = Seen(j) BY <2>1 DEF Booked, Seen, Visible, NoTx
  <2>3. tx[j].drop = {} /\ (job[j].op \in Clearing => job[j].todo = {})
    BY <2>1 DEF Booked, Agenda
  <2> QED BY <2>1, <2>2, <2>3 DEF Backed, Idle, Clearing
<1>18. CASE Schedule(j)
  <2>1. /\ pc[j] = "reload" /\ pc'[j] = "start" /\ tx' = tx /\ rows' = rows
        /\ metrics' = metrics
        /\ job'[j] = [Idle EXCEPT !.op = "extract", !.doc = job[j].doc, !.score = TRUE]
    BY <1>18, ScheduleEffect
  <2>5. job'[j].op = "extract" BY <2>1 DEF Idle
  <2>2. Seen(j)' = Seen(j) BY <1>n, <2>1
  <2>3. tx[j].drop = {} BY <2>1 DEF Stationed, NoTx
  <2>4. job[j].op \in Clearing => job[j].todo = {} BY <2>1 DEF Agenda
  <2> QED BY <2>1, <2>2, <2>3, <2>4, <2>5 DEF Backed, Clearing
<1> QED BY <1>1, <1>2, <1>3, <1>4, <1>5, <1>6, <1>7, <1>8, <1>9, <1>10, <1>11, <1>12, <1>13, <1>14,
           <1>15, <1>16, <1>17, <1>18 DEF Step

LEMMA BackedRequest ==
  ASSUME TypeOK, NEW j \in Jobs, Stationed(j), Stamped, Booked(j), Backed(j), Request(j)
  PROVE  Backed(j)'
<1> USE DEF Opened
<1>1. job[j].op = "none" /\ metrics' = metrics BY RequestEffect DEF Stationed
<1>2. tx[j].gone = {} /\ tx[j].drop = {} /\ tx'[j].drop = {}
  BY <1>1, RequestEffect DEF Booked, Clearing
<1>3. \A b \in metrics : \E r \in rows : r.period = b.period
  BY <1>1, <1>2 DEF Backed, Seen, Visible, PeriodsOf, Clearing
<1>4. CASE /\ rows' = rows /\ tx' = tx
           /\ pc'[j] \in {"saved", "drows", "look", "insert"}
  <2>1. Seen(j)' = PeriodsOf(rows) BY <1>2, <1>4 DEF Seen, Visible
  <2> QED BY <1>1, <1>3, <1>4, <2>1 DEF Backed, PeriodsOf
<1>5. CASE /\ tx' = tx
           /\ \E r \in rows, v \in Values :
                /\ rows' = (rows \ {r}) \cup {Overridden(r, v)}
                /\ Opened(j, "refresh", "override", None, {Overridden(r, v)}, {r.period})
  <2>1. PICK r \in rows, v \in Values :
                /\ rows' = (rows \ {r}) \cup {Overridden(r, v)}
                /\ Opened(j, "refresh", "override", None, {Overridden(r, v)}, {r.period})
    BY <1>5
  <2>2. Overridden(r, v).period = r.period BY OverriddenRow DEF TypeOK
  <2>3. \A t \in rows : \E x \in rows' : x.period = t.period BY <2>1, <2>2
  <2>4. Seen(j)' = PeriodsOf(rows') BY <1>2, <1>5 DEF Seen, Visible
  <2>5. \A b \in metrics : b.period \in Seen(j)' BY <1>3, <2>3, <2>4 DEF PeriodsOf
  <2> QED BY <1>1, <2>1, <2>5 DEF Backed, Clearing
<1> QED BY <1>4, <1>5, RequestEffect

(* Where a session fails with no deletes of metrics, nothing is lost.       *)
LEMMA BackedRaise ==
  ASSUME TypeOK, NEW j \in Jobs, Stationed(j), Booked(j), Agenda(j), Backed(j), Raise(j),
         pc[j] \notin {"metrics", "mdelete", "mcommit", "iclear", "close"}
  PROVE  Backed(j)'
<1>1. /\ pc'[j] = "idle" /\ job'[j] = Idle /\ tx'[j] = NoTx
      /\ rows' = rows /\ metrics' = metrics
  BY RaiseEffect
<1>2. Seen(j)' = PeriodsOf(rows)
  <2>1. tx'[j].gone = {} BY <1>1 DEF NoTx
  <2>2. Visible(j)' = rows BY <1>1, <2>1 DEF Visible
  <2> QED BY <2>2 DEF Seen
<1>3. Seen(j) \subseteq PeriodsOf(rows) BY DEF Seen, Visible, PeriodsOf
<1>4. ASSUME NEW b \in metrics PROVE b.period \in PeriodsOf(rows)
  <2>1. CASE job[j].op \notin Clearing BY <1>3, <2>1 DEF Backed, Booked
  <2>2. CASE job[j].op \in Clearing
    <3>1. pc[j] \in {"drows", "ddoc", "remain", "reload", "done"}
      BY <2>2 DEF Stationed, DeletePCs, Clearing
    <3>2. pc[j] = "reload" => tx[j].drop = {} BY DEF Stationed, NoTx
    <3> QED BY <1>3, <2>2, <3>1, <3>2 DEF Backed, Booked, Agenda
  <2> QED BY <2>1, <2>2
<1> QED BY <1>1, <1>2, <1>4 DEF Backed, Idle, Clearing

MidCompute == {"metrics", "mdelete", "mcommit", "iclear", "close"}

LEMMA BackedNext ==
  ASSUME NEW s, Jobs = {s}, Undisturbed(MidCompute), Tidy(s), Backed(s), [Next]_vars
  PROVE  Backed(s)'
<1> USE DEF Tidy, InStep
<1>s. s \in Jobs OBVIOUS
<1>1. CASE Request(s) BY <1>s, <1>1, BackedRequest
<1>2. CASE Step(s) /\ ~Refuse(s) BY <1>s, <1>2, BackedStep
<1>3. CASE Fail(s) \/ Refuse(s)
  <2>1. pc[s] \notin {"metrics", "mdelete", "mcommit", "iclear", "close"} /\ Raise(s)
    BY <1>3, SoleRefusal DEF Fail, Refuse, MidCompute, Undisturbed
  <2> QED BY <1>s, <2>1, BackedRaise
<1>4. ~Crash BY NoCrash DEF Undisturbed
<1>5. CASE \/ (\E d \in Docs : GenerateReport(d)) \/ (\E i \in insights : EditInsight(i))
           \/ UNCHANGED vars
  BY <1>5, AsideEffect DEF Backed, Seen, Visible
<1> QED BY <1>1, <1>2, <1>3, <1>4, <1>5, SoleCases

(* One session after the other, whatever fails but between the recomputation*)
(* of two periods: deleting or re-extracting a document leaves no metrics   *)
(* for a period whose last statement went with it.                          *)
THEOREM NoOrphanMetrics ==
  ASSUME OneSession, SeedsAreKeyed, Undisturbed(MidCompute)
  PROVE  Spec => []QuietNoOrphanMetrics
<1>1. PICK s : Jobs = {s} BY DEF OneSession
<1>2. Init => Backed(s)
  BY <1>1, StationedInit DEF Init, Backed, Idle, Clearing
<1>3. Tidy(s) /\ Backed(s) /\ [Next]_vars => Backed(s)' BY <1>1, BackedNext
<1>4. Tidy(s) /\ Backed(s) => QuietNoOrphanMetrics
  <2> SUFFICES ASSUME Tidy(s), Backed(s), Quiet, NEW b \in metrics
               PROVE  \E r \in rows : r.period = b.period
    BY DEF QuietNoOrphanMetrics
  <2>1. job[s].op = "none" BY <1>1 DEF Tidy, InStep, Stationed, Quiet
  <2>2. tx[s].drop = {} BY <1>1, <2>1 DEF Tidy, Booked, Clearing, Quiet
  <2>3. b.period \in Seen(s) BY <2>1, <2>2 DEF Backed, Clearing
  <2> QED BY <2>3 DEF Seen, Visible, PeriodsOf
<1>5. Spec => []Tidy(s) BY <1>1, TidyAlways
<1> QED BY <1>2, <1>3, <1>4, <1>5, PTL DEF Spec

-----------------------------------------------------------------------------
(* Metrics are those of the statements *)

Eligibles(S, p) == {r \in S : r.period = p /\ r.status # NEEDS_REVIEW}

(* The figures F of a batch are those of period p, by the statements S.     *)
Fits(S, p, F) ==
  Eligibles(S, p) # {} =>
    /\ \A r \in Eligibles(S, p) : \E f \in F : f.period = p /\ f.code = r.code
    /\ \A f \in F : f.period = p => \E r \in Eligibles(S, p) : RowId(r) = f.id /\ r.value = f.value

(* A batch that no longer fits is about to go: the session has deleted it   *)
(* already, or is a writer with its period on its agenda.  A manual entry   *)
(* not yet inserted and a deletion not yet carried out can be given up.     *)
Matched(j) ==
  /\ \A b \in metrics : \/ b.id \in tx[j].drop
                        \/ Fits(Visible(j), b.period, b.basis)
                        \/ job[j].op \in Clearing \cup Writing /\ b.period \in job[j].todo
  /\ pc[j] \in {"insert", "drows", "ddoc", "remain"} => \A b \in metrics : Fits(rows, b.period, b.basis)
  /\ pc[j] \in {"mdelete", "mcommit"} => Fits(Visible(j), job[j].cur, job[j].basis)
  /\ pc[j] = "mcommit" => IdsOf(BatchesOf(job[j].cur)) \subseteq tx[j].drop
  /\ pc[j] = "vcommit" => \A m \in job[j].marks : m[1][3] \in job[j].todo

Alike(x, r) == RowId(x) = RowId(r) /\ x.value = r.value /\ x.status = r.status

(* Statements that are alike are fitted alike.                              *)
LEMMA FitsAlike ==
  ASSUME NEW S, NEW T, NEW p, NEW F, Fits(S, p, F),
         \A r \in S : r.period = p => \E x \in T : Alike(x, r),
         \A x \in T : x.period = p => \E r \in S : Alike(x, r)
  PROVE  Fits(T, p, F)
<1>0. \A x, r : Alike(x, r) => x.period = r.period /\ x.code = r.code
  BY DEF Alike, RowId
<1>1. ASSUME NEW x \in Eligibles(T, p) PROVE \E r \in Eligibles(S, p) : Alike(x, r)
  BY <1>0 DEF Eligibles, Alike
<1>2. ASSUME NEW r \in Eligibles(S, p) PROVE \E x \in Eligibles(T, p) : Alike(x, r)
  BY <1>0 DEF Eligibles, Alike
<1> SUFFICES ASSUME Eligibles(T, p) # {}
             PROVE  /\ \A x \in Eligibles(T, p) : \E f \in F : f.period = p /\ f.code = x.code
                    /\ \A f \in F : f.period = p =>
                         \E x \in Eligibles(T, p) : RowId(x) = f.id /\ x.value = f.value
  BY DEF Fits
<1>3. Eligibles(S, p) # {} BY <1>1
<1>4. \A x \in Eligibles(T, p) : \E f \in F : f.period = p /\ f.code = x.code
  BY <1>0, <1>1, <1>3 DEF Fits
<1>5. ASSUME NEW f \in F, f.period = p
      PROVE  \E x \in Eligibles(T, p) : RowId(x) = f.id /\ x.value = f.value
  <2>1. PICK r \in Eligibles(S, p) : RowId(r) = f.id /\ r.value = f.value
    BY <1>3, <1>5 DEF Fits
  <2>2. PICK x \in Eligibles(T, p) : Alike(x, r) BY <1>2
  <2> QED BY <2>1, <2>2 DEF Alike
<1> QED BY <1>4, <1>5

(* Statements of another period make no difference.                         *)
LEMMA FitsElsewhere ==
  ASSUME NEW S, NEW T, NEW p, NEW F, Fits(S, p, F), \A r \in S \cup T : r.period = p => r \in S \cap T
  PROVE  Fits(T, p, F)
<1>1. \A r : Alike(r, r) BY DEF Alike
<1> QED BY <1>1, FitsAlike

(* What compute_and_store_metrics builds fits what its session sees.        *)
LEMMA ComputedFits ==
  ASSUME TypeOK, NEW j \in Jobs, Synced(j), pc[j] # "insert", NEW p,
         NEW T \in Resolutions(Eligible(j))
  PROVE  Fits(Visible(j), p, FiguresFor(p, T))
<1> DEFINE S == {r \in Visible(j) : r.status # NEEDS_REVIEW}
           Figured(t) == [id |-> RowId(t), period |-> t.period, code |-> t.code, value |-> t.value]
<1>1. Eligible(j) = Loaded(j, S) BY DEF Eligible
<1>2. /\ T \subseteq Eligible(j)
      /\ \A x \in Eligible(j) : \E t \in T : SameFigure(t, x)
  BY DEF Resolutions
<1>3. FiguresFor(p, T) = {Figured(r) : r \in {t \in T : t.period \in {p} \cup Preceding(p, T)}}
  BY DEF FiguresFor
<1>4. ASSUME NEW r \in Eligibles(Visible(j), p)
      PROVE  \E f \in FiguresFor(p, T) : f.period = p /\ f.code = r.code
  <2>1. r \in S /\ r.period = p BY DEF Eligibles
  <2>2. PICK x \in Eligible(j) : RowId(x) = RowId(r)
    <3> HIDE DEF S
    <3> QED BY <1>1, <2>1, LoadedKeys
  <2>3. PICK t \in T : SameFigure(t, x) BY <1>2
  <2>4. t.period = p /\ t.code = r.code BY <2>1, <2>2, <2>3 DEF SameFigure, RowId
  <2>5. Figured(t) \in FiguresFor(p, T) BY <1>3, <2>4
  <2> QED BY <2>4, <2>5
<1>5. ASSUME NEW f \in FiguresFor(p, T), f.period = p
      PROVE  \E r \in Eligibles(Visible(j), p) : RowId(r) = f.id /\ r.value = f.value
  <2>1. PICK t \in T : f = Figured(t) BY <1>3
  <2>2. t \in Loaded(j, S) BY <1>1, <1>2
  <2>3. PICK r \in S : RowId(t) = RowId(r) /\ (t = r \/ t \in job[j].mem) BY <2>2, LoadedKeys
  <2>4. r \in rows /\ t.value = r.value BY <2>3 DEF Synced, Visible
  <2>5. r.period = p BY <1>5, <2>1, <2>3 DEF RowId
  <2>6. r \in Eligibles(Visible(j), p) BY <2>5 DEF Eligibles
  <2> QED BY <2>1, <2>3, <2>4, <2>6
<1> QED BY <1>4, <1>5 DEF Fits

LEMMA MatchedStep ==
  ASSUME TypeOK, Placed, NEW j \in Jobs, Stationed(j), Stamped, Synced(j), Booked(j), Agenda(j),
         Matched(j), Step(j) /\ ~Refuse(j)
  PROVE  Matched(j)'
<1>r. rows \subseteq Row BY DEF TypeOK
<1>o. job[j].op \in OpNames BY DEF TypeOK, Job
<1>t. Readers \cap (Clearing \cup Writing) = {} BY DEF Readers, Clearing, Writing
<1>a. ASSUME metrics' = metrics, tx'[j].drop = tx[j].drop, Visible(j)' = Visible(j),
             job'[j].op = job[j].op,
             job[j].op \in Clearing \cup Writing => job[j].todo \subseteq job'[j].todo,
             pc'[j] \notin {"insert", "drows", "ddoc", "remain", "mdelete", "mcommit", "vcommit"}
      PROVE  Matched(j)'
  BY <1>a DEF Matched
<1>n. ASSUME tx'[j].gone = tx[j].gone, rows' = rows PROVE Visible(j)' = Visible(j)
  BY <1>n DEF Visible
<1>w. ASSUME job[j].op \notin Clearing PROVE Visible(j) = rows
  BY <1>w DEF Visible, Booked
<1>k. ASSUME rows' = {Detached(j, r) : r \in Visible(j)}, tx'[j] = NoTx
      PROVE  Visible(j)' = Visible(j)
  <2>1. rows' = Visible(j) BY <1>k, CommittedRows
  <2>2. tx'[j].gone = {} BY <1>k DEF NoTx
  <2> QED BY <2>1, <2>2 DEF Visible
<1>g. ASSUME NEW new, rows' = rows \cup new, tx' = tx, metrics' = metrics,
             pc[j] \in {"persist", "insert"}, pc'[j] \in {"vread", "refresh"},
             job'[j].op = job[j].op,
             \A r \in new : r.period \in job'[j].todo,
             job[j].todo \subseteq job'[j].todo
      PROVE  Matched(j)'
  <2>1. job[j].op \in Writing
    BY <1>g, <1>o DEF Stationed, OpNames, Clearing, DeletePCs, Placed, PlacedAt, Readers, ReaderPCs
  <2>2. tx[j].gone = {} /\ tx[j].drop = {} /\ Visible(j) = rows /\ Visible(j)' = rows'
    BY <1>g, <2>1 DEF Booked, Writing, Clearing, Visible
  <2>3. ASSUME NEW b \in metrics, b.period \notin job'[j].todo
        PROVE  Fits(rows', b.period, b.basis)
    <3>1. Fits(rows, b.period, b.basis) BY <1>g, <2>2, <2>3 DEF Matched
    <3> QED BY <1>g, <2>3, <3>1, FitsElsewhere
  <2> QED BY <1>g, <2>1, <2>2, <2>3 DEF Matched
<1>p. ASSUME NEW p, NEW found, Passed(j, p, found), metrics' = metrics, rows' = rows,
             tx'[j].gone = tx[j].gone, tx[j].drop \subseteq tx'[j].drop,
             job[j].op \in Clearing \cup Writing =>
               Eligibles(Visible(j), p) = {} \/ IdsOf(BatchesOf(p)) \subseteq tx'[j].drop
      PROVE  Matched(j)'
  <2>1. Visible(j)' = Visible(j) BY <1>n, <1>p
  <2>2. job'[j].op = job[j].op /\ job'[j].todo = job[j].todo \ {p} BY <1>p DEF Passed, Same
  <2>3. pc'[j] \notin {"insert", "drows", "ddoc", "remain", "mdelete", "mcommit", "vcommit"}
    BY <1>p DEF Passed, AfterPeriod, RunEnd
  <2>4. ASSUME NEW b \in metrics
        PROVE  \/ b.id \in tx'[j].drop
               \/ Fits(Visible(j), b.period, b.basis)
               \/ job[j].op \in Clearing \cup Writing /\ b.period \in job[j].todo \ {p}
    <3>1. CASE b.period = p /\ job[j].op \in Clearing \cup Writing
      BY <1>p, <3>1 DEF IdsOf, BatchesOf, Fits
    <3>2. CASE ~(b.period = p /\ job[j].op \in Clearing \cup Writing)
      BY <1>p, <3>2 DEF Matched
    <3> QED BY <3>1, <3>2
  <2> QED BY <1>p, <2>1, <2>2, <2>3, <2>4 DEF Matched
<1>1. CASE UploadCommit(j) \/ StartRun(j) \/ Fetch(j) \/ Score(j) \/ Invalidate(j)
  <2>1. metrics' = metrics /\ tx' = tx /\ job' = job /\ rows' = rows
    BY <1>1 DEF UploadCommit, StartRun, Fetch, Score, Invalidate, tables
  <2>2. pc'[j] \in {"start", "fetch", "persist", "done"}
    BY <1>1 DEF UploadCommit, StartRun, Fetch, Score, Invalidate, Goto, TypeOK
  <2> QED BY <1>a, <1>n, <2>1, <2>2
<1>2. CASE Persist(j)
  <2>1. /\ pc[j] = "persist" /\ pc'[j] = "vread" /\ metrics' = metrics /\ tx' = tx
        /\ job'[j].op = job[j].op
        /\ \E new : rows' = rows \cup new /\ job'[j].todo = PeriodsOf(new)
    BY <1>2, PersistEffect DEF Same
  <2>2. job[j].op = "extract"
    BY <1>o, <2>1
       DEF Stationed, OpNames, Clearing, Writing, DeletePCs, EntryPCs, Placed, PlacedAt,
           Readers, ReaderPCs
  <2>3. job[j].todo = {} BY <2>1, <2>2 DEF Agenda, Before
  <2> QED BY <1>g, <2>1, <2>3 DEF PeriodsOf
<1>3. CASE Refresh(j)
  BY <1>3, <1>a, <1>n, RefreshEffect DEF Same
<1>4. CASE ValidationRead(j)
  <2>1. /\ pc[j] = "vread" /\ pc'[j] = "vcommit" /\ metrics' = metrics /\ tx' = tx
        /\ rows' = rows /\ job'[j].op = job[j].op /\ job'[j].todo = job[j].todo
        /\ \E picked \in Current(j) :
             \A m \in job'[j].marks : \E r \in picked : m[1] = RowId(r)
    BY <1>4, ReadEffect DEF Same
  <2>0. job[j].mem \subseteq rows BY <2>1 DEF Synced
  <2> DEFINE S == {r \in rows : r.period \in job[j].todo}
  <2>5. Loaded(j, S) = S BY <2>0, LoadedStored
  <2>2. \A picked \in Current(j) : \A r \in picked : r.period \in job[j].todo
    BY <2>5 DEF Current, Latest, Resolutions
  <2>3. \A m \in job'[j].marks : m[1][3] \in job'[j].todo BY <2>1, <2>2 DEF RowId
  <2>4. Visible(j)' = Visible(j) BY <1>n, <2>1
  <2> QED BY <2>1, <2>3, <2>4 DEF Matched
<1>5. CASE ValidationCommit(j)
  <2>1. /\ pc[j] = "vcommit" /\ pc'[j] \in {"score", "done", "metrics"}
        /\ metrics' = metrics /\ tx' = tx /\ rows' = {Settled(j, r) : r \in rows}
        /\ job'[j].op = job[j].op /\ job'[j].todo = job[j].todo
    BY <1>5, SettleEffect DEF Same, RunEnd
  <2>2. job[j].op \in Writing
    BY <1>o, <2>1 DEF Stationed, OpNames, Clearing, DeletePCs, Placed, PlacedAt, Readers, ReaderPCs
  <2>3. tx[j].gone = {} /\ tx[j].drop = {} /\ Visible(j) = rows /\ Visible(j)' = rows'
    BY <2>1, <2>2 DEF Booked, Writing, Clearing, Visible
  <2>4. ASSUME NEW r \in rows, r.period \notin job[j].todo PROVE Alike(Settled(j, r), r)
    <3>1. RowId(r)[3] = r.period BY DEF RowId
    <3>2. ~\E m \in job[j].marks : m[1] = RowId(r) BY <2>1, <2>4, <3>1 DEF Matched
    <3> QED BY <1>r, <3>2, SettledRow DEF Alike
  <2>5. ASSUME NEW b \in metrics, b.period \notin job[j].todo
        PROVE  Fits(rows', b.period, b.basis)
    <3>1. Fits(rows, b.period, b.basis) BY <2>3, <2>5 DEF Matched
    <3>2. ASSUME NEW r \in rows, r.period = b.period PROVE \E x \in rows' : Alike(x, r)
      BY <2>1, <2>4, <2>5, <3>2
    <3>3. ASSUME NEW x \in rows', x.period = b.period PROVE \E r \in rows : Alike(x, r)
      <4>1. PICK r \in rows : x = Settled(j, r) BY <2>1
      <4>2. r.period = b.period BY <1>r, <3>3, <4>1, SettledRow
      <4> QED BY <2>4, <2>5, <4>1, <4>2
    <3> QED BY <3>1, <3>2, <3>3, FitsAlike
  <2> QED BY <2>1, <2>2, <2>3, <2>5 DEF Matched
<1>6. CASE ComputeRead(j)
  <2>1. /\ pc[j] = "metrics" /\ metrics' = metrics /\ rows' = rows /\ tx' = tx
    BY <1>6, ComputeReadEffect
  <2>2. PICK p \in job[j].todo :
          \/ p \notin PeriodsOf(Eligible(j)) /\ Passed(j, p, {})
          \/ /\ pc'[j] = "mdelete" /\ Same(j) /\ job'[j].todo = job[j].todo /\ job'[j].cur = p
             /\ \E T \in Resolutions(Eligible(j)) : job'[j].basis = FiguresFor(p, T)
    BY <1>6, ComputeReadEffect
  <2>3. CASE p \notin PeriodsOf(Eligible(j)) /\ Passed(j, p, {})
    <3>1. ASSUME NEW r \in Eligibles(Visible(j), p) PROVE FALSE
      <4> DEFINE S == {t \in Visible(j) : t.status # NEEDS_REVIEW}
      <4>0. r \in S /\ Eligible(j) = Loaded(j, S) BY DEF Eligible, Eligibles
      <4>1. PICK x \in Eligible(j) : RowId(x) = RowId(r)
        <5> HIDE DEF S
        <5> QED BY <4>0, LoadedKeys
      <4>2. x.period = p BY <4>1 DEF RowId, Eligibles
      <4> QED BY <2>3, <4>2 DEF PeriodsOf
    <3> QED BY <1>p, <2>1, <2>3, <3>1
  <2>4. CASE /\ pc'[j] = "mdelete" /\ Same(j) /\ job'[j].todo = job[j].todo /\ job'[j].cur = p
             /\ \E T \in Resolutions(Eligible(j)) : job'[j].basis = FiguresFor(p, T)
    <3>1. Fits(Visible(j), p, job'[j].basis) BY <2>1, <2>4, ComputedFits
    <3>2. Visible(j)' = Visible(j) BY <1>n, <2>1
    <3> QED BY <2>1, <2>4, <3>1, <3>2 DEF Matched, Same
  <2> QED BY <2>2, <2>3, <2>4
<1>7. CASE ComputeDelete(j)
  <2>1. Visible(j)' = Visible(j) BY <1>7, <1>n, ComputeDeleteEffect
  <2>2. IdsOf(BatchesOf(job[j].cur)) \subseteq tx'[j].drop /\ BatchesOf(job[j].cur)' = BatchesOf(job[j].cur)
    BY <1>7, ComputeDeleteEffect DEF BatchesOf
  <2> QED BY <1>7, <2>1, <2>2, ComputeDeleteEffect DEF Matched
<1>8. CASE ComputeCommit(j)
  <2> DEFINE p == job[j].cur
  <2>1. /\ pc[j] = "mcommit" /\ tx'[j] = NoTx
        /\ rows' = {Detached(j, r) : r \in Visible(j)}
        /\ metrics' = {b \in metrics : b.id \notin tx[j].drop}
                         \cup {[id |-> clock + 1, period |-> p, basis |-> job[j].basis]}
        /\ Passed(j, p, {clock + 1})
    BY <1>8, ComputeCommitEffect
  <2>2. Visible(j)' = Visible(j) BY <1>k, <2>1
  <2>3. job'[j].op = job[j].op /\ job'[j].todo = job[j].todo \ {p}
    BY <2>1 DEF Passed, Same
  <2>4. pc'[j] \notin {"insert", "drows", "ddoc", "remain", "mdelete", "mcommit", "vcommit"}
    BY <2>1 DEF Passed, AfterPeriod, RunEnd
  <2>5. ASSUME NEW b \in metrics'
        PROVE  \/ Fits(Visible(j), b.period, b.basis)
               \/ job[j].op \in Clearing \cup Writing /\ b.period \in job[j].todo \ {p}
    <3>1. CASE b = [id |-> clock + 1, period |-> p, basis |-> job[j].basis]
      BY <2>1, <3>1 DEF Matched
    <3>2. CASE b \in metrics /\ b.id \notin tx[j].drop
      <4>1. b.period # p BY <2>1, <3>2 DEF Matched, IdsOf, BatchesOf
      <4> QED BY <3>2, <4>1 DEF Matched
    <3> QED BY <2>1, <3>1, <3>2
  <2> QED BY <2>2, <2>3, <2>4, <2>5 DEF Matched
<1>9. CASE Look(j) \/ TakeLock(j)
  <2>1. /\ pc[j] \in {"look", "lock"} /\ metrics' = metrics /\ rows' = rows /\ tx' = tx
        /\ \/ \E p, found : Passed(j, p, found)
           \/ Same(j) /\ job'[j].todo = job[j].todo /\ pc'[j] \in {"lock", "metrics"}
    BY <1>9, LookEffect
  <2>2. job[j].op \notin Clearing \cup Writing
    BY <2>1 DEF Stationed, DeletePCs, Clearing, Writing, RunPCs, Before, EntryPCs
  <2> QED BY <1>a, <1>n, <1>p, <2>1, <2>2 DEF Same
<1>10. CASE AddInsert(j)
  <2>0. pc[j] = "insert" BY <1>10 DEF AddInsert
  <2>1. /\ pc'[j] = "refresh" /\ metrics' = metrics /\ tx' = tx
        /\ job'[j].op = job[j].op /\ job'[j].todo = job[j].todo
        /\ \E new : /\ rows' = rows \cup new
                    /\ \A r \in new : \E m \in job[j].mem : r.period = m.period
    BY <1>10, <2>0, AddEffect DEF Same, Synced
  <2> QED BY <1>g, <2>0, <2>1 DEF Synced
<1>11. CASE DeleteRows(j)
  <2>1. /\ pc[j] = "drows" /\ pc'[j] \in {"ddoc", "remain", "close"} /\ job' = job /\ rows' = rows /\ metrics' = metrics
        /\ tx'[j].gone = Ids(OfDoc(job[j].doc)) /\ tx'[j].drop = tx[j].drop
    BY <1>11, DeleteRowsEffect DEF AfterClearing
  <2>2. job[j].op \in Clearing BY <2>1 DEF Stationed, Clearing
  <2>3. ASSUME NEW b \in metrics, b.period \notin job[j].todo
        PROVE  Fits(Visible(j)', b.period, b.basis)
    <3>1. Fits(rows, b.period, b.basis) BY <2>1 DEF Matched
    <3>2. ASSUME NEW r \in rows, r.period = b.period PROVE r \in Visible(j)'
      BY <2>1, <2>3, <3>2, KeyOfDoc DEF Visible, Agenda
    <3>3. Visible(j)' \subseteq rows BY <2>1 DEF Visible
    <3> QED BY <3>1, <3>2, <3>3, FitsElsewhere
  <2> QED BY <2>1, <2>2, <2>3 DEF Matched
<1>12. CASE DeleteDoc(j)
  <2>1. /\ pc[j] = "ddoc" /\ pc'[j] \in {"close", "remain"} /\ rows' = rows
        /\ metrics' = metrics /\ job' = job /\ tx'[j].gone = tx[j].gone
        /\ tx'[j].drop = tx[j].drop
    BY <1>12, DeleteDocEffect DEF AfterClearing
  <2>2. Visible(j)' = Visible(j) BY <1>n, <2>1
  <2> QED BY <2>1, <2>2 DEF Matched
<1>18. CASE ListRemaining(j)
  <2>1. /\ pc'[j] = "metrics" /\ rows' = rows /\ metrics' = metrics /\ tx' = tx
        /\ job'[j].op = job[j].op /\ job'[j].todo = job[j].todo
    BY <1>18, RemainEffect
  <2> QED BY <1>a, <1>n, <2>1
<1>13. CASE DropMetrics(j)
  <2>1. PICK p : Passed(j, p, {}) /\ tx'[j].drop = tx[j].drop \cup IdsOf(BatchesOf(p))
    BY <1>13, DropEffect
  <2> QED BY <1>13, <1>p, <2>1, DropEffect
<1>14. CASE ClearInsights(j)
  <2>1. /\ pc'[j] \in {"close", "metrics"} /\ rows' = rows /\ metrics' = metrics /\ job' = job
        /\ tx'[j].gone = tx[j].gone /\ tx'[j].drop = tx[j].drop
    BY <1>14, ClearEffect
  <2> QED BY <1>a, <1>n, <2>1
<1>15. CASE FinishDelete(j) \/ FinishReExtract(j) \/ NarrativeSave(j)
  <2>1. /\ pc[j] \in {"close", "isave"} /\ pc'[j] \in {"done", "reload"} /\ tx'[j] = NoTx
        /\ job' = job /\ rows' = {Detached(j, r) : r \in Visible(j)}
        /\ metrics' = {b \in metrics : b.id \notin tx[j].drop}
    BY <1>15, FinishEffect, SaveEffect
  <2>2. Visible(j)' = Visible(j) BY <1>k, <2>1
  <2>3. job[j].op \in Clearing \cup Writing => job[j].todo = {}
    BY <2>1 DEF Agenda, Stationed, DeletePCs, Clearing, Writing, RunPCs, Before, EntryPCs
  <2> QED BY <2>1, <2>2, <2>3 DEF Matched
<1>16. CASE PriorPeriod(j) \/ NarrativeDelete(j)
  <2>1. /\ pc[j] \in {"prior", "llm"} /\ pc'[j] \in {"llm", "look", "isave"}
        /\ rows' = rows /\ metrics' = metrics /\ tx'[j].gone = tx[j].gone
        /\ tx'[j].drop = tx[j].drop /\ job'[j].op = job[j].op
    BY <1>16, PriorEffect, NarrativeDeleteEffect DEF Same
  <2>2. job[j].op \notin Clearing \cup Writing
    BY <2>1 DEF Stationed, DeletePCs, Clearing, Writing, RunPCs, Before, EntryPCs
  <2> QED BY <1>a, <1>n, <2>1, <2>2
<1>17. CASE Close(j)
  <2>1. /\ pc[j] = "done" /\ pc'[j] = "idle" /\ tx'[j] = NoTx /\ rows' = rows
        /\ metrics' = metrics /\ job'[j] = Idle
    BY <1>17 DEF Close, End, TypeOK, tables
  <2>2. tx[j].gone = {} /\ tx'[j].gone = {} BY <2>1 DEF Booked, NoTx
  <2>3. Visible(j)' = Visible(j) BY <1>n, <2>1, <2>2
  <2>4. tx[j].drop = {} /\ (job[j].op \in Clearing \cup Writing => job[j].todo = {})
    BY <2>1 DEF Booked, Agenda
  <2> QED BY <2>1, <2>3, <2>4 DEF Matched
<1>19. CASE Schedule(j)
  <2>1. /\ pc[j] = "reload" /\ pc'[j] = "start" /\ tx' = tx /\ rows' = rows
        /\ metrics' = metrics
    BY <1>19, ScheduleEffect
  <2>2. Visible(j)' = Visible(j) BY <1>n, <2>1
  <2>3. tx[j].drop = {} BY <2>1 DEF Stationed, NoTx
  <2>4. job[j].op \in Clearing \cup Writing => job[j].todo = {} BY <2>1 DEF Agenda
  <2> QED BY <2>1, <2>2, <2>3, <2>4 DEF Matched
<1> QED BY <1>1, <1>2, <1>3, <1>4, <1>5, <1>6, <1>7, <1>8, <1>9, <1>10, <1>11, <1>12, <1>13, <1>14,
           <1>15, <1>16, <1>17, <1>18, <1>19 DEF Step

LEMMA MatchedRequest ==
  ASSUME TypeOK, NEW j \in Jobs, Stationed(j), Stamped, Booked(j), Matched(j), Request(j)
  PROVE  Matched(j)'
<1> USE DEF Opened
<1>1. job[j].op = "none" /\ metrics' = metrics BY RequestEffect DEF Stationed
<1>2. tx[j].gone = {} /\ tx[j].drop = {} /\ tx'[j].drop = {}
  BY <1>1, RequestEffect DEF Booked, Clearing
<1>3. \A b \in metrics : Fits(rows, b.period, b.basis)
  <2>1. Visible(j) = rows BY <1>2 DEF Visible
  <2> QED BY <1>1, <1>2, <2>1 DEF Matched, Clearing, Writing
<1>4. CASE /\ rows' = rows /\ tx' = tx
           /\ pc'[j] \in {"saved", "drows", "look", "insert"}
  <2>1. Visible(j)' = rows BY <1>2, <1>4 DEF Visible
  <2> QED BY <1>1, <1>3, <1>4, <2>1 DEF Matched
<1>5. CASE /\ tx' = tx
           /\ \E r \in rows, v \in Values :
                /\ rows' = (rows \ {r}) \cup {Overridden(r, v)}
                /\ Opened(j, "refresh", "override", None, {Overridden(r, v)}, {r.period})
  <2>1. PICK r \in rows, v \in Values :
                /\ rows' = (rows \ {r}) \cup {Overridden(r, v)}
                /\ Opened(j, "refresh", "override", None, {Overridden(r, v)}, {r.period})
    BY <1>5
  <2>2. Overridden(r, v).period = r.period BY OverriddenRow DEF TypeOK
  <2>3. Visible(j)' = rows' BY <1>2, <1>5 DEF Visible
  <2>4. ASSUME NEW b \in metrics, b.period # r.period
        PROVE  Fits(Visible(j)', b.period, b.basis)
    BY <1>3, <2>1, <2>2, <2>3, <2>4, FitsElsewhere
  <2> QED BY <1>1, <2>1, <2>4 DEF Matched, Writing
<1> QED BY <1>4, <1>5, RequestEffect

(* Where a session fails between two writes, nothing it has given up shows. *)
LEMMA MatchedRaise ==
  ASSUME TypeOK, NEW j \in Jobs, Stationed(j), Booked(j), Agenda(j), Matched(j), Raise(j),
         pc[j] \notin MidCheck \cup MidCompute
  PROVE  Matched(j)'
<1>1. /\ pc'[j] = "idle" /\ job'[j] = Idle /\ tx'[j] = NoTx
      /\ rows' = rows /\ metrics' = metrics
  BY RaiseEffect
<1>2. Visible(j)' = rows
  <2>1. tx'[j].gone = {} BY <1>1 DEF NoTx
  <2> QED BY <1>1, <2>1 DEF Visible
<1>3. ASSUME NEW b \in metrics PROVE Fits(rows, b.period, b.basis)
  <2>1. CASE pc[j] \in {"insert", "drows", "ddoc", "remain"} BY <2>1 DEF Matched
  <2>2. CASE pc[j] \notin {"insert", "drows", "ddoc", "remain"}
    <3>1. pc[j] \notin MidCompute /\ pc[j] \notin MidCheck OBVIOUS
    <3>2. job[j].op \in Clearing => pc[j] \in {"done", "reload"}
      BY <2>2, <3>1 DEF MidCompute, Stationed, DeletePCs, Clearing
    <3>a. pc[j] = "reload" => tx[j].gone = {} /\ tx[j].drop = {} BY DEF Stationed, NoTx
    <3>3. tx[j].gone = {} /\ tx[j].drop = {} BY <3>1, <3>2, <3>a DEF Booked, MidCompute
    <3>4. Visible(j) = rows BY <3>3 DEF Visible
    <3>5. job[j].op \in {"override", "add"} => pc[j] \in {"invalidate", "score", "done"}
      BY <2>2, <3>1 DEF MidCompute, MidCheck, Stationed, EntryPCs
    <3>6. job[j].op = "extract" => pc[j] \in Before \cup {"score", "done"}
      BY <2>2, <3>1 DEF MidCompute, MidCheck, Stationed, RunPCs
    <3>7. job[j].op \in Clearing \cup Writing => job[j].todo = {}
      BY <3>2, <3>5, <3>6 DEF Agenda, Writing
    <3> QED BY <3>3, <3>4, <3>7 DEF Matched
  <2> QED BY <2>1, <2>2
<1> QED BY <1>1, <1>2, <1>3 DEF Matched

LEMMA MatchedNext ==
  ASSUME NEW s, Jobs = {s}, Undisturbed(MidCheck \cup MidCompute), Tidy(s), Matched(s), [Next]_vars
  PROVE  Matched(s)'
<1> USE DEF Tidy, InStep
<1>s. s \in Jobs OBVIOUS
<1>1. CASE Request(s) BY <1>s, <1>1, MatchedRequest
<1>2. CASE Step(s) /\ ~Refuse(s) BY <1>s, <1>2, MatchedStep
<1>3. CASE Fail(s) \/ Refuse(s)
  <2>1. pc[s] \notin MidCheck \cup MidCompute /\ Raise(s)
    BY <1>3, SoleRefusal DEF Fail, Refuse, MidCheck, MidCompute, Undisturbed
  <2> QED BY <1>s, <2>1, MatchedRaise
<1>4. ~Crash BY NoCrash DEF Undisturbed
<1>5. CASE \/ (\E d \in Docs : GenerateReport(d)) \/ (\E i \in insights : EditInsight(i))
           \/ UNCHANGED vars
  <2>1. UNCHANGED <<rows, metrics, pc, job, tx>> BY <1>5, AsideEffect
  <2> QED BY <2>1 DEF Matched, Visible, BatchesOf
<1> QED BY <1>1, <1>2, <1>3, <1>4, <1>5, SoleCases

(* One session after the other, whatever fails but between the write of a   *)
(* statement and the recomputation of its period: whenever a period has     *)
(* statements that passed validation, its cached metrics hold a value for   *)
(* each of their codes, and every value they hold is one such statement's.  *)
THEOREM MetricsMatch ==
  ASSUME OneSession, SeedsAreKeyed, Undisturbed(MidCheck \cup MidCompute)
  PROVE  Spec => []QuietMetricsMatch
<1>1. PICK s : Jobs = {s} BY DEF OneSession
<1>2. Init => Matched(s)
  BY <1>1, StationedInit DEF Init, Matched, Idle
<1>3. Tidy(s) /\ Matched(s) /\ [Next]_vars => Matched(s)' BY <1>1, MatchedNext
<1>4. Tidy(s) /\ Matched(s) => QuietMetricsMatch
  <2> SUFFICES ASSUME Tidy(s), Matched(s), Quiet, NEW b \in metrics, EligibleRows(b.period) # {}
               PROVE  /\ \A r \in EligibleRows(b.period) : \E f \in Own(b) : f.code = r.code
                      /\ \A f \in Own(b) : \E r \in EligibleRows(b.period) :
                           RowId(r) = f.id /\ r.value = f.value
    BY DEF QuietMetricsMatch
  <2>1. job[s].op = "none" BY <1>1 DEF Tidy, InStep, Stationed, Quiet
  <2>2. tx[s].drop = {} /\ tx[s].gone = {} BY <1>1, <2>1 DEF Tidy, Booked, Clearing, Quiet
  <2>3. Visible(s) = rows BY <2>2 DEF Visible
  <2>4. Fits(rows, b.period, b.basis) BY <2>1, <2>2, <2>3 DEF Matched, Clearing, Writing
  <2>5. Eligibles(rows, b.period) = EligibleRows(b.period) BY DEF Eligibles, EligibleRows
  <2> QED BY <2>4, <2>5 DEF Fits, Own
<1>5. Spec => []Tidy(s) BY <1>1, TidyAlways
<1> QED BY <1>2, <1>3, <1>4, <1>5, PTL DEF Spec

-----------------------------------------------------------------------------
(* Narratives cite metrics that are cached *)

(* What remains of the batches of period p once the session commits.        *)
Standing(j, p) == {b.id : b \in {c \in metrics : c.period = p /\ c.id \notin tx[j].drop}}

LEMMA StandingKept ==
  ASSUME NEW j \in Jobs, NEW p, metrics \subseteq metrics', tx'[j].drop \subseteq tx[j].drop
  PROVE  Standing(j, p) \subseteq Standing(j, p)'
  BY DEF Standing

LEMMA StandingCommitted ==
  ASSUME NEW j \in Jobs, NEW p, {b \in metrics : b.id \notin tx[j].drop} \subseteq metrics',
         tx'[j] = NoTx
  PROVE  Standing(j, p) \subseteq Standing(j, p)'
  BY DEF Standing, NoTx

(* Deleting the batches of one period leaves those of another.              *)
LEMMA StandingElsewhere ==
  ASSUME Stamped, NEW j \in Jobs, NEW p, NEW q, p # q, metrics' = metrics,
         tx'[j].drop = tx[j].drop \cup IdsOf(BatchesOf(q))
  PROVE  Standing(j, p) \subseteq Standing(j, p)'
<1> SUFFICES ASSUME NEW b \in metrics, b.period = p, b.id \notin tx[j].drop
             PROVE  b.id \notin IdsOf(BatchesOf(q))
  BY DEF Standing
<1> QED BY DEF Stamped, IdsOf, BatchesOf

LEMMA OpKept ==
  ASSUME TypeOK, NEW j \in Jobs, Step(j) /\ ~Refuse(j), Synced(j)
  PROVE  \/ job'[j].op = job[j].op
         \/ job'[j] = Idle
         \/ job'[j].op = "extract" /\ job'[j].todo = {}
<1>1. CASE \/ UploadCommit(j) \/ StartRun(j) \/ Fetch(j) \/ Score(j) \/ Invalidate(j)
           \/ FinishDelete(j) \/ FinishReExtract(j)
  <2>1. job' = job
    BY <1>1, FinishEffect DEF UploadCommit, StartRun, Fetch, Score, Invalidate
  <2> QED BY <2>1
<1>2. CASE Persist(j) \/ Refresh(j) \/ ValidationRead(j) \/ ValidationCommit(j)
  BY <1>2, PersistEffect, RefreshEffect, ReadEffect, SettleEffect DEF Same
<1>3. CASE ComputeRead(j) \/ ComputeDelete(j) \/ ComputeCommit(j) \/ DropMetrics(j)
  BY <1>3, ComputeReadEffect, ComputeDeleteEffect, ComputeCommitEffect, DropEffect DEF Same, Passed
<1>4. CASE Look(j) \/ TakeLock(j) BY <1>4, LookEffect DEF Same, Passed
<1>5. CASE AddInsert(j)
  <2>1. pc[j] = "insert" BY <1>5 DEF AddInsert
  <2> QED BY <1>5, <2>1, AddEffect DEF Same, Synced
<1>6. CASE DeleteRows(j) \/ DeleteDoc(j) \/ ListRemaining(j) \/ ClearInsights(j)
  BY <1>6, DeleteRowsEffect, DeleteDocEffect, RemainEffect, ClearEffect
<1>7. CASE PriorPeriod(j) \/ NarrativeDelete(j) \/ NarrativeSave(j)
  BY <1>7, PriorEffect, NarrativeDeleteEffect, SaveEffect DEF Same
<1>8. CASE Schedule(j)
  <2>1. job'[j] = [Idle EXCEPT !.op = "extract", !.doc = job[j].doc, !.score = TRUE]
    BY <1>8, ScheduleEffect
  <2> QED BY <2>1 DEF Idle
<1>9. CASE Close(j) BY <1>9 DEF Close, End, TypeOK
<1> QED BY <1>1, <1>2, <1>3, <1>4, <1>5, <1>6, <1>7, <1>8, <1>9 DEF Step

(* A reader computes metrics only where there are none, and replaces none.  *)
Reading(j) ==
  job[j].op \in Readers =>
    /\ tx[j].drop = {}
    /\ pc[j] \in {"metrics", "mdelete", "mcommit"} => BatchesOf(job[j].cur) = {}
    /\ job[j].op = "insight" => job[j].src \subseteq Standing(j, job[j].target)

LEMMA ReadingStep ==
  ASSUME TypeOK, Placed, NEW j \in Jobs, Stationed(j), Synced(j), Booked(j), Reading(j),
         Step(j) /\ ~Refuse(j)
  PROVE  Reading(j)'
<1> SUFFICES ASSUME job'[j].op \in Readers PROVE Reading(j)'
  BY DEF Reading
<1>1. job[j].op = job'[j].op /\ job[j].op \in Readers
  BY OpKept DEF Readers, Idle
<1>2. pc[j] \in ReaderPCs /\ job[j].op \notin Clearing /\ PlacedAt(pc[j], job[j])
  BY <1>1 DEF Stationed, Readers, Clearing, Placed
<1>3. tx[j].drop = {} BY <1>1 DEF Reading
<1>p. ASSUME NEW p, Passed(j, p, IdsOf(BatchesOf(p))), metrics' = metrics, tx'[j].drop = {}
      PROVE  Reading(j)'
  <2>1. Standing(j, p)' = IdsOf(BatchesOf(p)) BY <1>p DEF Standing, IdsOf, BatchesOf
  <2>2. \A q : Standing(j, q) \subseteq Standing(j, q)' BY <1>3, <1>p, StandingKept
  <2>3. pc'[j] \notin {"metrics", "mdelete", "mcommit"}
    BY <1>1, <1>p DEF Passed, AfterPeriod, Readers, Clearing
  <2>4. job[j].op = "insight" => job'[j].src \subseteq Standing(j, job[j].target)'
    <3> SUFFICES ASSUME job[j].op = "insight"
                 PROVE  job'[j].src \subseteq Standing(j, job[j].target)'
      OBVIOUS
    <3>1. job'[j].target = job[j].target BY <1>p DEF Passed, Same
    <3>2. CASE p = job[j].target
      <4>1. job'[j].src = IdsOf(BatchesOf(p)) BY <1>p, <3>2 DEF Passed
      <4> QED BY <2>1, <3>1, <3>2, <4>1
    <3>3. CASE p # job[j].target
      <4>1. job'[j].src = job[j].src BY <1>p, <3>3 DEF Passed
      <4> QED BY <1>1, <2>2, <3>1, <4>1 DEF Reading
    <3> QED BY <3>2, <3>3
  <2> QED BY <1>1, <1>p, <2>3, <2>4 DEF Reading, Passed, Same
<1>4. CASE Look(j) \/ TakeLock(j)
  <2>1. metrics' = metrics /\ tx' = tx BY <1>4, LookEffect
  <2>2. CASE \E p : Passed(j, p, IdsOf(BatchesOf(p))) BY <1>3, <1>p, <2>1, <2>2
  <2>3. CASE /\ Same(j) /\ job'[j].src = job[j].src
             /\ \/ pc'[j] = "lock"
                \/ pc'[j] = "metrics" /\ job'[j].cur = job[j].cur
                   /\ BatchesOf(job[j].cur) = {}
    <3>1. \A q : Standing(j, q)' = Standing(j, q) BY <2>1 DEF Standing
    <3> QED BY <1>1, <1>3, <2>1, <2>3, <3>1 DEF Reading, Same, BatchesOf
  <2> QED BY <1>4, <2>2, <2>3, LookEffect
<1>5. CASE ComputeRead(j)
  <2>1. pc[j] = "metrics" /\ metrics' = metrics /\ tx' = tx BY <1>5, ComputeReadEffect
  <2>2. PICK p \in Upcoming(j) :
          \/ Passed(j, p, {})
          \/ pc'[j] = "mdelete" /\ Same(j) /\ job'[j].src = job[j].src /\ job'[j].cur = p
    BY <1>5, ComputeReadEffect
  <2>3. p = job[j].cur
    <3>1. job[j] \in Job BY DEF TypeOK
    <3>2. job[j].cur \in Nexts(job[j]) BY <1>1, <1>2, <2>1 DEF PlacedAt
    <3>3. p \in Nexts(job[j]) BY UpcomingIsNexts
    <3> QED BY <1>1, <1>2, <3>1, <3>2, <3>3, NextsUnique DEF PlacedAt
  <2>4. BatchesOf(p) = {} BY <1>1, <2>1, <2>3 DEF Reading
  <2>5. CASE Passed(j, p, {})
    <3>1. IdsOf(BatchesOf(p)) = {} BY <2>4 DEF IdsOf
    <3> QED BY <1>3, <1>p, <2>1, <2>5, <3>1
  <2>6. CASE pc'[j] = "mdelete" /\ Same(j) /\ job'[j].src = job[j].src /\ job'[j].cur = p
    <3>1. \A q : Standing(j, q)' = Standing(j, q) BY <2>1 DEF Standing
    <3> QED BY <1>1, <1>3, <2>1, <2>4, <2>6, <3>1 DEF Reading, Same, BatchesOf
  <2> QED BY <2>2, <2>5, <2>6
<1>6. CASE ComputeDelete(j)
  <2>1. /\ pc[j] = "mdelete" /\ metrics' = metrics /\ job' = job
        /\ tx'[j].drop = tx[j].drop \cup IdsOf(BatchesOf(job[j].cur))
    BY <1>6, ComputeDeleteEffect
  <2>2. BatchesOf(job[j].cur) = {} /\ BatchesOf(job[j].cur)' = {}
    BY <1>1, <2>1 DEF Reading, BatchesOf
  <2>3. tx'[j].drop = {} BY <1>3, <2>1, <2>2 DEF IdsOf
  <2>4. \A q : Standing(j, q)' = Standing(j, q) BY <1>3, <2>1, <2>3 DEF Standing
  <2> QED BY <1>1, <2>1, <2>2, <2>3, <2>4 DEF Reading
<1>7. CASE ComputeCommit(j)
  <2> DEFINE new == [id |-> clock + 1, period |-> job[j].cur, basis |-> job[j].basis]
  <2>1. /\ pc[j] = "mcommit" /\ tx'[j] = NoTx /\ Passed(j, job[j].cur, {clock + 1})
        /\ metrics' = {b \in metrics : b.id \notin tx[j].drop} \cup {new}
    BY <1>7, ComputeCommitEffect
  <2>2. tx'[j].drop = {} BY <2>1 DEF NoTx
  <2>3. \A q : Standing(j, q) \subseteq Standing(j, q)' BY <2>1, StandingCommitted
  <2>4. clock + 1 \in Standing(j, job[j].cur)'
    <3>1. new \in metrics' /\ new.id = clock + 1 /\ new.period = job[j].cur BY <2>1
    <3>2. job'[j].cur = job[j].cur BY <2>1 DEF Passed
    <3> HIDE DEF new
    <3> QED BY <2>2, <3>1, <3>2 DEF Standing
  <2>5. pc'[j] \notin {"metrics", "mdelete", "mcommit"}
    BY <1>1, <2>1 DEF Passed, AfterPeriod, Readers, Clearing
  <2>6. job[j].op = "insight" => job'[j].src \subseteq Standing(j, job[j].target)'
    <3>1. job'[j].target = job[j].target /\ job'[j].cur = job[j].cur BY <2>1 DEF Passed, Same
    <3>2. CASE job[j].op = "insight" /\ job[j].cur = job[j].target
      <4>1. job'[j].src = {clock + 1} BY <2>1, <3>2 DEF Passed
      <4> QED BY <2>4, <3>1, <3>2, <4>1
    <3>3. CASE job[j].op = "insight" /\ job[j].cur # job[j].target
      <4>1. job'[j].src = job[j].src BY <2>1, <3>3 DEF Passed
      <4> QED BY <1>1, <2>3, <3>1, <3>3, <4>1 DEF Reading
    <3> QED BY <3>2, <3>3
  <2> QED BY <1>1, <2>1, <2>2, <2>5, <2>6 DEF Reading, Passed, Same
<1>8. CASE PriorPeriod(j) \/ NarrativeDelete(j) \/ NarrativeSave(j)
  <2>1. /\ pc[j] \in {"prior", "llm", "isave"} /\ pc'[j] \in {"llm", "look", "isave", "done"}
        /\ job'[j].target = job[j].target /\ job'[j].src = job[j].src
    BY <1>8, PriorEffect, NarrativeDeleteEffect, SaveEffect DEF Same
  <2>2. tx'[j].drop = {} /\ metrics' = metrics
    BY <1>3, <1>8, PriorEffect, NarrativeDeleteEffect, SaveEffect DEF NoTx
  <2>3. \A q : Standing(j, q)' = Standing(j, q) BY <1>3, <2>2 DEF Standing
  <2> QED BY <1>1, <2>1, <2>2, <2>3 DEF Reading
<1>9. CASE Close(j)
  <2>1. job'[j] = Idle BY <1>9 DEF Close, End, TypeOK
  <2> QED BY <1>1, <2>1 DEF Idle, Readers
<1>10. CASE \/ UploadCommit(j) \/ StartRun(j) \/ Fetch(j) \/ Persist(j) \/ Score(j)
            \/ ValidationRead(j) \/ ValidationCommit(j) \/ AddInsert(j) \/ Refresh(j)
            \/ Invalidate(j) \/ DeleteRows(j) \/ DeleteDoc(j) \/ ListRemaining(j)
            \/ ClearInsights(j) \/ FinishDelete(j) \/ FinishReExtract(j) \/ Schedule(j)
  BY <1>2, <1>10
     DEF ReaderPCs, UploadCommit, StartRun, Fetch, Persist, Score, ValidationRead, ValidationCommit,
         AddInsert, Refresh, Invalidate, DeleteRows, DeleteDoc, ListRemaining, ClearInsights,
         FinishDelete, FinishReExtract, Schedule
<1>11. CASE DropMetrics(j) BY <1>2, <1>11, DropEffect
<1> QED BY <1>4, <1>5, <1>6, <1>7, <1>8, <1>9, <1>10, <1>11 DEF Step

(* A document on record stated p after every narrative was written.         *)
Renewed(p) ==
  \E r \in rows : r.period = p /\ r.doc # None /\ \A i \in insights : r.born > i.id

(* A run recomputes only periods its document has renewed.                  *)
Renewing(j) == job[j].op = "extract" => \A p \in job[j].todo : Renewed(p)

LEMMA RenewedKept ==
  ASSUME NEW p, Renewed(p), insights' \subseteq insights,
         \A r \in rows : r.doc # None =>
           \E x \in rows' : x.period = r.period /\ x.doc # None /\ x.born = r.born
  PROVE  Renewed(p)'
<1>1. PICK r \in rows : r.period = p /\ r.doc # None /\ \A i \in insights : r.born > i.id
  BY DEF Renewed
<1>2. PICK x \in rows' : x.period = r.period /\ x.doc # None /\ x.born = r.born BY <1>1
<1> QED BY <1>1, <1>2 DEF Renewed

LEMMA RenewingStep ==
  ASSUME TypeOK, Placed, Stamped, NEW j \in Jobs, Stationed(j), Synced(j), Booked(j), Renewing(j),
         Step(j) /\ ~Refuse(j)
  PROVE  Renewing(j)'
<1> SUFFICES ASSUME job'[j].op = "extract", job'[j].todo # {} PROVE Renewing(j)'
  BY DEF Renewing
<1>1. job[j].op = "extract" BY OpKept DEF Idle
<1>2. pc[j] \in RunPCs BY <1>1 DEF Stationed
<1>a. ASSUME job'[j].todo \subseteq job[j].todo, insights' \subseteq insights,
             \A r \in rows : r.doc # None =>
               \E x \in rows' : x.period = r.period /\ x.doc # None /\ x.born = r.born
      PROVE  Renewing(j)'
  BY <1>1, <1>a, RenewedKept DEF Renewing
<1>3. CASE \/ UploadCommit(j) \/ StartRun(j) \/ Fetch(j) \/ Score(j)
  <2>1. job' = job /\ rows' = rows /\ insights' = insights
    BY <1>3 DEF UploadCommit, StartRun, Fetch, Score, tables
  <2> QED BY <1>a, <2>1
<1>4. CASE Persist(j)
  <2>1. PICK new : /\ rows' = rows \cup new /\ Fresh(new, job[j].doc)
                   /\ job'[j].todo = PeriodsOf(new)
    BY <1>4, PersistEffect
  <2>2. insights' = insights BY <1>4, PersistEffect
  <2>3. job[j].doc # None BY <1>1, NoneIsFresh DEF Stationed
  <2>4. \A i \in insights : clock + 1 > i.id
    <3> SUFFICES ASSUME NEW i \in insights PROVE clock + 1 > i.id OBVIOUS
    <3>1. i.id \in Nat /\ clock \in Nat /\ i.id <= clock BY DEF TypeOK, Insight, Stamped
    <3> QED BY <3>1
  <2>5. ASSUME NEW p \in PeriodsOf(new) PROVE Renewed(p)'
    <3>1. PICK r \in new : r.period = p BY DEF PeriodsOf
    <3>2. r.born = clock + 1 /\ r.doc = job[j].doc BY <2>1 DEF Fresh
    <3> QED BY <2>1, <2>2, <2>3, <2>4, <3>1, <3>2 DEF Renewed
  <2> QED BY <2>1, <2>5 DEF Renewing
<1>5. CASE ValidationRead(j) \/ Refresh(j)
  <2>1. job'[j].todo = job[j].todo /\ rows' = rows /\ insights' = insights
    BY <1>5, ReadEffect, RefreshEffect
  <2> QED BY <1>a, <2>1
<1>6. CASE ValidationCommit(j)
  <2>1. /\ rows' = {Settled(j, r) : r \in rows} /\ insights' = insights
        /\ job'[j].todo = job[j].todo
    BY <1>6, SettleEffect
  <2>2. ASSUME NEW r \in rows, r.doc # None
        PROVE  \E x \in rows' : x.period = r.period /\ x.doc # None /\ x.born = r.born
    <3>1. Settled(j, r).period = r.period /\ Settled(j, r).doc = r.doc /\ Settled(j, r).born = r.born
      BY SettledRow DEF TypeOK
    <3> QED BY <2>1, <2>2, <3>1
  <2> QED BY <1>a, <2>1, <2>2
<1>7. CASE ComputeRead(j) \/ ComputeDelete(j) \/ Look(j) \/ TakeLock(j) \/ DropMetrics(j)
  <2>1. job'[j].todo \subseteq job[j].todo /\ rows' = rows /\ insights' = insights
    BY <1>7, ComputeReadEffect, ComputeDeleteEffect, LookEffect, DropEffect DEF Passed
  <2> QED BY <1>a, <2>1
<1>8. CASE ComputeCommit(j)
  <2>1. /\ rows' = {Detached(j, r) : r \in Visible(j)}
        /\ insights' \subseteq insights /\ job'[j].todo \subseteq job[j].todo
    BY <1>8, ComputeCommitEffect DEF Passed
  <2>2. tx[j].gone = {} BY <1>1 DEF Booked, Clearing
  <2>3. rows' = rows BY <2>1, <2>2, CommittedRows DEF Visible
  <2> QED BY <1>a, <2>1, <2>3
<1>9. CASE \/ Invalidate(j) \/ AddInsert(j) \/ DeleteRows(j) \/ DeleteDoc(j) \/ ListRemaining(j)
           \/ ClearInsights(j) \/ FinishDelete(j) \/ FinishReExtract(j) \/ Schedule(j)
           \/ PriorPeriod(j) \/ NarrativeDelete(j) \/ NarrativeSave(j)
  BY <1>2, <1>9
     DEF RunPCs, Before, Invalidate, AddInsert, DeleteRows, DeleteDoc, ListRemaining, ClearInsights,
         FinishDelete, FinishReExtract, Schedule, PriorPeriod, NarrativeDelete, NarrativeSave
<1>10. CASE Close(j)
  <2>1. job'[j] = Idle BY <1>10 DEF Close, End, TypeOK
  <2> QED BY <2>1 DEF Idle
<1> QED BY <1>3, <1>4, <1>5, <1>6, <1>7, <1>8, <1>9, <1>10 DEF Step

LEMMA ReadingRequest ==
  ASSUME TypeOK, NEW j \in Jobs, Stationed(j), Booked(j), Request(j)
  PROVE  Reading(j)' /\ Renewing(j)'
<1> USE DEF Opened
<1>1. job[j].op = "none" BY RequestEffect DEF Stationed
<1>2. tx'[j].drop = {} BY <1>1, RequestEffect DEF Booked, Clearing
<1>3. job'[j].src = {} BY RequestEffect
<1>4. job'[j].op \in Readers => pc'[j] = "look" BY RequestEffect DEF Readers, Clearing
<1>5. job'[j].op = "extract" => job'[j].todo = {} BY RequestEffect DEF Clearing
<1> QED BY <1>2, <1>3, <1>4, <1>5 DEF Reading, Renewing

Outdated(S, i) == \E r \in S : r.period = i.period /\ r.doc # None /\ r.born > i.id

(* What the session is about to drop.                                       *)
Doomed(j, i) ==
  \/ job[j].op \in Clearing /\ i.id \in tx[j].dropI
  \/ job[j].op \in Clearing \cup {"override", "add"} /\ i.period \in job[j].todo
  \/ pc[j] \in {"iclear", "invalidate"} /\ i.period = job[j].cur

Follows(j, i) ==
  \/ i.src \subseteq Standing(j, i.period)
  \/ Outdated(Visible(j), i)
  \/ Doomed(j, i)

(* Until a writer starts to replace metrics, it has no narrative to drop.   *)
Early == {"drows", "ddoc", "remain", "insert", "refresh", "vread", "vcommit"}

Followed(j) ==
  /\ \A i \in insights : Follows(j, i)
  /\ pc[j] \in Early /\ job[j].op # "extract" =>
       \A i \in insights : i.src \subseteq Standing(j, i.period) \/ Outdated(rows, i)

LEMMA OutdatedKept ==
  ASSUME NEW S, NEW T, NEW i, Outdated(S, i),
         \A r \in S : r.doc # None /\ r.period = i.period =>
           \E x \in T : x.period = r.period /\ x.doc # None /\ x.born = r.born
  PROVE  Outdated(T, i)
<1>1. PICK r \in S : r.period = i.period /\ r.doc # None /\ r.born > i.id BY DEF Outdated
<1>2. PICK x \in T : x.period = r.period /\ x.doc # None /\ x.born = r.born BY <1>1
<1> QED BY <1>1, <1>2 DEF Outdated

LEMMA FollowedStep ==
  ASSUME TypeOK, Placed, Stamped, NEW j \in Jobs, Stationed(j), Synced(j), Booked(j), Agenda(j),
         Reading(j), Renewing(j), Followed(j), Step(j) /\ ~Refuse(j)
  PROVE  Followed(j)'
<1>o. job[j].op \in OpNames BY DEF TypeOK, Job
<1>v. ASSUME tx'[j].gone = tx[j].gone, rows \subseteq rows' PROVE Visible(j) \subseteq Visible(j)'
  BY <1>v DEF Visible
<1>u. ASSUME NEW S, NEW T, NEW i, S \subseteq T, Outdated(S, i) PROVE Outdated(T, i)
  BY <1>u, OutdatedKept
<1>a. ASSUME insights' = insights, metrics' = metrics, tx'[j].drop = tx[j].drop,
             rows \subseteq rows', tx'[j].gone = tx[j].gone,
             \A i \in insights : Doomed(j, i) => Doomed(j, i)',
             pc'[j] \in Early /\ job'[j].op # "extract" => pc[j] \in Early /\ job[j].op # "extract"
      PROVE  Followed(j)'
  <2>1. \A p : Standing(j, p)' = Standing(j, p) BY <1>a DEF Standing
  <2>2. \A i : Outdated(rows, i) => Outdated(rows', i) BY <1>a, <1>u
  <2>3. \A i : Outdated(Visible(j), i) => Outdated(Visible(j)', i) BY <1>a, <1>u, <1>v
  <2>4. \A i \in insights : Follows(j, i)' BY <1>a, <2>1, <2>3 DEF Followed, Follows, Outdated
  <2>5. pc'[j] \in Early /\ job'[j].op # "extract" =>
          \A i \in insights : i.src \subseteq Standing(j, i.period)' \/ Outdated(rows', i)
    BY <1>a, <2>1, <2>2 DEF Followed
  <2> QED BY <1>a, <2>4, <2>5 DEF Followed, Outdated
<1>d. ASSUME job'[j].op = job[j].op, job'[j].todo = job[j].todo, tx'[j].dropI = tx[j].dropI,
             pc[j] \notin {"iclear", "invalidate"}
      PROVE  \A i : Doomed(j, i) => Doomed(j, i)'
  BY <1>d DEF Doomed
(* One period is passed, its batches dropped or not.                        *)
<1>p. ASSUME NEW p, NEW found, Passed(j, p, found), tx'[j].dropI = tx[j].dropI,
             pc[j] \notin {"iclear", "invalidate"}
      PROVE  \A i : Doomed(j, i) => Doomed(j, i)'
  <2> SUFFICES ASSUME NEW i, Doomed(j, i) PROVE Doomed(j, i)' OBVIOUS
  <2>1. /\ job'[j].op = job[j].op /\ job'[j].todo = job[j].todo \ {p} /\ job'[j].cur = p
        /\ pc'[j] = AfterPeriod(j, p)
    BY <1>p DEF Passed, Same
  <2>2. job[j].op \in Clearing \cup {"override", "add"} => pc'[j] \in {"iclear", "invalidate"}
    BY <2>1 DEF AfterPeriod, Clearing
  <2> QED BY <1>p, <2>1, <2>2 DEF Doomed
<1>e. ASSUME NEW p, NEW found, Passed(j, p, found) PROVE pc'[j] \notin Early
  BY <1>e DEF Passed, AfterPeriod, RunEnd, Early
<1>1. CASE UploadCommit(j) \/ StartRun(j) \/ Fetch(j) \/ Score(j)
  <2>1. metrics' = metrics /\ tx' = tx /\ job' = job /\ rows' = rows /\ insights' = insights
    BY <1>1 DEF UploadCommit, StartRun, Fetch, Score, tables
  <2>2. /\ pc[j] \in {"saved", "start", "fetch", "score"}
        /\ pc'[j] \in {"start", "fetch", "persist", "done"}
    BY <1>1 DEF UploadCommit, StartRun, Fetch, Score, Goto, TypeOK
  <2> QED BY <1>a, <1>d, <2>1, <2>2 DEF Early
<1>2. CASE Persist(j)
  <2>1. /\ pc[j] = "persist" /\ metrics' = metrics /\ tx' = tx /\ insights' = insights
        /\ job'[j].op = job[j].op /\ rows \subseteq rows'
    BY <1>2, PersistEffect DEF Same
  <2>2. job[j].op = "extract"
    BY <1>o, <2>1
       DEF Stationed, OpNames, Clearing, Writing, DeletePCs, EntryPCs, Placed, PlacedAt,
           Readers, ReaderPCs
  <2>3. \A i : ~Doomed(j, i) BY <2>1, <2>2 DEF Doomed, Clearing
  <2> QED BY <1>a, <2>1, <2>2, <2>3
<1>3. CASE ValidationRead(j) \/ Refresh(j)
  <2>1. /\ pc[j] \in {"vread", "refresh"} /\ pc'[j] \in {"vread", "vcommit"}
        /\ metrics' = metrics /\ tx' = tx /\ rows' = rows /\ insights' = insights
        /\ job'[j].op = job[j].op /\ job'[j].todo = job[j].todo
    BY <1>3, ReadEffect, RefreshEffect DEF Same
  <2> QED BY <1>a, <1>d, <2>1 DEF Early
<1>4. CASE ValidationCommit(j)
  <2>1. /\ pc[j] = "vcommit" /\ pc'[j] \in {"score", "done", "metrics"}
        /\ metrics' = metrics /\ tx' = tx /\ rows' = {Settled(j, r) : r \in rows}
        /\ insights' = insights /\ job'[j].op = job[j].op /\ job'[j].todo = job[j].todo
    BY <1>4, SettleEffect DEF Same, RunEnd
  <2>2. ASSUME NEW i \in insights, Outdated(Visible(j), i) PROVE Outdated(Visible(j)', i)
    <3>1. ASSUME NEW r \in Visible(j), r.doc # None
          PROVE  \E x \in Visible(j)' : x.period = r.period /\ x.doc # None /\ x.born = r.born
      <4>1. /\ RowId(Settled(j, r)) = RowId(r) /\ Settled(j, r).period = r.period
            /\ Settled(j, r).doc = r.doc /\ Settled(j, r).born = r.born
        BY SettledRow DEF TypeOK, Visible
      <4>2. Settled(j, r) \in Visible(j)' BY <2>1, <4>1 DEF Visible
      <4> QED BY <3>1, <4>1, <4>2
    <3> QED BY <2>2, <3>1, OutdatedKept
  <2>3. \A p : Standing(j, p)' = Standing(j, p) BY <2>1 DEF Standing
  <2>4. \A i \in insights : Follows(j, i)'
    BY <1>d, <2>1, <2>2, <2>3 DEF Followed, Follows, Outdated
  <2> QED BY <2>1, <2>4 DEF Followed, Early
<1>k. ASSUME rows' = {Detached(j, r) : r \in Visible(j)}, tx'[j] = NoTx
      PROVE  Visible(j)' = Visible(j)
  <2>1. rows' = Visible(j) BY <1>k, CommittedRows
  <2>2. tx'[j].gone = {} BY <1>k DEF NoTx
  <2> QED BY <2>1, <2>2 DEF Visible
(* A commit takes away nothing that was to stay.                            *)
<1>c. ASSUME rows' = {Detached(j, r) : r \in Visible(j)}, tx'[j] = NoTx,
             {b \in metrics : b.id \notin tx[j].drop} \subseteq metrics',
             NEW i \in insights, Doomed(j, i) => Doomed(j, i)'
      PROVE  Follows(j, i)'
  <2>1. Standing(j, i.period) \subseteq Standing(j, i.period)' BY <1>c, StandingCommitted
  <2>2. Visible(j)' = Visible(j) BY <1>c, <1>k
  <2> QED BY <1>c, <2>1, <2>2 DEF Followed, Follows, Outdated
<1>5. CASE ComputeRead(j)
  <2>1. /\ pc[j] = "metrics" /\ metrics' = metrics /\ rows' = rows /\ tx' = tx
        /\ insights' = insights
    BY <1>5, ComputeReadEffect
  <2>2. PICK p \in job[j].todo :
          \/ Passed(j, p, {})
          \/ pc'[j] = "mdelete" /\ job'[j].op = job[j].op /\ job'[j].todo = job[j].todo
    BY <1>5, ComputeReadEffect DEF Same
  <2>3. CASE Passed(j, p, {}) BY <1>a, <1>e, <1>p, <2>1, <2>3
  <2>4. CASE pc'[j] = "mdelete" /\ job'[j].op = job[j].op /\ job'[j].todo = job[j].todo
    BY <1>a, <1>d, <2>1, <2>4 DEF Early
  <2> QED BY <2>2, <2>3, <2>4
<1>6. CASE ComputeDelete(j)
  <2> DEFINE q == job[j].cur
  <2>1. /\ pc[j] = "mdelete" /\ pc'[j] = "mcommit" /\ metrics' = metrics /\ rows' = rows
        /\ insights' = insights /\ job' = job
        /\ tx'[j].gone = tx[j].gone /\ tx'[j].dropI = tx[j].dropI
        /\ tx'[j].drop = tx[j].drop \cup IdsOf(BatchesOf(q))
    BY <1>6, ComputeDeleteEffect
  <2>2. \A i : Doomed(j, i) => Doomed(j, i)' BY <1>d, <2>1
  <2>3. Visible(j)' = Visible(j) BY <2>1 DEF Visible
  <2>4. ASSUME NEW i \in insights, i.period # q PROVE Follows(j, i)'
    <3>1. Standing(j, i.period) \subseteq Standing(j, i.period)'
      BY <2>1, <2>4, StandingElsewhere
    <3> QED BY <2>2, <2>3, <3>1 DEF Followed, Follows, Outdated
  <2>5. ASSUME NEW i \in insights, i.period = q PROVE Follows(j, i)'
    <3>1. CASE job[j].op \in Clearing \cup {"override", "add"}
      <4>1. q \in job[j].todo BY <2>1, <3>1 DEF Agenda, Readers, Clearing
      <4> QED BY <2>1, <2>5, <3>1, <4>1 DEF Follows, Doomed
    <3>2. CASE job[j].op = "extract"
      <4>1. Renewed(q) BY <2>1, <3>2 DEF Agenda, Readers, Renewing
      <4>2. Outdated(rows, i) BY <2>5, <4>1 DEF Renewed, Outdated
      <4>3. Visible(j)' = rows BY <2>3, <3>2 DEF Booked, Visible, Clearing
      <4> QED BY <4>2, <4>3 DEF Follows, Outdated
    <3>3. CASE job[j].op \in Readers
      <4>1. BatchesOf(q) = {} BY <2>1, <3>3 DEF Reading
      <4>2. tx'[j].drop = tx[j].drop BY <2>1, <4>1 DEF IdsOf
      <4>3. Standing(j, i.period)' = Standing(j, i.period) BY <2>1, <4>2 DEF Standing
      <4> QED BY <2>2, <2>3, <4>3 DEF Followed, Follows, Outdated
    <3>4. job[j].op # "none" BY <2>1 DEF Stationed
    <3> QED BY <1>o, <3>1, <3>2, <3>3, <3>4 DEF OpNames, Writing, Clearing, Readers
  <2> QED BY <2>1, <2>4, <2>5 DEF Followed, Early
<1>7. CASE ComputeCommit(j)
  <2>1. /\ pc[j] = "mcommit" /\ tx'[j] = NoTx /\ Passed(j, job[j].cur, {clock + 1})
        /\ rows' = {Detached(j, r) : r \in Visible(j)}
        /\ {b \in metrics : b.id \notin tx[j].drop} \subseteq metrics'
        /\ insights' = {i \in insights : i.id \notin tx[j].dropI}
    BY <1>7, ComputeCommitEffect
  <2>2. ASSUME NEW i \in insights', Doomed(j, i) PROVE Doomed(j, i)'
    <3>1. job[j].op \in Clearing \cup {"override", "add"} /\ i.period \in job[j].todo
      BY <2>1, <2>2 DEF Doomed
    <3>2. /\ job'[j].op = job[j].op /\ job'[j].todo = job[j].todo \ {job[j].cur}
          /\ job'[j].cur = job[j].cur /\ pc'[j] = AfterPeriod(j, job[j].cur)
      BY <2>1 DEF Passed, Same
    <3>3. pc'[j] \in {"iclear", "invalidate"} BY <3>1, <3>2 DEF AfterPeriod, Clearing
    <3> QED BY <3>1, <3>2, <3>3 DEF Doomed
  <2>3. \A i \in insights' : Follows(j, i)' BY <1>c, <2>1, <2>2
  <2> QED BY <1>e, <2>1, <2>3 DEF Followed
<1>8. CASE Look(j) \/ TakeLock(j)
  <2>1. /\ pc[j] \in {"look", "lock"} /\ metrics' = metrics /\ rows' = rows /\ tx' = tx
        /\ insights' = insights
        /\ \/ \E p, found : Passed(j, p, found)
           \/ /\ job'[j].op = job[j].op /\ job'[j].todo = job[j].todo
              /\ pc'[j] \in {"lock", "metrics"}
    BY <1>8, LookEffect DEF Same
  <2>2. CASE \E p, found : Passed(j, p, found) BY <1>a, <1>e, <1>p, <2>1, <2>2
  <2>3. CASE /\ job'[j].op = job[j].op /\ job'[j].todo = job[j].todo
             /\ pc'[j] \in {"lock", "metrics"}
    BY <1>a, <1>d, <2>1, <2>3 DEF Early
  <2> QED BY <2>1, <2>2, <2>3
<1>9. CASE AddInsert(j)
  <2>0. pc[j] = "insert" BY <1>9 DEF AddInsert
  <2>1. /\ metrics' = metrics /\ tx' = tx /\ insights' = insights /\ rows \subseteq rows'
        /\ job'[j].op = job[j].op /\ job'[j].todo = job[j].todo
    BY <1>9, <2>0, AddEffect DEF Same, Synced
  <2> QED BY <1>a, <1>d, <2>0, <2>1 DEF Early
<1>10. CASE Invalidate(j)
  <2>1. /\ pc[j] = "invalidate" /\ pc'[j] = "done" /\ metrics' = metrics /\ tx' = tx
        /\ rows' = rows /\ job' = job /\ insights' = insights \ NotesOf(job[j].cur)
    BY <1>10 DEF Invalidate, Goto, TypeOK
  <2>2. job[j].op \notin Clearing BY <2>1 DEF Stationed, DeletePCs, Clearing
  <2>3. job[j].op \in {"override", "add"} => job[j].todo = {} BY <2>1 DEF Agenda, Writing
  <2>4. \A i \in insights' : ~Doomed(j, i) BY <2>1, <2>2, <2>3 DEF Doomed, NotesOf
  <2>5. Visible(j)' = Visible(j) /\ \A p : Standing(j, p)' = Standing(j, p)
    BY <2>1 DEF Visible, Standing
  <2>6. \A i \in insights' : Follows(j, i)'
    BY <2>1, <2>4, <2>5 DEF Followed, Follows, Outdated
  <2> QED BY <2>1, <2>6 DEF Followed, Early
<1>11. CASE DeleteRows(j)
  <2>1. /\ pc[j] = "drows" /\ pc'[j] \in {"ddoc", "remain", "close"} /\ job' = job /\ rows' = rows /\ metrics' = metrics
        /\ insights' = insights
        /\ tx'[j].gone = Ids(OfDoc(job[j].doc)) /\ tx'[j].drop = tx[j].drop
    BY <1>11, DeleteRowsEffect DEF AfterClearing
  <2>2. job[j].op \in Clearing BY <2>1 DEF Stationed
  <2>3. \A p : Standing(j, p)' = Standing(j, p) BY <2>1 DEF Standing
  <2>4. \A i \in insights : i.src \subseteq Standing(j, i.period) \/ Outdated(rows, i)
    BY <2>1, <2>2 DEF Followed, Early, Clearing
  <2>5. ASSUME NEW i \in insights, Outdated(rows, i) PROVE Follows(j, i)'
    <3>1. PICK r \in rows : r.period = i.period /\ r.doc # None /\ r.born > i.id
      BY <2>5 DEF Outdated
    <3>2. CASE RowId(r) \in Ids(OfDoc(job[j].doc))
      <4>1. i.period \in job[j].todo BY <2>1, <3>1, <3>2, KeyOfDoc DEF Agenda
      <4> QED BY <2>1, <2>2, <4>1 DEF Follows, Doomed, Clearing
    <3>3. CASE RowId(r) \notin Ids(OfDoc(job[j].doc))
      <4>1. r \in Visible(j)' BY <2>1, <3>3 DEF Visible
      <4> QED BY <3>1, <4>1 DEF Follows, Outdated
    <3> QED BY <3>2, <3>3
  <2>6. \A i \in insights : Follows(j, i)' BY <2>3, <2>4, <2>5 DEF Follows
  <2>7. \A i \in insights : i.src \subseteq Standing(j, i.period)' \/ Outdated(rows', i)
    BY <2>1, <2>3, <2>4
  <2> QED BY <2>1, <2>6, <2>7 DEF Followed, Outdated
<1>12. CASE DeleteDoc(j) \/ ListRemaining(j)
  <2>1. /\ pc[j] \in {"ddoc", "remain"} /\ pc'[j] \in {"close", "remain", "metrics"}
        /\ rows' = rows /\ metrics' = metrics /\ insights' = insights
        /\ job'[j].op = job[j].op /\ job'[j].todo = job[j].todo
        /\ tx'[j].gone = tx[j].gone /\ tx'[j].drop = tx[j].drop /\ tx'[j].dropI = tx[j].dropI
    BY <1>12, DeleteDocEffect, RemainEffect DEF AfterClearing
  <2> QED BY <1>a, <1>d, <2>1 DEF Early
<1>13. CASE DropMetrics(j)
  <2>1. PICK p : Passed(j, p, {}) /\ tx'[j].drop = tx[j].drop \cup IdsOf(BatchesOf(p))
    BY <1>13, DropEffect
  <2>2. /\ pc[j] = "metrics" /\ job[j].op \in Clearing /\ rows' = rows /\ metrics' = metrics
        /\ insights' = insights /\ tx'[j].gone = tx[j].gone /\ tx'[j].dropI = tx[j].dropI
    BY <1>13, DropEffect
  <2>3. \A i : Doomed(j, i) => Doomed(j, i)' BY <1>p, <2>1, <2>2
  <2>4. Visible(j)' = Visible(j) BY <2>2 DEF Visible
  <2>5. ASSUME NEW i \in insights, i.period # p PROVE Follows(j, i)'
    <3>1. Standing(j, i.period) \subseteq Standing(j, i.period)'
      BY <2>1, <2>2, <2>5, StandingElsewhere
    <3> QED BY <2>3, <2>4, <3>1 DEF Followed, Follows, Outdated
  <2>6. ASSUME NEW i \in insights, i.period = p PROVE Follows(j, i)'
    <3>1. pc'[j] = "iclear" /\ job'[j].cur = p BY <2>1, <2>2 DEF Passed, AfterPeriod, Clearing
    <3> QED BY <2>6, <3>1 DEF Follows, Doomed
  <2> QED BY <1>e, <2>1, <2>2, <2>5, <2>6 DEF Followed
<1>14. CASE ClearInsights(j)
  <2>1. /\ pc[j] = "iclear" /\ pc'[j] \in {"close", "metrics"} /\ rows' = rows
        /\ metrics' = metrics /\ insights' = insights /\ job' = job
        /\ tx'[j].gone = tx[j].gone /\ tx'[j].drop = tx[j].drop
        /\ tx'[j].dropI = tx[j].dropI \cup IdsOf(NotesOf(job[j].cur))
    BY <1>14, ClearEffect
  <2>2. job[j].op \in Clearing
    BY <1>o, <2>1 DEF Stationed, OpNames, Writing, RunPCs, Before, EntryPCs, Readers, ReaderPCs
  <2>3. \A i \in insights : Doomed(j, i) => Doomed(j, i)'
    BY <2>1, <2>2 DEF Doomed, IdsOf, NotesOf
  <2> QED BY <1>a, <2>1, <2>3 DEF Early
<1>15. CASE FinishDelete(j) \/ FinishReExtract(j)
  <2>1. /\ pc[j] = "close" /\ pc'[j] \in {"done", "reload"} /\ tx'[j] = NoTx
        /\ rows' = {Detached(j, r) : r \in Visible(j)}
        /\ {b \in metrics : b.id \notin tx[j].drop} \subseteq metrics'
        /\ insights' = {i \in insights : i.id \notin tx[j].dropI}
    BY <1>15, FinishEffect
  <2>2. job[j].op \in Clearing \cup {"override", "add"} => job[j].todo = {}
    BY <2>1 DEF Agenda, Writing
  <2>3. \A i \in insights' : ~Doomed(j, i) BY <2>1, <2>2 DEF Doomed
  <2>4. \A i \in insights' : Follows(j, i)' BY <1>c, <2>1, <2>3
  <2> QED BY <2>1, <2>4 DEF Followed, Early
<1>16. CASE NarrativeSave(j)
  <2> DEFINE new == [id |-> clock + 1, period |-> job[j].target, aud |-> job[j].aud,
                     src |-> job[j].src, edited |-> FALSE]
  <2>1. /\ pc[j] = "isave" /\ pc'[j] = "done" /\ tx'[j] = NoTx
        /\ rows' = {Detached(j, r) : r \in Visible(j)}
        /\ {b \in metrics : b.id \notin tx[j].drop} \subseteq metrics'
        /\ insights' = {i \in insights : i.id \notin tx[j].dropI} \cup {new}
    BY <1>16, SaveEffect
  <2>2. job[j].op = "insight" BY <2>1 DEF Placed, PlacedAt
  <2>3. \A i \in insights : ~Doomed(j, i) BY <2>1, <2>2 DEF Doomed, Clearing
  <2>4. \A i \in insights : Follows(j, i)' BY <1>c, <2>1, <2>3
  <2>5. ASSUME NEW i, i = new PROVE Follows(j, i)'
    <3>1. job[j].src \subseteq Standing(j, job[j].target) BY <2>2 DEF Reading, Readers
    <3>2. \A p : Standing(j, p) \subseteq Standing(j, p)' BY <2>1, StandingCommitted
    <3>3. i.src = job[j].src /\ i.period = job[j].target BY <2>5
    <3> QED BY <3>1, <3>2, <3>3 DEF Follows
  <2>6. ASSUME NEW i \in insights' PROVE Follows(j, i)'
    <3> HIDE DEF new
    <3> QED BY <2>1, <2>4, <2>5
  <2> QED BY <2>1, <2>6 DEF Followed, Early
<1>17. CASE PriorPeriod(j) \/ NarrativeDelete(j)
  <2>1. /\ pc[j] \in {"prior", "llm"} /\ pc'[j] \in {"llm", "look", "isave"}
        /\ rows' = rows /\ metrics' = metrics /\ insights' = insights
        /\ tx'[j].gone = tx[j].gone /\ tx'[j].drop = tx[j].drop
    BY <1>17, PriorEffect, NarrativeDeleteEffect
  <2>2. job[j].op = "insight" BY <2>1 DEF Placed, PlacedAt
  <2>3. \A i \in insights : ~Doomed(j, i) BY <2>1, <2>2 DEF Doomed, Clearing
  <2> QED BY <1>a, <2>1, <2>3 DEF Early
<1>18. CASE Close(j)
  <2>1. /\ pc[j] = "done" /\ pc'[j] = "idle" /\ tx'[j] = NoTx /\ rows' = rows
        /\ metrics' = metrics /\ insights' = insights
    BY <1>18 DEF Close, End, TypeOK, tables
  <2>2. tx[j].gone = {} /\ tx[j].drop = {} /\ tx[j].dropI = {} BY <2>1 DEF Booked
  <2>3. tx'[j].gone = {} /\ tx'[j].drop = {} BY <2>1 DEF NoTx
  <2>4. job[j].op \in Clearing \cup {"override", "add"} => job[j].todo = {}
    BY <2>1 DEF Agenda, Writing
  <2>5. \A i \in insights : ~Doomed(j, i) BY <2>1, <2>2, <2>4 DEF Doomed
  <2> QED BY <1>a, <2>1, <2>2, <2>3, <2>5 DEF Early
<1>19. CASE Schedule(j)
  <2>1. /\ pc[j] = "reload" /\ pc'[j] = "start" /\ tx' = tx /\ rows' = rows
        /\ metrics' = metrics /\ insights' = insights
    BY <1>19, ScheduleEffect
  <2>2. tx[j].dropI = {} BY <2>1 DEF Stationed, NoTx
  <2>3. job[j].op \in Clearing \cup {"override", "add"} => job[j].todo = {}
    BY <2>1 DEF Agenda, Writing
  <2>4. \A i \in insights : ~Doomed(j, i) BY <2>1, <2>2, <2>3 DEF Doomed
  <2> QED BY <1>a, <2>1, <2>4 DEF Early
<1> QED BY <1>1, <1>2, <1>3, <1>4, <1>5, <1>6, <1>7, <1>8, <1>9, <1>10, <1>11, <1>12, <1>13, <1>14,
           <1>15, <1>16, <1>17, <1>18, <1>19 DEF Step

LEMMA FollowedRequest ==
  ASSUME TypeOK, NEW j \in Jobs, Stationed(j), Stamped, Booked(j), Followed(j), Request(j)
  PROVE  Followed(j)'
<1> USE DEF Opened
<1>1. job[j].op = "none" /\ pc[j] = "idle" /\ metrics' = metrics /\ insights' = insights
  BY RequestEffect DEF Stationed
<1>2. tx[j].gone = {} /\ tx'[j].drop = tx[j].drop BY <1>1, RequestEffect DEF Booked, Clearing
<1>3. \A i \in insights : i.src \subseteq Standing(j, i.period) \/ Outdated(rows, i)
  <2>1. Visible(j) = rows BY <1>2 DEF Visible
  <2> QED BY <1>1, <2>1 DEF Followed, Follows, Doomed, Clearing
<1>4. \A p : Standing(j, p)' = Standing(j, p) BY <1>1, <1>2 DEF Standing
<1>5. CASE /\ rows' = rows /\ tx' = tx
  <2>1. Visible(j)' = rows BY <1>2, <1>5 DEF Visible
  <2> QED BY <1>1, <1>3, <1>4, <1>5, <2>1 DEF Followed, Follows, Outdated
<1>6. CASE /\ tx' = tx
           /\ \E r \in rows, v \in Values :
                /\ rows' = (rows \ {r}) \cup {Overridden(r, v)}
                /\ Opened(j, "refresh", "override", None, {Overridden(r, v)}, {r.period})
  <2>1. PICK r \in rows, v \in Values : rows' = (rows \ {r}) \cup {Overridden(r, v)}
    BY <1>6
  <2>2. /\ Overridden(r, v).period = r.period /\ Overridden(r, v).doc = r.doc
        /\ Overridden(r, v).born = r.born
    BY OverriddenRow DEF TypeOK
  <2>3. \A t \in rows : t.doc # None =>
          \E x \in rows' : x.period = t.period /\ x.doc # None /\ x.born = t.born
    BY <2>1, <2>2
  <2>4. \A i : Outdated(rows, i) => Outdated(rows', i) BY <2>3, OutdatedKept
  <2>5. Visible(j)' = rows' BY <1>2, <1>6 DEF Visible
  <2> QED BY <1>1, <1>3, <1>4, <2>4, <2>5 DEF Followed, Follows, Outdated
<1> QED BY <1>5, <1>6, RequestEffect

LEMMA FollowedRaise ==
  ASSUME TypeOK, NEW j \in Jobs, Stationed(j), Booked(j), Agenda(j), Followed(j), Raise(j),
         pc[j] \notin MidCompute \cup {"invalidate"}
  PROVE  Followed(j)'
<1>1. /\ pc'[j] = "idle" /\ job'[j] = Idle /\ tx'[j] = NoTx
      /\ rows' = rows /\ metrics' = metrics /\ insights' = insights
  BY RaiseEffect
<1>2. Visible(j)' = rows
  <2>1. tx'[j].gone = {} BY <1>1 DEF NoTx
  <2> QED BY <1>1, <2>1 DEF Visible
<1>3. \A p : Standing(j, p) \subseteq Standing(j, p)' BY <1>1 DEF Standing, NoTx
<1>4. ASSUME NEW i \in insights PROVE i.src \subseteq Standing(j, i.period) \/ Outdated(rows, i)
  <2>1. CASE pc[j] \in Early /\ job[j].op # "extract" BY <2>1 DEF Followed
  <2>2. CASE ~(pc[j] \in Early /\ job[j].op # "extract")
    <3>1. pc[j] \notin MidCompute /\ pc[j] # "invalidate" OBVIOUS
    <3>2. job[j].op \in Clearing => pc[j] \in {"done", "reload"}
      BY <2>2, <3>1 DEF MidCompute, Stationed, DeletePCs, Early, Clearing
    <3>3. job[j].op \in {"override", "add"} => pc[j] \in {"score", "done"}
      BY <2>2, <3>1 DEF MidCompute, Stationed, EntryPCs, Early
    <3>4. job[j].op \in Clearing \cup {"override", "add"} => job[j].todo = {}
      BY <3>2, <3>3 DEF Agenda, Writing
    <3>a. pc[j] = "reload" => tx[j].gone = {} /\ tx[j].dropI = {} BY DEF Stationed, NoTx
    <3>5. tx[j].gone = {} BY <3>2, <3>a DEF Booked
    <3>6. job[j].op \in Clearing => tx[j].dropI = {} BY <3>2, <3>a DEF Booked
    <3>7. ~Doomed(j, i) BY <3>1, <3>4, <3>6 DEF Doomed, MidCompute
    <3>8. Visible(j) = rows BY <3>5 DEF Visible
    <3> QED BY <3>7, <3>8 DEF Followed, Follows
  <2> QED BY <2>1, <2>2
<1> QED BY <1>1, <1>2, <1>3, <1>4 DEF Followed, Follows, Outdated, Early

(* Confirming or reverting an edit leaves the sources and the date.         *)
LEMMA FollowedAside ==
  ASSUME TypeOK, NEW j \in Jobs, Reading(j), Renewing(j), Followed(j),
         (\E d \in Docs : GenerateReport(d)) \/ (\E i \in insights : EditInsight(i))
         \/ UNCHANGED vars
  PROVE  Reading(j)' /\ Renewing(j)' /\ Followed(j)'
<1>1. UNCHANGED <<rows, metrics, pc, job, tx>> BY AsideEffect
<1>2. ASSUME NEW i \in insights'
      PROVE  \E k \in insights : k.id = i.id /\ k.period = i.period /\ k.src = i.src
  <2>1. CASE insights' = insights BY <2>1
  <2>2. CASE \E k \in insights, e \in BOOLEAN :
               insights' = (insights \ {k}) \cup {[k EXCEPT !.edited = e]}
    <3>1. PICK k \in insights, e \in BOOLEAN :
            insights' = (insights \ {k}) \cup {[k EXCEPT !.edited = e]}
      BY <2>2
    <3>2. k \in Insight BY DEF TypeOK
    <3>3. /\ [k EXCEPT !.edited = e].id = k.id /\ [k EXCEPT !.edited = e].period = k.period
          /\ [k EXCEPT !.edited = e].src = k.src
      BY <3>2 DEF Insight
    <3> QED BY <3>1, <3>3
  <2> QED BY <2>1, <2>2, AsideEffect
<1>3. /\ \A p : Standing(j, p)' = Standing(j, p)
      /\ \A p : BatchesOf(p)' = BatchesOf(p)
      /\ Visible(j)' = Visible(j)
  BY <1>1 DEF Standing, BatchesOf, Visible
<1>4. Reading(j)' BY <1>1, <1>3 DEF Reading, BatchesOf, Standing
<1>5. Renewing(j)'
  <2>1. ASSUME NEW p, Renewed(p) PROVE Renewed(p)'
    <3>1. PICK r \in rows : r.period = p /\ r.doc # None /\ \A i \in insights : r.born > i.id
      BY <2>1 DEF Renewed
    <3>2. \A i \in insights' : r.born > i.id BY <1>2, <3>1
    <3> QED BY <1>1, <3>1, <3>2 DEF Renewed
  <2> QED BY <1>1, <2>1 DEF Renewing
<1>6. Followed(j)'
  <2>1. ASSUME NEW i \in insights' PROVE Follows(j, i)'
    <3>1. PICK k \in insights : k.id = i.id /\ k.period = i.period /\ k.src = i.src BY <1>2
    <3>2. Follows(j, k) BY DEF Followed
    <3> QED BY <1>1, <1>3, <3>1, <3>2 DEF Follows, Outdated, Doomed
  <2>2. ASSUME NEW i \in insights', pc[j] \in Early /\ job[j].op # "extract"
        PROVE  i.src \subseteq Standing(j, i.period)' \/ Outdated(rows', i)
    <3>1. PICK k \in insights : k.id = i.id /\ k.period = i.period /\ k.src = i.src BY <1>2
    <3>2. k.src \subseteq Standing(j, k.period) \/ Outdated(rows, k) BY <2>2 DEF Followed
    <3> QED BY <1>1, <1>3, <3>1, <3>2 DEF Outdated
  <2> QED BY <1>1, <2>1, <2>2 DEF Followed, Outdated
<1> QED BY <1>4, <1>5, <1>6

Faithful(s) == Reading(s) /\ Renewing(s) /\ Followed(s)

LEMMA FaithfulNext ==
  ASSUME NEW s, Jobs = {s}, Undisturbed(MidCompute \cup {"invalidate"}), Tidy(s), Faithful(s),
         [Next]_vars
  PROVE  Faithful(s)'
<1> USE DEF Tidy, InStep, Faithful
<1>s. s \in Jobs OBVIOUS
<1>1. CASE Request(s) BY <1>s, <1>1, ReadingRequest, FollowedRequest
<1>2. CASE Step(s) /\ ~Refuse(s) BY <1>s, <1>2, ReadingStep, RenewingStep, FollowedStep
<1>3. CASE Fail(s) \/ Refuse(s)
  <2>1. pc[s] \notin MidCompute \cup {"invalidate"} /\ Raise(s)
    BY <1>3, SoleRefusal DEF Fail, Refuse, MidCompute, Undisturbed
  <2>2. Followed(s)' BY <1>s, <2>1, FollowedRaise
  <2>3. job'[s] = Idle BY <1>s, <2>1, RaiseEffect
  <2> QED BY <2>2, <2>3 DEF Reading, Renewing, Idle, Readers
<1>4. ~Crash BY NoCrash DEF Undisturbed
<1>5. CASE \/ (\E d \in Docs : GenerateReport(d)) \/ (\E i \in insights : EditInsight(i))
           \/ UNCHANGED vars
  BY <1>s, <1>5, FollowedAside
<1> QED BY <1>1, <1>2, <1>3, <1>4, <1>5, SoleCases

(* One session after the other, whatever fails but between the recomputation*)
(* of a period and the removal of its narratives: a cached narrative cites  *)
(* metrics that are still cached, unless a document extracted since it was  *)
(* written contributes to its period.                                       *)
THEOREM NarrativesFollow ==
  ASSUME OneSession, SeedsAreKeyed, Undisturbed(MidCompute \cup {"invalidate"})
  PROVE  Spec => []InsightsFollowMetrics
<1>1. PICK s : Jobs = {s} BY DEF OneSession
<1>2. Init => Faithful(s)
  BY <1>1, StationedInit DEF Init, Faithful, Reading, Renewing, Followed, Idle, Readers
<1>3. Tidy(s) /\ Faithful(s) /\ [Next]_vars => Faithful(s)' BY <1>1, FaithfulNext
<1>4. Tidy(s) /\ Faithful(s) => InsightsFollowMetrics
  <2> SUFFICES ASSUME Tidy(s), Faithful(s), Quiet, NEW i \in insights
               PROVE  \/ i.src \subseteq IdsOf(metrics)
                      \/ \E r \in rows : r.period = i.period /\ r.doc # None /\ r.born > i.id
    BY DEF InsightsFollowMetrics
  <2>1. job[s].op = "none" /\ pc[s] = "idle" BY <1>1 DEF Tidy, InStep, Stationed, Quiet
  <2>2. ~Doomed(s, i) BY <2>1 DEF Doomed, Clearing
  <2>3. i.src \subseteq Standing(s, i.period) \/ Outdated(Visible(s), i)
    BY <2>2 DEF Faithful, Followed, Follows
  <2>4. Standing(s, i.period) \subseteq IdsOf(metrics) BY DEF Standing, IdsOf
  <2> QED BY <2>3, <2>4 DEF Outdated, Visible
<1>5. Spec => []Tidy(s) BY <1>1, TidyAlways
<1> QED BY <1>2, <1>3, <1>4, <1>5, PTL DEF Spec
=============================================================================
