# Verification of the board-report pipeline

TLA+ models of the backend that turns a company's uploaded reports into the
figures, metrics and narratives a board reads, and of the accounts and
organizations that may read them, TLC runs that check them on small
instances, and TLAPS proofs for every size. Paths below are relative to
`src/`; "backend" is `src/backend/app`.

## 1. The system

A FastAPI application on PostgreSQL. Handlers are coroutines on one event loop,
each with a database session of its own; an extraction runs as a background task
after the response of the request that scheduled it. Nothing else is shared but
the tables, the document store and PostgreSQL's locks.

| Component | State | Operations | Talks to |
|---|---|---|---|
| Document routes (`api/v1/routes/documents.py`) | `document` table, PDF store | upload, re-extract, delete | storage, extraction, metrics cache |
| Extraction run (`services/extraction/pipeline.py`) | document status, line items | one run: processing, fetch, model call, persist, validate, recompute, score | storage, LLM, validation, metrics cache |
| Statement routes (`financial_statements.py`) | `financial_statement` table | manual entry, override | validation, metrics cache, insights |
| Validation (`services/validation`) | status of statements, `validation_result` | `run_validation` per period | |
| Metrics cache (`services/metrics/orchestrator.py`) | `metric` table, advisory locks | compute and store, get or compute, ensure all periods | statements |
| Narratives (`services/insight`, `insights.py`) | `insight` table | get or generate, regenerate, edit, revert | metrics cache, LLM |
| Accuracy report (`services/accuracy_report.py`) | one report per document | build, rebuild after a re-extraction | statements |
| Auto-fetch (`services/extraction/auto_fetch.py`) | documents, per-company fetch status | periodic crawl, on-demand check | storage, extraction |
| Metric formulas (`services/metrics/*.py`) | none | 22 metrics from the figures of a period and of those before it | |
| Organizations, invitations, members (`organizations.py`, `auth.py`) | users, roles, invitations | register, invite, accept, list, revoke, change role, remove, delete organization | storage |
| Authentication (`auth.py`, `core/security.py`) | tokens, TOTP secrets, backup codes, reset tokens, photo | login, two-factor, reset, photo | mailer, storage |
| Budgets, benchmarks, comments, companies, charts, export, health | one row each, or none | create, read, update, delete | metrics cache, narratives (export) |
| Frontend hooks and session (`frontend/src/hooks`, `auth`) | what the browser shows | polling, loading, login state | API |

What is hard here:

* **Interleaving.** Every `await` is a point where another handler runs. The code
  commits several times per request (line items, then validation, then each
  period's metrics), so others see every intermediate state.
* **Stale reads.** Sessions run with `autoflush=False, expire_on_commit=False`:
  an object that a session has loaded is not re-read, so a handler may compute
  from a value that another has replaced.
* **Locks.** Readers that recompute a period take an advisory transaction lock
  and look again; writers take none. A computation that returns early commits
  nothing, so its lock outlives the period it was taken for.
* **Failure.** An extraction catches whatever is raised in its try block and marks
  its document failed; what is raised before that, once a document is pending, leaves
  it so; other handlers roll back. A crash loses every session and background
  task and nothing looks for them at startup.
* **A document may go while its run goes on**, and a re-extraction may start
  while another run of the same document is under way.
* **Check, then write.** Membership and account handlers read rows, decide, and
  write the columns that differ from what they read; no row is locked in between,
  and only a row that has gone makes a write fail.
* **Files are not in the transaction.** A PDF or a photo is deleted at once, and
  the commit that should follow may never come.
* **Two keys for one thing.** Statements and metrics are stored by both ends of a
  period and looked up by its last day.
* **One session for many companies.** The crawler's loop keeps its session when a
  company fails: what that company's check flushed is committed by the next one.

What makes each component correct: the cache agrees with the statements it was
computed from; nothing flagged feeds a metric; a document's line items are those of
one extraction and go with it; every document reaches a final status; narratives cite metrics
that exist; validation flags exactly the figures that contradict each other; the
crawler fetches each filing once, within its budget, and every fetched document
is extracted; the metrics of a period agree with each other and name what would
complete them; an organization keeps an owner and its people, and nobody gets in
but as invited; a reset token or backup code works once and a factor is on only
for who proved to have it; the browser shows the answer to the question asked
last. All but the last are modelled; section 6 has the plan for the rest. `PROJECT.json` lists the hazards with the
line where each bites and the property that watches it.

## 2. Modules

| Module | Models | State and actions |
|---|---|---|
| `ValidationRules` | `rules.py`, verdict of `run_validation` | operators over a *sheet*, a function from taxonomy codes to values |
| `ValidationRun` | one period under repeated entry and validation | `value`, `status`, `fresh`; `Enter`, `Validate` |
| `ReportPipeline` | one company: documents, statements, metrics, narratives, every handler that touches them | below |
| `AutoFetch` | one organization's companies and the crawler that finds their filings | below |
| `MetricFormulas` | `services/metrics/{growth,profitability,cash,solvency,returns,common}.py` | one operator per formula, over a sheet and a history of periods |
| `PeriodMetrics` | one company's figures and the values cached from them | `sheet`, `cache`; `Enter`, `Flag`, `View` |
| `MetricCache` | what readers may expect of the metrics cache (abstract) | `answers`, `cached` |
| `InvitationLedger` | what invitations promise (abstract) | `standing`, `inside` |
| `Membership` | organizations, members, invitations, and every handler that changes them | below; implements `InvitationLedger` |
| `Credentials` | one account: password, reset link, second factor, backup codes, photo | below |
| `MC...` | instances for TLC | seeds, figure sets and pages a cfg cannot spell |
| `ValidationRun_proofs` | theorems about validation | |
| `ReportPipeline_proofs` | type correctness, lemmas on sessions, readers and the advisory lock | |
| `DocumentSafety_proofs` | deleted documents stay deleted, and PDFs with their documents | |
| `Serial_proofs` | what one request after the other leaves behind: the relations at rest | |
| `AutoFetch_proofs` | types of the crawler, what it fetches and schedules, the daily limit, the PDFs | |
| `Membership_proofs` | owners, entries, removals, purges, and the refinement of `InvitationLedger` | |
| `Credentials_proofs` | the second factor, secrets that serve once, photo and password | |
| `PeriodMetrics_proofs` | the metrics cached, their advice, and growth, for any figures | |

`ReportPipeline` extends `ValidationRules`, so the status that the pipeline gives
a statement is the one the rules compute from its value. `AutoFetch` stands beside it: it ends where a
document is on record and its extraction scheduled, which is where the run of
`ReportPipeline` begins. `PeriodMetrics` extends `MetricFormulas` and gives a
batch of metrics, which `ReportPipeline` takes for the figures it was computed
from, its values and its keys. `Membership` has the accounts of all people with
their organization and role; `Credentials` has the other columns of one of them.
The two meet in `accept_invitation_with_deletion`, which deletes an account and
makes it anew: `CloseOrganization` there, `Move` here.

### ReportPipeline

Tables are sets of records (`rows`, `metrics`, `insights`, `reports`) or a
function (`docs`). A *job* is a session: `pc[j]` is its next step, `job[j]` what
the handler holds in memory, `tx[j]` what it has deleted and not committed.
`lock` is the holder of each period's advisory lock. One action is what a handler
does between two points where another session can see or change something:

* **upload and run**: `Upload` (PDF saved), `UploadCommit`, `StartRun`, `Fetch`,
  `Persist`, `ValidationRead`, `ValidationCommit`, then `ComputeRead`,
  `ComputeDelete`, `ComputeCommit` for each period, `Score`.
* **manual entry and override**: `AddCheck`, `AddInsert` or `Override`, `Refresh`,
  validation, compute, `Invalidate`.
* **delete and re-extract**: `DeleteFile` (PDF erased) or `ReExtract`, `DeleteRows`,
  for a deletion `DeleteDoc`; `ListRemaining`, and for each period compute or
  `DropMetrics`, then `ClearInsights`; `FinishDelete`, or `FinishReExtract` (the
  commit of pending) and `Schedule`, which reloads the document and becomes the run.
* **reading**: `ViewMetrics`, `Look`, `TakeLock`, compute.
* **narratives**: `Narrate`, reading of the period and of the one before
  (`PriorPeriod`), the model call, `NarrativeDelete`, `NarrativeSave`;
  `EditInsight` for edit and revert.
* **failure**: `Raise` ends a session by an exception: one the tables force
  (`Refuse`: the document, its PDF or a statement is gone, a deadlock victim) or
  one that strikes at a chosen step (`Fail`, at the steps in `FailAt`). In the try
  block of a run (`Guarded`) it marks the document failed; at `start`, whose commit
  of processing comes before the block, it does not. `Crash` ends all.

How the model stands for PostgreSQL and SQLAlchemy: an uncommitted delete hides
the row from its own session only and makes others that write the row wait
(`LockedRows`, `LockedDoc`); a row a session has loaded comes back from later
queries as the loaded object (`Loaded`); a commit releases advisory locks
(`Unlocked`); deleting a document sets `document_id` of the statements that still
name it to null, and inserting a statement of a missing document is refused
(`Commit`, `ValidReference`); a cycle of sessions waiting for advisory locks is
broken by raising in one of them (`Deadlocked`). These are marked external in the
map.

Abstractions:

* A period is a positive number in `period_end` order with one `period_start`;
  the quarter before and the year before are the nearest earlier period.
* Figures are integers in the unit of the tolerance.
* A batch of metrics is the set of figures it was computed from, not the ratios.
  A cache that lacks a registry key is a period without a batch: so is one left
  by an earlier version of the registry, which the seeds (statements, no metrics)
  stand for.
* A model call returns any list of at most `MaxLines` line items, those that repeat
  a code and period included; `line` is an item's place in it, and tells rows of one
  insertion apart as their primary keys do.
* `updated_at` and primary keys are stamps from one counter, taken when a change
  commits. Every value a property compares is taken from `rows`, where it is committed.
* Audit entries, wording, currency, source excerpts and confidence are left out.

### AutoFetch

`docs` is every document ever committed (`live` tells those on record), `files`
the PDFs, `scheduled` the documents handed to `run_extraction`. A session is that
of a user's check or the loop's; `pc[s]` is its next step and `chk[s]` what its
handler holds: the companies left in the round, the company under check, the
budget, the ids and file names it read, the cards to process, the documents it
made and those of its session that are flushed and not committed.

* **one check**: `Count`, `ReadIds`, `ReadNames`, one query each; `TakeBrowser`;
  `NothingFound`, `Trip` (the circuit breaker) or `Select` (dedup by title, drop
  known names, newest first, the cap); for each card `Skip` or `Ingest`, or
  `StopCards` for all that are left; `LeaveBrowser`.
* **outcome** (`run_fetch_check`): `Record` writes the status and commits;
  `RecordRefused`, for a company deleted meanwhile; `ScheduleRaises`, the loop's
  call with three arguments of a function that takes four.
* **who asks**: `CheckNow`, then `Respond`, which starts the background tasks, or
  `RespondFails`; `Wake`, `Visit`, `Sleep` for a round of the loop.
* **exceptions**: `Raise`. A user's session ends and rolls back. The loop's goes
  on with what it has flushed, unless a flush was refused: then its objects are
  expired, the handler's `company.id` raises and the round ends.
* **meanwhile**: `Upload`, `ToggleAutoFetch`, `Crash`, and the deletions.
  `DeleteDocument` and `DeleteCompany` list the documents (a record in `deleting`);
  `ErasePdf` takes their PDFs one by one; `EraseRows` commits, a company with its
  cascade; `BreakOff` is an exception anywhere between, after which the rows are
  there and the PDFs (`lost`) are not, as after a crash.

Abstractions: one organization, all within one day, so every fetched document
counts against the limit; a page is a set of cards that does not change during a
check, of which a crawl sees any part; a card stands for a result that passes the
filter on labels, with its title, its date and its id on the page; a file name is
a title as it is or slugged; ids and commits are stamps of one counter. The
stamps `known`, `since` and `born` of a document (when its check read the ids and
counted, when it was committed) are there for the properties.

### PeriodMetrics

A period is a pair of days with a sheet, and `History` puts the stated periods in
the order `_build_period_history` does: by last day, and of two with one last day
the one whose first code comes first in the alphabet, because the statements are
read ordered by code (`tie` stands for the order the query leaves open). `Store`
computes for the first period that ends on the day asked for and replaces the rows
stored under both its ends; `View` computes when the rows found under the last day
are not the registry's. Numbers are fractions of integers, exact where the code has
floats. `Enter` is an override or a manual entry that passes validation, `Flag`
one that fails: what validation decides is in `ValidationRun` and `ReportPipeline`.

### Membership

`users` holds the account of each address, `orgs` the slug of each organization,
`closed` those deleted, `invites` the invitations, `stored` the organizations whose
documents all have their PDFs. `pc[j]` is the next step of a session and `job[j]` the copies
its handler has read: of its own account (`actor`) and of the one it acts on (`row`).

* **registration**: `RequestRegister`, `PickSlug`, `CreateOrganization`.
* **invitations**: `RequestInvite`, `ClassifyInvite`, `IssueInvitation`;
  `RequestList`, `ListPending`, `FlipExpired`; `RequestRevoke`, `FindInvitation`,
  `RevokeInvitation`; `TimePasses`.
* **members**: `RequestRole` or `RequestRemoval`, `FindMember`, `CountOwners`, then
  `UpdateRole` or `RemoveMember`.
* **people invited**: `RequestInvitation`, then `PreviewInvitation`, or
  `FindAccount`, `CountMembers`, `CountOwners`, and `Transfer`, `Join` or `Purge`
  (the PDFs) and `CloseOrganization` (the commit), or `BreakOff` between these two.

The writes of a handler, from its first flush to its commit, are one step: the rows
stay locked and nothing that decides is read between them. Of SQLAlchemy and
PostgreSQL the model has: an update names only columns that differ from the copy
(`Moved`); an update whose row is gone raises, a delete whose row is gone only
warns (`Lives`, `RevokeInvitation`); audit entries refer to their organization and
actor (`Audited`); address and slug are unique (`CreateOrganization`); deleting an
organization deletes its members and invitations (`LeftByDeletion`,
`CloseOrganization`). `raced` is a history: the organizations changed by a handler
whose copies of their members were out of date when it committed. So is `broken`:
the requests that an exception or the end of the process cut short between the first
PDF they erased and their commit. Elsewhere a request that breaks off leaves nothing,
like one that goes no further.

Left out: full names, passwords (any may be wrong), the eligibility check and the
list of members, which change nothing; every registration asks for one name, so
that slugs collide. Every live account can issue requests: tokens outlive a
request, and one of an account since moved or removed matches no row.

### Credentials

`row` is the account; its password, link, secret and photo are named by the request
that set them, a backup code by its list and its place. Each handler reads the
account once (`Start`), and `Commit` writes the columns its copy and its result
differ in. `DropPhoto` and `SavePhoto` are steps of their own, since files change at
once. `Undone` is a commit that finds the account deleted and made anew; `Fail`
a handler that raises between its steps. The histories (`verified`, `spent`,
`respent`, `linked`, `reused`, `broken`, `raced`) are what the properties compare
with. A code of the authenticator is checked against the secret of the copy and
changes nothing, so only its use at setup is a step; hashes are what they hash.

## 3. Runs

| Run | Question | Instance |
|---|---|---|
| `serial` | Does each request leave the tables consistent when it runs alone? `QuietMetricsMatch`, `QuietNoOrphanMetrics`, `LineItemsOfOneRun`, `QuietAllValidated`, `InsightsFollowMetrics` | 1 session, 3 requests of any kind but an accuracy report, 2 documents, 2 periods, up to 2 line items, one value that validation flags and one that it accepts, exceptions while fetching; starting with a typed-in statement, or with an extracted document |
| `concurrent` | What survives any interleaving? `NoRowOfDeletedDoc`, `DeletedStaysDeleted`, `FilesMatchDocuments`, `ReaderHoldsLock` | 2 sessions, 3 requests of all kinds, 1 document on record at the start, 1 period, 1 crash, exceptions while fetching and scoring |
| `readers` | Do readers alone compute each period once? `NoDuplicateBatches`, and the refinement `FillsCache` | 2 sessions, 3 requests, 2 periods, 1 crash |
| `live` | Does a run settle its document, is every pending one on its way to a run, and does every session end? `ExtractionEnds`, `PendingIsScheduled`, `SessionsEnd` | 2 sessions, 2 requests, 2 periods, the flagged value, so that computations return early and keep their locks; exceptions when a re-extraction reloads its document, when a run begins, fetches and recomputes |
| `validation` | Are exactly the disputed figures flagged? `FlaggedIffDisputed` | all eleven codes the rules read; for each rule figures that meet it, miss it by the tolerance and miss it by more |
| `fetch` | What do the crawler's dedup and budget guarantee, and does every check end? `OverrunNeedsOverlap`, `RefetchNeedsOverlap`, `FilingOncePerCheck`, `ScheduledAfterCommit`, `DocumentsHaveFiles`, `ChecksEnd` | 2 companies, 5 cards (one filing under two ids, one title ending in .pdf), a user's session and the loop's, 2 requests of all kinds, deletions of documents and companies in their steps, 1 exception, 1 crash; limit, cap and threshold 2 |
| `membership` | Who acts on whom, who gets in, and what may be lost? `OnlyOwnOrganizationActs`, `JoinedAsInvited`, `OwnerLossNeedsStaleRead`, `MembersHaveOrganization`, `PurgedDeletionCommits`, and the refinement `KeepsLedger` | 3 people, 3 organizations, 3 invitations, 2 sessions, 3 requests, any number of deletions that break off; from two owners and a neighbour who have invited each other's people, or from an owner, an administrator and an invitation of somebody new |
| `credentials` | Does what one handler does to an account survive what another does? `FactorIsConfirmed`, `SecretsServeOnce`, `PhotoOnFile`, `PasswordSticks`, `SignInSurvivesMove` | 2 sessions, 5 requests of all kinds, lists of 2 codes, 1 failure |
| `figures` | Do the metrics of a period fit together? `MetricsFitTogether`, `AdviceSuffices`, `GrowthComparesLikeWithLike` | two years, a half of each, two months; 17 codes, 14 entries, 3 changes |
| `last_owner` | `OrganizationKeepsOwner` is violated | as `membership` |
| `flagged` | `QuietNoFlaggedFigure` is violated | 1 session, an override after a view |
| `unscheduled` | `EachScheduled` is violated | a round over two companies |

Why the bounds suffice. Relations at rest are between one period's statements and
its cache, or a period and the next: two periods and two documents give each
shape (alone, shared, comparative). Three requests are the longest chains the
code gives a meaning to: create, derive, change. Races here are between two
sessions; the second look, the deletion of a document under a run and the
lock-order cycle all need two. In `fetch` a round is one request and visits both
companies, so two requests already let a round, whose session carries flushed
documents from company to company, meet a check, an upload or a deletion; the
limit is smaller than the first page, so that the budget is spent within a check
and between two. `MaxLines` is 2 in `serial`: one figure twice, in agreement or not,
or two figures or periods; elsewhere what is asked is about when a run
writes, not what. `Values` holds one figure on each side of the
revenue-scale check, the only rule that one code can fail. In `membership` a
race needs two handlers, and a third request to set up what they find (an
invitation revoked or a third person let in); in `credentials` the longest
chain is setup, verification, a pending login and two uses of one code, five
requests. In `figures` the year and its half end together, entries include every
zero and sign that a formula asks about, and three changes flag both parts of an
EBITDA or enter what growth compares. `CHECK_DEADLOCK FALSE`
is set since the requests a client issues are bounded and the system then stops.

Each property of a passing run has a mutant, a plausible bug defined in the module
beside the definition it replaces, under which TLC must find the property violated.

### Fairness

`LiveSpec` adds weak fairness of `Step(j)` for each session: the event loop runs
every coroutine whose await is over, and PostgreSQL grants a released lock. No
request, exception or crash is ever forced. `ExtractionEnds` is about a document
whose run has begun, and needs no crash: with one, the document stays pending or
processing, since nothing resumes it. It also takes the handler's own update to
failed not to raise. A run that has not begun may never begin: an exception at
`documents.py:163` or in `pipeline.py:70-73`, after pending is committed and before
the try block, leaves the document pending, and no code looks for it.
`PendingIsScheduled` says that nothing else does.
`SessionsEnd` rests on deadlock detection (`Refuse` of a `Deadlocked` session):
a history view takes its periods in ascending order and a narrative its period
and then the earlier one, both keeping locks when a computation returns early.

`FairSpec` of `AutoFetch` adds weak fairness of each session's steps, crashes
included: a coroutine that can run does. `asyncio.Lock` serves its waiters in
turn; as the requests of an instance are bounded, weak fairness is enough for the
browser to become free while a session waits.

### What the violations show

* `flagged`: `compute_and_store_metrics` says that a statement that failed
  validation "must never feed a metric a board sees", yet returns before
  deleting the old metrics when the period has no other statement, and nobody
  recomputes the growth of the following period.
* `last_owner`: the count of owners and the write that relies on it are one
  transaction, but at read committed, with no row locked: two owners who demote
  each other, or a removal beside a transfer, leave an organization without an
  owner. `OwnerLossNeedsStaleRead` says that there is no other way.
* `unscheduled`: the loop's scheduler is called with one argument too few. The
  check of a company with new filings fails after they are flushed; the next
  company of the round without any commits them, and no task extracts them. They
  are on record, so no later check fetches them again.

Five more configurations are kept as demonstrations, each to be run by hand
(`tlc -config <name>.cfg MCReportPipeline`, for the last `MCAutoFetch`), and each
ends with a counterexample:

* `Duplicates.cfg` (`QuietLatestValue`): `_build_period_history` keeps the last row of an order that does
  not distinguish duplicates, where validation takes the most recently updated.
* `WriterReader.cfg` (`NoDuplicateBatches`): the lock that serializes recomputation is taken by readers only.
* `Unchecked.cfg` (`QuietShownValidated`): a figure returned twice makes two rows, of which validation checks
  one and the metrics may show the other.
* `ReExtractTwice.cfg` (`LineItemsOfOneRun`): a re-extraction clears the items that are there; a run in
  flight adds its own afterwards.
* `RoundCutShort.cfg` (`RoundVisitsAll`): "one company failing must not block the rest" does not hold
  when the failure is a refused flush: the handler itself raises.

What the other runs do not claim is as telling. In `membership`, a removal may
reach an account that has just moved elsewhere, a transfer may carry a role the
account lost in between, and an organization whose deletion is undone has lost its
PDFs; the properties say that nothing but overlap, for the PDFs also the withdrawal
of the invitation or a request that breaks off, leads there. In `credentials`, overlapping handlers may switch the
factor on without a secret, or serve a backup code twice. In `figures`, `ebitda`
asks for operating income even where only depreciation is missing, although a
result's missing codes are to be the "exact" ones (`common.py:35`), and two periods
that end on one day share their rows.

What `fetch` does not claim is as telling: the daily limit can be exceeded and a
filing fetched twice, since both are read before the browser lock is awaited.
`OverrunNeedsOverlap` and `RefetchNeedsOverlap` say that overlapping checks are
the only way. A document may be on record without its PDF: while its deletion is
under way, since the PDF goes first, and for good where that deletion breaks off.
`DocumentsHaveFiles` says that checks add nothing to this.

## 4. Proofs

All theorems are checked by `tlapm` for every value of the constants, from the
assumptions in the modules: periods are positive numbers, values integers, `None`
is none of the named things, no exception strikes a session that is not open, and
what is on record at the start is statements of stored documents or of none. For
`Membership`, people and organizations are finitely many (owners are counted),
ids are positive, and the tables it starts from are consistent. For `AutoFetch`,
a results page lists finitely many cards. For `PeriodMetrics`, periods are finitely
many (a place in the history is a count) and none ends before it begins.

* `ValidationRun_proofs`: `TypeCorrect`, `ExactlyTheDisputed`.
  The invariant says that after a validation the flags are the verdict on the
  current sheet, and that a flag on an unchecked code cannot exist, because the
  set of checks a sheet meets only grows as codes are added. `RuleFailures` and
  `FlagsAreDisputes` reduce the clamped, tolerant comparison of the code to the
  plain statement of what is disputed.
* `ReportPipeline_proofs`: `TypeCorrect`. The types are not inductive alone: a
  batch takes its period and a narrative its audience from session memory, where
  the type admits none. `Placed` says what a session at each step has in memory,
  and that the period a reader looked up is the only one it may take next.
  `OthersKept` (a session's step leaves the others' memory, uncommitted deletes
  and locks alone) serves every later proof. `ReadersAreExclusive`
  (`ReaderHoldsLock`) comes from `LocksHeld`, which spans the step between taking
  the lock and reading the statements. `ReadersComputeOnce`
  (`NoDuplicateBatches`) and `ReadersFillCache` (`FillsCache`) assume `ReadersOnly`
  (clients view, narrate, edit narratives and ask for accuracy reports). The first
  adds `Calm`: a period under recomputation has no batch and no session drops any.
  The second is the refinement of `MetricCache`, its `answers` mapped to what the
  statements give and `cached` to the batches of a period. It adds that readers
  leave the statements as they are (`Steady`) and that what a reader has
  computed and not yet committed is what they give (`Answered`); `ReaderFills` has
  a step for each step of a reader.
* `DocumentSafety_proofs`: `ReferencesHold` (`NoRowOfDeletedDoc`) is inductive
  with the types; the commit that deletes a document is the one that detaches its
  statements, and a run's insertion is refused without it. `DeletionIsFinal`
  (`DeletedStaysDeleted`) needs `Claims`: a saved and uncommitted upload has a
  document that no table has known and no other upload shares, since its PDF is
  in the store, and a deletion under way has one that the tables have known.
  `FilesAgree` (`FilesMatchDocuments`) assumes `Completed`: no exception strikes an
  upload between its PDF and its commit, nor a deletion between its PDF and its
  last commit. Where one does, the property is false, and rightly: the handlers
  make no amends. `DeleteAt` follows a deletion from its PDF to its commit.
  `PendingRunsCome` (`PendingIsScheduled`) takes any exception and crash there may
  be: `StepHeads` says of one session's step that it keeps a pending document on its
  way to a run (`Heads`), settles it, or is struck before the try block.
* `Serial_proofs`: the relations at rest, for any number of requests, documents and
  periods, where one session serves one request after the other (`OneSession`) and
  the company starts with one row for each key (`SeedsAreKeyed`).
  `Undisturbed(S)` says that no exception strikes at a step of `S` and that the
  process does not die; at every other step any exception may.
  `LineItemsStayOfOneRun` (`LineItemsOfOneRun`) excludes no exception and no crash,
  and holds of any list the model returns: a re-extraction clears the document's
  rows, those of an earlier run that returned a figure twice included, and the run
  that follows inserts its own in one commit. It does not say that a code and period
  has one row: the code accepts a list that repeats them.
  `AllValidated` (`QuietAllValidated`) excludes an exception between the commit of
  figures and that of their validation (`MidCheck`): figures stay that no
  validation has seen. Where one insertion has a figure twice it is about one of
  the two, as validation is. `NoOrphanMetrics` (`QuietNoOrphanMetrics`) excludes one among
  the recomputations of a request (`MidCompute`), each of which commits on its own;
  `MetricsMatch` (`QuietMetricsMatch`) excludes both; `NarrativesFollow`
  (`InsightsFollowMetrics`) one in the recomputations or before the narratives of
  their periods are removed. These hypotheses are needed: with `FailAt` of
  `Serial.cfg` set to any single step of the set a theorem names, or `MaxCrashes`
  to 1, TLC finds its relation broken (for `mdelete` and `mcommit`, and for orphans
  and narratives, once a document spans three periods, with `MaxLines` 3), with one exception: an
  exception at `close` does not seem to disturb `QuietMetricsMatch`.
  The invariants follow a request on its way. `Stationed` says what it holds in
  memory at each step; `Synced`, that its copies of rows are the rows on record
  unless it is about to write them; `Booked` and `Agenda`, what it has deleted
  without a commit and which periods are left to recompute. `Checked`,
  `Backed`, `Matched` and `Faithful` are the relations at rest, each weakened by
  just the part of the request that is still to come.
* `AutoFetch_proofs`: `TypeCorrect`, with `TypedAlways` for what follows. A
  step changes one session's memory, so `LocalTyped` reduces each action to the
  record that session is left with; a budget is a natural number because `Count`
  has compared before it subtracts. For the rest the invariant is in parts. `Covered` relates a session to
  what is on record: the ids and names it read include those of every document
  committed by then, so a document that matches one it has flushed was committed
  later. `Distinct` says that the cards of one crawl, made or to come, have
  different titles. `Pending` says that a document made and not yet on record is
  flushed in the session that made it. `Grown` (what a step adds to the record is
  stamped later than anything read) makes each of them survive the steps of others.
  `RefetchOverlaps` (`RefetchNeedsOverlap`), `OncePerCheck`
  (`FilingOncePerCheck`) and `ScheduledCommitted` (`ScheduledAfterCommit`) follow.
  `FetchedHaveFiles` (`DocumentsHaveFiles`) from `Filed`: ids
  are unique over the table and the documents a check has flushed, so a deletion
  takes no PDF but of documents it lists, and a PDF is saved before its document is
  flushed; what a deletion lists stays listed until its rows are gone or it has
  broken off. `OverrunsOverlap` (`OverrunNeedsOverlap`) counts: `Accounted` says how
  what a check has made, has left in its budget and counted before it began add up
  to the daily limit, and `WithinBudget` that what was committed since it counted
  was committed by a check that overlapped it. The cardinalities are of finite
  sets because a results page lists finitely many cards.
* `Membership_proofs`: `TypeCorrect`, `MembersKeepOrganization`
  (`MembersHaveOrganization`), `LastOwnerNeedsStaleRead`
  (`OwnerLossNeedsStaleRead`), `EntryAsInvited` (`JoinedAsInvited`),
  `ActedOnFromInside` (`OnlyOwnOrganizationActs`), `PurgesAreForDeletions`
  (`PurgedDeletionCommits`) and `MembershipKeepsLedger`:
  every step of the handlers is a step of `InvitationLedger` or leaves it alone
  (`KeepsLedger`). None of these is inductive. `AllHeld` says what a session at
  each step has in memory, `Stored` that accounts and invitations name people and
  organizations that were there, and `AllDecided` that a copy nobody has changed
  since it was read is still what is stored: its account is the one on record
  (`Current`), the second owner it counted is another person who still is one
  (`Backed`), the sole member it saw is still alone (`Lone`). `ChangesAreTold` and
  `StaleWritesAreMarked` relate a write to the organizations the model counts as
  raced, and `AnotherOwner` turns a count above one into a second person.
  `PurgesAreForDeletions` adds `AllAwaited`: the organization that an acceptance
  leads to is open as long as its invitation is on record, since an invitation
  once withdrawn never comes back and an organization takes its invitations along
  (`InvitationsGo`). It is about the two steps themselves, the purge and the one
  that ends the request after it: PDFs stay purged, so what had become of the
  invitation by some later state would say nothing of why a deletion was undone.
  A request that an exception or a crash ends there is in `broken`.
* `Credentials_proofs`: `TypeCorrect`, `FactorStaysConfirmed`
  (`FactorIsConfirmed`), `SecretsAreSpent` (`SecretsServeOnce`),
  `PhotoStaysOnFile` (`PhotoOnFile`), `PasswordsStick` (`PasswordSticks`) and
  `MovesKeepSignIn` (`SignInSurvivesMove`). `Checked` says that what a request
  found in its copy before it went on still holds of the copy; `Stamps`, that a
  number given to a request on its way is in no column and no other copy; `Current`, that a
  code or link already used is in no list or column still to be served; `Owned`,
  that a photo is never another account's. A request whose columns were written
  behind its back is one the model marks, so an unmarked one writes onto the row
  it read.

* `PeriodMetrics_proofs`: `MetricsFit` (`MetricsFitTogether`), `AdviceIsEnough`
  (`AdviceSuffices`) and `GrowthIsLikeWithLike` (`GrowthComparesLikeWithLike`), for
  any integers as figures. The invariant is `UpToDate`: the rows cached for a period
  that has its last day to itself are what the formulas give for its present
  figures and some history. `StoreEffect` finds the period that a computation
  asked for by its last day is about; `SomeComesFirst` says that there is one, as
  places in a history are natural numbers. From there on it is the formulas:
  `MetricAt` takes a row out of the five groups, `Whole` and the lemmas beside it
  say which fractions are integers and when a ratio is known, and `Advises` weighs
  the codes a row names against the recipes of its metric. Growth needs
  `CalendarPeriods`: periods are months or quarters or parts of one, half years, or
  nine months to a year. For others it is not so, as lengths that differ by
  less than 30% may lie on the two sides of the bounds by which
  `classify_period_type` tells quarters, halves and years apart (101 days against
  102, say). `SameKind` shows that these lengths keep clear of them.

Every invariant and every action property of the passing runs is the subject of a
theorem. What is only model-checked: liveness (`ExtractionEnds`, `SessionsEnd`,
`ChecksEnd`), which with fairness and ENABLED is out of the prover's reach; and
what the theorems exclude by hypothesis, where the runs show what happens or
nothing is claimed. No theorem needs induction over data, and no module has a
RECURSIVE operator.

## 5. Not modelled

`PROJECT.json` has a row for each. Presentation (charts, export layout, views),
parsing and prompting, mail, image handling, instrumentation and migrations have no
behaviour over time. The accuracy report is modelled by the statements it scores.
Of auto-fetch, the browser automation is external: a page that changes between the
discovery of a card and the click on it, by position, is not in the model. Of the
metrics, fiscal years, quarters and labels are wording. Budgets and comments are
rows of their own with one request each. The frontend's data loading and session
have behaviour and are planned.

## 6. Plan

1. Done: `ValidationRules`, `ValidationRun`, `ReportPipeline`, their runs and
   theorems.
2. Done: `AutoFetch`, its runs and theorems.
3. Done: `Membership` with `InvitationLedger`, `Credentials`, `MetricFormulas` and
   `PeriodMetrics`, their runs, and the theorems of section 4.
4. `DashboardClient`: requests of one browser answered in any order, polling,
   restore and logout; properties: what is shown belongs to what is selected.
5. `DocumentLife`, the life of a document as its users see it, implemented by
   `ReportPipeline` under a refinement mapping.
6. Further theorems: that refinement, and what `DashboardClient` shows.
