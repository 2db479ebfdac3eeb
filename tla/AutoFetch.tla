------------------------------ MODULE AutoFetch ------------------------------
(***************************************************************************)
(* The crawler that looks for new filings on a company's                   *)
(* investor-relations page (services/extraction/auto_fetch.py): checks a   *)
(* user asks for and the loop that checks every enabled company, for one   *)
(* organization, within one day.  A session is a database session with the *)
(* handler that owns it; the loop uses one for all the companies of a      *)
(* round.  What becomes of a document afterwards is in ReportPipeline.     *)
(***************************************************************************)
EXTENDS Naturals, FiniteSets

CONSTANTS
  Companies,   (* companies that have an investor-relations URL             *)
  Cards,       (* results on those pages that pass for financial filings    *)
  Company,     (* the company on whose page a card is                       *)
  Title,       (* the title of a card; cross-listed filings share one       *)
  PdfTitled,   (* the cards whose title already ends in .pdf                *)
  Date,        (* the date of a card                                        *)
  Checks,      (* the sessions of checks that users ask for                 *)
  Loop,        (* the session of the periodic loop                          *)
  None,
  DailyLimit,  (* auto_fetch_daily_extraction_limit                         *)
  MaxPerCheck, (* auto_fetch_max_documents_per_check                        *)
  Threshold,   (* auto_fetch_circuit_breaker_threshold                      *)
  Users,       (* the requests of users that occur                          *)
  MaxRequests, (* bound on the requests and on the rounds of the loop       *)
  MaxFailures, (* bound on the exceptions that strike checks and deletions  *)
  MaxCrashes   (* bound on restarts of the process                          *)

Sessions == Checks \cup {Loop}

ASSUME CardsAreFinite == IsFiniteSet(Cards)

ASSUME CardsAssumption ==
  /\ Company \in [Cards -> Companies]
  /\ DOMAIN Title = Cards
  /\ PdfTitled \subseteq Cards
  /\ \A a, b \in Cards : Title[a] = Title[b] => (a \in PdfTitled <=> b \in PdfTitled)
  /\ Date \in [Cards -> Nat]

ASSUME SettingsAssumption ==
  /\ DailyLimit \in Nat /\ MaxPerCheck \in Nat /\ Threshold \in Nat

ASSUME NamesAssumption ==
  /\ Loop \notin Checks
  /\ None \notin Sessions \cup Companies

VARIABLES
  docs,      (* every document committed so far, deleted ones included      *)
  files,     (* the PDFs in the store, by the id of their document          *)
  scheduled, (* the documents whose extraction was scheduled                *)
  companies, (* the companies on record                                     *)
  enabled,   (* those with auto_fetch_enabled                               *)
  deleting,  (* the deletions of documents and companies under way          *)
  lost,      (* documents whose deletion broke off when their PDF was gone  *)
  browser,   (* the session that holds _browser_lock                        *)
  pc,        (* the next step of each session                               *)
  chk,       (* what the handler of each session holds in memory            *)
  clock,     (* a stamp for ids and commits                                 *)
  issued, failures, crashes

vars == <<docs, files, scheduled, companies, enabled, deleting, lost, browser, pc, chk,
          clock, issued, failures, crashes>>

tables == <<docs, scheduled, companies, enabled, deleting, lost>>
limits == <<issued, failures, crashes>>

(* A file name: a title as it is, or slugged with .pdf appended, which no   *)
(* title that gets slugged is equal to.                                     *)
FileName(k) == [title |-> Title[k], slug |-> k \notin PdfTitled]
AsTitled(k) == [title |-> Title[k], slug |-> FALSE]

(* auto is source_type; known is the clock when the check read the external *)
(* ids on record; since, when its transaction first counted the documents.  *)
FileNames == {FileName(k) : k \in Cards} \cup {AsTitled(k) : k \in Cards}

Doc == [id : Nat, card : Cards, name : FileNames,
        auto : BOOLEAN, known : Nat, since : Nat, born : Nat, live : BOOLEAN]

Live      == {d \in docs : d.live}
AutoToday == {d \in Live : d.auto}
Of(S, c)  == {d \in S : Company[d.card] = c}
IdsOf(S)  == {d.id : d \in S}

-----------------------------------------------------------------------------
(* Sessions *)

(* What a handler holds: the companies still to visit (the loop), the one   *)
(* it checks, the budget, ids and names it read, the cards to process, the  *)
(* documents it made, those flushed and not committed, and whether the      *)
(* company was enabled when it was loaded and the breaker tripped.          *)
Blank == [todo |-> {}, co |-> None, budget |-> 0, ids |-> {}, names |-> {},
          queue |-> {}, made |-> {}, fresh |-> {}, since |-> 0, known |-> 0,
          on |-> TRUE, tripped |-> FALSE]

Check == [todo : SUBSET Companies, co : Companies \cup {None}, budget : Nat,
          ids : SUBSET Cards, names : SUBSET FileNames, queue : SUBSET Cards,
          made : SUBSET Nat, fresh : SUBSET Doc, since : Nat, known : Nat,
          on : BOOLEAN, tripped : BOOLEAN]

Steps == {"idle", "next", "count", "ids", "names", "wait", "crawl", "card", "record",
          "respond"}

Goto(s, l) == pc' = [pc EXCEPT ![s] = l]

(* Mutant: a page that cannot be read keeps the browser.                    *)
StillHeld(s) == browser

Freed(s) == IF browser = s THEN None ELSE browser

(* What the crawl read and chose is forgotten when it returns.              *)
Returned(m) == [m EXCEPT !.budget = 0, !.ids = {}, !.names = {}, !.queue = {}, !.known = 0]

(* An exception leaves the check.  A user's session ends and rolls back.    *)
(* The loop logs company.id and goes on with the same session, which keeps  *)
(* what it has flushed; but after a refused flush the company is expired,   *)
(* reading its id raises again, and the round ends.                         *)
Raise(s, refused) ==
  /\ browser' = Freed(s)
  /\ \/ /\ s # Loop \/ refused
        /\ chk' = [chk EXCEPT ![s] = Blank]
        /\ Goto(s, "idle")
     \/ /\ s = Loop /\ ~refused
        /\ chk' = [chk EXCEPT ![s] = Returned(@)]
        /\ Goto(s, "next")

Request(kind) ==
  /\ kind \in Users
  /\ issued < MaxRequests
  /\ issued' = issued + 1
  /\ UNCHANGED <<failures, crashes>>

-----------------------------------------------------------------------------
(* The checks users ask for, and the loop *)

CheckNow(s) ==
  /\ s \in Checks
  /\ pc[s] = "idle"
  /\ Request("check")
  /\ \E c \in companies :
       chk' = [chk EXCEPT ![s] = [Blank EXCEPT !.co = c, !.on = c \in enabled]]
  /\ Goto(s, "count")
  /\ UNCHANGED <<tables, files, browser, clock>>

(* A round of the loop: a session, and the list of enabled companies.       *)
Wake ==
  /\ pc[Loop] = "idle"
  /\ Request("round")
  /\ chk' = [chk EXCEPT ![Loop] = [Blank EXCEPT !.todo = enabled]]
  /\ Goto(Loop, "next")
  /\ UNCHANGED <<tables, files, browser, clock>>

Visit(s) ==
  /\ s = Loop /\ pc[s] = "next"
  /\ \E c \in chk[s].todo :
       chk' = [chk EXCEPT ![s].todo = @ \ {c}, ![s].co = c, ![s].made = {},
                          ![s].tripped = FALSE]
  /\ Goto(s, "count")
  /\ UNCHANGED <<tables, files, browser, clock, limits>>

(* The session is closed, which rolls back what it has not committed.       *)
Sleep(s) ==
  /\ s = Loop /\ pc[s] = "next"
  /\ chk[s].todo = {}
  /\ chk' = [chk EXCEPT ![s] = Blank]
  /\ Goto(s, "idle")
  /\ UNCHANGED <<tables, files, browser, clock, limits>>

-----------------------------------------------------------------------------
(* What a check computes *)

(* Mutant: the page's cards, one for each id.                               *)
DiscoveredWithCopies(c) == {S \in SUBSET {k \in Cards : Company[k] = c} : S # {}}

(* The page's cards as the crawl keeps them: one for each title.            *)
Discovered(c) ==
  {S \in SUBSET {k \in Cards : Company[k] = c} :
     S # {} /\ \A a, b \in S : Title[a] = Title[b] => a = b}

(* Those whose title is not a file name on record.                          *)
Unnamed(s, found) == {k \in found : AsTitled(k) \notin chk[s].names}

Least(m, n) == IF m <= n THEN m ELSE n

(* The ways to keep the n most recent cards of S.                           *)
Newest(S, n) ==
  {T \in SUBSET S :
     /\ Cardinality(T) = Least(n, Cardinality(S))
     /\ \A a \in T, b \in S \ T : Date[a] >= Date[b]}

(* Mutant: the budget is checked and not spent.                             *)
CapIgnoringBudget(s) == MaxPerCheck

Cap(s) == Least(MaxPerCheck, chk[s].budget)

NextCards(s) == {k \in chk[s].queue : \A x \in chk[s].queue : Date[k] >= Date[x]}

(* Mutant: ids are looked up among the documents of this check only.        *)
OwnIds(s) == {d.card : d \in Of(chk[s].fresh, chk[s].co)}

(* list_external_source_ids_for_company: a document uploaded by hand has no *)
(* external id; a session sees what it flushed itself.                      *)
KnownIds(s) == {d.card : d \in {e \in Of(Live \cup chk[s].fresh, chk[s].co) : e.auto}}

-----------------------------------------------------------------------------
(* One check: what is on record, read before the browser is free *)

(* Mutant: a limit that was overrun is not reached.                         *)
ExhaustedExactly(used) == used = DailyLimit

Exhausted(used) == used >= DailyLimit

(* The organization's documents of today against its daily limit.           *)
Count(s) ==
  LET used == Cardinality(AutoToday \cup chk[s].fresh) IN
  /\ pc[s] = "count"
  /\ \/ /\ Exhausted(used)
        /\ chk' = [chk EXCEPT ![s].since = IF chk[s].fresh = {} THEN clock ELSE @]
        /\ Goto(s, "record")
     \/ /\ ~Exhausted(used)
        /\ chk' = [chk EXCEPT ![s].since = IF chk[s].fresh = {} THEN clock ELSE @,
                              ![s].budget = DailyLimit - used]
        /\ Goto(s, "ids")
  /\ UNCHANGED <<tables, files, browser, clock, limits>>

ReadIds(s) ==
  /\ pc[s] = "ids"
  /\ chk' = [chk EXCEPT ![s].ids = KnownIds(s), ![s].known = clock]
  /\ Goto(s, "names")
  /\ UNCHANGED <<tables, files, browser, clock, limits>>

ReadNames(s) ==
  /\ pc[s] = "names"
  /\ chk' = [chk EXCEPT ![s].names = {d.name : d \in Of(Live \cup chk[s].fresh, chk[s].co)}]
  /\ Goto(s, "wait")
  /\ UNCHANGED <<tables, files, browser, clock, limits>>

TakeBrowser(s) ==
  /\ pc[s] = "wait"
  /\ browser = None
  /\ browser' = s
  /\ Goto(s, "crawl")
  /\ UNCHANGED <<tables, files, chk, clock, limits>>

-----------------------------------------------------------------------------
(* One check: the crawl *)

(* The page cannot be read, or lists nothing.                               *)
NothingFound(s) ==
  /\ pc[s] = "crawl"
  /\ browser' = Freed(s)
  /\ chk' = [chk EXCEPT ![s] = Returned(@)]
  /\ Goto(s, "record")
  /\ UNCHANGED <<tables, files, clock, limits>>

(* Too many new cards: none is processed and the company is disabled, in    *)
(* memory so far.                                                           *)
Trip(s) ==
  /\ pc[s] = "crawl"
  /\ \E found \in Discovered(chk[s].co) :
       Cardinality(Unnamed(s, found)) > Threshold
  /\ chk' = [chk EXCEPT ![s] = [Returned(@) EXCEPT !.tripped = TRUE]]
  /\ browser' = Freed(s)
  /\ Goto(s, "record")
  /\ UNCHANGED <<tables, files, clock, limits>>

(* The newest of the new cards, within the cap and the budget.              *)
Select(s) ==
  /\ pc[s] = "crawl"
  /\ \E found \in Discovered(chk[s].co) :
       LET new == Unnamed(s, found) IN
       /\ Cardinality(new) <= Threshold
       /\ \E cards \in Newest(new, Cap(s)) :
            chk' = [chk EXCEPT ![s].queue = cards]
  /\ Goto(s, "card")
  /\ UNCHANGED <<tables, files, browser, clock, limits>>

(* A card whose id is on record, or which does not open or has no download. *)
Skip(s) ==
  /\ pc[s] = "card"
  /\ \E k \in NextCards(s) : chk' = [chk EXCEPT ![s].queue = @ \ {k}]
  /\ UNCHANGED <<tables, files, browser, pc, clock, limits>>

(* The browser fails: the rest of the cards is left.                        *)
StopCards(s) ==
  /\ pc[s] = "card"
  /\ chk[s].queue # {}
  /\ chk' = [chk EXCEPT ![s].queue = {}]
  /\ UNCHANGED <<tables, files, browser, pc, clock, limits>>

(* The PDF is saved and the document flushed, which the foreign key allows  *)
(* only while the company is there.                                         *)
Flush(s, k, pdfs) ==
  /\ files' = files \cup pdfs
  /\ clock' = clock + 1
  /\ \/ /\ chk[s].co \in companies
        /\ chk' = [chk EXCEPT
             ![s].fresh = @ \cup {[id |-> clock + 1, card |-> k, name |-> FileName(k),
                                   auto |-> TRUE, known |-> chk[s].known,
                                   since |-> 0, born |-> 0, live |-> TRUE]},
             ![s].made = @ \cup {clock + 1},
             ![s].ids = @ \cup {k},
             ![s].queue = @ \ {k}]
        /\ UNCHANGED <<browser, pc>>
     \/ /\ chk[s].co \notin companies
        /\ Raise(s, TRUE)

(* Mutant: the document is flushed before its PDF is saved, which may fail. *)
RowBeforePdf(s, k) == \E pdfs \in SUBSET {clock + 1} : Flush(s, k, pdfs)

PdfThenRow(s, k) == Flush(s, k, {clock + 1})

Ingest(s) ==
  /\ pc[s] = "card"
  /\ \E k \in NextCards(s) \ chk[s].ids : PdfThenRow(s, k)
  /\ UNCHANGED <<tables, limits>>

(* The browser does not start, or the store raises: neither is an error of  *)
(* the page, so the check is left by an exception.                          *)
Fail(s) ==
  /\ failures < MaxFailures
  /\ \/ pc[s] = "crawl"
     \/ pc[s] = "card" /\ NextCards(s) \ chk[s].ids # {}
  /\ Raise(s, FALSE)
  /\ failures' = failures + 1
  /\ UNCHANGED <<tables, files, clock, issued, crashes>>

LeaveBrowser(s) ==
  /\ pc[s] = "card"
  /\ chk[s].queue = {}
  /\ browser' = Freed(s)
  /\ chk' = [chk EXCEPT ![s] = Returned(@)]
  /\ Goto(s, "record")
  /\ UNCHANGED <<tables, files, clock, limits>>

-----------------------------------------------------------------------------
(* One check: the outcome *)

(* The fetch status is written and everything the session flushed, for this *)
(* company or an earlier one, is committed.  A check of the loop that made  *)
(* documents does not get here.  The breaker writes a change of the flag,   *)
(* so nothing if the company was loaded disabled.                           *)
Record(s) ==
  /\ pc[s] = "record"
  /\ s # Loop \/ chk[s].made = {}
  /\ chk[s].co \in companies
  /\ docs' = docs \cup {[d EXCEPT !.born = clock + 1, !.since = chk[s].since] :
                          d \in chk[s].fresh}
  /\ enabled' = IF chk[s].tripped /\ chk[s].on THEN enabled \ {chk[s].co} ELSE enabled
  /\ chk' = [chk EXCEPT ![s].fresh = {}]
  /\ clock' = clock + 1
  /\ Goto(s, IF s = Loop THEN "next" ELSE "respond")
  /\ UNCHANGED <<files, scheduled, companies, deleting, lost, browser, limits>>

(* The company is gone: the update matches no row, which raises.            *)
RecordRefused(s) ==
  /\ pc[s] = "record"
  /\ s # Loop \/ chk[s].made = {}
  /\ chk[s].co \notin companies
  /\ Raise(s, TRUE)
  /\ UNCHANGED <<tables, files, clock, limits>>

(* _schedule_extraction_as_task takes four arguments and is given three.    *)
ScheduleRaises(s) ==
  /\ pc[s] = "record"
  /\ s = Loop /\ chk[s].made # {}
  /\ Raise(s, FALSE)
  /\ UNCHANGED <<tables, files, clock, limits>>

(* Mutant: the extractions start when they are scheduled.                   *)
TasksStartAtOnce(s) == pc[s] \in {"record", "respond"} /\ s # Loop

(* Background tasks start once the response is sent.                        *)
TasksStart(s) == pc[s] = "respond"

Respond(s) ==
  /\ TasksStart(s)
  /\ scheduled' = scheduled \cup chk[s].made
  /\ chk' = [chk EXCEPT ![s] = Blank]
  /\ Goto(s, "idle")
  /\ UNCHANGED <<docs, files, companies, enabled, deleting, lost, browser, clock, limits>>

(* The commit of the audit entry fails: no response, and no task.           *)
RespondFails(s) ==
  /\ pc[s] = "respond"
  /\ failures < MaxFailures
  /\ Raise(s, TRUE)
  /\ failures' = failures + 1
  /\ UNCHANGED <<tables, files, clock, issued, crashes>>

-----------------------------------------------------------------------------
(* What users do meanwhile *)

(* A filing uploaded by hand, under its title.                              *)
Upload ==
  /\ Request("upload")
  /\ \E k \in Cards :
       /\ Company[k] \in companies
       /\ docs' = docs \cup {[id |-> clock + 1, card |-> k, name |-> AsTitled(k),
                               auto |-> FALSE, known |-> 0, since |-> clock,
                               born |-> clock + 1, live |-> TRUE]}
  /\ files' = files \cup {clock + 1}
  /\ clock' = clock + 1
  /\ UNCHANGED <<scheduled, companies, enabled, deleting, lost, browser, pc, chk>>

ToggleAutoFetch ==
  /\ Request("toggle")
  /\ \E c \in companies : enabled' = IF c \in enabled THEN enabled \ {c} ELSE enabled \cup {c}
  /\ UNCHANGED <<docs, files, scheduled, companies, deleting, lost, browser, pc, chk, clock>>

(* Deleting a document or a company: the documents are listed ...           *)
DeleteDocument ==
  /\ Request("delete")
  /\ \E d \in Live : deleting' = deleting \cup {[co |-> None, ids |-> {d.id}]}
  /\ UNCHANGED <<docs, files, scheduled, companies, enabled, lost, browser, pc, chk, clock>>

DeleteCompany ==
  /\ Request("remove")
  /\ \E c \in companies : deleting' = deleting \cup {[co |-> c, ids |-> IdsOf(Of(Live, c))]}
  /\ UNCHANGED <<docs, files, scheduled, companies, enabled, lost, browser, pc, chk, clock>>

(* ... their PDFs go one by one ...                                         *)
ErasePdf(x) ==
  /\ \E i \in x.ids \cap files : files' = files \ {i}
  /\ UNCHANGED <<tables, browser, pc, chk, clock, limits>>

(* ... and only then, in one commit, the rows: a company takes all of its   *)
(* documents with it, listed or not, and waits for the sessions that        *)
(* inserted documents of it to end.                                         *)
EraseRows(x) ==
  LET erased(d) == d.id \in x.ids \/ Company[d.card] = x.co IN
  /\ x.ids \cap files = {}
  /\ \A s \in Sessions : Of(chk[s].fresh, x.co) = {}
  /\ docs' = {d \in docs : ~erased(d)} \cup {[d EXCEPT !.live = FALSE] : d \in {e \in docs : erased(e)}}
  /\ companies' = companies \ {x.co}
  /\ enabled' = enabled \ {x.co}
  /\ deleting' = deleting \ {x}
  /\ UNCHANGED <<files, scheduled, lost, browser, pc, chk, clock, limits>>

(* The store, a flush or the commit raises: the rows stay, and the PDFs     *)
(* that are gone stay gone.                                                 *)
BreakOff(x) ==
  /\ failures < MaxFailures
  /\ failures' = failures + 1
  /\ deleting' = deleting \ {x}
  /\ lost' = lost \cup (x.ids \ files)
  /\ UNCHANGED <<docs, files, scheduled, companies, enabled, browser, pc, chk, clock,
                 issued, crashes>>

(* The process ends and is started again, which only matters to sessions    *)
(* that are open and to deletions that are under way.                       *)
Crash ==
  /\ crashes < MaxCrashes
  /\ deleting # {} \/ \E s \in Sessions : pc[s] # "idle"
  /\ crashes' = crashes + 1
  /\ browser' = None
  /\ pc' = [s \in Sessions |-> "idle"]
  /\ chk' = [s \in Sessions |-> Blank]
  /\ deleting' = {}
  /\ lost' = lost \cup ((UNION {x.ids : x \in deleting}) \ files)
  /\ UNCHANGED <<docs, files, scheduled, companies, enabled, clock, issued, failures>>

-----------------------------------------------------------------------------
Init ==
  /\ docs = {} /\ files = {} /\ scheduled = {}
  /\ deleting = {} /\ lost = {}
  /\ companies = Companies /\ enabled = Companies
  /\ browser = None
  /\ pc = [s \in Sessions |-> "idle"]
  /\ chk = [s \in Sessions |-> Blank]
  /\ clock = 0 /\ issued = 0 /\ failures = 0 /\ crashes = 0

Step(s) ==
  \/ Visit(s) \/ Sleep(s) \/ Count(s) \/ ReadIds(s) \/ ReadNames(s)
  \/ TakeBrowser(s) \/ NothingFound(s) \/ Trip(s) \/ Select(s) \/ Skip(s)
  \/ StopCards(s) \/ Ingest(s) \/ LeaveBrowser(s) \/ Record(s) \/ RecordRefused(s)
  \/ ScheduleRaises(s) \/ Respond(s)

Environment ==
  \/ Wake \/ Upload \/ DeleteDocument \/ DeleteCompany \/ ToggleAutoFetch \/ Crash
  \/ \E x \in deleting : ErasePdf(x) \/ EraseRows(x) \/ BreakOff(x)

Next ==
  \/ \E s \in Sessions : CheckNow(s) \/ Step(s) \/ Fail(s) \/ RespondFails(s)
  \/ Environment

Spec == Init /\ [][Next]_vars

(* Coroutines run.  Waiters of asyncio.Lock are served in turn; requests    *)
(* being bounded, weak fairness is enough for the browser to become free.   *)
FairSpec == Spec /\ \A s \in Sessions : WF_vars(Step(s))

-----------------------------------------------------------------------------
TypeOK ==
  /\ docs \subseteq Doc
  /\ files \subseteq Nat /\ scheduled \subseteq Nat
  /\ companies \subseteq Companies /\ enabled \subseteq companies
  /\ deleting \subseteq [co : Companies \cup {None}, ids : SUBSET Nat] /\ lost \subseteq Nat
  /\ browser \in Sessions \cup {None}
  /\ pc \in [Sessions -> Steps]
  /\ chk \in [Sessions -> Check]
  /\ clock \in Nat /\ issued \in Nat /\ failures \in Nat /\ crashes \in Nat

(* The documents fetched today exceed the daily limit only if two sessions  *)
(* overlapped: one committed a document after another had counted and       *)
(* before that one committed its own.                                       *)
OverrunNeedsOverlap ==
  Cardinality(AutoToday) > DailyLimit =>
    \E d, e \in docs : d.auto /\ e.auto /\ e.since < d.born /\ d.born < e.born

(* A filing is fetched although a document on record has its id, or its     *)
(* title as file name, only if that document was committed after the check  *)
(* had read the ids.                                                        *)
RefetchNeedsOverlap ==
  \A d, e \in Live :
    /\ e.auto /\ d # e
    /\ \/ d.auto /\ d.card = e.card
       \/ Company[d.card] = Company[e.card] /\ d.name = AsTitled(e.card)
    => e.known < d.born

(* A filing that is listed twice on a page, under two ids, is fetched once  *)
(* in one check.                                                            *)
FilingOncePerCheck ==
  \A s \in Sessions : \A d, e \in chk[s].fresh :
    /\ {d.id, e.id} \subseteq chk[s].made
    /\ Title[d.card] = Title[e.card]
    => d = e

(* An extraction that is scheduled finds its document committed.            *)
ScheduledAfterCommit == scheduled \subseteq IdsOf(docs)

(* A document on record lacks its PDF only while a deletion that lists it   *)
(* is under way, or after such a deletion broke off between the PDF and the *)
(* row: no check leaves one behind, whatever it fails at and whichever      *)
(* later check of the same session commits it.                              *)
DocumentsHaveFiles ==
  \A d \in Live :
    d.id \in files \cup lost \/ \E x \in deleting : d.id \in x.ids

(* Every check ends, and the loop comes back to its timer.                  *)
ChecksEnd == \A s \in Sessions : pc[s] # "idle" ~> pc[s] = "idle"

(* count_auto_fetched_since: each fetched document triggers exactly one     *)
(* extraction; at rest, without failures, each one has been scheduled.      *)
EachScheduled ==
  (\A s \in Sessions : pc[s] = "idle") /\ failures = 0 /\ crashes = 0
    => IdsOf(AutoToday) \subseteq scheduled

(* _check_all_enabled_companies: one company failing must not block the     *)
(* rest; a round of the loop that the process survives ends when every      *)
(* company it listed and that is still on record has had its turn.          *)
RoundVisitsAll ==
  [][pc[Loop] # "idle" /\ pc'[Loop] = "idle" /\ crashes' = crashes
       => chk[Loop].todo \cap companies = {}]_vars
=============================================================================
