--------------------------- MODULE AutoFetch_proofs --------------------------
(***************************************************************************)
(* Theorems about the crawler, for any number of companies, cards and      *)
(* checks under way, any limits and any failures: its types, that an       *)
(* extraction is scheduled for committed documents only, that a filing is  *)
(* fetched twice, and the daily limit exceeded, only by checks that        *)
(* overlap, and that a document lacks its PDF only by a deletion that      *)
(* is under way or broke off.                                              *)
(***************************************************************************)
EXTENDS AutoFetch, FiniteSetTheorems, TLAPS

-----------------------------------------------------------------------------
(* Types *)

(* The documents on record and those a session has flushed are finite,      *)
(* which the daily count relies on.                                         *)
Finite ==
  /\ IsFiniteSet(docs)
  /\ \A s \in Sessions : IsFiniteSet(chk[s].fresh)

LEMMA NamesTyped == \A k \in Cards : FileName(k) \in FileNames /\ AsTitled(k) \in FileNames
BY DEF FileNames

LEMMA BlankTyped == Blank \in Check
BY DEF Blank, Check

LEMMA ReturnedTyped ==
  ASSUME NEW m \in Check
  PROVE  Returned(m) \in Check /\ Returned(m).fresh = m.fresh
BY DEF Returned, Check

LEMMA RaiseTyped ==
  ASSUME TypeOK, Finite, NEW s \in Sessions, NEW r \in BOOLEAN, Raise(s, r)
  PROVE  /\ browser' \in Sessions \cup {None}
         /\ pc' \in [Sessions -> Steps]
         /\ chk' \in [Sessions -> Check]
         /\ \A t \in Sessions : IsFiniteSet(chk'[t].fresh)
<1> USE DEF TypeOK, Finite
<1>1. browser' \in Sessions \cup {None} BY DEF Raise, Freed
<1>2. pc' \in [Sessions -> Steps] BY DEF Raise, Goto, Steps
<1>3. CASE chk' = [chk EXCEPT ![s] = Blank]
  <2>1. Blank.fresh = {} BY DEF Blank
  <2> QED BY <1>1, <1>2, <1>3, <2>1, BlankTyped, FS_EmptySet
<1>4. CASE chk' = [chk EXCEPT ![s] = Returned(chk[s])]
  <2>1. Returned(chk[s]) \in Check /\ Returned(chk[s]).fresh = chk[s].fresh
    BY ReturnedTyped
  <2> QED BY <1>1, <1>2, <1>4, <2>1
<1> QED BY <1>3, <1>4 DEF Raise

LEMMA CountTyped ==
  ASSUME TypeOK, Finite, NEW s \in Sessions
  PROVE  Cardinality(AutoToday \cup chk[s].fresh) \in Nat
<1>1. AutoToday \subseteq docs BY DEF AutoToday, Live
<1>2. IsFiniteSet(AutoToday) BY <1>1, FS_Subset DEF Finite
<1>3. IsFiniteSet(AutoToday \cup chk[s].fresh) BY <1>2, FS_Union DEF Finite
<1> QED BY <1>3, FS_CardinalityType

(* The changes a commit or a deletion makes to documents keep them finite.  *)
LEMMA CommittedFinite ==
  ASSUME NEW S \in SUBSET Doc, IsFiniteSet(S), NEW b \in Nat, NEW n \in Nat
  PROVE  IsFiniteSet({[d EXCEPT !.born = b, !.since = n] : d \in S})
<1> DEFINE T == {[d EXCEPT !.born = b, !.since = n] : d \in S}
           f == [d \in S |-> [d EXCEPT !.born = b, !.since = n]]
<1>1. f \in Surjection(S, T) BY DEF Surjection
<1> QED BY <1>1, FS_Surjection

LEMMA DeletedFinite ==
  ASSUME NEW S \in SUBSET Doc, IsFiniteSet(S)
  PROVE  IsFiniteSet({[d EXCEPT !.live = FALSE] : d \in S})
<1> DEFINE T == {[d EXCEPT !.live = FALSE] : d \in S}
           f == [d \in S |-> [d EXCEPT !.live = FALSE]]
<1>1. f \in Surjection(S, T) BY DEF Surjection
<1> QED BY <1>1, FS_Surjection

(* The next-state relation, action by action.                               *)
LEMMA NextCases ==
  ASSUME [Next]_vars
  PROVE  \/ \E s \in Sessions :
               \/ CheckNow(s) \/ Visit(s) \/ Sleep(s) \/ Count(s) \/ ReadIds(s)
               \/ ReadNames(s) \/ TakeBrowser(s) \/ NothingFound(s) \/ Trip(s)
               \/ Select(s) \/ Skip(s) \/ StopCards(s) \/ Ingest(s) \/ LeaveBrowser(s)
               \/ Record(s) \/ RecordRefused(s) \/ ScheduleRaises(s) \/ Respond(s)
               \/ Fail(s) \/ RespondFails(s)
         \/ Wake \/ Upload \/ DeleteDocument \/ DeleteCompany \/ ToggleAutoFetch
         \/ Crash
         \/ \E x \in deleting : ErasePdf(x) \/ EraseRows(x) \/ BreakOff(x)
         \/ UNCHANGED vars
BY DEF Next, Step, Environment

(* Erasing rows takes documents off the record, and keeps all but that.     *)
LEMMA ErasedRows ==
  ASSUME NEW x \in deleting, EraseRows(x)
  PROVE  \E gone \in SUBSET docs :
            /\ docs' = (docs \ gone) \cup {[d EXCEPT !.live = FALSE] : d \in gone}
            /\ \A d \in docs \ gone : d.id \notin x.ids
<1> DEFINE erased(d) == d.id \in x.ids \/ Company[d.card] = x.co
           gone == {e \in docs : erased(e)}
<1>1. docs' = {d \in docs : ~erased(d)} \cup {[d EXCEPT !.live = FALSE] : d \in gone}
  BY DEF EraseRows
<1>2. {d \in docs : ~erased(d)} = docs \ gone OBVIOUS
<1>3. gone \in SUBSET docs OBVIOUS
<1>4. \A d \in docs \ gone : d.id \notin x.ids OBVIOUS
<1> HIDE DEF gone, erased
<1> QED BY <1>1, <1>2, <1>3, <1>4

(* A step of a session that leaves the tables alone.                        *)
LEMMA LocalTyped ==
  ASSUME TypeOK, Finite, NEW s \in Sessions, NEW m \in Check, NEW l \in Steps,
         IsFiniteSet(m.fresh),
         chk' = [chk EXCEPT ![s] = m],
         pc' = [pc EXCEPT ![s] = l],
         browser' \in {browser, s, None},
         files' \subseteq Nat, clock' \in Nat,
         UNCHANGED tables,
         issued' \in Nat, failures' \in Nat, crashes' \in Nat
  PROVE  TypeOK' /\ Finite'
<1> USE DEF TypeOK, Finite, tables
<1>1. chk' \in [Sessions -> Check] OBVIOUS
<1>2. \A t \in Sessions : IsFiniteSet(chk'[t].fresh) OBVIOUS
<1>3. docs' \subseteq Doc BY DEF Doc, FileNames, FileName, AsTitled
<1> QED BY <1>1, <1>2

LEMMA StepTyped ==
  ASSUME TypeOK, Finite, NEW s \in Sessions,
         \/ CheckNow(s) \/ Visit(s) \/ Sleep(s) \/ Count(s) \/ ReadIds(s)
         \/ ReadNames(s) \/ TakeBrowser(s) \/ NothingFound(s) \/ Trip(s)
         \/ Select(s) \/ Skip(s) \/ StopCards(s) \/ LeaveBrowser(s)
  PROVE  TypeOK' /\ Finite'
<1> DEFINE m == chk[s]
<1>t. /\ m \in Check /\ IsFiniteSet(m.fresh) /\ Blank \in Check
      /\ Returned(m) \in Check /\ Returned(m).fresh = m.fresh
      /\ clock \in Nat /\ files \subseteq Nat
      /\ issued \in Nat /\ failures \in Nat /\ crashes \in Nat
  BY BlankTyped, ReturnedTyped DEF TypeOK, Finite
<1>u. /\ chk = [chk EXCEPT ![s] = m]
      /\ \A l : pc[s] = l => pc = [pc EXCEPT ![s] = l]
      /\ pc[s] \in Steps
  BY DEF TypeOK
<1>e. IsFiniteSet(Blank.fresh) BY FS_EmptySet DEF Blank
<1> USE DEF Goto, limits, Steps
<1>1. CASE CheckNow(s)
  <2>1. PICK c \in companies :
          chk' = [chk EXCEPT ![s] = [Blank EXCEPT !.co = c, !.on = c \in enabled]]
    BY <1>1 DEF CheckNow
  <2> DEFINE b == c \in enabled
             n == [Blank EXCEPT !.co = c, !.on = b]
  <2>2. b \in BOOLEAN OBVIOUS
  <2>3. chk' = [chk EXCEPT ![s] = n] BY <2>1
  <2> HIDE DEF b
  <2>4. c \in Companies BY DEF TypeOK
  <2>5. n \in Check /\ n.fresh = Blank.fresh BY <1>t, <2>2, <2>4 DEF Check, Blank
  <2> HIDE DEF n
  <2>6. /\ pc' = [pc EXCEPT ![s] = "count"] /\ UNCHANGED tables
        /\ browser' = browser /\ files' = files /\ clock' = clock
        /\ issued' = issued + 1 /\ failures' = failures /\ crashes' = crashes
    BY <1>1 DEF CheckNow, Request
  <2>7. IsFiniteSet(n.fresh) BY <1>e, <2>5
  <2>8. issued' \in Nat /\ failures' \in Nat /\ crashes' \in Nat BY <1>t, <2>6
  <2>9. files' \subseteq Nat /\ clock' \in Nat BY <1>t, <2>6
  <2> QED BY <2>3, <2>5, <2>6, <2>7, <2>8, <2>9, LocalTyped
<1>2. CASE Visit(s)
  <2>1. PICK c \in m.todo :
          chk' = [chk EXCEPT ![s].todo = @ \ {c}, ![s].co = c, ![s].made = {},
                             ![s].tripped = FALSE]
    BY <1>2 DEF Visit
  <2> DEFINE n == [m EXCEPT !.todo = @ \ {c}, !.co = c, !.made = {}, !.tripped = FALSE]
  <2>2. n \in Check /\ n.fresh = m.fresh BY <1>t DEF Check
  <2>3. chk' = [chk EXCEPT ![s] = n] BY <2>1, <1>t DEF TypeOK, Check
  <2> HIDE DEF n
  <2> QED BY <1>2, <1>t, <2>3, <2>2, LocalTyped DEF Visit
<1>3. CASE Sleep(s) BY <1>3, <1>t, <1>e, LocalTyped DEF Sleep
<1>4. CASE Count(s)
  <2> DEFINE used == Cardinality(AutoToday \cup m.fresh)
             n(b) == [m EXCEPT !.since = IF m.fresh = {} THEN clock ELSE @, !.budget = b]
  <2>1. used \in Nat BY CountTyped
  <2>2. \/ pc' = [pc EXCEPT ![s] = "record"] /\ chk' = [chk EXCEPT ![s] = n(m.budget)]
        \/ /\ pc' = [pc EXCEPT ![s] = "ids"] /\ used < DailyLimit
           /\ chk' = [chk EXCEPT ![s] = n(DailyLimit - used)]
    <3>1. CASE used >= DailyLimit /\ pc' = [pc EXCEPT ![s] = "record"]
                 /\ chk' = [chk EXCEPT ![s].since = IF m.fresh = {} THEN clock ELSE @]
      <4>1. [m EXCEPT !.since = IF m.fresh = {} THEN clock ELSE @] = n(m.budget)
        BY <1>t DEF Check
      <4> QED BY <3>1, <4>1 DEF TypeOK
    <3>2. CASE ~(used >= DailyLimit) /\ pc' = [pc EXCEPT ![s] = "ids"]
                 /\ chk' = [chk EXCEPT ![s].since = IF m.fresh = {} THEN clock ELSE @,
                                       ![s].budget = DailyLimit - used]
      <4>1. used < DailyLimit BY <3>2, <2>1, SettingsAssumption
      <4> HIDE DEF used
      <4> QED BY <3>2, <4>1, <1>t DEF TypeOK, Check
    <3> QED BY <1>4, <3>1, <3>2 DEF Count, Exhausted
  <2>3. \A b \in Nat : n(b) \in Check /\ n(b).fresh = m.fresh BY <1>t DEF Check
  <2>4. used < DailyLimit => DailyLimit - used \in Nat BY <2>1, SettingsAssumption
  <2>5. m.budget \in Nat BY <1>t DEF Check
  <2>6. browser' = browser /\ files' = files /\ clock' = clock /\ UNCHANGED <<tables, limits>>
    BY <1>4 DEF Count
  <2> HIDE DEF used, n
  <2> QED BY <1>t, <2>2, <2>3, <2>4, <2>5, <2>6, LocalTyped
<1>5. CASE ReadIds(s)
  <2> DEFINE n == [m EXCEPT !.ids = KnownIds(s), !.known = clock]
  <2>1. KnownIds(s) \subseteq Cards BY <1>t DEF KnownIds, Of, Live, TypeOK, Check, Doc
  <2>2. n \in Check /\ n.fresh = m.fresh BY <1>t, <2>1 DEF Check
  <2>3. chk' = [chk EXCEPT ![s] = n] BY <1>5, <1>t DEF ReadIds, TypeOK, Check
  <2> HIDE DEF n
  <2> QED BY <1>5, <1>t, <2>3, <2>2, LocalTyped DEF ReadIds
<1>6. CASE ReadNames(s)
  <2> DEFINE names == {d.name : d \in Of(Live \cup m.fresh, m.co)}
             n == [m EXCEPT !.names = names]
  <2>1. names \subseteq FileNames BY <1>t DEF Of, Live, TypeOK, Check, Doc
  <2>2. n \in Check /\ n.fresh = m.fresh BY <1>t, <2>1 DEF Check
  <2>3. chk' = [chk EXCEPT ![s] = n] BY <1>6, <1>t DEF ReadNames, TypeOK, Check
  <2> HIDE DEF n
  <2> QED BY <1>6, <1>t, <2>3, <2>2, LocalTyped DEF ReadNames
<1>7. CASE TakeBrowser(s) BY <1>7, <1>t, <1>u, LocalTyped DEF TakeBrowser
<1>8. CASE NothingFound(s) BY <1>8, <1>t, LocalTyped DEF NothingFound, Freed
<1>9. CASE Trip(s)
  <2> DEFINE n == [Returned(m) EXCEPT !.tripped = TRUE]
  <2>1. n \in Check /\ n.fresh = m.fresh BY <1>t DEF Check
  <2>2. chk' = [chk EXCEPT ![s] = n] BY <1>9 DEF Trip
  <2> HIDE DEF n
  <2> QED BY <1>9, <1>t, <2>1, <2>2, LocalTyped DEF Trip, Freed
<1>10. CASE Select(s)
  <2>1. PICK found \in Discovered(m.co) :
          \E cards \in Newest(Unnamed(s, found), Cap(s)) :
            chk' = [chk EXCEPT ![s].queue = cards]
    BY <1>10 DEF Select
  <2>2. PICK cards \in Newest(Unnamed(s, found), Cap(s)) :
          chk' = [chk EXCEPT ![s].queue = cards]
    BY <2>1
  <2>3. cards \subseteq Cards BY DEF Newest, Unnamed, Discovered
  <2> DEFINE n == [m EXCEPT !.queue = cards]
  <2>4. n \in Check /\ n.fresh = m.fresh BY <1>t, <2>3 DEF Check
  <2>5. chk' = [chk EXCEPT ![s] = n] BY <2>2, <1>t DEF TypeOK, Check
  <2> HIDE DEF n
  <2> QED BY <1>10, <1>t, <2>4, <2>5, LocalTyped DEF Select
<1>11. CASE Skip(s)
  <2>1. PICK k \in NextCards(s) : chk' = [chk EXCEPT ![s].queue = @ \ {k}]
    BY <1>11 DEF Skip
  <2> DEFINE n == [m EXCEPT !.queue = @ \ {k}]
  <2>2. n \in Check /\ n.fresh = m.fresh BY <1>t DEF Check
  <2>3. chk' = [chk EXCEPT ![s] = n] BY <2>1, <1>t DEF TypeOK, Check
  <2> HIDE DEF n
  <2> QED BY <1>11, <1>t, <1>u, <2>2, <2>3, LocalTyped DEF Skip
<1>12. CASE StopCards(s)
  <2> DEFINE n == [m EXCEPT !.queue = {}]
  <2>1. n \in Check /\ n.fresh = m.fresh BY <1>t DEF Check
  <2>2. chk' = [chk EXCEPT ![s] = n] BY <1>12, <1>t DEF StopCards, TypeOK, Check
  <2> HIDE DEF n
  <2> QED BY <1>12, <1>t, <1>u, <2>1, <2>2, LocalTyped DEF StopCards
<1>13. CASE LeaveBrowser(s) BY <1>13, <1>t, LocalTyped DEF LeaveBrowser, Freed
<1> QED BY <1>1, <1>2, <1>3, <1>4, <1>5, <1>6, <1>7, <1>8, <1>9, <1>10, <1>11, <1>12, <1>13

(* A step of a session that raises.                                         *)
LEMMA RaiseKeepsTypes ==
  ASSUME TypeOK, Finite, NEW s \in Sessions, NEW r \in BOOLEAN, Raise(s, r),
         UNCHANGED tables, files' \subseteq Nat, clock' \in Nat,
         issued' \in Nat, failures' \in Nat, crashes' \in Nat
  PROVE  TypeOK' /\ Finite'
<1>1. docs' \subseteq Doc BY DEF TypeOK, tables, Doc, FileNames, FileName, AsTitled
<1> QED BY <1>1, RaiseTyped DEF TypeOK, Finite, tables

LEMMA IngestTyped ==
  ASSUME TypeOK, Finite, NEW s \in Sessions, Ingest(s)
  PROVE  TypeOK' /\ Finite'
<1> DEFINE m == chk[s]
<1>t. m \in Check /\ IsFiniteSet(m.fresh) BY DEF TypeOK, Finite
<1>1. PICK k \in NextCards(s) : Flush(s, k, {clock + 1}) BY DEF Ingest, PdfThenRow
<1>2. k \in Cards BY <1>t DEF NextCards, Check
<1>3. files' \subseteq Nat /\ clock' \in Nat BY <1>1 DEF Flush, TypeOK
<1>4. UNCHANGED <<tables, limits>> BY DEF Ingest
<1>5. CASE Raise(s, TRUE) BY <1>3, <1>4, <1>5, RaiseKeepsTypes DEF TypeOK, limits
<1>6. CASE ~Raise(s, TRUE)
  <2> DEFINE d == [id |-> clock + 1, card |-> k, name |-> FileName(k), auto |-> TRUE,
                   known |-> m.known, since |-> 0, born |-> 0, live |-> TRUE]
             n == [m EXCEPT !.fresh = @ \cup {d}, !.made = @ \cup {clock + 1},
                            !.ids = @ \cup {k}, !.queue = @ \ {k}]
  <2>1. d \in Doc BY <1>t, <1>2, NamesTyped DEF TypeOK, Check, Doc
  <2>2. browser' = browser /\ pc' = pc BY <1>1, <1>6 DEF Flush
  <2>3. chk' = [chk EXCEPT ![s] = n] BY <1>1, <1>6, <1>t DEF Flush, TypeOK, Check
  <2> HIDE DEF d
  <2>a. /\ m.fresh \cup {d} \subseteq Doc /\ m.made \cup {clock + 1} \subseteq Nat
        /\ m.ids \cup {k} \subseteq Cards /\ m.queue \ {k} \subseteq Cards
    BY <1>t, <1>2, <2>1 DEF TypeOK, Check
  <2>4. n \in Check /\ n.fresh = m.fresh \cup {d} BY <1>t, <2>a DEF Check
  <2> HIDE DEF n
  <2>5. IsFiniteSet(n.fresh) BY <1>t, <2>4, FS_AddElement
  <2>6. pc' = [pc EXCEPT ![s] = pc[s]] /\ pc[s] \in Steps BY <2>2 DEF TypeOK
  <2> QED BY <1>3, <1>4, <2>2, <2>3, <2>4, <2>5, <2>6, LocalTyped DEF TypeOK, limits
<1> QED BY <1>5, <1>6

LEMMA RecordTyped ==
  ASSUME TypeOK, Finite, NEW s \in Sessions, Record(s)
  PROVE  TypeOK' /\ Finite'
<1> DEFINE m == chk[s]
           new == {[d EXCEPT !.born = clock + 1, !.since = m.since] : d \in m.fresh}
           n == [m EXCEPT !.fresh = {}]
<1>t. /\ m \in Check /\ IsFiniteSet(m.fresh) /\ m.fresh \subseteq Doc
      /\ m.since \in Nat /\ clock + 1 \in Nat
  BY DEF TypeOK, Finite, Check
<1>1. new \subseteq Doc BY <1>t DEF Doc
<1>2. IsFiniteSet(new) BY <1>t, CommittedFinite
<1>3. n \in Check /\ n.fresh = {} BY <1>t DEF Check
<1>4. /\ docs' = docs \cup new /\ chk' = [chk EXCEPT ![s] = n]
      /\ clock' = clock + 1
      /\ UNCHANGED <<files, scheduled, companies, deleting, lost, browser, limits>>
  BY DEF Record
<1>5. pc' \in [Sessions -> Steps]
  BY DEF Record, Goto, TypeOK, Steps
<1>6. enabled' \subseteq companies BY DEF Record, TypeOK
<1> HIDE DEF new, n
<1>7. docs' \subseteq Doc' BY <1>1, <1>4 DEF TypeOK, Doc, FileNames, FileName, AsTitled
<1>8. IsFiniteSet(docs') BY <1>2, <1>4, FS_Union DEF Finite
<1>9. Finite' BY <1>3, <1>4, <1>8, FS_EmptySet DEF Finite, TypeOK
<1>10. chk' \in [Sessions -> Check] BY <1>3, <1>4 DEF TypeOK
<1>11. TypeOK' BY <1>t, <1>4, <1>5, <1>6, <1>7, <1>10 DEF TypeOK, limits
<1> QED BY <1>9, <1>11

(* What users do changes documents, never what a session holds.             *)
LEMMA UsersTyped ==
  ASSUME TypeOK, Finite,
         Upload \/ DeleteDocument \/ DeleteCompany \/ ToggleAutoFetch
  PROVE  TypeOK' /\ Finite'
<1> USE DEF TypeOK, Finite
<1>1. CASE Upload
  <2>1. PICK k \in Cards :
          docs' = docs \cup {[id |-> clock + 1, card |-> k, name |-> AsTitled(k),
                              auto |-> FALSE, known |-> 0, since |-> clock,
                              born |-> clock + 1, live |-> TRUE]}
    BY <1>1 DEF Upload
  <2> DEFINE d == [id |-> clock + 1, card |-> k, name |-> AsTitled(k),
                   auto |-> FALSE, known |-> 0, since |-> clock,
                   born |-> clock + 1, live |-> TRUE]
  <2>2. d \in Doc BY NamesTyped DEF Doc
  <2>3. docs' = docs \cup {d} BY <2>1
  <2> HIDE DEF d
  <2>4. IsFiniteSet(docs') BY <2>3, FS_AddElement
  <2> QED BY <1>1, <2>2, <2>3, <2>4 DEF Upload, Request
<1>2. CASE DeleteDocument \/ DeleteCompany
  <2>1. /\ issued' = issued + 1
        /\ UNCHANGED <<docs, files, scheduled, companies, enabled, lost, browser, pc,
                       chk, clock, failures, crashes>>
    BY <1>2 DEF DeleteDocument, DeleteCompany, Request
  <2>2. docs' \subseteq Doc' BY <2>1 DEF Doc, FileNames, FileName, AsTitled
  <2>3. \A d \in docs : d.id \in Nat BY DEF Doc
  <2>4. deleting' \subseteq [co : Companies \cup {None}, ids : SUBSET Nat]
    <3>1. CASE DeleteDocument BY <3>1, <2>3 DEF DeleteDocument, Live
    <3>2. CASE DeleteCompany BY <3>2, <2>3 DEF DeleteCompany, IdsOf, Of, Live
    <3> QED BY <1>2, <3>1, <3>2
  <2> QED BY <2>1, <2>2, <2>4
<1>3. CASE ToggleAutoFetch BY <1>3 DEF ToggleAutoFetch, Request
<1> QED BY <1>1, <1>2, <1>3

LEMMA DeletionTyped ==
  ASSUME TypeOK, Finite, NEW x \in deleting, ErasePdf(x) \/ EraseRows(x) \/ BreakOff(x)
  PROVE  TypeOK' /\ Finite'
<1> USE DEF TypeOK, Finite, tables, limits
<1>1. CASE ErasePdf(x)
  <2>1. docs' \subseteq Doc' BY <1>1 DEF ErasePdf, Doc, FileNames, FileName, AsTitled
  <2> QED BY <1>1, <2>1 DEF ErasePdf
<1>2. CASE EraseRows(x)
  <2>1. PICK gone \in SUBSET docs :
          docs' = (docs \ gone) \cup {[d EXCEPT !.live = FALSE] : d \in gone}
    BY <1>2, ErasedRows
  <2> DEFINE off == {[d EXCEPT !.live = FALSE] : d \in gone}
  <2>2. off \subseteq Doc BY DEF Doc
  <2>3. IsFiniteSet(gone) /\ IsFiniteSet(docs \ gone) BY FS_Subset
  <2>4. IsFiniteSet(off) BY <2>3, DeletedFinite
  <2>5. docs' = (docs \ gone) \cup off BY <2>1
  <2> HIDE DEF off
  <2>6. IsFiniteSet(docs') BY <2>3, <2>4, <2>5, FS_Union
  <2>7. docs' \subseteq Doc' BY <2>2, <2>5 DEF Doc, FileNames, FileName, AsTitled
  <2>8. /\ companies' = companies \ {x.co} /\ enabled' = enabled \ {x.co}
        /\ deleting' = deleting \ {x}
        /\ UNCHANGED <<files, scheduled, lost, browser, pc, chk, clock, limits>>
    BY <1>2 DEF EraseRows
  <2> QED BY <2>6, <2>7, <2>8
<1>3. CASE BreakOff(x)
  <2>1. docs' \subseteq Doc' BY <1>3 DEF BreakOff, Doc, FileNames, FileName, AsTitled
  <2>2. lost' \subseteq Nat /\ deleting' \subseteq deleting
    <3>1. x.ids \subseteq Nat OBVIOUS
    <3> QED BY <1>3, <3>1 DEF BreakOff
  <2>3. failures' \in Nat BY <1>3 DEF BreakOff
  <2>4. UNCHANGED <<docs, files, scheduled, companies, enabled, browser, pc, chk, clock,
                    issued, crashes>>
    BY <1>3 DEF BreakOff
  <2>5. Finite' BY <2>4
  <2>6. TypeOK'
    <3>1. deleting' \subseteq [co : Companies \cup {None}, ids : SUBSET Nat] BY <2>2
    <3> QED BY <2>1, <2>2, <2>3, <2>4, <3>1
  <2> QED BY <2>5, <2>6
<1> QED BY <1>1, <1>2, <1>3

LEMMA NextTyped ==
  ASSUME TypeOK, Finite, [Next]_vars
  PROVE  TypeOK' /\ Finite'
<1> USE DEF limits
<1>1. ASSUME NEW s \in Sessions,
             \/ CheckNow(s) \/ Visit(s) \/ Sleep(s) \/ Count(s) \/ ReadIds(s)
             \/ ReadNames(s) \/ TakeBrowser(s) \/ NothingFound(s) \/ Trip(s)
             \/ Select(s) \/ Skip(s) \/ StopCards(s) \/ LeaveBrowser(s)
      PROVE  TypeOK' /\ Finite'
  BY <1>1, StepTyped
<1>2. ASSUME NEW s \in Sessions, Ingest(s) \/ Record(s) PROVE TypeOK' /\ Finite'
  BY <1>2, IngestTyped, RecordTyped
<1>3. ASSUME NEW s \in Sessions, RecordRefused(s) \/ ScheduleRaises(s) PROVE TypeOK' /\ Finite'
  BY <1>3, RaiseKeepsTypes DEF RecordRefused, ScheduleRaises, TypeOK
<1>4. ASSUME NEW s \in Sessions, Fail(s) \/ RespondFails(s) PROVE TypeOK' /\ Finite'
  <2>1. \E r \in BOOLEAN : Raise(s, r) BY <1>4 DEF Fail, RespondFails
  <2>2. /\ UNCHANGED <<tables, files, clock, issued, crashes>>
        /\ failures' = failures + 1
    BY <1>4 DEF Fail, RespondFails
  <2> QED BY <2>1, <2>2, RaiseKeepsTypes DEF TypeOK
<1>5. ASSUME NEW s \in Sessions, Respond(s) PROVE TypeOK' /\ Finite'
  <2>1. chk[s].made \subseteq Nat BY DEF TypeOK, Check
  <2>2. Blank.fresh = {} BY DEF Blank
  <2>3. Finite' BY <1>5, <2>2, FS_EmptySet DEF Respond, Finite, TypeOK
  <2> QED BY <1>5, <2>1, <2>3, BlankTyped DEF Respond, TypeOK, Goto, Steps
<1>6. CASE Wake
  <2> DEFINE n == [Blank EXCEPT !.todo = enabled]
  <2>1. n \in Check /\ n.fresh = {} BY BlankTyped DEF TypeOK, Blank, Check
  <2>2. chk' = [chk EXCEPT ![Loop] = n] /\ Loop \in Sessions BY <1>6 DEF Wake, Sessions
  <2> HIDE DEF n
  <2>3. IsFiniteSet(n.fresh) BY <2>1, FS_EmptySet
  <2>4. pc' = [pc EXCEPT ![Loop] = "next"] /\ "next" \in Steps
    BY <1>6 DEF Wake, Goto, Steps
  <2>5. UNCHANGED tables /\ browser' = browser /\ files' = files /\ clock' = clock
    BY <1>6 DEF Wake
  <2>6. issued' = issued + 1 /\ failures' = failures /\ crashes' = crashes
    BY <1>6 DEF Wake, Request
  <2>7. issued' \in Nat /\ failures' \in Nat /\ crashes' \in Nat /\ files' \subseteq Nat
        /\ clock' \in Nat
    BY <2>5, <2>6 DEF TypeOK
  <2> QED BY <2>1, <2>2, <2>3, <2>4, <2>5, <2>7, LocalTyped
<1>7. CASE Upload \/ DeleteDocument \/ DeleteCompany \/ ToggleAutoFetch
  BY <1>7, UsersTyped
<1>8. CASE Crash
  <2>1. Blank.fresh = {} BY DEF Blank
  <2>2. Finite' BY <1>8, <2>1, FS_EmptySet DEF Crash, Finite
  <2>3. \A x \in deleting : x.ids \subseteq Nat BY DEF TypeOK
  <2>4. lost' \subseteq Nat /\ deleting' = {} BY <1>8, <2>3 DEF Crash, TypeOK
  <2>5. docs' \subseteq Doc' BY <1>8 DEF Crash, TypeOK, Doc, FileNames, FileName, AsTitled
  <2> QED BY <1>8, <2>2, <2>4, <2>5, BlankTyped DEF Crash, TypeOK, Steps
<1>9. CASE UNCHANGED vars BY <1>9 DEF vars, TypeOK, Finite
<1>10. ASSUME NEW x \in deleting, ErasePdf(x) \/ EraseRows(x) \/ BreakOff(x)
       PROVE  TypeOK' /\ Finite'
  BY <1>10, DeletionTyped
<1> QED BY <1>1, <1>2, <1>3, <1>4, <1>5, <1>6, <1>7, <1>8, <1>9, <1>10, NextCases

LEMMA InitTyped == ASSUME Init PROVE TypeOK /\ Finite
<1>1. Finite BY FS_EmptySet DEF Init, Finite, Blank
<1>2. TypeOK BY BlankTyped DEF Init, TypeOK, Steps
<1> QED BY <1>1, <1>2

LEMMA TypedAlways == Spec => [](TypeOK /\ Finite)
<1>1. TypeOK /\ Finite /\ [Next]_vars => (TypeOK /\ Finite)' BY NextTyped
<1> QED BY <1>1, InitTyped, PTL DEF Spec

(* Documents, sessions and the browser keep their types.                    *)
THEOREM TypeCorrect == Spec => []TypeOK
BY TypedAlways, PTL

-----------------------------------------------------------------------------
(* A filing is fetched twice only by checks that overlap, once in a check,  *)
(* and its extraction is scheduled only when its document is committed.     *)
(* The argument is about one session at a time: what it has read covers     *)
(* every document on record that was committed before it read, and what     *)
(* others commit since bears a later stamp.                                 *)

(* d makes the fetching of e's card unnecessary.                            *)
Matches(d, e) ==
  \/ d.auto /\ d.card = e.card
  \/ Company[d.card] = Company[e.card] /\ d.name = AsTitled(e.card)

(* What a session has read covers what was committed by then.               *)
Covered(s) ==
  /\ chk[s].known <= clock
  /\ \A e \in chk[s].fresh : e.known <= clock
  /\ \A e \in chk[s].fresh, d \in Live : Matches(d, e) => e.known < d.born
  /\ pc[s] \in {"names", "wait", "crawl", "card"} =>
       \A d \in Live : Company[d.card] = chk[s].co /\ d.auto /\ d.born <= chk[s].known
         => d.card \in chk[s].ids
  /\ pc[s] \in {"wait", "crawl", "card"} =>
       \A d \in Live : Company[d.card] = chk[s].co /\ d.born <= chk[s].known
         => d.name \in chk[s].names
  /\ pc[s] = "card" =>
       \A k \in chk[s].queue : Company[k] = chk[s].co /\ AsTitled(k) \notin chk[s].names

(* What a check has made is told apart from what it has still to process,   *)
(* and from what its session carries along.                                 *)
Distinct(s) ==
  /\ \A d \in chk[s].fresh : d.id <= clock
  /\ pc[s] \in {"count", "ids", "names", "wait", "crawl"} => chk[s].made = {}
  /\ \A d, e \in chk[s].fresh :
       {d.id, e.id} \subseteq chk[s].made /\ Title[d.card] = Title[e.card] => d = e
  /\ pc[s] = "card" =>
       /\ \A a, b \in chk[s].queue : Title[a] = Title[b] => a = b
       /\ \A d \in chk[s].fresh, k \in chk[s].queue :
            d.id \in chk[s].made => Title[d.card] # Title[k]

(* What a user's check has made is what it has flushed, then what it has    *)
(* committed; the loop never gets to respond.                               *)
Pending(s) ==
  /\ s = Loop => pc[s] # "respond"
  /\ s # Loop /\ pc[s] # "respond" => chk[s].made \subseteq IdsOf(chk[s].fresh)
  /\ pc[s] = "respond" => chk[s].made \subseteq IdsOf(docs)

Held(s) == Covered(s) /\ Distinct(s) /\ Pending(s)

OnRecord ==
  /\ \A d \in docs : d.known <= clock
  /\ RefetchNeedsOverlap
  /\ ScheduledAfterCommit

FetchInv == OnRecord /\ \A s \in Sessions : Held(s)

-----------------------------------------------------------------------------
(* What a step does to the documents on record *)

(* Documents stay, though they may go from the live ones, and those that    *)
(* come bear a later stamp.                                                 *)
Grown ==
  /\ clock' \in Nat /\ clock' >= clock
  /\ \A d \in Live' : d \in Live \/ d.born > clock
  /\ IdsOf(docs) \subseteq IdsOf(docs)'

LEMMA StillGrown ==
  ASSUME TypeOK, docs' = docs, clock' \in {clock, clock + 1} PROVE Grown
BY DEF Grown, TypeOK, Live, IdsOf

(* A session that takes no step keeps what it has.                          *)
LEMMA Frame ==
  ASSUME TypeOK, TypeOK', Grown, NEW t \in Sessions, Held(t),
         chk'[t] = chk[t], pc'[t] = pc[t]
  PROVE  Held(t)'
<1> DEFINE m == chk[t]
<1>t. /\ m \in Check /\ clock \in Nat /\ clock' \in Nat /\ clock' >= clock
      /\ m.known \in Nat /\ m.fresh \subseteq Doc
      /\ \A d \in Doc : d.id \in Nat /\ d.known \in Nat /\ d.born \in Nat
      /\ Live' \subseteq Doc
  BY DEF TypeOK, Check, Doc, Grown, Live
<1>1. Covered(t)'
  <2>1. m.known <= clock /\ \A e \in m.fresh : e.known <= clock BY DEF Held, Covered
  <2>2. ASSUME NEW d \in Live' PROVE d \in Live \/ d.born > clock BY DEF Grown
  <2>3. ASSUME NEW e \in m.fresh, NEW d \in Live', Matches(d, e) PROVE e.known < d.born
    <3>1. CASE d \in Live BY <2>3, <3>1 DEF Held, Covered
    <3>2. CASE d.born > clock BY <1>t, <2>1, <3>2
    <3> QED BY <2>2, <3>1, <3>2
  <2>4. ASSUME NEW d \in Live', d.born <= m.known PROVE d \in Live
    BY <1>t, <2>1, <2>2, <2>4
  <2>5. pc[t] \in {"names", "wait", "crawl", "card"} =>
          \A d \in Live' : Company[d.card] = m.co /\ d.auto /\ d.born <= m.known => d.card \in m.ids
    BY <2>4 DEF Held, Covered
  <2>6. pc[t] \in {"wait", "crawl", "card"} =>
          \A d \in Live' : Company[d.card] = m.co /\ d.born <= m.known => d.name \in m.names
    BY <2>4 DEF Held, Covered
  <2>7. m.known <= clock' /\ \A e \in m.fresh : e.known <= clock' BY <1>t, <2>1
  <2>8. pc[t] = "card" => \A k \in m.queue : Company[k] = m.co /\ AsTitled(k) \notin m.names
    BY DEF Held, Covered
  <2>9. \A d, e : Matches(d, e)' <=> Matches(d, e) BY DEF Matches, AsTitled
  <2> QED BY <2>3, <2>5, <2>6, <2>7, <2>8, <2>9 DEF Covered, AsTitled
<1>2. Distinct(t)'
  <2>1. \A d \in m.fresh : d.id <= clock' BY <1>t DEF Held, Distinct
  <2> QED BY <2>1 DEF Held, Distinct
<1>3. Pending(t)' BY DEF Held, Pending, Grown, IdsOf
<1> QED BY <1>1, <1>2, <1>3 DEF Held

(* What is on record stays so where no document is added and none is        *)
(* scheduled.                                                               *)
LEMMA RecordFrame ==
  ASSUME TypeOK, TypeOK', Grown, OnRecord, Live' \subseteq Live, scheduled' = scheduled,
         \A d \in docs' : \E e \in docs : d.known = e.known
  PROVE  OnRecord'
<1>1. \A d \in docs' : d.known <= clock' BY DEF Grown, OnRecord, TypeOK, Doc
<1>2. RefetchNeedsOverlap'
  <2>1. \A d, e \in Live' :
          /\ e.auto /\ d # e
          /\ \/ d.auto /\ d.card = e.card
             \/ Company[d.card] = Company[e.card] /\ d.name = AsTitled(e.card)
          => e.known < d.born
    BY DEF OnRecord, RefetchNeedsOverlap
  <2> QED BY <2>1 DEF RefetchNeedsOverlap, AsTitled
<1>3. ScheduledAfterCommit' BY DEF OnRecord, ScheduledAfterCommit, Grown
<1> QED BY <1>1, <1>2, <1>3 DEF OnRecord

-----------------------------------------------------------------------------
(* What a step does to the session that takes it *)

LEMMA BlankHeld ==
  ASSUME TypeOK, NEW s \in Sessions, chk'[s] = Blank, pc'[s] = "idle", clock' \in Nat
  PROVE  Held(s)'
<1>1. chk'[s].fresh = {} /\ chk'[s].made = {} /\ chk'[s].known = 0 BY DEF Blank
<1> QED BY <1>1 DEF Held, Covered, Distinct, Pending

(* A check that returns keeps what its session flushed.                     *)
LEMMA ReturnedHeld ==
  ASSUME TypeOK, OnRecord, NEW s \in Sessions, Held(s),
         UNCHANGED <<docs, clock>>,
         chk'[s] \in {Returned(chk[s]), [Returned(chk[s]) EXCEPT !.tripped = TRUE]},
         pc'[s] \in {"next", "record"}, pc'[s] = "next" => s = Loop,
         pc[s] # "respond"
  PROVE  Held(s)'
<1> DEFINE m == chk[s]
<1>1. m \in Check BY DEF TypeOK
<1> DEFINE n == Returned(m)
<1>a. /\ n \in Check /\ n.fresh = m.fresh /\ n.made = m.made /\ n.known = 0
  BY <1>1, ReturnedTyped DEF Returned, Check
<1>b. chk'[s] \in {n, [n EXCEPT !.tripped = TRUE]} OBVIOUS
<1> HIDE DEF n
<1>2. /\ chk'[s].fresh = m.fresh /\ chk'[s].made = m.made /\ chk'[s].known = 0
  BY <1>a, <1>b DEF Check
<1>3. Live' = Live BY DEF Live
<1>4. \A d, e : Matches(d, e)' <=> Matches(d, e) BY DEF Matches, AsTitled
<1>5. Covered(s)'
  <2>1. 0 <= clock BY DEF TypeOK
  <2> QED BY <1>2, <1>3, <1>4, <2>1 DEF Held, Covered
<1>6. Distinct(s)' BY <1>2 DEF Held, Distinct
<1>7. Pending(s)' BY <1>2 DEF Held, Pending
<1> QED BY <1>5, <1>6, <1>7 DEF Held

LEMMA RaiseHeld ==
  ASSUME TypeOK, OnRecord, NEW s \in Sessions, NEW r \in BOOLEAN, Raise(s, r), Held(s),
         docs' = docs, clock' \in {clock, clock + 1}, r \/ clock' = clock
  PROVE  Held(s)'
<1>1. CASE chk' = [chk EXCEPT ![s] = Blank] /\ Goto(s, "idle")
  BY <1>1, BlankHeld DEF Goto, TypeOK
<1>2. CASE s = Loop /\ ~r /\ chk' = [chk EXCEPT ![s] = Returned(chk[s])] /\ Goto(s, "next")
  <2>1. pc[s] # "respond" BY <1>2 DEF Held, Pending
  <2>2. chk'[s] = Returned(chk[s]) /\ pc'[s] = "next" BY <1>2 DEF Goto, TypeOK
  <2> QED BY <1>2, <2>1, <2>2, ReturnedHeld
<1> QED BY <1>1, <1>2 DEF Raise

LEMMA StepHeld ==
  ASSUME TypeOK, OnRecord, NEW s \in Sessions, Held(s),
         \/ CheckNow(s) \/ Visit(s) \/ Sleep(s) \/ Count(s) \/ ReadIds(s)
         \/ ReadNames(s) \/ TakeBrowser(s) \/ NothingFound(s) \/ Trip(s)
         \/ Select(s) \/ Skip(s) \/ StopCards(s) \/ LeaveBrowser(s)
  PROVE  Held(s)'
<1> DEFINE m == chk[s]
<1>t. /\ m \in Check /\ m.known \in Nat /\ m.fresh \subseteq Doc /\ clock \in Nat
      /\ Live \subseteq Doc /\ \A d \in Doc : d.known \in Nat /\ d.born \in Nat /\ d.id \in Nat
  BY DEF TypeOK, Check, Doc, Live
<1>m. \A d, e : Matches(d, e)' <=> Matches(d, e) BY DEF Matches, AsTitled
<1>h. Covered(s) /\ Distinct(s) /\ Pending(s) BY DEF Held
<1> USE DEF Goto, tables
<1>1. CASE CheckNow(s)
  <2>1. /\ chk'[s].fresh = {} /\ chk'[s].made = {} /\ chk'[s].known = 0
        /\ pc'[s] = "count" /\ clock' = clock
    BY <1>1 DEF CheckNow, Blank, TypeOK
  <2> QED BY <1>t, <2>1 DEF Held, Covered, Distinct, Pending
<1>2. CASE Visit(s)
  <2>a. PICK c \in m.todo :
          chk' = [chk EXCEPT ![s].todo = @ \ {c}, ![s].co = c, ![s].made = {},
                             ![s].tripped = FALSE]
    BY <1>2 DEF Visit
  <2>b. chk'[s].fresh = m.fresh /\ chk'[s].made = {} /\ chk'[s].known = m.known
    BY <2>a, <1>t DEF TypeOK, Check
  <2>c. pc'[s] = "count" /\ clock' = clock /\ docs' = docs BY <1>2 DEF Visit, TypeOK
  <2>1. /\ chk'[s].fresh = m.fresh /\ chk'[s].made = {} /\ chk'[s].known = m.known
        /\ pc'[s] = "count" /\ clock' = clock /\ docs' = docs
    BY <2>b, <2>c
  <2>2. Live' = Live BY <2>1 DEF Live
  <2> QED BY <1>t, <1>h, <1>m, <2>1, <2>2 DEF Held, Covered, Distinct, Pending
<1>3. CASE Sleep(s) BY <1>3, BlankHeld DEF Sleep, TypeOK
<1>4. CASE Count(s)
  <2>1. /\ chk'[s].fresh = m.fresh /\ chk'[s].made = m.made /\ chk'[s].known = m.known
        /\ pc'[s] \in {"record", "ids"} /\ clock' = clock /\ docs' = docs /\ pc[s] = "count"
    BY <1>4, <1>t DEF Count, TypeOK, Check
  <2>2. Live' = Live BY <2>1 DEF Live
  <2> QED BY <1>t, <1>h, <1>m, <2>1, <2>2 DEF Held, Covered, Distinct, Pending
<1>5. CASE ReadIds(s)
  <2>1. /\ chk'[s].fresh = m.fresh /\ chk'[s].made = m.made /\ chk'[s].known = clock
        /\ chk'[s].ids = KnownIds(s) /\ chk'[s].co = m.co
        /\ pc'[s] = "names" /\ clock' = clock /\ docs' = docs /\ pc[s] = "ids"
    BY <1>5, <1>t DEF ReadIds, TypeOK, Check
  <2>2. Live' = Live BY <2>1 DEF Live
  <2>3. \A d \in Live : Company[d.card] = m.co /\ d.auto => d.card \in KnownIds(s)
    BY DEF KnownIds, Of
  <2> QED BY <1>t, <1>h, <1>m, <2>1, <2>2, <2>3 DEF Held, Covered, Distinct, Pending
<1>6. CASE ReadNames(s)
  <2> DEFINE names == {d.name : d \in Of(Live \cup m.fresh, m.co)}
  <2>1. /\ chk'[s].fresh = m.fresh /\ chk'[s].made = m.made /\ chk'[s].known = m.known
        /\ chk'[s].ids = m.ids /\ chk'[s].co = m.co /\ chk'[s].names = names
        /\ pc'[s] = "wait" /\ clock' = clock /\ docs' = docs /\ pc[s] = "names"
    BY <1>6, <1>t DEF ReadNames, TypeOK, Check
  <2>2. Live' = Live BY <2>1 DEF Live
  <2>3. \A d \in Live : Company[d.card] = m.co => d.name \in names BY DEF Of
  <2> HIDE DEF names
  <2> QED BY <1>t, <1>h, <1>m, <2>1, <2>2, <2>3 DEF Held, Covered, Distinct, Pending
<1>7. CASE TakeBrowser(s)
  <2>1. chk'[s] = m /\ pc'[s] = "crawl" /\ pc[s] = "wait" /\ clock' = clock /\ docs' = docs
    BY <1>7 DEF TakeBrowser, TypeOK
  <2>2. Live' = Live BY <2>1 DEF Live
  <2> QED BY <1>h, <1>m, <2>1, <2>2 DEF Held, Covered, Distinct, Pending
<1>8. CASE NothingFound(s) BY <1>8, ReturnedHeld DEF NothingFound, TypeOK
<1>9. CASE Trip(s) BY <1>9, ReturnedHeld DEF Trip, TypeOK
<1>10. CASE Select(s)
  <2>a. PICK found \in Discovered(m.co) :
          \E cards \in SUBSET Unnamed(s, found) : chk' = [chk EXCEPT ![s].queue = cards]
    BY <1>10 DEF Select, Newest
  <2>1. PICK cards \in SUBSET Unnamed(s, found) : chk' = [chk EXCEPT ![s].queue = cards]
    BY <2>a
  <2>2. /\ \A k \in cards : Company[k] = m.co /\ AsTitled(k) \notin m.names
        /\ \A a, b \in cards : Title[a] = Title[b] => a = b
    BY <2>1 DEF Discovered, Unnamed
  <2>3. /\ chk'[s].fresh = m.fresh /\ chk'[s].made = m.made /\ chk'[s].known = m.known
        /\ chk'[s].ids = m.ids /\ chk'[s].co = m.co /\ chk'[s].names = m.names
        /\ chk'[s].queue = cards
    BY <2>1, <1>t DEF TypeOK, Check
  <2>4. pc'[s] = "card" /\ clock' = clock /\ docs' = docs /\ pc[s] = "crawl"
    BY <1>10 DEF Select, TypeOK
  <2>5. Live' = Live BY <2>4 DEF Live
  <2>6. Covered(s)' BY <1>h, <1>m, <2>2, <2>3, <2>4, <2>5 DEF Covered, AsTitled
  <2>7. Distinct(s)' BY <1>h, <2>2, <2>3, <2>4 DEF Distinct
  <2>8. Pending(s)' BY <1>h, <2>3, <2>4 DEF Pending
  <2> QED BY <2>6, <2>7, <2>8 DEF Held
<1>11. CASE Skip(s) \/ StopCards(s)
  <2>1. /\ chk'[s].fresh = m.fresh /\ chk'[s].made = m.made /\ chk'[s].known = m.known
        /\ chk'[s].ids = m.ids /\ chk'[s].co = m.co /\ chk'[s].names = m.names
        /\ chk'[s].queue \subseteq m.queue
    BY <1>11, <1>t DEF Skip, StopCards, TypeOK, Check
  <2>2. pc'[s] = "card" /\ clock' = clock /\ docs' = docs /\ pc[s] = "card"
    BY <1>11 DEF Skip, StopCards, TypeOK
  <2>3. Live' = Live BY <2>2 DEF Live
  <2>4. Covered(s)' BY <1>h, <1>m, <2>1, <2>2, <2>3 DEF Covered, AsTitled
  <2>5. Distinct(s)' BY <1>h, <2>1, <2>2 DEF Distinct
  <2>6. Pending(s)' BY <1>h, <2>1, <2>2 DEF Pending
  <2> QED BY <2>4, <2>5, <2>6 DEF Held
<1>12. CASE LeaveBrowser(s) BY <1>12, ReturnedHeld DEF LeaveBrowser, TypeOK
<1> QED BY <1>1, <1>2, <1>3, <1>4, <1>5, <1>6, <1>7, <1>8, <1>9, <1>10, <1>11, <1>12

LEMMA IngestHeld ==
  ASSUME TypeOK, OnRecord, NEW s \in Sessions, Held(s), Ingest(s)
  PROVE  Held(s)'
<1> DEFINE m == chk[s]
<1>t. /\ m \in Check /\ m.known \in Nat /\ m.fresh \subseteq Doc /\ m.made \subseteq Nat
      /\ clock \in Nat /\ Live \subseteq Doc
      /\ \A d \in Doc : d.known \in Nat /\ d.born \in Nat /\ d.id \in Nat
  BY DEF TypeOK, Check, Doc, Live
<1>h. Covered(s) /\ Distinct(s) /\ Pending(s) BY DEF Held
<1>m. \A d, e : Matches(d, e)' <=> Matches(d, e) BY DEF Matches, AsTitled
<1>1. PICK k \in NextCards(s) \ m.ids : Flush(s, k, {clock + 1}) BY DEF Ingest, PdfThenRow
<1>2. /\ pc[s] = "card" /\ docs' = docs /\ clock' = clock + 1 /\ k \in m.queue /\ k \notin m.ids
  BY <1>1 DEF Ingest, Flush, tables, NextCards
<1>3. CASE Raise(s, TRUE) BY <1>2, <1>3, RaiseHeld
<1>4. CASE ~Raise(s, TRUE)
  <2> DEFINE d == [id |-> clock + 1, card |-> k, name |-> FileName(k), auto |-> TRUE,
                   known |-> m.known, since |-> 0, born |-> 0, live |-> TRUE]
  <2>1. /\ chk'[s].fresh = m.fresh \cup {d} /\ chk'[s].made = m.made \cup {clock + 1}
        /\ chk'[s].ids = m.ids \cup {k} /\ chk'[s].queue = m.queue \ {k}
        /\ chk'[s].known = m.known /\ chk'[s].co = m.co /\ chk'[s].names = m.names
    <3> DEFINE n == [m EXCEPT !.fresh = @ \cup {d}, !.made = @ \cup {clock + 1},
                              !.ids = @ \cup {k}, !.queue = @ \ {k}]
    <3>1. chk' = [chk EXCEPT ![s] = n] BY <1>1, <1>4, <1>t DEF Flush, TypeOK, Check
    <3>2. chk'[s] = n BY <3>1 DEF TypeOK
    <3> HIDE DEF d
    <3> QED BY <1>t, <3>2 DEF Check
  <2>2. pc' = pc BY <1>1, <1>4 DEF Flush
  <2>3. Live' = Live BY <1>2 DEF Live
  <2>4. d.id = clock + 1 /\ d.card = k /\ d.known = m.known OBVIOUS
  <2> HIDE DEF d
  <2>5. ASSUME NEW x \in Live, Matches(x, d) PROVE m.known < x.born
    <3>1. Company[k] = m.co /\ AsTitled(k) \notin m.names BY <1>2, <1>h DEF Covered
    <3>2. CASE x.auto /\ x.card = k
      <4>1. ~(x.born <= m.known) BY <1>2, <1>h, <3>1, <3>2 DEF Covered
      <4> QED BY <1>t, <4>1
    <3>3. CASE Company[x.card] = Company[k] /\ x.name = AsTitled(k)
      <4>1. ~(x.born <= m.known) BY <1>2, <1>h, <3>1, <3>3 DEF Covered
      <4> QED BY <1>t, <4>1
    <3> QED BY <2>4, <2>5, <3>2, <3>3 DEF Matches, AsTitled
  <2>6. Covered(s)'
    <3>1. m.known <= clock' /\ \A e \in chk'[s].fresh : e.known <= clock'
      BY <1>t, <1>h, <1>2, <2>1, <2>4 DEF Covered
    <3>2. \A e \in chk'[s].fresh, x \in Live : Matches(x, e) => e.known < x.born
      BY <1>h, <2>1, <2>4, <2>5 DEF Covered
    <3> QED BY <1>h, <1>m, <1>2, <2>1, <2>2, <2>3, <3>1, <3>2 DEF Covered, AsTitled
  <2>7. Distinct(s)'
    <3>1. \A e \in m.fresh : e.id <= clock BY <1>h DEF Distinct
    <3>2. \A e \in m.fresh : e.id \in chk'[s].made => e.id \in m.made
      BY <1>t, <2>1, <3>1
    <3>3. \A e \in m.fresh : e.id \in chk'[s].made => Title[e.card] # Title[k]
      BY <1>h, <1>2, <3>2 DEF Distinct
    <3>4. \A a \in chk'[s].queue : Title[a] # Title[k] BY <1>h, <1>2, <2>1 DEF Distinct
    <3>5. \A e \in chk'[s].fresh : e.id <= clock' BY <1>t, <1>2, <2>1, <2>4, <3>1
    <3>6. \A x, e \in chk'[s].fresh :
            {x.id, e.id} \subseteq chk'[s].made /\ Title[x.card] = Title[e.card] => x = e
      BY <1>h, <2>1, <2>4, <3>2, <3>3 DEF Distinct
    <3>7. \A e \in chk'[s].fresh, a \in chk'[s].queue :
            e.id \in chk'[s].made => Title[e.card] # Title[a]
      BY <1>h, <1>2, <2>1, <2>4, <3>2, <3>4 DEF Distinct
    <3>8. \A a, b \in chk'[s].queue : Title[a] = Title[b] => a = b
      BY <1>h, <1>2, <2>1 DEF Distinct
    <3> QED BY <1>2, <2>2, <3>5, <3>6, <3>7, <3>8 DEF Distinct
  <2>8. Pending(s)'
    <3>1. clock + 1 \in IdsOf(chk'[s].fresh) BY <2>1, <2>4 DEF IdsOf
    <3>2. IdsOf(m.fresh) \subseteq IdsOf(chk'[s].fresh) BY <2>1 DEF IdsOf
    <3> QED BY <1>h, <1>2, <2>1, <2>2, <3>1, <3>2 DEF Pending
  <2> QED BY <2>6, <2>7, <2>8 DEF Held
<1> QED BY <1>3, <1>4

-----------------------------------------------------------------------------
(* What a commit puts on record *)

LEMMA RecordInv ==
  ASSUME TypeOK, TypeOK', FetchInv, NEW s \in Sessions, Record(s)
  PROVE  FetchInv'
<1> DEFINE m == chk[s]
           put(d) == [d EXCEPT !.born = clock + 1, !.since = m.since]
           new == {put(d) : d \in m.fresh}
<1>t. /\ m \in Check /\ m.known \in Nat /\ m.since \in Nat /\ m.fresh \subseteq Doc
      /\ clock \in Nat /\ docs \subseteq Doc /\ Live \subseteq docs
      /\ \A d \in Doc : d.known \in Nat /\ d.born \in Nat /\ d.id \in Nat
  BY DEF TypeOK, Check, Doc, Live
<1>h. Covered(s) /\ Distinct(s) /\ Pending(s) /\ OnRecord BY DEF FetchInv, Held
<1>1. \A d \in Doc : /\ put(d).born = clock + 1 /\ put(d).id = d.id /\ put(d).card = d.card
                     /\ put(d).known = d.known /\ put(d).name = d.name
                     /\ put(d).auto = d.auto
  BY DEF Doc
<1>2. /\ docs' = docs \cup new /\ clock' = clock + 1 /\ scheduled' = scheduled
      /\ chk' = [chk EXCEPT ![s].fresh = {}] /\ pc[s] = "record"
      /\ pc' = [pc EXCEPT ![s] = IF s = Loop THEN "next" ELSE "respond"]
  BY DEF Record, Goto
<1>3. /\ chk'[s].fresh = {} /\ chk'[s].made = m.made /\ chk'[s].known = m.known
      /\ pc'[s] = IF s = Loop THEN "next" ELSE "respond"
  BY <1>2, <1>t DEF TypeOK, Check
<1> HIDE DEF put
<1>4. \A x \in new : \E d \in m.fresh : x = put(d) OBVIOUS
<1>5. \A x \in Live' : x \in Live \/ x \in new BY <1>2 DEF Live
<1> HIDE DEF new
<1>6. \A x \in new : x.born = clock + 1 /\ x.known <= clock
  BY <1>1, <1>4, <1>t, <1>h DEF Covered
<1>7. Grown
  <2>1. \A d \in Live' : d \in Live \/ d.born > clock BY <1>5, <1>6, <1>t
  <2> QED BY <1>2, <1>t, <2>1 DEF Grown, IdsOf
<1>8. \A t \in Sessions \ {s} : Held(t)'
  <2>1. \A t \in Sessions \ {s} : chk'[t] = chk[t] /\ pc'[t] = pc[t] BY <1>2 DEF TypeOK
  <2> QED BY <1>7, <2>1, Frame DEF FetchInv
<1>9. Held(s)'
  <2>1. Covered(s)' BY <1>2, <1>3, <1>t, <1>h DEF Covered
  <2>2. Distinct(s)' BY <1>3 DEF Distinct
  <2>3. Pending(s)'
    <3>1. s # Loop => m.made \subseteq IdsOf(m.fresh) BY <1>2, <1>h DEF Pending
    <3>2. IdsOf(m.fresh) \subseteq IdsOf(docs')
      <4> SUFFICES ASSUME NEW d \in m.fresh PROVE d.id \in IdsOf(docs') BY DEF IdsOf
      <4>1. put(d) \in docs' /\ put(d).id = d.id BY <1>1, <1>2, <1>t DEF new
      <4> QED BY <4>1 DEF IdsOf
    <3> QED BY <1>3, <3>1, <3>2 DEF Pending, IdsOf
  <2> QED BY <2>1, <2>2, <2>3 DEF Held
<1>10. OnRecord'
  <2>0. \A d \in docs' : d.known \in Nat /\ d.born \in Nat BY DEF TypeOK, Doc
  <2>1. \A d \in docs' : d.known <= clock'
    <3>1. \A d \in docs : d.known <= clock BY <1>h DEF OnRecord
    <3>2. \A d \in docs' : d \in docs \/ d \in new BY <1>2
    <3> QED BY <3>1, <3>2, <2>0, <1>2, <1>6, <1>t
  <2>2. ASSUME NEW d \in Live', NEW e \in Live', e.auto, d # e,
               \/ d.auto /\ d.card = e.card
               \/ Company[d.card] = Company[e.card] /\ d.name = AsTitled(e.card)
        PROVE  e.known < d.born
    <3>1. e.known <= clock BY <1>2, <1>5, <1>6, <1>h, <1>t DEF OnRecord
    <3>a. e.known \in Nat BY <2>0 DEF Live
    <3>2. CASE d \in new
      <4>1. d.born = clock + 1 BY <1>6, <3>2
      <4> QED BY <4>1, <3>1, <3>a, <1>t
    <3>3. CASE d \in Live /\ e \in Live
      BY <2>2, <3>3, <1>h DEF OnRecord, RefetchNeedsOverlap
    <3>4. CASE d \in Live /\ e \in new
      <4>1. PICK f \in m.fresh : e = put(f) BY <1>4, <3>4
      <4>2. f.card = e.card /\ f.known = e.known BY <1>1, <1>t, <4>1
      <4>3. Matches(d, f) BY <2>2, <4>2 DEF Matches
      <4> QED BY <1>h, <3>4, <4>2, <4>3 DEF Covered
    <3> QED BY <1>5, <3>2, <3>3, <3>4
  <2>3. RefetchNeedsOverlap' BY <2>2 DEF RefetchNeedsOverlap, AsTitled
  <2>4. ScheduledAfterCommit' BY <1>2, <1>7, <1>h DEF OnRecord, ScheduledAfterCommit, Grown
  <2> QED BY <2>1, <2>3, <2>4 DEF OnRecord
<1> QED BY <1>8, <1>9, <1>10 DEF FetchInv

(* An upload is on record with a stamp later than anything read.            *)
LEMMA UploadInv ==
  ASSUME TypeOK, TypeOK', FetchInv, Upload
  PROVE  FetchInv'
<1>1. PICK k \in Cards :
        docs' = docs \cup {[id |-> clock + 1, card |-> k, name |-> AsTitled(k),
                            auto |-> FALSE, known |-> 0, since |-> clock,
                            born |-> clock + 1, live |-> TRUE]}
  BY DEF Upload
<1> DEFINE n == [id |-> clock + 1, card |-> k, name |-> AsTitled(k), auto |-> FALSE,
                 known |-> 0, since |-> clock, born |-> clock + 1, live |-> TRUE]
<1>2. docs' = docs \cup {n} /\ n.auto = FALSE /\ n.known = 0 /\ n.born = clock + 1
  BY <1>1
<1> HIDE DEF n
<1>3. clock' = clock + 1 /\ UNCHANGED <<scheduled, pc, chk>> /\ clock \in Nat
  BY DEF Upload, TypeOK
<1>4. Live' \subseteq Live \cup {n} BY <1>2 DEF Live
<1>5. Grown BY <1>2, <1>3, <1>4 DEF Grown, IdsOf
<1>6. \A t \in Sessions : Held(t)' BY <1>3, <1>5, Frame DEF FetchInv
<1>7. OnRecord'
  <2>1. \A d \in docs' : d.known <= clock'
    BY <1>2, <1>3 DEF FetchInv, OnRecord, TypeOK, Doc
  <2>2. ASSUME NEW d \in Live', NEW e \in Live', e.auto, d # e,
               \/ d.auto /\ d.card = e.card
               \/ Company[d.card] = Company[e.card] /\ d.name = AsTitled(e.card)
        PROVE  e.known < d.born
    <3>1. e \in Live BY <1>2, <1>4, <2>2
    <3>2. e.known <= clock /\ e.known \in Nat
      BY <3>1 DEF FetchInv, OnRecord, Live, TypeOK, Doc
    <3>3. CASE d = n BY <1>2, <1>3, <3>2, <3>3
    <3>4. CASE d \in Live BY <2>2, <3>1, <3>4 DEF FetchInv, OnRecord, RefetchNeedsOverlap
    <3> QED BY <1>4, <3>3, <3>4
  <2>3. RefetchNeedsOverlap' BY <2>2 DEF RefetchNeedsOverlap, AsTitled
  <2>4. ScheduledAfterCommit'
    BY <1>3, <1>5 DEF FetchInv, OnRecord, ScheduledAfterCommit, Grown
  <2> QED BY <2>1, <2>3, <2>4 DEF OnRecord
<1> QED BY <1>6, <1>7 DEF FetchInv

(* Deletions only take documents from the live ones.                        *)
LEMMA DeletionInv ==
  ASSUME TypeOK, TypeOK', FetchInv, NEW x \in deleting, EraseRows(x)
  PROVE  FetchInv'
<1>1. UNCHANGED <<scheduled, pc, chk, clock>> BY DEF EraseRows
<1>2. /\ Live' \subseteq Live
      /\ \A d \in docs' : \E e \in docs : d.known = e.known
      /\ \A e \in docs : \E d \in docs' : d.id = e.id
  <2> DEFINE Off(d) == [d EXCEPT !.live = FALSE]
  <2>1. PICK gone \in SUBSET docs : docs' = (docs \ gone) \cup {Off(d) : d \in gone}
    BY ErasedRows
  <2>2. \A d \in gone : Off(d).live = FALSE /\ Off(d).known = d.known /\ Off(d).id = d.id
    BY DEF TypeOK, Doc
  <2> HIDE DEF Off
  <2>3. \A d \in docs' : d \in docs \ gone \/ \E e \in gone : d = Off(e) BY <2>1
  <2>4. Live' \subseteq Live BY <2>2, <2>3 DEF Live
  <2>5. \A d \in docs' : \E e \in docs : d.known = e.known BY <2>2, <2>3
  <2>6. \A e \in docs : e \in docs' \/ (e \in gone /\ Off(e) \in docs') BY <2>1
  <2>7. \A e \in docs : \E d \in docs' : d.id = e.id BY <2>2, <2>6
  <2> QED BY <2>4, <2>5, <2>7
<1>3. Grown BY <1>1, <1>2 DEF Grown, IdsOf, TypeOK
<1>4. \A t \in Sessions : Held(t)' BY <1>1, <1>3, Frame DEF FetchInv
<1>5. OnRecord' BY <1>1, <1>2, <1>3, RecordFrame DEF FetchInv
<1> QED BY <1>4, <1>5 DEF FetchInv

(* A step of one session that puts nothing on record.                       *)
LEMMA OneSession ==
  ASSUME TypeOK, TypeOK', FetchInv, NEW s \in Sessions, Held(s)',
         docs' = docs, scheduled' = scheduled, clock' \in {clock, clock + 1},
         \A t \in Sessions \ {s} : chk'[t] = chk[t] /\ pc'[t] = pc[t]
  PROVE  FetchInv'
<1>1. Grown BY StillGrown
<1>2. \A t \in Sessions \ {s} : Held(t)' BY <1>1, Frame DEF FetchInv
<1>3. OnRecord' BY <1>1, RecordFrame DEF FetchInv, Live
<1> QED BY <1>2, <1>3 DEF FetchInv

-----------------------------------------------------------------------------
LEMMA FetchNext ==
  ASSUME TypeOK, TypeOK', FetchInv, [Next]_vars
  PROVE  FetchInv'
<1> USE DEF tables, limits, Goto
<1>h. OnRecord /\ \A s \in Sessions : Held(s) BY DEF FetchInv
<1>1. ASSUME NEW s \in Sessions,
             \/ CheckNow(s) \/ Visit(s) \/ Sleep(s) \/ Count(s) \/ ReadIds(s)
             \/ ReadNames(s) \/ TakeBrowser(s) \/ NothingFound(s) \/ Trip(s)
             \/ Select(s) \/ Skip(s) \/ StopCards(s) \/ LeaveBrowser(s)
      PROVE  FetchInv'
  <2>1. Held(s)' BY <1>h, <1>1, StepHeld
  <2>2. /\ UNCHANGED <<docs, scheduled, clock>>
        /\ \A t \in Sessions \ {s} : chk'[t] = chk[t] /\ pc'[t] = pc[t]
    BY <1>1 DEF CheckNow, Visit, Sleep, Count, ReadIds, ReadNames, TakeBrowser,
                NothingFound, Trip, Select, Skip, StopCards, LeaveBrowser, TypeOK
  <2> QED BY <2>1, <2>2, OneSession
<1>2. ASSUME NEW s \in Sessions, Ingest(s) PROVE FetchInv'
  <2>1. Held(s)' BY <1>h, <1>2, IngestHeld
  <2>2. /\ UNCHANGED <<docs, scheduled>> /\ clock' = clock + 1
        /\ \A t \in Sessions \ {s} : chk'[t] = chk[t] /\ pc'[t] = pc[t]
    BY <1>2 DEF Ingest, PdfThenRow, Flush, Raise, TypeOK
  <2> QED BY <2>1, <2>2, OneSession
<1>3. ASSUME NEW s \in Sessions,
             RecordRefused(s) \/ ScheduleRaises(s) \/ Fail(s) \/ RespondFails(s)
      PROVE  FetchInv'
  <2>1. PICK r \in BOOLEAN : Raise(s, r)
    BY <1>3 DEF RecordRefused, ScheduleRaises, Fail, RespondFails
  <2>2. UNCHANGED <<docs, scheduled, clock>>
    BY <1>3 DEF RecordRefused, ScheduleRaises, Fail, RespondFails
  <2>3. \A t \in Sessions \ {s} : chk'[t] = chk[t] /\ pc'[t] = pc[t]
    BY <2>1 DEF Raise, TypeOK
  <2>4. Held(s)' BY <1>h, <2>1, <2>2, RaiseHeld
  <2> QED BY <2>2, <2>3, <2>4, OneSession
<1>4. ASSUME NEW s \in Sessions, Record(s) PROVE FetchInv' BY <1>4, RecordInv
<1>5. ASSUME NEW s \in Sessions, Respond(s) PROVE FetchInv'
  <2>1. /\ pc[s] = "respond" /\ scheduled' = scheduled \cup chk[s].made
        /\ docs' = docs /\ clock' = clock /\ chk'[s] = Blank /\ pc'[s] = "idle"
        /\ \A t \in Sessions \ {s} : chk'[t] = chk[t] /\ pc'[t] = pc[t]
    BY <1>5 DEF Respond, TasksStart, TypeOK
  <2>2. Grown BY <2>1, StillGrown
  <2>3. \A t \in Sessions \ {s} : Held(t)' BY <1>h, <2>1, <2>2, Frame
  <2>4. Held(s)' BY <2>1, BlankHeld DEF TypeOK
  <2>5. chk[s].made \subseteq IdsOf(docs) BY <1>h, <2>1 DEF Held, Pending
  <2>6. OnRecord'
    BY <1>h, <2>1, <2>5 DEF OnRecord, RefetchNeedsOverlap, ScheduledAfterCommit, Live,
                            IdsOf, AsTitled
  <2> QED BY <2>3, <2>4, <2>6 DEF FetchInv
<1>6. CASE Wake
  <2>1. /\ chk'[Loop].fresh = {} /\ chk'[Loop].made = {} /\ chk'[Loop].known = 0
        /\ pc'[Loop] = "next" /\ Loop \in Sessions
    BY <1>6 DEF Wake, Blank, TypeOK, Sessions
  <2>2. /\ UNCHANGED <<docs, scheduled, clock>>
        /\ \A t \in Sessions \ {Loop} : chk'[t] = chk[t] /\ pc'[t] = pc[t]
    BY <1>6 DEF Wake, TypeOK
  <2>3. Held(Loop)' BY <2>1, <2>2 DEF Held, Covered, Distinct, Pending, TypeOK
  <2> QED BY <2>1, <2>2, <2>3, OneSession
<1>7. CASE Upload BY <1>7, UploadInv
<1>8. ASSUME NEW x \in deleting, EraseRows(x) PROVE FetchInv' BY <1>8, DeletionInv
<1>9. CASE \/ ToggleAutoFetch \/ DeleteDocument \/ DeleteCompany
           \/ \E x \in deleting : ErasePdf(x) \/ BreakOff(x)
           \/ UNCHANGED vars
  <2>1. UNCHANGED <<docs, scheduled, clock, pc, chk>>
    BY <1>9 DEF ToggleAutoFetch, DeleteDocument, DeleteCompany, ErasePdf, BreakOff, vars
  <2>2. Grown BY <2>1, StillGrown
  <2>3. \A t \in Sessions : Held(t)' BY <1>h, <2>1, <2>2, Frame
  <2>4. OnRecord' BY <1>h, <2>1, <2>2, RecordFrame DEF Live
  <2> QED BY <2>3, <2>4 DEF FetchInv
<1>10. CASE Crash
  <2>1. /\ UNCHANGED <<docs, scheduled, clock>>
        /\ \A t \in Sessions : chk'[t] = Blank /\ pc'[t] = "idle"
    BY <1>10 DEF Crash
  <2>2. Grown BY <2>1, StillGrown
  <2>3. \A t \in Sessions : Held(t)' BY <2>1, BlankHeld DEF TypeOK
  <2>4. OnRecord' BY <1>h, <2>1, <2>2, RecordFrame DEF Live
  <2> QED BY <2>3, <2>4 DEF FetchInv
<1> QED BY <1>1, <1>2, <1>3, <1>4, <1>5, <1>6, <1>7, <1>8, <1>9, <1>10, NextCases

LEMMA FetchAlways == Spec => []FetchInv
<1>1. Init => FetchInv
  <2> SUFFICES ASSUME Init PROVE FetchInv OBVIOUS
  <2>1. /\ docs = {} /\ scheduled = {} /\ clock = 0
        /\ \A s \in Sessions : chk[s] = Blank /\ pc[s] = "idle"
    BY DEF Init
  <2>2. Blank.fresh = {} /\ Blank.made = {} /\ Blank.known = 0 BY DEF Blank
  <2>3. \A s \in Sessions : Held(s)
    BY <2>1, <2>2 DEF Held, Covered, Distinct, Pending
  <2>4. OnRecord
    BY <2>1 DEF OnRecord, RefetchNeedsOverlap, ScheduledAfterCommit, Live, IdsOf
  <2> QED BY <2>3, <2>4 DEF FetchInv
<1>2. TypeOK /\ TypeOK' /\ FetchInv /\ [Next]_vars => FetchInv' BY FetchNext
<1> QED BY <1>1, <1>2, TypeCorrect, PTL DEF Spec

(* A filing that is on record is fetched again only by a check that had     *)
(* read what is on record before the other document was committed.          *)
THEOREM RefetchOverlaps == Spec => []RefetchNeedsOverlap
<1>1. FetchInv => RefetchNeedsOverlap BY DEF FetchInv, OnRecord
<1> QED BY <1>1, FetchAlways, PTL

(* A check never fetches a filing twice, under however many ids it is       *)
(* listed.                                                                  *)
THEOREM OncePerCheck == Spec => []FilingOncePerCheck
<1>1. FetchInv => FilingOncePerCheck
  BY DEF FetchInv, Held, Distinct, FilingOncePerCheck
<1> QED BY <1>1, FetchAlways, PTL

(* No extraction is scheduled for a document that is not committed.         *)
THEOREM ScheduledCommitted == Spec => []ScheduledAfterCommit
<1>1. FetchInv => ScheduledAfterCommit BY DEF FetchInv, OnRecord
<1> QED BY <1>1, FetchAlways, PTL

-----------------------------------------------------------------------------
(* For the daily limit, each session accounts for what was on record when   *)
(* its transaction first counted, for what it has flushed and for what it   *)
(* may still flush, which together are never more than the limit; a commit  *)
(* leaves that account with its documents, and the last commit settles it   *)
(* for the organization.                                                    *)

(* Every document, committed or flushed, has an id of its own, and its PDF; *)
(* a deletion lists only documents that were committed.                     *)
Filed ==
  /\ DocumentsHaveFiles
  /\ \A x \in deleting : x.ids \subseteq IdsOf(docs)
  /\ \A d \in docs : d.id <= clock /\ \A e \in docs : d.id = e.id => d = e
  /\ \A s \in Sessions : \A d \in chk[s].fresh :
       d.id <= clock /\ d.id \in files /\ d.id \notin IdsOf(docs)
  /\ \A s, t \in Sessions : \A d \in chk[s].fresh, e \in chk[t].fresh :
       d.id = e.id => s = t /\ d = e

-----------------------------------------------------------------------------
(* Which documents have their PDF *)

(* A step that puts nothing on record, flushes nothing and removes no PDF.  *)
LEMMA StillFiled ==
  ASSUME TypeOK, Filed, UNCHANGED <<docs, deleting, lost>>, files \subseteq files',
         clock' \in {clock, clock + 1},
         \A s \in Sessions : chk'[s].fresh \subseteq chk[s].fresh
  PROVE  Filed'
<1>1. clock \in Nat /\ \A d \in Doc : d.id \in Nat BY DEF TypeOK, Doc
<1>2. DocumentsHaveFiles' BY DEF Filed, DocumentsHaveFiles, Live
<1>3. \A d \in docs : d.id <= clock' BY <1>1 DEF Filed, TypeOK
<1>4. \A s \in Sessions : \A d \in chk[s].fresh : d.id <= clock'
  BY <1>1 DEF Filed, TypeOK, Check
<1> QED BY <1>2, <1>3, <1>4 DEF Filed, IdsOf

LEMMA RefusedEnds ==
  ASSUME NEW s \in Sessions, Raise(s, TRUE)
  PROVE  chk' = [chk EXCEPT ![s] = Blank] /\ pc' = [pc EXCEPT ![s] = "idle"]
BY DEF Raise, Goto

LEMMA IngestFiled ==
  ASSUME TypeOK, Filed, NEW s \in Sessions, Ingest(s)
  PROVE  Filed'
<1> DEFINE m == chk[s]
<1>t. /\ m \in Check /\ clock \in Nat /\ m.fresh \subseteq Doc
      /\ \A d \in Doc : d.id \in Nat
  BY DEF TypeOK, Check, Doc
<1>1. PICK k \in Cards : Flush(s, k, {clock + 1}) BY DEF Ingest, PdfThenRow, NextCards, TypeOK, Check
<1>2. /\ clock' = clock + 1 /\ UNCHANGED <<docs, deleting, lost>>
      /\ files' = files \cup {clock + 1}
  BY <1>1 DEF Ingest, Flush, tables
<1>3. CASE Raise(s, TRUE)
  <2>1. \A t \in Sessions : chk'[t].fresh \subseteq chk[t].fresh
    <3>1. chk' = [chk EXCEPT ![s] = Blank] BY <1>3, RefusedEnds
    <3> QED BY <3>1 DEF TypeOK, Blank
  <2> QED BY <1>2, <2>1, StillFiled
<1>4. CASE ~Raise(s, TRUE)
  <2> DEFINE d == [id |-> clock + 1, card |-> k, name |-> FileName(k), auto |-> TRUE,
                   known |-> m.known, since |-> 0, born |-> 0, live |-> TRUE]
  <2>1. chk'[s].fresh = m.fresh \cup {d} /\ \A t \in Sessions \ {s} : chk'[t] = chk[t]
    <3> DEFINE n == [m EXCEPT !.fresh = @ \cup {d}, !.made = @ \cup {clock + 1},
                              !.ids = @ \cup {k}, !.queue = @ \ {k}]
    <3>1. chk' = [chk EXCEPT ![s] = n] BY <1>1, <1>4, <1>t DEF Flush, TypeOK, Check
    <3> HIDE DEF d
    <3>2. n.fresh = m.fresh \cup {d} BY <1>t DEF Check
    <3> HIDE DEF n
    <3> QED BY <3>1, <3>2 DEF TypeOK
  <2>2. d.id = clock + 1 OBVIOUS
  <2> HIDE DEF d
  <2>3. \A t \in Sessions : \A e \in chk[t].fresh : e.id <= clock /\ e.id # d.id
    BY <1>t, <2>2 DEF Filed, TypeOK, Check
  <2>4. \A e \in docs : e.id <= clock /\ e.id # d.id BY <1>t, <2>2 DEF Filed, TypeOK
  <2>5. \A e \in docs : e.id <= clock' BY <1>2, <1>t, <2>4 DEF TypeOK
  <2>6. \A t \in Sessions : \A e \in chk'[t].fresh :
          e.id <= clock' /\ e.id \in files' /\ e.id \notin IdsOf(docs)
    <3>1. \A t \in Sessions : \A e \in chk[t].fresh : e.id <= clock'
      BY <1>2, <1>t, <2>3 DEF TypeOK, Check
    <3>2. d.id <= clock' /\ d.id \in files' /\ d.id \notin IdsOf(docs)
      BY <1>2, <1>t, <2>2, <2>4 DEF IdsOf
    <3> QED BY <1>2, <2>1, <3>1, <3>2 DEF Filed
  <2>7. \A t, u \in Sessions : \A e \in chk'[t].fresh, f \in chk'[u].fresh :
          e.id = f.id => t = u /\ e = f
    BY <2>1, <2>3 DEF Filed
  <2>8. DocumentsHaveFiles' BY <1>2 DEF Filed, DocumentsHaveFiles, Live
  <2> QED BY <1>2, <2>5, <2>6, <2>7, <2>8, <2>4 DEF Filed, IdsOf
<1> QED BY <1>3, <1>4

LEMMA RecordFiled ==
  ASSUME TypeOK, TypeOK', Filed, NEW s \in Sessions, Record(s)
  PROVE  Filed'
<1> DEFINE m == chk[s]
           put(d) == [d EXCEPT !.born = clock + 1, !.since = m.since]
           new == {put(d) : d \in m.fresh}
<1>t. /\ m \in Check /\ m.fresh \subseteq Doc /\ clock \in Nat /\ docs \subseteq Doc
      /\ \A d \in Doc : d.id \in Nat
  BY DEF TypeOK, Check, Doc
<1>1. \A d \in Doc : put(d).id = d.id /\ put(d).card = d.card BY DEF Doc
<1>2. /\ docs' = docs \cup new /\ clock' = clock + 1 /\ UNCHANGED <<files, deleting, lost>>
      /\ chk' = [chk EXCEPT ![s].fresh = {}]
  BY DEF Record
<1>3. chk'[s].fresh = {} /\ \A t \in Sessions \ {s} : chk'[t] = chk[t]
  BY <1>2, <1>t DEF TypeOK, Check
<1> HIDE DEF put
<1>4. \A x \in new : \E d \in m.fresh : x = put(d) /\ x.id = d.id BY <1>1, <1>t
<1> HIDE DEF new
<1>5. \A x \in new : x.id <= clock /\ x.id \in files /\ x.id \notin IdsOf(docs)
  BY <1>4 DEF Filed
<1>6. \A x, y \in new : x.id = y.id => x = y BY <1>4 DEF Filed
<1>7. DocumentsHaveFiles'
  BY <1>2, <1>5 DEF Filed, DocumentsHaveFiles, Live
<1>8. \A d \in docs' : d.id <= clock' /\ \A e \in docs' : d.id = e.id => d = e
  <2>1. \A d \in docs' : d.id <= clock
    BY <1>2, <1>5 DEF Filed
  <2>2. \A d \in docs' : d.id <= clock' BY <1>2, <1>t, <2>1 DEF TypeOK, Doc
  <2>3. \A d \in docs : \A e \in new : d.id # e.id BY <1>5 DEF IdsOf
  <2> QED BY <1>2, <1>6, <2>2, <2>3 DEF Filed
<1>9. \A t \in Sessions : \A d \in chk'[t].fresh :
        d.id <= clock' /\ d.id \in files' /\ d.id \notin IdsOf(docs')
  <2> SUFFICES ASSUME NEW t \in Sessions \ {s}, NEW d \in chk[t].fresh
               PROVE  d.id <= clock' /\ d.id \in files' /\ d.id \notin IdsOf(docs')
    BY <1>3
  <2>1. d.id <= clock /\ d.id \in files /\ d.id \notin IdsOf(docs) BY DEF Filed
  <2>2. d.id \in Nat BY <1>t DEF TypeOK, Check
  <2>3. \A x \in new : x.id # d.id BY <1>4 DEF Filed
  <2> QED BY <1>2, <1>t, <2>1, <2>2, <2>3 DEF IdsOf
<1>10. \A t, u \in Sessions : \A e \in chk'[t].fresh, f \in chk'[u].fresh :
         e.id = f.id => t = u /\ e = f
  BY <1>3 DEF Filed
<1>11. \A x \in deleting' : x.ids \subseteq IdsOf(docs)'
  BY <1>2 DEF Filed, IdsOf
<1> QED BY <1>7, <1>8, <1>9, <1>10, <1>11 DEF Filed

LEMMA UploadFiled ==
  ASSUME TypeOK, Filed, Upload
  PROVE  Filed'
<1>1. PICK k \in Cards :
        docs' = docs \cup {[id |-> clock + 1, card |-> k, name |-> AsTitled(k),
                            auto |-> FALSE, known |-> 0, since |-> clock,
                            born |-> clock + 1, live |-> TRUE]}
  BY DEF Upload
<1> DEFINE n == [id |-> clock + 1, card |-> k, name |-> AsTitled(k), auto |-> FALSE,
                 known |-> 0, since |-> clock, born |-> clock + 1, live |-> TRUE]
<1>2. docs' = docs \cup {n} /\ n.id = clock + 1 BY <1>1
<1> HIDE DEF n
<1>3. /\ clock' = clock + 1 /\ UNCHANGED <<chk, deleting, lost>> /\ clock \in Nat
      /\ files' = files \cup {clock + 1}
  BY DEF Upload, TypeOK
<1>4. \A e \in docs : e.id \in Nat /\ e.id <= clock BY DEF Filed, TypeOK, Doc
<1>5. \A t \in Sessions : \A e \in chk[t].fresh : e.id \in Nat /\ e.id <= clock
  BY DEF Filed, TypeOK, Check, Doc
<1>6. \A e \in docs : e.id # n.id /\ e.id <= clock' BY <1>2, <1>3, <1>4
<1>7. \A t \in Sessions : \A e \in chk[t].fresh : e.id # n.id /\ e.id <= clock'
  BY <1>2, <1>3, <1>5
<1>8. n.id <= clock' /\ n.id \in files' BY <1>2, <1>3
<1>9. DocumentsHaveFiles' BY <1>2, <1>3, <1>8 DEF Filed, DocumentsHaveFiles, Live
<1> QED BY <1>2, <1>3, <1>6, <1>7, <1>8, <1>9 DEF Filed, IdsOf

(* A deletion that is asked for lists documents on record.                  *)
LEMMA RequestFiled ==
  ASSUME TypeOK, Filed, DeleteDocument \/ DeleteCompany
  PROVE  Filed'
<1>1. UNCHANGED <<docs, files, lost, chk, clock>> BY DEF DeleteDocument, DeleteCompany
<1>2. PICK x : deleting' = deleting \cup {x} /\ x.ids \subseteq IdsOf(docs)
  <2>1. CASE DeleteDocument
    <3>1. PICK d \in Live : deleting' = deleting \cup {[co |-> None, ids |-> {d.id}]}
      BY <2>1 DEF DeleteDocument
    <3> DEFINE x == [co |-> None, ids |-> {d.id}]
    <3>2. x.ids \subseteq IdsOf(docs) BY DEF IdsOf, Live
    <3> HIDE DEF x
    <3>3. deleting' = deleting \cup {x} BY <3>1 DEF x
    <3> QED BY <3>2, <3>3
  <2>2. CASE DeleteCompany
    <3>1. PICK c \in companies :
            deleting' = deleting \cup {[co |-> c, ids |-> IdsOf(Of(Live, c))]}
      BY <2>2 DEF DeleteCompany
    <3> DEFINE x == [co |-> c, ids |-> IdsOf(Of(Live, c))]
    <3>2. x.ids \subseteq IdsOf(docs) BY DEF IdsOf, Of, Live
    <3> HIDE DEF x
    <3>3. deleting' = deleting \cup {x} BY <3>1 DEF x
    <3> QED BY <3>2, <3>3
  <2> QED BY <2>1, <2>2
<1>3. DocumentsHaveFiles' BY <1>1, <1>2 DEF Filed, DocumentsHaveFiles, Live
<1> QED BY <1>1, <1>2, <1>3 DEF Filed, IdsOf

(* It takes the PDF of no document but those it lists ...                   *)
LEMMA ErasePdfFiled ==
  ASSUME TypeOK, Filed, NEW x \in deleting, ErasePdf(x)
  PROVE  Filed'
<1>1. PICK i \in x.ids : files' = files \ {i} BY DEF ErasePdf
<1>2. UNCHANGED <<docs, lost, deleting, chk, clock>> BY DEF ErasePdf, tables
<1>3. i \in IdsOf(docs) BY DEF Filed
<1>4. DocumentsHaveFiles' BY <1>1, <1>2 DEF Filed, DocumentsHaveFiles, Live
<1>5. \A s \in Sessions : \A d \in chk[s].fresh : d.id \in files'
  BY <1>1, <1>3 DEF Filed
<1> QED BY <1>2, <1>4, <1>5 DEF Filed, IdsOf

(* ... and keeps no row of these ...                                        *)
LEMMA EraseRowsFiled ==
  ASSUME TypeOK, Filed, NEW x \in deleting, EraseRows(x)
  PROVE  Filed'
<1> DEFINE Off(d) == [d EXCEPT !.live = FALSE]
<1>1. UNCHANGED <<files, lost, chk, clock>> /\ deleting' = deleting \ {x} BY DEF EraseRows
<1>2. \A d \in docs : Off(d).live = FALSE /\ Off(d).id = d.id BY DEF TypeOK, Doc
<1>3. PICK gone \in SUBSET docs :
        /\ docs' = (docs \ gone) \cup {Off(d) : d \in gone}
        /\ \A d \in docs \ gone : d.id \notin x.ids
  BY ErasedRows
<1> HIDE DEF Off
<1>4. \A e \in Live' : e \in Live /\ e.id \notin x.ids BY <1>2, <1>3 DEF Live
<1>5. DocumentsHaveFiles' BY <1>1, <1>4 DEF Filed, DocumentsHaveFiles
<1>6. \A d \in docs' : d \in docs \ gone \/ \E e \in gone : d = Off(e) BY <1>3
<1>7. \A d, e \in docs' : d.id = e.id => d = e BY <1>2, <1>6 DEF Filed
<1>8. IdsOf(docs') = IdsOf(docs)
  <2>1. \A d \in docs' : \E e \in docs : d.id = e.id BY <1>2, <1>6
  <2>2. \A e \in docs : \E d \in docs' : d.id = e.id BY <1>2, <1>3
  <2> QED BY <2>1, <2>2 DEF IdsOf
<1>9. \A d \in docs' : d.id <= clock BY <1>2, <1>6 DEF Filed
<1> QED BY <1>1, <1>5, <1>7, <1>8, <1>9 DEF Filed, IdsOf

(* ... unless it breaks off, by an exception or with the process.           *)
LEMMA BrokenOffFiled ==
  ASSUME TypeOK, Filed, (\E x \in deleting : BreakOff(x)) \/ Crash
  PROVE  Filed'
<1>1. /\ UNCHANGED <<docs, files, clock>> /\ lost \subseteq lost' /\ deleting' \subseteq deleting
      /\ \A x \in deleting \ deleting' : x.ids \ files \subseteq lost'
  <2>1. CASE \E x \in deleting : BreakOff(x) BY <2>1 DEF BreakOff
  <2>2. CASE Crash
    <3>1. lost' = lost \cup ((UNION {x.ids : x \in deleting}) \ files) BY <2>2 DEF Crash
    <3>2. \A x \in deleting : x.ids \subseteq UNION {y.ids : y \in deleting} OBVIOUS
    <3>3. \A x \in deleting : x.ids \ files \subseteq lost' BY <3>1, <3>2
    <3> QED BY <2>2, <3>1, <3>3 DEF Crash
  <2> QED BY <2>1, <2>2
<1>2. DocumentsHaveFiles' BY <1>1 DEF Filed, DocumentsHaveFiles, Live
<1>3. \A t \in Sessions : chk'[t].fresh \subseteq chk[t].fresh
  BY DEF BreakOff, Crash, Blank
<1>4. \A s \in Sessions : \A d \in chk'[s].fresh :
        d.id <= clock' /\ d.id \in files' /\ d.id \notin IdsOf(docs)'
  BY <1>1, <1>3 DEF Filed, IdsOf
<1> QED BY <1>1, <1>2, <1>3, <1>4 DEF Filed, IdsOf

(* What the other steps of a session leave of what it has flushed: all of   *)
(* it, with the count it started from, or nothing.                          *)
LEMMA LocalFresh ==
  ASSUME TypeOK, NEW s \in Sessions,
         \/ CheckNow(s) \/ Visit(s) \/ Sleep(s) \/ Count(s) \/ ReadIds(s)
         \/ ReadNames(s) \/ TakeBrowser(s) \/ NothingFound(s) \/ Trip(s)
         \/ Select(s) \/ Skip(s) \/ StopCards(s) \/ LeaveBrowser(s)
         \/ RecordRefused(s) \/ ScheduleRaises(s) \/ Fail(s) \/ RespondFails(s)
         \/ Respond(s)
  PROVE  \/ chk'[s].fresh = {} /\ chk'[s].since = 0
            /\ pc'[s] \in {"idle", "count"}
         \/ chk'[s].fresh = chk[s].fresh /\ (chk'[s].since = chk[s].since \/ Count(s))
<1> DEFINE m == chk[s]
<1>t. m \in Check BY DEF TypeOK
<1>b. Blank.fresh = {} /\ Blank.since = 0 BY DEF Blank
<1>r. Returned(m).fresh = m.fresh /\ Returned(m).since = m.since BY <1>t DEF Returned, Check
<1> USE DEF Goto, TypeOK
<1>1. CASE CheckNow(s)
  <2>1. PICK c : chk'[s] = [Blank EXCEPT !.co = c, !.on = c \in enabled] /\ pc'[s] = "count"
    BY <1>1 DEF CheckNow
  <2> QED BY <2>1 DEF Blank
<1>2. CASE Visit(s)
  <2>1. PICK c \in m.todo :
          chk' = [chk EXCEPT ![s].todo = @ \ {c}, ![s].co = c, ![s].made = {},
                             ![s].tripped = FALSE]
    BY <1>2 DEF Visit
  <2> QED BY <2>1, <1>t DEF Check
<1>3. CASE Sleep(s) BY <1>3, <1>b DEF Sleep
<1>4. CASE Count(s) BY <1>4, <1>t DEF Count, Check
<1>5. CASE ReadIds(s) BY <1>5, <1>t DEF ReadIds, Check
<1>6. CASE ReadNames(s) BY <1>6, <1>t DEF ReadNames, Check
<1>7. CASE TakeBrowser(s) BY <1>7 DEF TakeBrowser
<1>8. CASE NothingFound(s) BY <1>8, <1>r DEF NothingFound
<1>9. CASE Trip(s)
  <2>1. chk'[s] = [Returned(m) EXCEPT !.tripped = TRUE] BY <1>9 DEF Trip
  <2> QED BY <2>1, <1>t DEF Returned, Check
<1>10. CASE Select(s)
  <2>1. PICK cards : chk'[s] = [m EXCEPT !.queue = cards] BY <1>10 DEF Select
  <2> QED BY <2>1, <1>t DEF Check
<1>11. CASE Skip(s) \/ StopCards(s)
  <2>1. PICK cards : chk'[s] = [m EXCEPT !.queue = cards] BY <1>11 DEF Skip, StopCards
  <2> QED BY <2>1, <1>t DEF Check
<1>12. CASE LeaveBrowser(s) BY <1>12, <1>r DEF LeaveBrowser
<1>13. CASE RecordRefused(s) \/ ScheduleRaises(s) \/ Fail(s) \/ RespondFails(s)
  <2>1. PICK r : Raise(s, r) BY <1>13 DEF RecordRefused, ScheduleRaises, Fail, RespondFails
  <2> QED BY <2>1, <1>b, <1>r DEF Raise
<1>14. CASE Respond(s) BY <1>14, <1>b DEF Respond
<1> QED BY <1>1, <1>2, <1>3, <1>4, <1>5, <1>6, <1>7, <1>8, <1>9, <1>10, <1>11, <1>12, <1>13, <1>14

LEMMA FiledNext ==
  ASSUME TypeOK, TypeOK', Filed, [Next]_vars
  PROVE  Filed'
<1> USE DEF tables, limits, Goto
<1>r. \A s \in Sessions : chk[s] \in Check BY DEF TypeOK
<1>b. Blank.fresh = {} BY DEF Blank
<1>1. ASSUME NEW s \in Sessions,
             \/ CheckNow(s) \/ Visit(s) \/ Sleep(s) \/ Count(s) \/ ReadIds(s)
             \/ ReadNames(s) \/ TakeBrowser(s) \/ NothingFound(s) \/ Trip(s)
             \/ Select(s) \/ Skip(s) \/ StopCards(s) \/ LeaveBrowser(s)
             \/ RecordRefused(s) \/ ScheduleRaises(s) \/ Fail(s) \/ RespondFails(s)
             \/ Respond(s)
      PROVE  Filed'
  <2>1. UNCHANGED <<docs, files, deleting, lost, clock>>
    BY <1>1 DEF CheckNow, Visit, Sleep, Count, ReadIds, ReadNames, TakeBrowser,
                NothingFound, Trip, Select, Skip, StopCards, LeaveBrowser, RecordRefused,
                ScheduleRaises, Fail, RespondFails, Respond
  <2>2. \A t \in Sessions \ {s} : chk'[t] = chk[t]
    BY <1>1 DEF CheckNow, Visit, Sleep, Count, ReadIds, ReadNames, TakeBrowser,
                NothingFound, Trip, Select, Skip, StopCards, LeaveBrowser, RecordRefused,
                ScheduleRaises, Fail, RespondFails, Respond, Raise, TypeOK
  <2>3. chk'[s].fresh \subseteq chk[s].fresh
    BY <1>1, <1>r, <1>b, LocalFresh
  <2> QED BY <2>1, <2>2, <2>3, StillFiled
<1>2. ASSUME NEW s \in Sessions, Ingest(s) PROVE Filed' BY <1>2, IngestFiled
<1>3. ASSUME NEW s \in Sessions, Record(s) PROVE Filed' BY <1>3, RecordFiled
<1>4. CASE Wake
  <2>1. \A t \in Sessions : chk'[t].fresh \subseteq chk[t].fresh
    BY <1>4 DEF Wake, Blank, TypeOK, Sessions
  <2> QED BY <1>4, <2>1, StillFiled DEF Wake
<1>5. CASE Upload BY <1>5, UploadFiled
<1>6. CASE DeleteDocument \/ DeleteCompany BY <1>6, RequestFiled
<1>7. CASE ToggleAutoFetch \/ UNCHANGED vars
  <2>1. UNCHANGED <<docs, files, deleting, lost, clock, chk>>
    BY <1>7 DEF ToggleAutoFetch, vars
  <2> QED BY <2>1, StillFiled
<1>8. CASE (\E x \in deleting : ErasePdf(x) \/ EraseRows(x) \/ BreakOff(x)) \/ Crash
  BY <1>8, ErasePdfFiled, EraseRowsFiled, BrokenOffFiled
<1> QED BY <1>1, <1>2, <1>3, <1>4, <1>5, <1>6, <1>7, <1>8, NextCases

LEMMA FiledAlways == Spec => []Filed
<1>1. Init => Filed
  <2> SUFFICES ASSUME Init PROVE Filed OBVIOUS
  <2>1. docs = {} /\ deleting = {} /\ \A s \in Sessions : chk[s] = Blank BY DEF Init
  <2>2. Blank.fresh = {} BY DEF Blank
  <2> QED BY <2>1, <2>2 DEF Filed, DocumentsHaveFiles, Live
<1>2. TypeOK /\ TypeOK' /\ Filed /\ [Next]_vars => Filed' BY FiledNext
<1> QED BY <1>1, <1>2, TypeCorrect, PTL DEF Spec

(* However a session carries what it flushed from one check to the next,    *)
(* and whatever fails or is deleted meanwhile, a document is without its    *)
(* PDF only by a deletion that lists it, under way or broken off after the  *)
(* PDF and before the row: no check leaves one behind.                      *)
THEOREM FetchedHaveFiles == Spec => []DocumentsHaveFiles
<1>1. Filed => DocumentsHaveFiles BY DEF Filed
<1> QED BY <1>1, FiledAlways, PTL

-----------------------------------------------------------------------------
(* The daily limit *)

Upto(S, n)  == {d \in S : d.born <= n}
Batch(S, n) == {d \in S : d.born = n}

(* Of what was on record when its transaction first counted, what it has    *)
(* flushed and what it may still flush, no session exceeds the limit.       *)
WithinBudget(s) ==
  LET m == chk[s]
      n == Cardinality(Upto(AutoToday, m.since)) + Cardinality(m.fresh)
  IN
  /\ m.since <= clock
  /\ \A d \in m.fresh : d.auto /\ d.born = 0
  /\ m.fresh # {} => n <= DailyLimit
  /\ pc[s] \in {"ids", "names", "wait", "crawl"} => n + m.budget <= DailyLimit
  /\ pc[s] = "card" => IsFiniteSet(m.queue) /\ n + Cardinality(m.queue) <= DailyLimit

(* The same of what it has committed; and one commit is the last.           *)
Accounted ==
  /\ \A e \in docs : 0 < e.born /\ e.born <= clock
  /\ \A e \in docs : e.auto =>
       /\ e.since < e.born
       /\ Cardinality(Upto(AutoToday, e.since)) + Cardinality(Batch(AutoToday, e.born))
            <= DailyLimit
  /\ \A x \in docs : x.auto =>
       \E e \in docs : e.auto /\ \A d \in docs : d.auto => d.born <= e.born

BudgetInv == Accounted /\ \A s \in Sessions : WithinBudget(s)

LEMMA AutoTyped ==
  ASSUME TypeOK, Finite
  PROVE  /\ AutoToday \subseteq Doc /\ IsFiniteSet(AutoToday)
         /\ \A n : /\ IsFiniteSet(Upto(AutoToday, n)) /\ IsFiniteSet(Batch(AutoToday, n))
                   /\ Cardinality(Upto(AutoToday, n)) \in Nat
                   /\ Cardinality(Batch(AutoToday, n)) \in Nat
<1>1. AutoToday \subseteq docs BY DEF AutoToday, Live
<1>2. IsFiniteSet(AutoToday) BY <1>1, FS_Subset DEF Finite
<1>3. \A n : Upto(AutoToday, n) \subseteq AutoToday /\ Batch(AutoToday, n) \subseteq AutoToday
  BY DEF Upto, Batch
<1> QED BY <1>1, <1>2, <1>3, FS_Subset, FS_CardinalityType DEF TypeOK

(* Where documents only come with later stamps, an earlier count can only   *)
(* shrink.                                                                  *)
LEMMA CountShrinks ==
  ASSUME TypeOK, Finite, TypeOK', Finite', Grown, NEW n \in Nat, n <= clock
  PROVE  /\ Cardinality(Upto(AutoToday', n)) <= Cardinality(Upto(AutoToday, n))
         /\ Cardinality(Batch(AutoToday', n)) <= Cardinality(Batch(AutoToday, n))
<1>1. \A d \in AutoToday' : d \in AutoToday \/ d.born > clock BY DEF Grown, AutoToday
<1>2. AutoToday' \subseteq Doc /\ \A d \in Doc : d.born \in Nat
  BY DEF AutoToday, Live, TypeOK, Doc
<1>3. clock \in Nat BY DEF TypeOK
<1>4. /\ Upto(AutoToday', n) \subseteq Upto(AutoToday, n)
      /\ Batch(AutoToday', n) \subseteq Batch(AutoToday, n)
  BY <1>1, <1>2, <1>3 DEF Upto, Batch
<1> QED BY <1>4, AutoTyped, FS_Subset

LEMMA BudgetFrame ==
  ASSUME TypeOK, Finite, TypeOK', Finite', Grown, NEW t \in Sessions, WithinBudget(t),
         chk'[t] = chk[t], pc'[t] = pc[t]
  PROVE  WithinBudget(t)'
<1> DEFINE m == chk[t]
           n == Cardinality(Upto(AutoToday, m.since))
           n1 == Cardinality(Upto(AutoToday', m.since))
<1>1. /\ m.since \in Nat /\ m.budget \in Nat /\ clock \in Nat /\ clock' \in Nat
      /\ clock' >= clock
  BY DEF TypeOK, Check, Grown
<1>2. m.since <= clock BY DEF WithinBudget
<1>3. n1 <= n BY <1>1, <1>2, CountShrinks
<1>4. n \in Nat BY AutoTyped
<1>c. n1 \in Nat
  <2>1. AutoToday' \subseteq docs' BY DEF AutoToday, Live
  <2>2. Upto(AutoToday', m.since) \subseteq docs' BY <2>1 DEF Upto
  <2> QED BY <2>2, FS_Subset, FS_CardinalityType DEF Finite
<1>5. Cardinality(m.fresh) \in Nat /\ (pc[t] = "card" => Cardinality(m.queue) \in Nat)
  BY FS_CardinalityType DEF Finite, WithinBudget
<1>6. m.since <= clock' BY <1>1, <1>2
<1>7. WithinBudget(t)' <=>
        /\ m.since <= clock'
        /\ \A d \in m.fresh : d.auto /\ d.born = 0
        /\ m.fresh # {} => n1 + Cardinality(m.fresh) <= DailyLimit
        /\ pc[t] \in {"ids", "names", "wait", "crawl"} =>
             n1 + Cardinality(m.fresh) + m.budget <= DailyLimit
        /\ pc[t] = "card" => IsFiniteSet(m.queue)
             /\ n1 + Cardinality(m.fresh) + Cardinality(m.queue) <= DailyLimit
  BY DEF WithinBudget
<1>8. /\ m.since <= clock
      /\ \A d \in m.fresh : d.auto /\ d.born = 0
      /\ m.fresh # {} => n + Cardinality(m.fresh) <= DailyLimit
      /\ pc[t] \in {"ids", "names", "wait", "crawl"} =>
           n + Cardinality(m.fresh) + m.budget <= DailyLimit
      /\ pc[t] = "card" => IsFiniteSet(m.queue)
           /\ n + Cardinality(m.fresh) + Cardinality(m.queue) <= DailyLimit
  BY DEF WithinBudget
<1> HIDE DEF m, n, n1
<1> QED BY <1>1, <1>3, <1>4, <1>c, <1>5, <1>6, <1>7, <1>8, SettingsAssumption

LEMMA AccountedFrame ==
  ASSUME TypeOK, Finite, TypeOK', Finite', Grown, Accounted,
         \A d \in docs' :
           \/ \E e \in docs : d.auto = e.auto /\ d.since = e.since /\ d.born = e.born
           \/ ~d.auto /\ 0 < d.born /\ d.born <= clock',
         \A e \in docs : \E d \in docs' : d.auto = e.auto /\ d.born = e.born
  PROVE  Accounted'
<1>t. /\ clock \in Nat /\ clock' \in Nat /\ clock' >= clock
      /\ \A d \in docs : d.born \in Nat /\ d.since \in Nat /\ d.auto \in BOOLEAN
      /\ \A d \in docs' : d.born \in Nat /\ d.since \in Nat /\ d.auto \in BOOLEAN
  BY DEF TypeOK, Doc, Grown
<1>1. \A e \in docs' : 0 < e.born /\ e.born <= clock'
  <2> TAKE x \in docs'
  <2>1. CASE \E e \in docs : x.born = e.born
    <3>1. PICK e \in docs : x.born = e.born BY <2>1
    <3>2. 0 < e.born /\ e.born <= clock BY DEF Accounted
    <3> QED BY <1>t, <3>1, <3>2
  <2> QED BY <2>1
<1>2. ASSUME NEW x \in docs', x.auto
      PROVE  /\ x.since < x.born
             /\ Cardinality(Upto(AutoToday', x.since)) + Cardinality(Batch(AutoToday', x.born))
                  <= DailyLimit
  <2>1. PICK e \in docs : x.auto = e.auto /\ x.since = e.since /\ x.born = e.born
    BY <1>2
  <2>2. /\ e.since < e.born /\ e.born <= clock
        /\ Cardinality(Upto(AutoToday, e.since)) + Cardinality(Batch(AutoToday, e.born))
             <= DailyLimit
    BY <1>2, <2>1 DEF Accounted
  <2>3. e.since <= clock BY <1>t, <2>2
  <2>4. /\ Cardinality(Upto(AutoToday', e.since)) <= Cardinality(Upto(AutoToday, e.since))
        /\ Cardinality(Batch(AutoToday', e.born)) <= Cardinality(Batch(AutoToday, e.born))
    BY <1>t, <2>2, <2>3, CountShrinks
  <2>5. /\ Cardinality(Upto(AutoToday, e.since)) \in Nat
        /\ Cardinality(Batch(AutoToday, e.born)) \in Nat
    BY AutoTyped
  <2>6. /\ Cardinality(Upto(AutoToday', e.since)) \in Nat
        /\ Cardinality(Batch(AutoToday', e.born)) \in Nat
    <3>1. AutoToday' \subseteq docs' BY DEF AutoToday, Live
    <3>2. Upto(AutoToday', e.since) \subseteq docs' /\ Batch(AutoToday', e.born) \subseteq docs'
      BY <3>1 DEF Upto, Batch
    <3> QED BY <3>2, FS_Subset, FS_CardinalityType DEF Finite
  <2> QED BY <2>1, <2>2, <2>4, <2>5, <2>6, SettingsAssumption
<1>3. ASSUME NEW x \in docs', x.auto
      PROVE  \E e \in docs' : e.auto /\ \A d \in docs' : d.auto => d.born <= e.born
  <2>1. PICK y \in docs : y.auto BY <1>3
  <2>2. PICK e \in docs : e.auto /\ \A d \in docs : d.auto => d.born <= e.born
    BY <2>1 DEF Accounted
  <2>3. PICK z \in docs' : z.auto = e.auto /\ z.born = e.born OBVIOUS
  <2>4. \A d \in docs' : d.auto => d.born <= z.born BY <2>2, <2>3
  <2> QED BY <2>2, <2>3, <2>4
<1> QED BY <1>1, <1>2, <1>3 DEF Accounted, Upto, Batch

(* A step that keeps what is flushed and the count it started from.         *)
LEMMA KeptBudget ==
  ASSUME TypeOK, Finite, NEW s \in Sessions, WithinBudget(s),
         docs' = docs, clock' \in {clock, clock + 1},
         chk'[s].fresh = chk[s].fresh, chk'[s].since = chk[s].since,
         pc'[s] \in {"ids", "names", "wait", "crawl"} =>
           pc[s] \in {"ids", "names", "wait", "crawl"} /\ chk'[s].budget = chk[s].budget,
         pc'[s] = "card" =>
           /\ IsFiniteSet(chk'[s].queue)
           /\ Cardinality(Upto(AutoToday, chk[s].since)) + Cardinality(chk[s].fresh)
                + Cardinality(chk'[s].queue) <= DailyLimit
  PROVE  WithinBudget(s)'
<1>1. AutoToday' = AutoToday BY DEF AutoToday, Live
<1>2. chk[s].since <= clock' BY DEF TypeOK, Check, WithinBudget
<1> QED BY <1>1, <1>2 DEF WithinBudget

LEMMA BlankBudget ==
  ASSUME NEW s \in Sessions, chk'[s].fresh = {}, chk'[s].since = 0, clock' \in Nat,
         pc'[s] \in {"idle", "count", "next"}
  PROVE  WithinBudget(s)'
BY DEF WithinBudget

(* What is counted is what is on record and what the session has flushed.   *)
LEMMA CountBudget ==
  ASSUME TypeOK, Finite, Accounted, NEW s \in Sessions, WithinBudget(s), Count(s)
  PROVE  WithinBudget(s)'
<1> DEFINE m == chk[s]
           used == Cardinality(AutoToday \cup m.fresh)
           since == IF m.fresh = {} THEN clock ELSE m.since
<1>t. m \in Check /\ clock \in Nat /\ m.since \in Nat BY DEF TypeOK, Check
<1>1. UNCHANGED <<docs, clock>> BY DEF Count, tables
<1>2. AutoToday' = AutoToday BY <1>1 DEF AutoToday, Live
<1>3. /\ chk'[s].fresh = m.fresh /\ chk'[s].since = since
      /\ \/ pc'[s] = "record"
         \/ ~Exhausted(used) /\ pc'[s] = "ids" /\ chk'[s].budget = DailyLimit - used
  BY <1>t DEF Count, Goto, TypeOK, Check
<1>4. since <= clock BY <1>t DEF WithinBudget
<1>5. used = Cardinality(AutoToday) + Cardinality(m.fresh)
  <2>1. AutoToday \cap m.fresh = {} BY DEF Accounted, WithinBudget, AutoToday, Live
  <2>2. IsFiniteSet(m.fresh) BY DEF Finite
  <2>3. Cardinality(AutoToday) \in Nat /\ Cardinality(m.fresh) \in Nat
    BY <2>2, AutoTyped, FS_CardinalityType
  <2> QED BY <2>1, <2>2, <2>3, AutoTyped, FS_Union, FS_EmptySet
<1>6. Cardinality(Upto(AutoToday, since)) <= Cardinality(AutoToday)
  BY AutoTyped, FS_Subset DEF Upto
<1>7. m.fresh # {} => Cardinality(Upto(AutoToday, since)) + Cardinality(m.fresh) <= DailyLimit
  BY DEF WithinBudget
<1>8. /\ Cardinality(Upto(AutoToday, since)) \in Nat /\ Cardinality(AutoToday) \in Nat
      /\ Cardinality(m.fresh) \in Nat
  BY AutoTyped, FS_CardinalityType DEF Finite
<1>9. \A d \in m.fresh : d.auto /\ d.born = 0 BY DEF WithinBudget
<1>10. pc'[s] = "ids" =>
         Cardinality(Upto(AutoToday, since)) + Cardinality(m.fresh) + chk'[s].budget <= DailyLimit
  <2> HIDE DEF since, m
  <2> QED BY <1>3, <1>5, <1>6, <1>8, SettingsAssumption DEF Exhausted
<1> HIDE DEF since
<1> QED BY <1>1, <1>2, <1>3, <1>4, <1>7, <1>9, <1>10 DEF WithinBudget

(* What is selected is within the budget.                                   *)
LEMMA SelectBudget ==
  ASSUME TypeOK, Finite, NEW s \in Sessions, WithinBudget(s), Select(s)
  PROVE  WithinBudget(s)'
<1> DEFINE m == chk[s]
<1>t. m \in Check /\ m.budget \in Nat BY DEF TypeOK, Check
<1>1. PICK found \in Discovered(m.co) :
        \E cards \in Newest(Unnamed(s, found), Cap(s)) : chk' = [chk EXCEPT ![s].queue = cards]
  BY DEF Select
<1>2. PICK cards \in Newest(Unnamed(s, found), Cap(s)) : chk' = [chk EXCEPT ![s].queue = cards]
  BY <1>1
<1>3. UNCHANGED <<docs, clock>> /\ pc[s] = "crawl" /\ pc'[s] = "card"
  BY DEF Select, tables, Goto, TypeOK
<1>4. chk'[s].queue = cards /\ chk'[s].fresh = m.fresh /\ chk'[s].since = m.since
  BY <1>2, <1>t DEF TypeOK, Check
<1>5. cards \subseteq Unnamed(s, found)
      /\ Cardinality(cards) = Least(Cap(s), Cardinality(Unnamed(s, found)))
  BY DEF Newest
<1>6. Unnamed(s, found) \subseteq Cards BY DEF Unnamed, Discovered
<1>7. IsFiniteSet(Unnamed(s, found)) /\ IsFiniteSet(cards)
  BY <1>5, <1>6, CardsAreFinite, FS_Subset
<1>8. Cardinality(Unnamed(s, found)) \in Nat /\ Cardinality(cards) \in Nat
  BY <1>7, FS_CardinalityType
<1>9. Cardinality(cards) <= m.budget
  BY <1>5, <1>8, <1>t, SettingsAssumption DEF Least, Cap
<1>10. Cardinality(Upto(AutoToday, m.since)) \in Nat /\ Cardinality(m.fresh) \in Nat
  BY AutoTyped, FS_CardinalityType DEF Finite
<1>11. Cardinality(Upto(AutoToday, m.since)) + Cardinality(m.fresh) + m.budget <= DailyLimit
  BY <1>3 DEF WithinBudget
<1>12. Cardinality(Upto(AutoToday, m.since)) + Cardinality(m.fresh) + Cardinality(cards)
         <= DailyLimit
  BY <1>8, <1>9, <1>10, <1>11, <1>t, SettingsAssumption
<1> QED BY <1>3, <1>4, <1>7, <1>12, KeptBudget DEF TypeOK

LEMMA LocalBudget ==
  ASSUME TypeOK, Finite, Accounted, NEW s \in Sessions, WithinBudget(s),
         docs' = docs, clock' = clock,
         \/ CheckNow(s) \/ Visit(s) \/ Sleep(s) \/ Count(s) \/ ReadIds(s)
         \/ ReadNames(s) \/ TakeBrowser(s) \/ NothingFound(s) \/ Trip(s)
         \/ Select(s) \/ Skip(s) \/ StopCards(s) \/ LeaveBrowser(s)
         \/ RecordRefused(s) \/ ScheduleRaises(s) \/ Fail(s) \/ RespondFails(s)
         \/ Respond(s)
  PROVE  WithinBudget(s)'
<1> DEFINE m == chk[s]
<1>t. m \in Check /\ clock \in Nat BY DEF TypeOK
<1>1. CASE chk'[s].fresh = {} /\ chk'[s].since = 0 /\ pc'[s] \in {"idle", "count"}
  BY <1>1, <1>t, BlankBudget
<1>2. CASE Count(s) BY <1>2, CountBudget
<1>3. CASE Select(s) BY <1>3, SelectBudget
<1>4. ASSUME chk'[s].fresh = m.fresh, chk'[s].since = m.since, ~Select(s)
      PROVE  WithinBudget(s)'
  <2>1. CASE ReadIds(s)
    <3>1. pc[s] = "ids" /\ pc'[s] = "names" /\ chk'[s].budget = m.budget
      BY <2>1, <1>t DEF ReadIds, Goto, TypeOK, Check
    <3> QED BY <1>4, <3>1, KeptBudget
  <2>2. CASE ReadNames(s)
    <3>1. pc[s] = "names" /\ pc'[s] = "wait" /\ chk'[s].budget = m.budget
      BY <2>2, <1>t DEF ReadNames, Goto, TypeOK, Check
    <3> QED BY <1>4, <3>1, KeptBudget
  <2>3. CASE TakeBrowser(s)
    <3>1. pc[s] = "wait" /\ pc'[s] = "crawl" /\ chk'[s].budget = m.budget
      BY <2>3, <1>t DEF TakeBrowser, Goto, TypeOK, Check
    <3> QED BY <1>4, <3>1, KeptBudget
  <2>4. CASE Skip(s) \/ StopCards(s)
    <3>1. pc[s] = "card" /\ pc'[s] = "card" /\ chk'[s].queue \subseteq m.queue
      BY <2>4, <1>t DEF Skip, StopCards, TypeOK, Check
    <3>2. IsFiniteSet(m.queue) /\ Cardinality(Upto(AutoToday, m.since)) + Cardinality(m.fresh)
                                   + Cardinality(m.queue) <= DailyLimit
      BY <3>1 DEF WithinBudget
    <3>3. /\ IsFiniteSet(chk'[s].queue) /\ Cardinality(chk'[s].queue) \in Nat
          /\ Cardinality(chk'[s].queue) <= Cardinality(m.queue) /\ Cardinality(m.queue) \in Nat
      BY <3>1, <3>2, FS_Subset, FS_CardinalityType
    <3>4. Cardinality(Upto(AutoToday, m.since)) \in Nat /\ Cardinality(m.fresh) \in Nat
      BY AutoTyped, FS_CardinalityType DEF Finite
    <3>5. Cardinality(Upto(AutoToday, m.since)) + Cardinality(m.fresh)
            + Cardinality(chk'[s].queue) <= DailyLimit
      BY <3>2, <3>3, <3>4, SettingsAssumption
    <3> QED BY <1>4, <3>1, <3>3, <3>5, KeptBudget
  <2>5. CASE \/ CheckNow(s) \/ Visit(s) \/ Sleep(s) \/ NothingFound(s) \/ Trip(s)
             \/ LeaveBrowser(s) \/ RecordRefused(s) \/ ScheduleRaises(s) \/ Fail(s)
             \/ RespondFails(s) \/ Respond(s)
    <3>1. pc'[s] \in {"idle", "count", "next", "record"}
      BY <2>5 DEF CheckNow, Visit, Sleep, NothingFound, Trip, LeaveBrowser, RecordRefused,
                  ScheduleRaises, Fail, RespondFails, Respond, Raise, Goto, TypeOK
    <3> QED BY <1>4, <3>1, KeptBudget
  <2> QED BY <1>2, <1>4, <2>1, <2>2, <2>3, <2>4, <2>5
<1> QED BY <1>1, <1>2, <1>3, <1>4, LocalFresh

(* A document that is flushed was in the queue.                             *)
LEMMA IngestBudget ==
  ASSUME TypeOK, Finite, NEW s \in Sessions, WithinBudget(s), Ingest(s)
  PROVE  WithinBudget(s)'
<1> DEFINE m == chk[s]
<1>t. /\ m \in Check /\ clock \in Nat /\ clock + 1 \in Nat /\ m.since \in Nat
  BY DEF TypeOK, Check
<1>1. PICK k \in NextCards(s) : Flush(s, k, {clock + 1}) BY DEF Ingest, PdfThenRow
<1>2. /\ pc[s] = "card" /\ docs' = docs /\ clock' = clock + 1 /\ k \in m.queue
  BY <1>1 DEF Ingest, Flush, tables, NextCards
<1>3. CASE Raise(s, TRUE)
  <2>1. chk'[s] = Blank /\ pc'[s] = "idle" BY <1>3, RefusedEnds DEF TypeOK
  <2> QED BY <1>2, <1>t, <2>1, BlankBudget DEF Blank
<1>4. CASE ~Raise(s, TRUE)
  <2> DEFINE d == [id |-> clock + 1, card |-> k, name |-> FileName(k), auto |-> TRUE,
                   known |-> m.known, since |-> 0, born |-> 0, live |-> TRUE]
  <2>1. /\ chk'[s].fresh = m.fresh \cup {d} /\ chk'[s].queue = m.queue \ {k}
        /\ chk'[s].since = m.since
    <3> DEFINE n == [m EXCEPT !.fresh = @ \cup {d}, !.made = @ \cup {clock + 1},
                              !.ids = @ \cup {k}, !.queue = @ \ {k}]
    <3>1. chk' = [chk EXCEPT ![s] = n] BY <1>1, <1>4, <1>t DEF Flush, TypeOK, Check
    <3> HIDE DEF d
    <3>2. n.fresh = m.fresh \cup {d} /\ n.queue = m.queue \ {k} /\ n.since = m.since
      BY <1>t DEF Check
    <3> HIDE DEF n
    <3> QED BY <3>1, <3>2 DEF TypeOK
  <2>2. pc'[s] = "card" BY <1>1, <1>2, <1>4 DEF Flush
  <2>3. d.auto /\ d.born = 0 OBVIOUS
  <2> HIDE DEF d
  <2>4. IsFiniteSet(m.queue) /\ Cardinality(Upto(AutoToday, m.since)) + Cardinality(m.fresh)
                                 + Cardinality(m.queue) <= DailyLimit
    BY <1>2 DEF WithinBudget
  <2>5. /\ IsFiniteSet(m.queue \ {k}) /\ Cardinality(m.queue) \in Nat
        /\ Cardinality(m.queue \ {k}) = Cardinality(m.queue) - 1
        /\ Cardinality(m.queue \ {k}) \in Nat
    BY <1>2, <2>4, FS_RemoveElement, FS_CardinalityType
  <2>6. /\ Cardinality(m.fresh \cup {d}) <= Cardinality(m.fresh) + 1
        /\ Cardinality(m.fresh \cup {d}) \in Nat /\ Cardinality(m.fresh) \in Nat
    <3>1. IsFiniteSet(m.fresh) BY DEF Finite
    <3>2. /\ IsFiniteSet(m.fresh \cup {d})
          /\ Cardinality(m.fresh \cup {d}) =
               IF d \in m.fresh THEN Cardinality(m.fresh) ELSE Cardinality(m.fresh) + 1
      BY <3>1, FS_AddElement
    <3>3. Cardinality(m.fresh) \in Nat BY <3>1, FS_CardinalityType
    <3> QED BY <3>2, <3>3
  <2>7. Cardinality(Upto(AutoToday, m.since)) \in Nat BY AutoTyped
  <2>8. /\ Cardinality(Upto(AutoToday, m.since)) + Cardinality(m.fresh \cup {d})
             + Cardinality(m.queue \ {k}) <= DailyLimit
        /\ Cardinality(Upto(AutoToday, m.since)) + Cardinality(m.fresh \cup {d}) <= DailyLimit
    BY <2>4, <2>5, <2>6, <2>7, SettingsAssumption
  <2>9. AutoToday' = AutoToday BY <1>2 DEF AutoToday, Live
  <2>10. m.since <= clock' /\ \A x \in m.fresh : x.auto /\ x.born = 0
    BY <1>2, <1>t DEF WithinBudget
  <2> QED BY <2>1, <2>2, <2>3, <2>5, <2>8, <2>9, <2>10 DEF WithinBudget
<1> QED BY <1>3, <1>4

LEMMA RecordBudget ==
  ASSUME TypeOK, Finite, TypeOK', Finite', BudgetInv, NEW s \in Sessions, Record(s)
  PROVE  BudgetInv'
<1> DEFINE m == chk[s]
           put(d) == [d EXCEPT !.born = clock + 1, !.since = m.since]
           new == {put(d) : d \in m.fresh}
<1>t. /\ m \in Check /\ m.since \in Nat /\ m.fresh \subseteq Doc /\ clock \in Nat
      /\ docs \subseteq Doc /\ \A d \in Doc : d.born \in Nat /\ d.since \in Nat
  BY DEF TypeOK, Check, Doc
<1>h. WithinBudget(s) /\ Accounted BY DEF BudgetInv
<1>1. \A d \in Doc : put(d).born = clock + 1 /\ put(d).since = m.since /\ put(d).auto = d.auto
  BY DEF Doc
<1>2. /\ docs' = docs \cup new /\ clock' = clock + 1
      /\ chk' = [chk EXCEPT ![s].fresh = {}]
      /\ pc' = [pc EXCEPT ![s] = IF s = Loop THEN "next" ELSE "respond"]
  BY DEF Record, Goto
<1>3. /\ chk'[s].fresh = {} /\ chk'[s].since = m.since
      /\ pc'[s] \in {"next", "respond"}
  BY <1>2, <1>t DEF TypeOK, Check
<1>s. IsFiniteSet(new) /\ Cardinality(new) <= Cardinality(m.fresh)
  <2> DEFINE f == [d \in m.fresh |-> put(d)]
  <2>1. f \in Surjection(m.fresh, new) BY DEF Surjection
  <2>2. IsFiniteSet(m.fresh) BY DEF Finite
  <2> HIDE DEF f, new
  <2> QED BY <2>1, <2>2, FS_Surjection
<1> HIDE DEF put
<1>4. \A x \in new : \E d \in m.fresh : x = put(d) OBVIOUS
<1>n. new = {} <=> m.fresh = {} OBVIOUS
<1>5. \A x \in Live' : x \in Live \/ x \in new BY <1>2 DEF Live
<1> HIDE DEF new
<1>6. \A x \in new : x.born = clock + 1 /\ x.since = m.since /\ x.auto
  BY <1>1, <1>4, <1>t, <1>h DEF WithinBudget
<1>7. Grown
  <2>1. \A d \in Live' : d \in Live \/ d.born > clock BY <1>5, <1>6, <1>t
  <2> QED BY <1>2, <1>t, <2>1 DEF Grown, IdsOf
<1>8. \A t \in Sessions \ {s} : WithinBudget(t)'
  <2>1. \A t \in Sessions \ {s} : chk'[t] = chk[t] /\ pc'[t] = pc[t] BY <1>2 DEF TypeOK
  <2> QED BY <1>7, <2>1, BudgetFrame DEF BudgetInv
<1>9. WithinBudget(s)'
  <2>1. m.since <= clock' BY <1>2, <1>t, <1>h DEF WithinBudget
  <2> QED BY <1>3, <2>1 DEF WithinBudget
<1>10. CASE m.fresh = {}
  <2>1. docs' = docs BY <1>2, <1>n, <1>10
  <2>2. Accounted' BY <1>h, <1>7, <2>1, AccountedFrame
  <2> QED BY <1>8, <1>9, <2>2 DEF BudgetInv
<1>11. CASE m.fresh # {}
  <2>1. m.since <= clock
        /\ Cardinality(Upto(AutoToday, m.since)) + Cardinality(m.fresh) <= DailyLimit
    BY <1>h, <1>11 DEF WithinBudget
  <2>2. Batch(AutoToday', clock + 1) \subseteq new
    <3>1. \A d \in docs : d.born <= clock /\ d.born \in Nat BY <1>h, <1>t DEF Accounted
    <3>2. AutoToday' \subseteq docs' BY DEF AutoToday, Live
    <3> QED BY <1>2, <1>t, <3>1, <3>2 DEF Batch
  <2>3. /\ Cardinality(Batch(AutoToday', clock + 1)) <= Cardinality(m.fresh)
        /\ Cardinality(Upto(AutoToday', m.since)) <= Cardinality(Upto(AutoToday, m.since))
    <3>1. Cardinality(Batch(AutoToday', clock + 1)) <= Cardinality(new)
          /\ Cardinality(Batch(AutoToday', clock + 1)) \in Nat
      BY <1>s, <2>2, FS_Subset, FS_CardinalityType
    <3>2. Cardinality(new) \in Nat /\ Cardinality(m.fresh) \in Nat
      BY <1>s, FS_CardinalityType DEF Finite
    <3> QED BY <1>s, <1>7, <1>t, <2>1, <3>1, <3>2, CountShrinks
  <2>4. /\ Cardinality(Batch(AutoToday', clock + 1)) \in Nat
        /\ Cardinality(Upto(AutoToday', m.since)) \in Nat
        /\ Cardinality(Upto(AutoToday, m.since)) \in Nat /\ Cardinality(m.fresh) \in Nat
    <3>1. AutoToday' \subseteq docs' BY DEF AutoToday, Live
    <3>2. Upto(AutoToday', m.since) \subseteq docs' /\ Batch(AutoToday', clock + 1) \subseteq docs'
      BY <3>1 DEF Upto, Batch
    <3> QED BY <3>2, AutoTyped, FS_Subset, FS_CardinalityType DEF Finite
  <2>5. \A e \in new :
          /\ e.since < e.born
          /\ Cardinality(Upto(AutoToday', e.since)) + Cardinality(Batch(AutoToday', e.born))
               <= DailyLimit
    <3>1. Cardinality(Upto(AutoToday', m.since)) + Cardinality(Batch(AutoToday', clock + 1))
            <= DailyLimit
      BY <2>1, <2>3, <2>4, SettingsAssumption
    <3>2. m.since < clock + 1 BY <2>1, <1>t
    <3> QED BY <1>6, <3>1, <3>2
  <2>6. ASSUME NEW e \in docs, e.auto
        PROVE  /\ e.since < e.born
               /\ Cardinality(Upto(AutoToday', e.since)) + Cardinality(Batch(AutoToday', e.born))
                    <= DailyLimit
    <3>1. /\ e.since < e.born /\ e.born <= clock /\ e.born \in Nat /\ e.since \in Nat
          /\ Cardinality(Upto(AutoToday, e.since)) + Cardinality(Batch(AutoToday, e.born))
               <= DailyLimit
      BY <1>h, <1>t, <2>6 DEF Accounted
    <3>2. e.since <= clock BY <1>t, <3>1
    <3>3. /\ Cardinality(Upto(AutoToday', e.since)) <= Cardinality(Upto(AutoToday, e.since))
          /\ Cardinality(Batch(AutoToday', e.born)) <= Cardinality(Batch(AutoToday, e.born))
      BY <1>7, <3>1, <3>2, CountShrinks
    <3>4. /\ Cardinality(Upto(AutoToday, e.since)) \in Nat
          /\ Cardinality(Batch(AutoToday, e.born)) \in Nat
      BY AutoTyped
    <3>5. /\ Cardinality(Upto(AutoToday', e.since)) \in Nat
          /\ Cardinality(Batch(AutoToday', e.born)) \in Nat
      <4>1. AutoToday' \subseteq docs' BY DEF AutoToday, Live
      <4>2. Upto(AutoToday', e.since) \subseteq docs' /\ Batch(AutoToday', e.born) \subseteq docs'
        BY <4>1 DEF Upto, Batch
      <4> QED BY <4>2, FS_Subset, FS_CardinalityType DEF Finite
    <3> QED BY <3>1, <3>3, <3>4, <3>5, SettingsAssumption
  <2>7. \A e \in docs' : 0 < e.born /\ e.born <= clock'
    <3>1. \A e \in docs : 0 < e.born /\ e.born <= clock /\ e.born \in Nat
      BY <1>h, <1>t DEF Accounted
    <3>2. \A e \in docs : e.born <= clock + 1 BY <3>1, <1>t
    <3>3. 0 < clock + 1 /\ clock + 1 <= clock + 1 BY <1>t
    <3>4. \A e \in docs' : e \in docs \/ e.born = clock + 1 BY <1>2, <1>6
    <3> QED BY <1>2, <3>1, <3>2, <3>3, <3>4
  <2>8. \E e \in docs' : e.auto /\ \A d \in docs' : d.auto => d.born <= e.born
    <3>1. PICK e \in new : TRUE BY <1>n, <1>11
    <3> QED BY <1>2, <1>6, <2>7, <3>1
  <2>9. Accounted'
    <3>1. \A e \in docs' : e.auto =>
            /\ e.since < e.born
            /\ Cardinality(Upto(AutoToday', e.since)) + Cardinality(Batch(AutoToday', e.born))
                 <= DailyLimit
      BY <1>2, <2>5, <2>6
    <3> QED BY <2>7, <2>8, <3>1 DEF Accounted, Upto, Batch
  <2> QED BY <1>8, <1>9, <2>9 DEF BudgetInv
<1> QED BY <1>10, <1>11

(* What is uploaded is not counted, and a deletion only takes away.         *)
LEMMA UsersBudget ==
  ASSUME TypeOK, Finite, TypeOK', Finite', BudgetInv,
         Upload \/ \E x \in deleting : EraseRows(x)
  PROVE  BudgetInv'
<1> DEFINE same(d, e) == d.auto = e.auto /\ d.since = e.since /\ d.born = e.born
<1>1. UNCHANGED <<pc, chk>> BY DEF Upload, EraseRows
<1>2. clock' \in {clock, clock + 1} /\ clock \in Nat
  BY DEF Upload, EraseRows, TypeOK
<1>3. /\ \A d \in docs' : \/ \E e \in docs : same(d, e)
                          \/ ~d.auto /\ 0 < d.born /\ d.born <= clock'
      /\ \A e \in docs : \E d \in docs' : same(d, e)
      /\ \A d \in Live' : d \in Live \/ d.born > clock
      /\ IdsOf(docs) \subseteq IdsOf(docs)'
  <2>1. CASE Upload
    <3>1. PICK k \in Cards :
            docs' = docs \cup {[id |-> clock + 1, card |-> k, name |-> AsTitled(k),
                                auto |-> FALSE, known |-> 0, since |-> clock,
                                born |-> clock + 1, live |-> TRUE]}
      BY <2>1 DEF Upload
    <3> DEFINE n == [id |-> clock + 1, card |-> k, name |-> AsTitled(k), auto |-> FALSE,
                     known |-> 0, since |-> clock, born |-> clock + 1, live |-> TRUE]
    <3>2. docs' = docs \cup {n} /\ n.auto = FALSE /\ n.born = clock + 1 BY <3>1
    <3> HIDE DEF n
    <3>3. 0 < n.born /\ n.born <= clock' /\ n.born > clock BY <2>1, <3>2, <1>2 DEF Upload
    <3> QED BY <3>2, <3>3 DEF Live, IdsOf
  <2> DEFINE Off(d) == [d EXCEPT !.live = FALSE]
  <2>o. \A d \in docs : same(Off(d), d) /\ Off(d).live = FALSE /\ Off(d).id = d.id
    BY DEF TypeOK, Doc
  <2> HIDE DEF Off
  <2>2. CASE \E x \in deleting : EraseRows(x)
    <3>1. PICK gone \in SUBSET docs : docs' = (docs \ gone) \cup {Off(d) : d \in gone}
      BY <2>2, ErasedRows DEF Off
    <3>2. \A d \in docs : d \in docs' \/ Off(d) \in docs' BY <3>1
    <3>3. \A d \in docs' : d \in docs \/ \E e \in docs : d = Off(e) BY <3>1
    <3>4. \A d \in Live' : d \in Live BY <3>3, <2>o DEF Live
    <3>5. IdsOf(docs) \subseteq IdsOf(docs)' BY <3>2, <2>o DEF IdsOf
    <3> QED BY <3>2, <3>3, <3>4, <3>5, <2>o
  <2> QED BY <2>1, <2>2
<1>4. Grown BY <1>2, <1>3 DEF Grown
<1>5. Accounted' BY <1>3, <1>4, AccountedFrame DEF BudgetInv
<1>6. \A t \in Sessions : WithinBudget(t)' BY <1>1, <1>4, BudgetFrame DEF BudgetInv
<1> QED BY <1>5, <1>6 DEF BudgetInv

(* A step of one session that puts nothing on record.                       *)
LEMMA OneBudget ==
  ASSUME TypeOK, Finite, TypeOK', Finite', BudgetInv, NEW s \in Sessions, WithinBudget(s)',
         docs' = docs, clock' \in {clock, clock + 1},
         \A t \in Sessions \ {s} : chk'[t] = chk[t] /\ pc'[t] = pc[t]
  PROVE  BudgetInv'
<1>1. Grown BY StillGrown
<1>2. \A t \in Sessions \ {s} : WithinBudget(t)' BY <1>1, BudgetFrame DEF BudgetInv
<1>3. Accounted' BY <1>1, AccountedFrame DEF BudgetInv
<1> QED BY <1>2, <1>3 DEF BudgetInv

LEMMA BudgetNext ==
  ASSUME TypeOK, Finite, TypeOK', Finite', BudgetInv, [Next]_vars
  PROVE  BudgetInv'
<1> USE DEF tables, limits, Goto
<1>h. Accounted /\ \A s \in Sessions : WithinBudget(s) BY DEF BudgetInv
<1>t. clock \in Nat BY DEF TypeOK
<1>1. ASSUME NEW s \in Sessions,
             \/ CheckNow(s) \/ Visit(s) \/ Sleep(s) \/ Count(s) \/ ReadIds(s)
             \/ ReadNames(s) \/ TakeBrowser(s) \/ NothingFound(s) \/ Trip(s)
             \/ Select(s) \/ Skip(s) \/ StopCards(s) \/ LeaveBrowser(s)
             \/ RecordRefused(s) \/ ScheduleRaises(s) \/ Fail(s) \/ RespondFails(s)
             \/ Respond(s)
      PROVE  BudgetInv'
  <2>1. UNCHANGED <<docs, clock>>
    BY <1>1 DEF CheckNow, Visit, Sleep, Count, ReadIds, ReadNames, TakeBrowser,
                NothingFound, Trip, Select, Skip, StopCards, LeaveBrowser, RecordRefused,
                ScheduleRaises, Fail, RespondFails, Respond
  <2>2. \A t \in Sessions \ {s} : chk'[t] = chk[t] /\ pc'[t] = pc[t]
    BY <1>1 DEF CheckNow, Visit, Sleep, Count, ReadIds, ReadNames, TakeBrowser,
                NothingFound, Trip, Select, Skip, StopCards, LeaveBrowser, RecordRefused,
                ScheduleRaises, Fail, RespondFails, Respond, Raise, TypeOK
  <2>3. WithinBudget(s)' BY <1>1, <1>h, <2>1, LocalBudget
  <2> QED BY <2>1, <2>2, <2>3, OneBudget
<1>2. ASSUME NEW s \in Sessions, Ingest(s) PROVE BudgetInv'
  <2>1. WithinBudget(s)' BY <1>2, <1>h, IngestBudget
  <2>2. /\ docs' = docs /\ clock' = clock + 1
        /\ \A t \in Sessions \ {s} : chk'[t] = chk[t] /\ pc'[t] = pc[t]
    BY <1>2 DEF Ingest, PdfThenRow, Flush, Raise, TypeOK
  <2> QED BY <2>1, <2>2, OneBudget
<1>3. ASSUME NEW s \in Sessions, Record(s) PROVE BudgetInv' BY <1>3, RecordBudget
<1>4. CASE Wake
  <2>1. /\ chk'[Loop].fresh = {} /\ chk'[Loop].since = 0
        /\ pc'[Loop] = "next" /\ Loop \in Sessions
    BY <1>4 DEF Wake, Blank, TypeOK, Sessions
  <2>2. /\ UNCHANGED <<docs, clock>>
        /\ \A t \in Sessions \ {Loop} : chk'[t] = chk[t] /\ pc'[t] = pc[t]
    BY <1>4 DEF Wake, TypeOK
  <2>3. WithinBudget(Loop)' BY <1>t, <2>1, <2>2, BlankBudget
  <2> QED BY <2>1, <2>2, <2>3, OneBudget
<1>5. CASE Upload \/ \E x \in deleting : EraseRows(x) BY <1>5, UsersBudget
<1>6. CASE \/ ToggleAutoFetch \/ DeleteDocument \/ DeleteCompany
           \/ \E x \in deleting : ErasePdf(x) \/ BreakOff(x)
           \/ UNCHANGED vars
  <2>1. UNCHANGED <<docs, clock, pc, chk>>
    BY <1>6 DEF ToggleAutoFetch, DeleteDocument, DeleteCompany, ErasePdf, BreakOff, vars
  <2>2. Grown BY <2>1, StillGrown
  <2>3. \A t \in Sessions : WithinBudget(t)' BY <1>h, <2>1, <2>2, BudgetFrame
  <2>4. Accounted' BY <1>h, <2>1, <2>2, AccountedFrame
  <2> QED BY <2>3, <2>4 DEF BudgetInv
<1>7. CASE Crash
  <2>1. /\ UNCHANGED <<docs, clock>>
        /\ \A t \in Sessions : chk'[t] = Blank /\ pc'[t] = "idle"
    BY <1>7 DEF Crash
  <2>2. Grown BY <2>1, StillGrown
  <2>3. \A t \in Sessions : WithinBudget(t)' BY <1>t, <2>1, BlankBudget DEF Blank
  <2>4. Accounted' BY <1>h, <2>1, <2>2, AccountedFrame
  <2> QED BY <2>3, <2>4 DEF BudgetInv
<1> QED BY <1>1, <1>2, <1>3, <1>4, <1>5, <1>6, <1>7, NextCases

LEMMA BudgetAlways == Spec => []BudgetInv
<1>1. Init => BudgetInv
  <2> SUFFICES ASSUME Init PROVE BudgetInv OBVIOUS
  <2>1. /\ docs = {} /\ clock = 0 /\ \A s \in Sessions : chk[s] = Blank /\ pc[s] = "idle"
    BY DEF Init
  <2>2. Blank.fresh = {} /\ Blank.since = 0 BY DEF Blank
  <2> QED BY <2>1, <2>2 DEF BudgetInv, WithinBudget, Accounted
<1>2. TypeOK /\ Finite /\ TypeOK' /\ Finite' /\ BudgetInv /\ [Next]_vars => BudgetInv'
  BY BudgetNext
<1> QED BY <1>1, <1>2, TypedAlways, PTL DEF Spec

(* Where no two sessions overlapped, everything fetched today was either    *)
(* on record when the session of the last commit counted, or is part of     *)
(* that commit.                                                             *)
LEMMA AccountedBounds ==
  ASSUME TypeOK, Finite, Accounted
  PROVE  OverrunNeedsOverlap
<1> SUFFICES ASSUME \A d, e \in docs :
                      d.auto /\ e.auto /\ e.since < d.born => ~(d.born < e.born)
             PROVE  Cardinality(AutoToday) <= DailyLimit
  BY AutoTyped, FS_CardinalityType, SettingsAssumption DEF OverrunNeedsOverlap
<1>1. CASE AutoToday = {} BY <1>1, FS_EmptySet, SettingsAssumption
<1>2. CASE AutoToday # {}
  <2>1. PICK e \in docs : e.auto /\ \A d \in docs : d.auto => d.born <= e.born
    BY <1>2 DEF Accounted, AutoToday, Live
  <2>2. Cardinality(Upto(AutoToday, e.since)) + Cardinality(Batch(AutoToday, e.born))
          <= DailyLimit
    BY <2>1 DEF Accounted
  <2>3. AutoToday = Upto(AutoToday, e.since) \cup Batch(AutoToday, e.born)
    <3> SUFFICES ASSUME NEW d \in AutoToday PROVE d.born <= e.since \/ d.born = e.born
      BY DEF Upto, Batch
    <3>1. d \in docs /\ d.auto BY DEF AutoToday, Live
    <3>2. d.born \in Nat /\ e.born \in Nat /\ e.since \in Nat BY <3>1 DEF TypeOK, Doc
    <3>3. d.born <= e.born /\ (e.since < d.born => ~(d.born < e.born)) BY <2>1, <3>1
    <3> QED BY <3>2, <3>3
  <2> DEFINE A == Upto(AutoToday, e.since)
             B == Batch(AutoToday, e.born)
  <2>4. /\ IsFiniteSet(A) /\ IsFiniteSet(B) /\ IsFiniteSet(A \cap B)
        /\ Cardinality(A) \in Nat /\ Cardinality(B) \in Nat /\ Cardinality(A \cap B) \in Nat
    BY AutoTyped, FS_Subset, FS_CardinalityType
  <2>5. Cardinality(A \cup B) = Cardinality(A) + Cardinality(B) - Cardinality(A \cap B)
    BY <2>4, FS_Union
  <2> HIDE DEF A, B
  <2>6. Cardinality(A \cup B) <= DailyLimit
    <3>1. Cardinality(A) + Cardinality(B) <= DailyLimit BY <2>2 DEF A, B
    <3> QED BY <2>4, <2>5, <3>1, SettingsAssumption
  <2> QED BY <2>3, <2>6 DEF A, B
<1> QED BY <1>1, <1>2

(* The daily limit is exceeded only by sessions that overlapped, whatever   *)
(* the limits are and however many companies one session visits.            *)
THEOREM OverrunsOverlap == Spec => []OverrunNeedsOverlap
<1>1. TypeOK /\ Finite /\ BudgetInv => OverrunNeedsOverlap BY AccountedBounds DEF BudgetInv
<1> QED BY <1>1, BudgetAlways, TypedAlways, PTL
=============================================================================
