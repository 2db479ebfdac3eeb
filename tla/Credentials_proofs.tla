-------------------------- MODULE Credentials_proofs ------------------------
(***************************************************************************)
(* What one handler does to an account survives what another does, as far  *)
(* as their work does not overlap.  The argument rests on two things: a    *)
(* request makes values nobody had before (Stamps), and a handler that     *)
(* finds the columns it read unchanged acts on the account as it is.       *)
(***************************************************************************)
EXTENDS Credentials, TLAPS

-----------------------------------------------------------------------------
(* Types *)

LEMMA StartTyped ==
  ASSUME TypeOK, NEW j \in Jobs, NEW op \in OpNames, NEW code \in Codes \cup {NoCode},
         Start(j, op, code)
  PROVE  TypeOK'
<1>1. /\ pc' \in [Jobs -> Steps] /\ job' \in [Jobs -> Job] /\ issued' \in Nat
  BY DEF TypeOK, Start, Goto, Job, Steps, NoCode
<1> QED
  BY <1>1 DEF TypeOK, Start, histories

LEMMA EndTyped ==
  ASSUME TypeOK, NEW j \in Jobs, End(j)
  PROVE  pc' \in [Jobs -> Steps] /\ job' \in [Jobs -> Job]
BY DEF TypeOK, End, Goto, Steps, Job, Idle, Fresh, Row, NoCode, OpNames

LEMMA CommitTyped ==
  ASSUME TypeOK, NEW j \in Jobs, NEW new \in Row, NEW read \in SUBSET Columns,
         Commit(j, new, read), verified' \subseteq Nat, linked' \subseteq Nat,
         reused' \subseteq Nat, spent' \subseteq Codes \cup {NoCode}, respent' \subseteq spent'
  PROVE  TypeOK'
<1>1. row' \in Row
  BY DEF TypeOK, Commit, Update, Column, Row, Job
<1>2. raced' \subseteq Columns
  BY DEF TypeOK, Commit, Outdated
<1>3. pc' \in [Jobs -> Steps] /\ job' \in [Jobs -> Job]
  BY EndTyped DEF Commit
<1> QED
  BY <1>1, <1>2, <1>3 DEF TypeOK, Commit

LEMMA CopiesTyped ==
  ASSUME TypeOK, NEW j \in Jobs
  PROVE  job[j] \in Job /\ job[j].copy \in Row /\ job[j].num \in Nat
         /\ job[j].code \in Codes \cup {NoCode} /\ pc[j] \in Steps
BY DEF TypeOK, Job, NoCode

LEMMA StepTyped ==
  ASSUME TypeOK, [Next]_vars
  PROVE  TypeOK'
<1> USE DEF OpNames
<1>1. ASSUME NEW j \in Jobs, Request(j) PROVE TypeOK'
  <2>1. ASSUME NEW code \in row.codes, RequestVerifyLogin(j, code) PROVE TypeOK'
    <3>1. code \in Codes
      BY <2>1 DEF TypeOK, Row
    <3> QED
      BY <2>1, <3>1, StartTyped DEF RequestVerifyLogin
  <2>2. ASSUME NEW op \in Photo, RequestPhoto(j, op) PROVE TypeOK'
    BY <2>2, StartTyped DEF RequestPhoto, Photo
  <2> QED
    BY <1>1, <2>1, <2>2, StartTyped
    DEF Request, RequestChange, RequestForgot, RequestReset, RequestSetup, RequestVerifySetup,
        RequestDisable, RequestRegenerate
<1>2. ASSUME NEW j \in Jobs, Handle(j) PROVE TypeOK'
  <2> DEFINE copy == job[j].copy
             n == job[j].num
  <2>t. /\ copy \in Row /\ n \in Nat /\ job[j].code \in Codes \cup {NoCode}
        /\ NewCodes(n) \in SUBSET Codes
    BY CopiesTyped DEF NewCodes, Codes
  <2>n. /\ [copy EXCEPT !.password = n] \in Row /\ [copy EXCEPT !.reset = n] \in Row
        /\ [copy EXCEPT !.secret = n] \in Row /\ [copy EXCEPT !.avatar = n] \in Row
        /\ [copy EXCEPT !.avatar = 0] \in Row /\ ResetTo(copy, n) \in Row
        /\ [copy EXCEPT !.enabled = TRUE, !.codes = NewCodes(n)] \in Row
        /\ [copy EXCEPT !.secret = 0, !.enabled = FALSE, !.codes = {}] \in Row
        /\ [copy EXCEPT !.codes = NewCodes(n)] \in Row
        /\ CodeRemoved(copy, job[j].code) \in Row
    BY <2>t DEF Row, ResetTo, CodeRemoved
  <2>c. /\ Factor \in SUBSET Columns /\ {"password"} \in SUBSET Columns
        /\ {"reset"} \in SUBSET Columns /\ {"avatar"} \in SUBSET Columns
        /\ {"password", "reset"} \in SUBSET Columns
    BY DEF Factor, Columns
  <2>1. CASE ChangePassword(j)
    BY <2>1, <2>n, <2>c, CommitTyped DEF ChangePassword, TypeOK
  <2>2. CASE ForgotPassword(j)
    BY <2>2, <2>n, <2>c, CommitTyped DEF ForgotPassword, TypeOK
  <2>3. CASE ResetPassword(j)
    <3>1. copy.reset \in Nat
      BY <2>t DEF Row
    <3> QED
      BY <2>3, <3>1, <2>n, <2>c, CommitTyped DEF ResetPassword, TypeOK
  <2>4. CASE SetupSecret(j)
    BY <2>4, <2>n, <2>c, CommitTyped DEF SetupSecret, TypeOK
  <2>5. CASE VerifySetup(j)
    <3>1. copy.secret \in Nat
      BY <2>t DEF Row
    <3> QED
      BY <2>5, <3>1, <2>n, <2>c, CommitTyped DEF VerifySetup, TypeOK
  <2>6. CASE DisableFactor(j)
    BY <2>6, <2>n, <2>c, CommitTyped DEF DisableFactor, TypeOK
  <2>7. CASE RegenerateCodes(j)
    BY <2>7, <2>n, <2>c, CommitTyped DEF RegenerateCodes, TypeOK
  <2>8. CASE VerifyLogin(j)
    BY <2>8, <2>t, <2>n, <2>c, CommitTyped DEF VerifyLogin, TypeOK
  <2>9. CASE DropPhoto(j)
    BY <2>9 DEF DropPhoto, Dropping, Goto, TypeOK, Steps, histories
  <2>10. CASE SavePhoto(j)
    BY <2>10, <2>t DEF SavePhoto, Goto, TypeOK, Steps, histories
  <2>11. CASE SetPhoto(j)
    BY <2>11, <2>n, <2>c, CommitTyped DEF SetPhoto, TypeOK
  <2>12. CASE ClearPhoto(j)
    BY <2>12, <2>n, <2>c, CommitTyped DEF ClearPhoto, TypeOK
  <2>13. CASE Move(j)
    <3>1. row' \in Row
      BY <2>13, <2>t DEF Move, CarriedOver, Fresh, Row
    <3>2. raced' \subseteq Columns
      BY <2>13 DEF Move, Outdated, TypeOK
    <3>3. pc' \in [Jobs -> Steps] /\ job' \in [Jobs -> Job]
      BY <2>13, EndTyped DEF Move
    <3> QED
      BY <2>13, <3>1, <3>2, <3>3 DEF Move, TypeOK
  <2>14. CASE Undone(j) \/ Fail(j)
    <3>1. copy.avatar \in Nat
      BY <2>t DEF Row
    <3>2. pc' \in [Jobs -> Steps] /\ job' \in [Jobs -> Job]
      BY <2>14, EndTyped DEF Undone, Fail
    <3> QED
      BY <2>14, <3>1, <3>2 DEF Undone, Fail, TypeOK
  <2> QED
    BY <1>2, <2>1, <2>2, <2>3, <2>4, <2>5, <2>6, <2>7, <2>8, <2>9, <2>10, <2>11, <2>12,
       <2>13, <2>14 DEF Handle
<1>3. CASE Login \/ LinkExpires
  BY <1>3 DEF Login, LinkExpires, TypeOK, Row, histories
<1>4. CASE UNCHANGED vars
  BY <1>4 DEF vars, TypeOK, histories
<1> QED
  BY <1>1, <1>2, <1>3, <1>4 DEF Next

LEMMA InitTyped == ASSUME Init PROVE TypeOK
BY DEF Init, TypeOK, Fresh, Row, Idle, Job, Steps, OpNames, NoCode

(* The account, the sessions and the histories keep their types for any     *)
(* number of sessions, requests, backup codes and failures.                 *)
THEOREM TypeCorrect == Spec => []TypeOK
BY InitTyped, StepTyped, PTL DEF Spec

-----------------------------------------------------------------------------
(* What each session holds *)

(* The checks of a request still hold of its copy.                          *)
Checked(j) ==
  LET my == job[j] IN
  /\ pc[j] \in {"drop", "save"} => my.op \in Photo
  /\ my.op = "setup" => ~my.copy.enabled
  /\ my.op = "verify_setup" => my.copy.secret # 0
  /\ my.op = "verify_login" => my.code \in my.copy.codes
  /\ my.op = "reset" => my.copy.reset # 0

AllChecked == \A j \in Jobs : Checked(j)

Active(j) == pc[j] # "idle"

(* What a handler leaves in the account was there, was in its copy, or is   *)
(* named by its own request.                                                *)
Leaves(j) ==
  LET my == job[j] IN
  /\ Active(j) /\ End(j) /\ issued' = issued /\ photos' = photos
  /\ row'.password \in {row.password, my.copy.password, my.num}
  /\ row'.reset  \in {row.reset, my.copy.reset, my.num, 0}
  /\ row'.avatar \in {row.avatar, my.copy.avatar, my.num, 0}
  /\ row'.codes \subseteq row.codes \cup my.copy.codes \cup NewCodes(my.num)
  /\ linked' \subseteq linked \cup {my.copy.reset}
  /\ spent' \subseteq spent \cup my.copy.codes

(* A request as it is taken.                                                *)
Taken(j) ==
  /\ pc[j] = "idle" /\ issued' = issued + 1
  /\ \E op \in OpNames, code \in Codes \cup {NoCode} :
       /\ job' = [job EXCEPT ![j] = [op |-> op, num |-> issued + 1, copy |-> row,
                                     code |-> code]]
       /\ pc' = [pc EXCEPT ![j] = IF op \in Photo THEN "drop" ELSE "write"]
       /\ op = "setup" => ~row.enabled
       /\ op = "verify_setup" => row.secret # 0
       /\ op = "verify_login" => code \in row.codes
       /\ op = "reset" => row.reset # 0
  /\ UNCHANGED <<row, late, photos, pending, histories>>

LEMMA EveryRequestIsTaken ==
  ASSUME TypeOK, NEW j \in Jobs, Request(j)
  PROVE  Taken(j)
<1> USE DEF Start, Goto, Taken, Photo, OpNames, NoCode
<1>1. CASE RequestChange(j)
  BY <1>1 DEF RequestChange
<1>2. CASE RequestForgot(j)
  BY <1>2 DEF RequestForgot
<1>3. CASE RequestReset(j)
  BY <1>3 DEF RequestReset
<1>4. CASE RequestSetup(j)
  BY <1>4 DEF RequestSetup
<1>5. CASE RequestVerifySetup(j)
  BY <1>5 DEF RequestVerifySetup
<1>6. CASE RequestDisable(j)
  BY <1>6 DEF RequestDisable
<1>7. CASE RequestRegenerate(j)
  BY <1>7 DEF RequestRegenerate
<1>8. ASSUME NEW code \in row.codes, RequestVerifyLogin(j, code) PROVE Taken(j)
  <2>1. code \in Codes
    BY <1>8 DEF TypeOK, Row
  <2> QED
    BY <1>8, <2>1 DEF RequestVerifyLogin
<1>9. ASSUME NEW op \in Photo, RequestPhoto(j, op) PROVE Taken(j)
  BY <1>9 DEF RequestPhoto
<1> QED
  BY <1>1, <1>2, <1>3, <1>4, <1>5, <1>6, <1>7, <1>8, <1>9 DEF Request

LEMMA HandlersLeave ==
  ASSUME TypeOK, AllChecked, NEW j \in Jobs, Handle(j)
  PROVE  \/ DropPhoto(j) \/ SavePhoto(j) \/ Leaves(j)
<1> USE CopiesTyped DEF Leaves, Active, At, Commit, Update, Column, Row
<1>1. CASE ChangePassword(j)
  BY <1>1 DEF ChangePassword
<1>2. CASE ForgotPassword(j)
  BY <1>2 DEF ForgotPassword
<1>3. CASE ResetPassword(j)
  BY <1>3 DEF ResetPassword, ResetTo
<1>4. CASE SetupSecret(j)
  BY <1>4 DEF SetupSecret
<1>5. CASE VerifySetup(j)
  BY <1>5 DEF VerifySetup
<1>6. CASE DisableFactor(j)
  BY <1>6 DEF DisableFactor
<1>7. CASE RegenerateCodes(j)
  BY <1>7 DEF RegenerateCodes
<1>8. CASE VerifyLogin(j)
  BY <1>8 DEF VerifyLogin, CodeRemoved, AllChecked, Checked
<1>9. CASE SetPhoto(j)
  BY <1>9 DEF SetPhoto
<1>10. CASE ClearPhoto(j)
  BY <1>10 DEF ClearPhoto
<1>11. CASE Move(j)
  BY <1>11 DEF Move, CarriedOver, Fresh
<1>12. CASE (pc[j] = "write" /\ Undone(j)) \/ Fail(j)
  BY <1>12 DEF Undone, Fail
<1> QED
  BY <1>1, <1>2, <1>3, <1>4, <1>5, <1>6, <1>7, <1>8, <1>9, <1>10, <1>11, <1>12 DEF Handle

LEMMA StepChecked ==
  ASSUME TypeOK, AllChecked, [Next]_vars
  PROVE  AllChecked'
<1>1. ASSUME NEW j \in Jobs, Request(j) PROVE AllChecked'
  <2>1. Taken(j)
    BY <1>1, EveryRequestIsTaken
  <2> QED
    BY <2>1 DEF Taken, AllChecked, Checked, TypeOK, Photo
<1>2. ASSUME NEW j \in Jobs, Handle(j) PROVE AllChecked'
  <2>1. CASE DropPhoto(j) \/ SavePhoto(j)
    BY <2>1 DEF DropPhoto, SavePhoto, Goto, AllChecked, Checked, TypeOK
  <2>2. CASE Leaves(j)
    BY <2>2 DEF Leaves, End, Goto, Idle, AllChecked, Checked, TypeOK
  <2> QED
    BY <1>2, <2>1, <2>2, HandlersLeave
<1>3. CASE Login \/ LinkExpires
  BY <1>3 DEF Login, LinkExpires, AllChecked, Checked
<1>4. CASE UNCHANGED vars
  BY <1>4 DEF vars, AllChecked, Checked
<1> QED
  BY <1>1, <1>2, <1>3, <1>4 DEF Next

-----------------------------------------------------------------------------
(* A request names what it makes: nobody else holds the number of a request *)
(* on its way, or one not yet handed out.                                   *)

Unused(n) == n > issued \/ \E j \in Jobs : Active(j) /\ job[j].num = n

Free(r, n) == r.reset # n /\ r.avatar # n /\ \A c \in r.codes : c[1] # n

Numbered ==
  /\ row.password <= issued
  /\ \A j \in Jobs : Active(j) =>
       0 < job[j].num /\ job[j].num <= issued /\ job[j].copy.password < job[j].num
  /\ \A j, k \in Jobs : Active(j) /\ Active(k) /\ job[j].num = job[k].num => j = k

Unheld ==
  \A n \in Nat \ {0} : Unused(n) =>
    /\ Free(row, n) /\ n \notin linked /\ \A c \in spent : c[1] # n
    /\ \A j \in Jobs : Active(j) => Free(job[j].copy, n)

Stamps == Numbered /\ Unheld

LEMMA TakenStamps ==
  ASSUME TypeOK, Stamps, NEW j \in Jobs, Taken(j)
  PROVE  Stamps'
<1>1. /\ \A k \in Jobs : k # j => job'[k] = job[k] /\ pc'[k] = pc[k]
      /\ job'[j].num = issued + 1 /\ job'[j].copy = row /\ ~Active(j)
      /\ row' = row /\ linked' = linked /\ spent' = spent /\ issued' = issued + 1
  BY DEF Taken, TypeOK, Active, histories
<1>2. issued \in Nat /\ row.password \in Nat /\ \A k \in Jobs : job[k].num \in Nat
  BY DEF TypeOK, Row, Job
<1>3. Numbered'
  BY <1>1, <1>2 DEF Stamps, Numbered, Active
<1>4. Unheld'
  <2> SUFFICES ASSUME NEW n \in Nat \ {0}, Unused(n)'
               PROVE  /\ Free(row, n) /\ n \notin linked /\ \A c \in spent : c[1] # n
                      /\ \A k \in Jobs : Active(k)' => Free(job'[k].copy, n)
    BY <1>1 DEF Unheld, Free
  <2>1. Unused(n)
    BY <1>1, <1>2 DEF Unused, Active
  <2> QED
    BY <1>1, <2>1 DEF Stamps, Unheld, Active
<1> QED
  BY <1>3, <1>4 DEF Stamps

LEMMA LeavesStamps ==
  ASSUME TypeOK, TypeOK', Stamps, NEW j \in Jobs, Leaves(j)
  PROVE  Stamps'
<1> DEFINE my == job[j]
<1>1. /\ \A k \in Jobs : k # j => job'[k] = job[k] /\ pc'[k] = pc[k]
      /\ ~Active(j)' /\ issued' = issued
  BY DEF Leaves, End, Goto, TypeOK, Active
<1>2. issued \in Nat /\ my.num \in Nat /\ row.password \in Nat
      /\ my.copy.password \in Nat /\ \A c \in Codes : c = <<c[1], c[2]>>
  BY DEF TypeOK, Row, Job, Codes
<1>3. Numbered'
  <2>1. row'.password <= issued
    BY <1>2 DEF Leaves, Stamps, Numbered
  <2> QED
    BY <1>1, <2>1 DEF Stamps, Numbered, Active
<1>4. Unheld'
  <2> SUFFICES ASSUME NEW n \in Nat \ {0}, Unused(n)'
               PROVE  /\ Free(row', n) /\ n \notin linked' /\ \A c \in spent' : c[1] # n
                      /\ \A k \in Jobs : Active(k)' => Free(job'[k].copy, n)
    BY DEF Unheld, Free
  <2>1. Unused(n) /\ n # my.num
    BY <1>1, <1>2 DEF Unused, Active, Stamps, Numbered, Leaves
  <2>2. /\ Free(row, n) /\ n \notin linked /\ \A c \in spent : c[1] # n
        /\ \A k \in Jobs : Active(k) => Free(job[k].copy, n)
    BY <2>1 DEF Stamps, Unheld
  <2>3. Free(my.copy, n)
    BY <2>2 DEF Leaves
  <2>4. \A c \in NewCodes(my.num) : c[1] # n
    BY <2>1 DEF NewCodes
  <2>5. row'.reset # n /\ row'.avatar # n
    BY <2>1, <2>2, <2>3 DEF Leaves, Free
  <2>6. \A c \in row'.codes : c[1] # n
    BY <2>2, <2>3, <2>4 DEF Leaves, Free
  <2>7. n \notin linked' /\ \A c \in spent' : c[1] # n
    BY <2>2, <2>3 DEF Leaves, Free
  <2>8. \A k \in Jobs : Active(k)' => Free(job'[k].copy, n)
    BY <1>1, <2>2 DEF Active
  <2> QED
    BY <2>5, <2>6, <2>7, <2>8 DEF Free
<1> QED
  BY <1>3, <1>4 DEF Stamps

LEMMA StepStamps ==
  ASSUME TypeOK, AllChecked, Stamps, [Next]_vars
  PROVE  Stamps'
<1>t. TypeOK'
  BY StepTyped
<1>1. ASSUME NEW j \in Jobs, Request(j) PROVE Stamps'
  BY <1>1, EveryRequestIsTaken, TakenStamps
<1>2. ASSUME NEW j \in Jobs, DropPhoto(j) \/ SavePhoto(j) PROVE Stamps'
  <2>1. /\ \A k \in Jobs : pc'[k] # "idle" <=> pc[k] # "idle"
        /\ UNCHANGED <<row, job, issued, linked, spent>>
    BY <1>2 DEF DropPhoto, SavePhoto, Goto, TypeOK, histories
  <2> QED
    BY <2>1 DEF Stamps, Numbered, Unheld, Unused, Free, Active
<1>3. ASSUME NEW j \in Jobs, Handle(j) PROVE Stamps'
  BY <1>3, <1>2, <1>t, HandlersLeave, LeavesStamps
<1>4. CASE Login \/ LinkExpires \/ UNCHANGED vars
  <2>1. UNCHANGED <<row, job, pc, issued, linked, spent>>
    BY <1>4 DEF Login, LinkExpires, vars, histories
  <2> QED
    BY <2>1 DEF Stamps, Numbered, Unheld, Unused, Free, Active
<1> QED
  BY <1>1, <1>3, <1>4 DEF Next

-----------------------------------------------------------------------------
(* Which handlers write which columns and histories *)

Keeps(j) ==
  /\ Move(j) \/ row'.id = row.id
  /\ Move(j) \/ ChangePassword(j) \/ ResetPassword(j) \/ row'.password = row.password
  /\ Move(j) \/ ForgotPassword(j) \/ ResetPassword(j) \/ row'.reset = row.reset
  /\ Move(j) \/ SetupSecret(j) \/ DisableFactor(j) \/ row'.secret = row.secret
  /\ Move(j) \/ VerifySetup(j) \/ DisableFactor(j) \/ row'.enabled = row.enabled
  /\ Move(j) \/ VerifySetup(j) \/ DisableFactor(j) \/ RegenerateCodes(j) \/ VerifyLogin(j)
       \/ row'.codes = row.codes
  /\ Move(j) \/ SetPhoto(j) \/ ClearPhoto(j) \/ row'.avatar = row.avatar
  /\ VerifySetup(j) \/ verified' = verified
  /\ VerifyLogin(j) \/ (spent' = spent /\ respent' = respent)
  /\ ResetPassword(j) \/ (linked' = linked /\ reused' = reused)
  /\ raced \subseteq raced' /\ broken \subseteq broken'

LEMMA HandlersKeep ==
  ASSUME TypeOK, NEW j \in Jobs, Handle(j)
  PROVE  Keeps(j)
<1> USE CopiesTyped DEF Keeps, Commit, Update, Column, Row
<1>1. CASE ChangePassword(j)
  BY <1>1 DEF ChangePassword
<1>2. CASE ForgotPassword(j)
  BY <1>2 DEF ForgotPassword
<1>3. CASE ResetPassword(j)
  BY <1>3 DEF ResetPassword, ResetTo
<1>4. CASE SetupSecret(j)
  BY <1>4 DEF SetupSecret
<1>5. CASE VerifySetup(j)
  BY <1>5 DEF VerifySetup
<1>6. CASE DisableFactor(j)
  BY <1>6 DEF DisableFactor
<1>7. CASE RegenerateCodes(j)
  BY <1>7 DEF RegenerateCodes
<1>8. CASE VerifyLogin(j)
  BY <1>8 DEF VerifyLogin, CodeRemoved
<1>9. CASE SetPhoto(j)
  BY <1>9 DEF SetPhoto
<1>10. CASE ClearPhoto(j)
  BY <1>10 DEF ClearPhoto
<1>11. CASE Move(j)
  BY <1>11 DEF Move
<1>12. CASE DropPhoto(j) \/ SavePhoto(j)
  BY <1>12 DEF DropPhoto, SavePhoto, histories
<1>13. CASE (pc[j] = "write" /\ Undone(j)) \/ Fail(j)
  BY <1>13 DEF Undone, Fail
<1> QED
  BY <1>1, <1>2, <1>3, <1>4, <1>5, <1>6, <1>7, <1>8, <1>9, <1>10, <1>11, <1>12, <1>13
  DEF Handle

LEMMA RestKeeps ==
  ASSUME TypeOK, [Next]_vars, \A j \in Jobs : ~Handle(j)
  PROVE  UNCHANGED <<row, photos, histories>>
<1>1. ASSUME NEW j \in Jobs, Request(j) PROVE UNCHANGED <<row, photos, histories>>
  BY <1>1, EveryRequestIsTaken DEF Taken
<1> QED
  BY <1>1 DEF Next, Login, LinkExpires, vars

LEMMA InitStands ==
  ASSUME Init
  PROVE  AllChecked /\ Stamps /\ FactorIsConfirmed /\ SecretsServeOnce /\ PhotoOnFile
<1>1. AllChecked
  BY DEF Init, AllChecked, Checked, Idle
<1>2. Stamps
  BY DEF Init, Stamps, Numbered, Unheld, Free, Fresh, Active
<1> QED
  BY <1>1, <1>2 DEF Init, FactorIsConfirmed, SecretsServeOnce, PhotoOnFile, Fresh

-----------------------------------------------------------------------------
(* Passwords *)

LEMMA PasswordStep ==
  ASSUME TypeOK, AllChecked, Stamps, [Next]_vars
  PROVE  row'.password >= row.password \/ "password" \in raced'
<1>0. row.password \in Nat /\ \A j \in Jobs : job[j].num \in Nat /\ job[j].copy.password \in Nat
  BY DEF TypeOK, Row, Job
<1>1. ASSUME NEW j \in Jobs, ChangePassword(j) \/ ResetPassword(j)
      PROVE  row'.password >= row.password \/ "password" \in raced'
  <2>1. job[j].copy.password < job[j].num
    BY <1>1 DEF ChangePassword, ResetPassword, At, Stamps, Numbered, Active
  <2>2. CASE job[j].copy.password = row.password
    BY <1>0, <1>1, <2>1, <2>2, CopiesTyped
    DEF ChangePassword, ResetPassword, ResetTo, Commit, Update, Column, Row
  <2>3. CASE job[j].copy.password # row.password
    BY <1>1, <2>3 DEF ChangePassword, ResetPassword, Commit, Outdated
  <2> QED
    BY <2>2, <2>3
<1>2. ASSUME NEW j \in Jobs, Move(j)
      PROVE  row'.password >= row.password \/ "password" \in raced'
  BY <1>0, <1>2 DEF Move, CarriedOver, Fresh, Outdated, Columns
<1> QED
  BY <1>0, <1>1, <1>2, HandlersKeep, RestKeeps DEF Keeps

LEMMA MoveStep ==
  ASSUME TypeOK, FactorIsConfirmed, [Next]_vars, row'.id # row.id
  PROVE  \/ raced' \cap (Factor \cup {"password"}) # {}
         \/ /\ row'.password = row.password /\ row'.enabled = row.enabled
            /\ row.enabled => row'.secret = row.secret /\ row'.codes = row.codes
<1>1. PICK j \in Jobs : Move(j) /\ raced \subseteq raced'
  BY HandlersKeep, RestKeeps DEF Keeps
<1>2. CASE raced' \cap (Factor \cup {"password"}) = {}
  <2>1. /\ job[j].copy.password = row.password /\ job[j].copy.secret = row.secret
        /\ job[j].copy.enabled = row.enabled /\ job[j].copy.codes = row.codes
    BY <1>1, <1>2 DEF Move, Outdated, Columns, Factor
  <2>2. row.enabled => row.secret # 0
    BY <1>1, <1>2 DEF FactorIsConfirmed
  <2>3. row.enabled \in BOOLEAN
    BY DEF TypeOK, Row
  <2> QED
    BY <1>1, <2>1, <2>2, <2>3 DEF Move, CarriedOver, Fresh
<1> QED
  BY <1>2

-----------------------------------------------------------------------------
(* The second factor *)

LEMMA FactorStep ==
  ASSUME TypeOK, AllChecked, FactorIsConfirmed, [Next]_vars
  PROVE  FactorIsConfirmed'
<1> SUFFICES ASSUME row'.enabled, raced' \cap Factor = {}
             PROVE  row'.secret \in verified' \ {0}
  BY DEF FactorIsConfirmed
<1>1. ASSUME \A j \in Jobs : ~Handle(j) PROVE row'.secret \in verified' \ {0}
  BY <1>1, RestKeeps DEF FactorIsConfirmed, histories
<1>2. ASSUME NEW j \in Jobs, Handle(j) PROVE row'.secret \in verified' \ {0}
  <2> DEFINE copy == job[j].copy
  <2>1. row.enabled => row.secret \in verified \ {0}
    BY <1>2, HandlersKeep DEF Keeps, FactorIsConfirmed
  <2>2. copy \in Row /\ copy.secret \in Nat
    BY CopiesTyped DEF Row
  <2>3. CASE SetupSecret(j)
    <3>1. copy.enabled = row.enabled
      BY <2>3 DEF SetupSecret, Commit, Outdated, Factor
    <3>2. row'.enabled = row.enabled
      BY <2>2, <2>3 DEF SetupSecret, Commit, Update, Column, Row
    <3> QED
      BY <2>3, <3>1, <3>2 DEF SetupSecret, At, AllChecked, Checked
  <2>4. CASE VerifySetup(j)
    <3>1. copy.secret = row.secret
      BY <2>4 DEF VerifySetup, Commit, Outdated, Factor
    <3>2. row'.secret = row.secret
      BY <2>2, <2>4 DEF VerifySetup, Commit, Update, Column, Row
    <3> QED
      BY <2>4, <3>1, <3>2 DEF VerifySetup, At, AllChecked, Checked
  <2>5. CASE DisableFactor(j)
    <3>1. copy.enabled = row.enabled
      BY <2>5 DEF DisableFactor, Commit, Outdated, Factor
    <3> QED
      BY <2>2, <2>5, <3>1 DEF DisableFactor, Commit, Update, Column, Row
  <2>6. CASE Move(j)
    <3>1. copy.enabled = row.enabled /\ copy.secret = row.secret
      BY <2>6 DEF Move, Outdated, Factor, Columns
    <3>2. row'.secret = copy.secret /\ copy.enabled /\ copy.secret # 0
      BY <2>6 DEF Move, CarriedOver, Fresh
    <3> QED
      BY <2>1, <2>6, <3>1, <3>2 DEF Move
  <2>7. ASSUME ~SetupSecret(j), ~VerifySetup(j), ~DisableFactor(j), ~Move(j)
        PROVE  row'.secret \in verified' \ {0}
    BY <1>2, <2>1, <2>7, HandlersKeep DEF Keeps
  <2> QED
    BY <2>3, <2>4, <2>5, <2>6, <2>7
<1> QED
  BY <1>1, <1>2

-----------------------------------------------------------------------------
(* Backup codes and reset links *)

(* No code that opened a session is still in the list, and no link that set *)
(* a password still stands.                                                 *)
Current ==
  /\ "codes" \in raced \/ (respent = {} /\ row.codes \cap spent = {})
  /\ "reset" \in raced \/ (reused = {} /\ (row.reset # 0 => row.reset \notin linked))

LEMMA CodesStep ==
  ASSUME TypeOK, AllChecked, Stamps, Current, [Next]_vars, "codes" \notin raced'
  PROVE  respent' = {} /\ row'.codes \cap spent' = {}
<1>1. ASSUME \A j \in Jobs : ~Handle(j) PROVE respent' = {} /\ row'.codes \cap spent' = {}
  BY <1>1, RestKeeps DEF Current, histories
<1>2. ASSUME NEW j \in Jobs, Handle(j) PROVE respent' = {} /\ row'.codes \cap spent' = {}
  <2> DEFINE my == job[j]
             copy == my.copy
  <2>1. respent = {} /\ row.codes \cap spent = {}
    BY <1>2, HandlersKeep DEF Keeps, Current
  <2>2. copy \in Row /\ my.num \in Nat
    BY CopiesTyped
  <2>3. ASSUME Active(j) PROVE NewCodes(my.num) \cap spent = {}
    <3>1. my.num # 0 /\ Unused(my.num)
      BY <2>2, <2>3 DEF Stamps, Numbered, Unused
    <3>2. \A c \in spent : c[1] # my.num
      BY <2>2, <3>1 DEF Stamps, Unheld
    <3>3. \A c \in NewCodes(my.num) : c[1] = my.num
      BY DEF NewCodes
    <3> QED
      BY <3>2, <3>3
  <2>4. CASE VerifyLogin(j)
    <3>1. copy.codes = row.codes
      BY <2>4 DEF VerifyLogin, Commit, Outdated, Factor
    <3>2. my.code \in row.codes
      BY <2>4, <3>1 DEF VerifyLogin, At, AllChecked, Checked
    <3>3. row'.codes = row.codes \ {my.code}
      BY <2>2, <2>4, <3>1 DEF VerifyLogin, CodeRemoved, Commit, Update, Column, Row
    <3> QED
      BY <2>1, <2>4, <3>2, <3>3 DEF VerifyLogin
  <2>5. CASE VerifySetup(j)
    <3>1. row'.codes \in {row.codes, NewCodes(my.num)} /\ Active(j)
      BY <2>2, <2>5 DEF VerifySetup, Commit, Update, Column, Row, At, Active
    <3> QED
      BY <2>1, <2>3, <2>5, <3>1 DEF VerifySetup
  <2>6. CASE RegenerateCodes(j)
    <3>1. row'.codes \in {row.codes, NewCodes(my.num)} /\ Active(j)
      BY <2>2, <2>6 DEF RegenerateCodes, Commit, Update, Column, Row, At, Active
    <3> QED
      BY <2>1, <2>3, <2>6, <3>1 DEF RegenerateCodes
  <2>7. CASE DisableFactor(j)
    <3>1. row'.codes \in {row.codes, {}}
      BY <2>2, <2>7 DEF DisableFactor, Commit, Update, Column, Row
    <3> QED
      BY <2>1, <2>7, <3>1 DEF DisableFactor
  <2>8. CASE Move(j)
    <3>1. copy.codes = row.codes
      BY <2>8 DEF Move, Outdated, Columns
    <3>2. row'.codes \in {row.codes, {}}
      BY <2>8, <3>1 DEF Move, CarriedOver, Fresh
    <3> QED
      BY <2>1, <2>8, <3>2 DEF Move
  <2> QED
    BY <1>2, <2>1, <2>4, <2>5, <2>6, <2>7, <2>8, HandlersKeep DEF Keeps
<1> QED
  BY <1>1, <1>2

LEMMA LinksStep ==
  ASSUME TypeOK, AllChecked, Stamps, Current, [Next]_vars, "reset" \notin raced'
  PROVE  reused' = {} /\ (row'.reset # 0 => row'.reset \notin linked')
<1> DEFINE Goal == reused' = {} /\ (row'.reset # 0 => row'.reset \notin linked')
<1>1. ASSUME \A j \in Jobs : ~Handle(j) PROVE Goal
  BY <1>1, RestKeeps DEF Current, histories
<1>2. ASSUME NEW j \in Jobs, Handle(j) PROVE Goal
  <2> DEFINE my == job[j]
             copy == my.copy
  <2>1. reused = {} /\ (row.reset # 0 => row.reset \notin linked)
    BY <1>2, HandlersKeep DEF Keeps, Current
  <2>2. copy \in Row /\ my.num \in Nat
    BY CopiesTyped
  <2>3. CASE ResetPassword(j)
    <3>1. copy.reset = row.reset /\ copy.reset # 0
      BY <2>3 DEF ResetPassword, Commit, Outdated, At, AllChecked, Checked
    <3>2. row'.reset = 0
      BY <2>2, <2>3, <3>1 DEF ResetPassword, ResetTo, Commit, Update, Column, Row
    <3> QED
      BY <2>1, <2>3, <3>1, <3>2 DEF ResetPassword
  <2>4. CASE ForgotPassword(j)
    <3>1. row'.reset \in {row.reset, my.num} /\ Active(j)
      BY <2>2, <2>4 DEF ForgotPassword, Commit, Update, Column, Row, At, Active
    <3>2. my.num # 0 /\ Unused(my.num)
      BY <2>2, <3>1 DEF Stamps, Numbered, Unused
    <3>3. my.num \notin linked
      BY <2>2, <3>2 DEF Stamps, Unheld
    <3> QED
      BY <2>1, <2>4, <3>1, <3>3 DEF ForgotPassword
  <2>5. CASE Move(j)
    BY <2>1, <2>5 DEF Move, CarriedOver, Fresh
  <2> QED
    BY <1>2, <2>1, <2>3, <2>4, <2>5, HandlersKeep DEF Keeps
<1> QED
  BY <1>1, <1>2

-----------------------------------------------------------------------------
(* The photo *)

InHand(j) ==
  /\ pc[j] \in {"save", "write"} /\ job[j].op \in Photo
  /\ job[j].copy.id = row.id /\ job[j].copy.avatar = row.avatar

(* Only the account a copy was read from has the photo of the copy, and an  *)
(* upload that comes to its commit has saved its file.                      *)
Owned ==
  /\ \A j \in Jobs : Active(j) /\ row.avatar # 0 /\ job[j].copy.avatar = row.avatar
                       => job[j].copy.id = row.id
  /\ \A j \in Jobs : pc[j] = "write" /\ job[j].op = "upload" => job[j].num \in photos

LEMMA NumbersAreFresh ==
  ASSUME TypeOK, Stamps, NEW j \in Jobs, Active(j)
  PROVE  job[j].num # 0 /\ \A k \in Jobs : Active(k) => job[k].copy.avatar # job[j].num
<1>1. job[j].num \in Nat /\ job[j].num # 0
  BY CopiesTyped DEF Stamps, Numbered
<1>2. Unused(job[j].num)
  BY DEF Unused
<1> QED
  BY <1>1, <1>2 DEF Stamps, Unheld, Free


(* A handler leaves the column of the photo, clears it or names its own.    *)
(* One that deleted the photo named there does not leave it, or fails.      *)
LEMMA PhotoColumn ==
  ASSUME TypeOK, Stamps, NEW j \in Jobs, Handle(j)
  PROVE  /\ \/ row'.avatar = row.avatar /\ row'.id = row.id
            \/ row'.avatar = 0
            \/ SetPhoto(j) /\ row'.avatar = job[j].num /\ row'.id = row.id
         /\ InHand(j) /\ ~SavePhoto(j) => SetPhoto(j) \/ row'.avatar \in broken' \cup {0}
<1> DEFINE copy == job[j].copy
<1>1. copy \in Row
  BY CopiesTyped
<1>2. CASE SetPhoto(j)
  <2>1. copy.avatar # job[j].num
    BY <1>2, NumbersAreFresh DEF SetPhoto, At, Active
  <2> QED
    BY <1>1, <1>2, <2>1 DEF SetPhoto, Commit, Update, Column, Row
<1>3. CASE ClearPhoto(j)
  BY <1>1, <1>3 DEF ClearPhoto, Commit, Update, Column, Row, InHand
<1>4. CASE Move(j)
  BY <1>4 DEF Move, CarriedOver, Fresh
<1>5. CASE ~SetPhoto(j) /\ ~ClearPhoto(j) /\ ~Move(j)
  <2>1. row'.avatar = row.avatar /\ row'.id = row.id
    BY <1>5, HandlersKeep DEF Keeps
  <2>2. ASSUME InHand(j), ~SavePhoto(j) PROVE row.avatar \in broken'
    BY <1>5, <2>2
    DEF Handle, InHand, At, Photo, ChangePassword, ForgotPassword, ResetPassword, SetupSecret,
        VerifySetup, DisableFactor, RegenerateCodes, VerifyLogin, DropPhoto, Undone, Fail
  <2> QED
    BY <2>1, <2>2
<1> QED
  BY <1>2, <1>3, <1>4, <1>5

LEMMA OwnedStep ==
  ASSUME TypeOK, AllChecked, Stamps, Owned, [Next]_vars
  PROVE  Owned'
<1>1. ASSUME NEW j \in Jobs, Request(j) PROVE Owned'
  <2>1. /\ job'[j].copy = row
        /\ pc'[j] = "write" => job'[j].op # "upload"
        /\ \A k \in Jobs : k # j => job'[k] = job[k] /\ pc'[k] = pc[k]
        /\ row' = row /\ photos' = photos
    BY <1>1, EveryRequestIsTaken DEF Taken, TypeOK, Photo
  <2> QED
    BY <2>1 DEF Owned, Active
<1>2. ASSUME NEW j \in Jobs, DropPhoto(j) PROVE Owned'
  <2>1. /\ \A k \in Jobs : pc'[k] # "idle" => pc[k] # "idle"
        /\ \A k \in Jobs : pc'[k] = "write" /\ job[k].op = "upload" => pc[k] = "write"
        /\ row' = row /\ job' = job /\ photos' = photos \ {job[j].copy.avatar}
    BY <1>2 DEF DropPhoto, Dropping, Goto, TypeOK
  <2>2. \A k \in Jobs : pc[k] = "write" => job[j].copy.avatar # job[k].num
    BY <1>2, NumbersAreFresh DEF DropPhoto, Active
  <2>3. \A k \in Jobs : pc'[k] = "write" /\ job[k].op = "upload" => job[k].num \in photos'
    BY <2>1, <2>2 DEF Owned
  <2> QED
    BY <2>1, <2>3 DEF Owned, Active
<1>3. ASSUME NEW j \in Jobs, SavePhoto(j) PROVE Owned'
  <2>1. /\ \A k \in Jobs : pc'[k] # "idle" => pc[k] # "idle"
        /\ \A k \in Jobs : k # j => pc'[k] = pc[k]
        /\ row' = row /\ job' = job /\ photos' = photos \cup {job[j].num}
    BY <1>3 DEF SavePhoto, Goto, TypeOK
  <2> QED
    BY <2>1 DEF Owned, Active
<1>4. ASSUME NEW j \in Jobs, Handle(j), Leaves(j) PROVE Owned'
  <2>1. /\ pc'[j] = "idle" /\ photos' = photos
        /\ \A k \in Jobs : k # j => pc'[k] = pc[k] /\ job'[k] = job[k]
    BY <1>4 DEF Leaves, End, Goto, TypeOK
  <2>2. \A k \in Jobs : Active(k) => job[k].copy.avatar # job[j].num
    BY <1>4, NumbersAreFresh DEF Leaves
  <2>3. \/ row'.avatar = row.avatar /\ row'.id = row.id
        \/ row'.avatar = 0
        \/ row'.avatar = job[j].num
    BY <1>4, PhotoColumn
  <2> QED
    BY <2>1, <2>2, <2>3 DEF Owned, Active
<1>5. CASE Login \/ LinkExpires \/ UNCHANGED vars
  BY <1>5 DEF Login, LinkExpires, vars, Owned, Active
<1> QED
  BY <1>1, <1>2, <1>3, <1>4, <1>5, HandlersLeave DEF Next

LEMMA PhotoStep ==
  ASSUME TypeOK, AllChecked, Stamps, Owned, PhotoOnFile, [Next]_vars
  PROVE  PhotoOnFile'
<1>0. row.avatar \in photos \cup broken \cup {0} \/ \E k \in Jobs : InHand(k)
  BY DEF PhotoOnFile, InHand
<1>1. ASSUME \A j \in Jobs : ~Handle(j) PROVE PhotoOnFile'
  <2>1. UNCHANGED <<row, photos, broken>>
    BY <1>1, RestKeeps DEF histories
  <2>2. \A k \in Jobs : pc[k] # "idle" => pc'[k] = pc[k] /\ job'[k] = job[k]
    <3>1. ASSUME NEW j \in Jobs, Request(j)
          PROVE  \A k \in Jobs : pc[k] # "idle" => pc'[k] = pc[k] /\ job'[k] = job[k]
      BY <3>1, EveryRequestIsTaken DEF Taken, TypeOK
    <3> QED
      BY <1>1, <3>1 DEF Next, Login, LinkExpires, vars
  <2> QED
    BY <1>0, <2>1, <2>2 DEF PhotoOnFile, InHand
<1>2. ASSUME NEW j \in Jobs, DropPhoto(j) PROVE PhotoOnFile'
  <2>1. /\ pc[j] = "drop" /\ pc'[j] \in {"save", "write"} /\ job[j].op \in Photo
        /\ \A k \in Jobs : k # j => pc'[k] = pc[k]
        /\ row' = row /\ job' = job /\ broken' = broken
        /\ photos' = photos \ {job[j].copy.avatar}
    BY <1>2 DEF DropPhoto, Dropping, Goto, TypeOK, histories, AllChecked, Checked
  <2>2. CASE row.avatar = job[j].copy.avatar /\ row.avatar # 0
    <3>1. job[j].copy.id = row.id
      BY <2>1, <2>2 DEF Owned, Active
    <3> QED
      BY <2>1, <2>2, <3>1 DEF PhotoOnFile
  <2>3. CASE row.avatar # job[j].copy.avatar \/ row.avatar = 0
    BY <1>0, <2>1, <2>3 DEF PhotoOnFile, InHand
  <2> QED
    BY <2>2, <2>3
<1>3. ASSUME NEW j \in Jobs, SavePhoto(j) PROVE PhotoOnFile'
  <2>1. /\ \A k \in Jobs : pc[k] \in {"save", "write"} => pc'[k] \in {"save", "write"}
        /\ row' = row /\ job' = job /\ broken' = broken /\ photos \subseteq photos'
    BY <1>3 DEF SavePhoto, Goto, TypeOK, histories
  <2> QED
    BY <1>0, <2>1 DEF PhotoOnFile, InHand
<1>4. ASSUME NEW j \in Jobs, Handle(j), Leaves(j), ~SavePhoto(j) PROVE PhotoOnFile'
  <2>1. /\ photos' = photos /\ broken \subseteq broken'
        /\ \A k \in Jobs : k # j => pc'[k] = pc[k] /\ job'[k] = job[k]
    BY <1>4, HandlersKeep DEF Leaves, End, Goto, TypeOK, Keeps
  <2>2. CASE SetPhoto(j) /\ row'.avatar = job[j].num
    BY <2>1, <2>2 DEF SetPhoto, At, Owned, PhotoOnFile
  <2>3. CASE row'.avatar = 0
    BY <2>3 DEF PhotoOnFile
  <2>4. CASE row'.avatar = row.avatar /\ row'.id = row.id /\ ~SetPhoto(j)
    <3>1. CASE InHand(j)
      BY <1>4, <2>4, <3>1, PhotoColumn DEF PhotoOnFile
    <3>2. CASE ~InHand(j)
      BY <1>0, <2>1, <2>4, <3>2 DEF PhotoOnFile, InHand
    <3> QED
      BY <3>1, <3>2
  <2>5. SetPhoto(j) => row'.avatar \in {0, job[j].num}
    <3>1. SetPhoto(j) => job[j].copy.avatar # job[j].num
      BY NumbersAreFresh DEF SetPhoto, At, Active
    <3> QED
      BY <3>1, CopiesTyped DEF SetPhoto, Commit, Update, Column, Row
  <2> QED
    BY <1>4, <2>2, <2>3, <2>4, <2>5, PhotoColumn
<1> QED
  BY <1>1, <1>2, <1>3, <1>4, HandlersLeave

-----------------------------------------------------------------------------
(* The properties, for any number of sessions, requests and failures *)

Invariant ==
  TypeOK /\ AllChecked /\ Stamps /\ FactorIsConfirmed /\ Current /\ Owned /\ PhotoOnFile

LEMMA InitInvariant == ASSUME Init PROVE Invariant
BY InitTyped, InitStands DEF Init, Invariant, Current, Owned, Active, Fresh, Idle

LEMMA StepInvariant == ASSUME Invariant, [Next]_vars PROVE Invariant'
<1>1. Current'
  BY CodesStep, LinksStep DEF Invariant, Current
<1> QED
  BY <1>1, StepTyped, StepChecked, StepStamps, FactorStep, OwnedStep, PhotoStep
  DEF Invariant

LEMMA Always == Spec => []Invariant
BY InitInvariant, StepInvariant, PTL DEF Spec

(* While the factor is on, its secret was proved at setup, unless handlers  *)
(* that change the factor overlapped.                                       *)
THEOREM FactorStaysConfirmed == Spec => []FactorIsConfirmed
<1>1. Invariant => FactorIsConfirmed
  BY DEF Invariant
<1> QED
  BY <1>1, Always, PTL

(* A backup code opens one session and a link sets one password, unless the *)
(* handlers that write codes or links overlapped.                           *)
THEOREM SecretsAreSpent == Spec => []SecretsServeOnce
<1>1. Invariant => SecretsServeOnce
  BY DEF Invariant, Current, SecretsServeOnce
<1> QED
  BY <1>1, Always, PTL

(* The photo of the account is in the store unless a handler that deleted   *)
(* it is on its way or has failed.                                          *)
THEOREM PhotoStaysOnFile == Spec => []PhotoOnFile
<1>1. Invariant => PhotoOnFile
  BY DEF Invariant
<1> QED
  BY <1>1, Always, PTL

(* No older password comes back unless two handlers that write it overlap.  *)
THEOREM PasswordsStick == Spec => PasswordSticks
<1>1. Invariant /\ [Next]_vars => [row'.password >= row.password \/ "password" \in raced']_vars
  BY PasswordStep DEF Invariant
<1> QED
  BY <1>1, Always, PTL DEF Spec, PasswordSticks

(* A move leaves the account to be signed in to as before.                  *)
THEOREM MovesKeepSignIn == Spec => SignInSurvivesMove
<1> DEFINE A == row'.id # row.id =>
                  \/ raced' \cap (Factor \cup {"password"}) # {}
                  \/ /\ row'.password = row.password /\ row'.enabled = row.enabled
                     /\ row.enabled => row'.secret = row.secret /\ row'.codes = row.codes
<1>1. Invariant /\ [Next]_vars => [A]_vars
  BY MoveStep DEF Invariant
<1> QED
  BY <1>1, Always, PTL DEF Spec, SignInSurvivesMove
=============================================================================
