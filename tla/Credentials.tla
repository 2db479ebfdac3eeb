----------------------------- MODULE Credentials ----------------------------
(***************************************************************************)
(* One account: its password and reset link, its second factor and backup  *)
(* codes, its photo, and the handlers that change them.                    *)
(*                                                                         *)
(* Every handler reads the account once, decides from that copy, and in    *)
(* the end writes the columns in which what it leaves differs from the     *)
(* copy.  Nothing locks the row in between.  Its writes and its commit are *)
(* one step, as in Membership; files are written and deleted at once.      *)
(*                                                                         *)
(* A password, a link, a secret and a photo are named by the request that  *)
(* made them, 0 being none (of a password, the first), and a backup code   *)
(* by the request that made its list and its place in it.                  *)
(***************************************************************************)
EXTENDS Naturals, FiniteSets

CONSTANTS
  Jobs,         (* sessions that may be open at once, numbered              *)
  Places,       (* places of a list of backup codes                         *)
  Requests,     (* the kinds of request issued                              *)
  MaxRequests,  (* bound on the requests issued                             *)
  MaxFailures   (* bound on the handlers that raise between their steps     *)

ASSUME JobsAreNumbered == Jobs \subseteq Nat
ASSUME BoundsAreNumbers == MaxRequests \in Nat /\ MaxFailures \in Nat

OpNames == {"none", "login", "verify_login", "change_password", "forgot", "reset",
            "setup", "verify_setup", "disable", "regenerate", "upload",
            "delete_avatar", "move"}

VARIABLES
  row,       (* the account                                                 *)
  late,      (* the reset links whose time is over                          *)
  photos,    (* photos in the document store                                *)
  pending,   (* accounts that hold a pending two-factor token               *)
  pc,        (* next step of each session                                   *)
  job,       (* what each session holds in memory                           *)
  verified,  (* history: secrets a code of which was shown at setup         *)
  spent,     (* history: backup codes that opened a session                 *)
  respent,   (* history: backup codes that opened a second one              *)
  reused,    (* history: reset links that set a second password             *)
  linked,    (* history: reset links that set a password                    *)
  broken,    (* history: photos deleted by a handler that failed after that *)
  raced,     (* history: columns that had changed since a handler that      *)
             (* committed had read them                                     *)
  failures,  (* handlers that raised between their steps                    *)
  issued     (* requests issued so far                                      *)

histories == <<verified, spent, respent, reused, linked, broken, raced, failures>>
vars == <<row, late, photos, pending, pc, job, histories, issued>>

-----------------------------------------------------------------------------
(* The user table *)

Codes == Nat \X Places

Row == [id : Nat, password : Nat, reset : Nat, secret : Nat, enabled : BOOLEAN,
        codes : SUBSET Codes, avatar : Nat]

Columns == {"password", "reset", "secret", "enabled", "codes", "avatar"}
Factor  == {"secret", "enabled", "codes"}

Fresh == [id |-> 0, password |-> 0, reset |-> 0, secret |-> 0, enabled |-> FALSE,
          codes |-> {}, avatar |-> 0]

(* Mutant: every column is written back as the handler holds it.            *)
Overwrite(copy, new) == new

(* An update names the columns that differ from what was read.              *)
Column(old, new, now) == IF new = old THEN now ELSE new

Update(copy, new) ==
  [id       |-> row.id,
   password |-> Column(copy.password, new.password, row.password),
   reset    |-> Column(copy.reset, new.reset, row.reset),
   secret   |-> Column(copy.secret, new.secret, row.secret),
   enabled  |-> Column(copy.enabled, new.enabled, row.enabled),
   codes    |-> Column(copy.codes, new.codes, row.codes),
   avatar   |-> Column(copy.avatar, new.avatar, row.avatar)]

Outdated(copy, read) == {c \in read : copy[c] # row[c]}

-----------------------------------------------------------------------------
(* Sessions *)

Steps == {"idle", "drop", "save", "write"}

Job == [op : OpNames, num : Nat, copy : Row, code : Codes \cup {<<0, 0>>}]

NoCode == <<0, 0>>
Idle   == [op |-> "none", num |-> 0, copy |-> Fresh, code |-> NoCode]

Goto(j, step) == pc' = [pc EXCEPT ![j] = step]

Photo == {"upload", "delete_avatar", "move"}

(* get_current_user, get_by_email, get_by_reset_token or                    *)
(* get_by_id_unscoped: the account is read, and read once.                  *)
Start(j, op, code) ==
  /\ pc[j] = "idle" /\ \A k \in Jobs : k < j => pc[k] # "idle"
  /\ issued < MaxRequests /\ op \in Requests
  /\ issued' = issued + 1
  /\ job' = [job EXCEPT ![j] = [op |-> op, num |-> issued + 1, copy |-> row,
                                code |-> code]]
  /\ Goto(j, IF op \in Photo THEN "drop" ELSE "write")
  /\ UNCHANGED <<row, late, photos, pending, histories>>

At(j, op) == pc[j] = "write" /\ job[j].op = op

End(j) == Goto(j, "idle") /\ job' = [job EXCEPT ![j] = Idle]

(* The transaction is rolled back: the account is no more the one read.     *)
Undone(j) ==
  /\ row.id # job[j].copy.id
  /\ End(j)
  /\ broken' = broken \cup (IF job[j].op \in Photo THEN {job[j].copy.avatar} ELSE {})
  /\ UNCHANGED <<row, late, photos, pending, verified, spent, respent, reused,
                 linked, raced, failures, issued>>

(* The commit of a handler that decided by the columns read of its copy and *)
(* leaves the copy as new.                                                  *)
Commit(j, new, read) ==
  /\ row.id = job[j].copy.id
  /\ row' = Update(job[j].copy, new)
  /\ raced' = raced \cup Outdated(job[j].copy, read)
  /\ End(j)
  /\ UNCHANGED <<late, photos, pending, broken, failures, issued>>

-----------------------------------------------------------------------------
(* Signing in *)

(* The password is right and a second factor is asked for.                  *)
Login ==
  /\ "login" \in Requests
  /\ row.enabled /\ row.id \notin pending
  /\ pending' = pending \cup {row.id}
  /\ UNCHANGED <<row, late, photos, pc, job, histories, issued>>

(* A backup code of the copy; a code of the authenticator changes nothing.  *)
RequestVerifyLogin(j, code) ==
  /\ row.id \in pending /\ row.enabled
  /\ code \in row.codes
  /\ Start(j, "verify_login", code)

(* Mutant: the code stays in the list.                                      *)
CodesKept(copy, code) == copy

(* remove_backup_code                                                       *)
CodeRemoved(copy, code) == [copy EXCEPT !.codes = @ \ {code}]

VerifyLogin(j) ==
  LET my == job[j] IN
  /\ At(j, "verify_login")
  /\ Commit(j, CodeRemoved(my.copy, my.code), Factor)
  /\ spent' = spent \cup {my.code}
  /\ respent' = respent \cup ({my.code} \cap spent)
  /\ UNCHANGED <<verified, reused, linked>>

-----------------------------------------------------------------------------
(* Passwords *)

RequestChange(j) == Start(j, "change_password", NoCode)

ChangePassword(j) ==
  /\ At(j, "change_password")
  /\ Commit(j, [job[j].copy EXCEPT !.password = job[j].num], {"password"})
  /\ UNCHANGED <<verified, spent, respent, reused, linked>>

RequestForgot(j) == Start(j, "forgot", NoCode)

ForgotPassword(j) ==
  /\ At(j, "forgot")
  /\ Commit(j, [job[j].copy EXCEPT !.reset = job[j].num], {"reset"})
  /\ UNCHANGED <<verified, spent, respent, reused, linked>>

(* RESET_TOKEN_EXPIRE_MINUTES go by.                                        *)
LinkExpires ==
  /\ row.reset # 0 /\ row.reset \notin late
  /\ late' = late \cup {row.reset}
  /\ UNCHANGED <<row, photos, pending, pc, job, histories, issued>>

RequestReset(j) ==
  /\ row.reset # 0 /\ row.reset \notin late
  /\ Start(j, "reset", NoCode)

(* Mutant: the link is not cleared.                                         *)
ResetKeepingLink(copy, n) == [copy EXCEPT !.password = n]

(* set_password and set_reset_token(None)                                   *)
ResetTo(copy, n) == [copy EXCEPT !.password = n, !.reset = 0]

ResetPassword(j) ==
  LET my == job[j] IN
  /\ At(j, "reset")
  /\ Commit(j, ResetTo(my.copy, my.num), {"password", "reset"})
  /\ linked' = linked \cup {my.copy.reset}
  /\ reused' = reused \cup ({my.copy.reset} \cap linked)
  /\ UNCHANGED <<verified, spent, respent>>

-----------------------------------------------------------------------------
(* The second factor *)

(* Mutant: a new secret may be asked for while the factor is on.            *)
RequestSetupAnyTime(j) == Start(j, "setup", NoCode)

RequestSetup(j) ==
  /\ ~row.enabled
  /\ Start(j, "setup", NoCode)

SetupSecret(j) ==
  /\ At(j, "setup")
  /\ Commit(j, [job[j].copy EXCEPT !.secret = job[j].num], Factor)
  /\ UNCHANGED <<verified, spent, respent, reused, linked>>

(* The code shown is checked against the secret of the copy.                *)
RequestVerifySetup(j) ==
  /\ ~row.enabled /\ row.secret # 0
  /\ Start(j, "verify_setup", NoCode)

(* Mutant: list and place are swapped.                                      *)
SwappedCodes(n) == Places \X {n}

NewCodes(n) == {n} \X Places

VerifySetup(j) ==
  LET my == job[j] IN
  /\ At(j, "verify_setup")
  /\ Commit(j, [my.copy EXCEPT !.enabled = TRUE, !.codes = NewCodes(my.num)], Factor)
  /\ verified' = verified \cup {my.copy.secret}
  /\ UNCHANGED <<spent, respent, reused, linked>>

RequestDisable(j) == Start(j, "disable", NoCode)

DisableFactor(j) ==
  /\ At(j, "disable")
  /\ Commit(j, [job[j].copy EXCEPT !.secret = 0, !.enabled = FALSE, !.codes = {}],
            Factor)
  /\ UNCHANGED <<verified, spent, respent, reused, linked>>

RequestRegenerate(j) ==
  /\ row.enabled
  /\ Start(j, "regenerate", NoCode)

RegenerateCodes(j) ==
  /\ At(j, "regenerate")
  /\ Commit(j, [job[j].copy EXCEPT !.codes = NewCodes(job[j].num)], Factor)
  /\ UNCHANGED <<verified, spent, respent, reused, linked>>

-----------------------------------------------------------------------------
(* The photo, and the move to another organization *)

RequestPhoto(j, op) == op \in Photo /\ Start(j, op, NoCode)

Dropping(copy) == photos \ {copy.avatar}

(* The file of the photo read is deleted before anything is written.        *)
DropPhoto(j) ==
  /\ pc[j] = "drop"
  /\ photos' = Dropping(job[j].copy)
  /\ Goto(j, IF job[j].op = "upload" THEN "save" ELSE "write")
  /\ UNCHANGED <<row, late, pending, job, histories, issued>>

SavePhoto(j) ==
  /\ pc[j] = "save"
  /\ photos' = photos \cup {job[j].num}
  /\ Goto(j, "write")
  /\ UNCHANGED <<row, late, pending, job, histories, issued>>

SetPhoto(j) ==
  /\ At(j, "upload")
  /\ Commit(j, [job[j].copy EXCEPT !.avatar = job[j].num], {"avatar"})
  /\ UNCHANGED <<verified, spent, respent, reused, linked>>

(* Mutant: the file is deleted and the column left.                         *)
ClearFileOnly(j) ==
  /\ At(j, "delete_avatar")
  /\ Commit(j, job[j].copy, {"avatar"})
  /\ UNCHANGED <<verified, spent, respent, reused, linked>>

ClearPhoto(j) ==
  /\ At(j, "delete_avatar")
  /\ Commit(j, [job[j].copy EXCEPT !.avatar = 0], {"avatar"})
  /\ UNCHANGED <<verified, spent, respent, reused, linked>>

(* Mutant: the second factor is not carried over.                           *)
Recreated(copy, n) == [Fresh EXCEPT !.id = n, !.password = copy.password]

(* The account made anew from the copy of the one deleted.                  *)
CarriedOver(copy, n) ==
  IF copy.enabled /\ copy.secret # 0
  THEN [Fresh EXCEPT !.id = n, !.password = copy.password, !.secret = copy.secret,
                     !.enabled = TRUE, !.codes = copy.codes]
  ELSE [Fresh EXCEPT !.id = n, !.password = copy.password]

(* accept_invitation_with_deletion, as far as the account goes.             *)
Move(j) ==
  LET my == job[j] IN
  /\ At(j, "move") /\ row.id = my.copy.id
  /\ row' = CarriedOver(my.copy, my.num)
  /\ raced' = raced \cup Outdated(my.copy, Columns)
  /\ End(j)
  /\ UNCHANGED <<late, photos, pending, verified, spent, respent, reused, linked,
                 broken, failures, issued>>

(* A handler raises, or the process stops, between two of its steps.        *)
Fail(j) ==
  /\ pc[j] # "idle" /\ failures < MaxFailures
  /\ failures' = failures + 1
  /\ broken' = broken \cup (IF job[j].op \in Photo /\ pc[j] # "drop"
                            THEN {job[j].copy.avatar} ELSE {})
  /\ End(j)
  /\ UNCHANGED <<row, late, photos, pending, verified, spent, respent, reused,
                 linked, raced, issued>>

-----------------------------------------------------------------------------
Init ==
  /\ row = Fresh
  /\ late = {} /\ photos = {} /\ pending = {}
  /\ pc = [j \in Jobs |-> "idle"] /\ job = [j \in Jobs |-> Idle]
  /\ verified = {} /\ spent = {} /\ respent = {} /\ reused = {} /\ linked = {}
  /\ broken = {} /\ raced = {} /\ failures = 0 /\ issued = 0

Request(j) ==
  \/ RequestChange(j) \/ RequestForgot(j) \/ RequestReset(j)
  \/ RequestSetup(j) \/ RequestVerifySetup(j) \/ RequestDisable(j) \/ RequestRegenerate(j)
  \/ \E code \in row.codes : RequestVerifyLogin(j, code)
  \/ \E op \in Photo : RequestPhoto(j, op)

Handle(j) ==
  \/ ChangePassword(j) \/ ForgotPassword(j) \/ ResetPassword(j)
  \/ SetupSecret(j) \/ VerifySetup(j) \/ DisableFactor(j) \/ RegenerateCodes(j)
  \/ VerifyLogin(j)
  \/ DropPhoto(j) \/ SavePhoto(j) \/ SetPhoto(j) \/ ClearPhoto(j) \/ Move(j)
  \/ (pc[j] = "write" /\ Undone(j)) \/ Fail(j)

Next == (\E j \in Jobs : Request(j) \/ Handle(j)) \/ Login \/ LinkExpires

Spec == Init /\ [][Next]_vars

-----------------------------------------------------------------------------
(* Properties *)

(* The account, the sessions and the histories are of their types.          *)
TypeOK ==
  /\ row \in Row
  /\ late \subseteq Nat /\ photos \subseteq Nat /\ pending \subseteq Nat
  /\ pc \in [Jobs -> Steps] /\ job \in [Jobs -> Job]
  /\ verified \subseteq Nat /\ linked \subseteq Nat /\ reused \subseteq Nat
  /\ spent \subseteq Codes \cup {NoCode} /\ respent \subseteq spent
  /\ broken \subseteq Nat /\ raced \subseteq Columns
  /\ failures \in Nat /\ issued \in Nat

(* While the second factor is on, the account holds the secret its bearer   *)
(* proved to have at setup, unless setup, its verification and disabling    *)
(* the factor overlapped: each writes only the columns it changed.          *)
FactorIsConfirmed ==
  row.enabled => row.secret \in verified \ {0} \/ raced \cap Factor # {}

(* A backup code opens one session and a reset link sets one password,      *)
(* unless two uses of it overlapped, or a use and a new list or link: each  *)
(* writes the list it read less its own code, and clears the link it read.  *)
SecretsServeOnce ==
  /\ respent = {} \/ "codes" \in raced
  /\ reused = {} \/ "reset" \in raced

(* The photo an account names is in the store, except while a handler that  *)
(* has deleted it has yet to commit, and after one has failed to.           *)
PhotoOnFile ==
  row.avatar \in photos \cup broken \cup {0}
    \/ \E j \in Jobs : /\ pc[j] \in {"save", "write"} /\ job[j].op \in Photo
                      /\ job[j].copy.id = row.id /\ job[j].copy.avatar = row.avatar

(* A password that was set stays until a later request sets another: no     *)
(* handler that works on something else, and no move of the account, brings *)
(* an older one back, unless two of those that write it overlapped.         *)
PasswordSticks ==
  [][row'.password >= row.password \/ "password" \in raced']_vars

(* The account made anew in another organization is signed in to as the old *)
(* one was, unless that changed while the move was on its way.              *)
SignInSurvivesMove ==
  [][row'.id # row.id =>
       \/ raced' \cap (Factor \cup {"password"}) # {}
       \/ /\ row'.password = row.password /\ row'.enabled = row.enabled
          /\ row.enabled => row'.secret = row.secret /\ row'.codes = row.codes]_vars
=============================================================================
