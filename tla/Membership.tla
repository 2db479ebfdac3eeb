----------------------------- MODULE Membership -----------------------------
(***************************************************************************)
(* Organizations, their members and the invitations that let people in.    *)
(*                                                                         *)
(* A request is a session with a database transaction of its own, at read  *)
(* committed: each read sees what is committed when it is made, and the    *)
(* handler decides from the copies it has read.  Its writes, from the      *)
(* first flush to the commit, are one step: the rows it writes stay locked *)
(* until it commits, no other session sees them before, and the handler    *)
(* reads nothing in between that it decides by.                            *)
(*                                                                         *)
(* An access token names an account and its organization, and every live   *)
(* account has one; the token of an account since moved or removed matches *)
(* no row and is refused.                                                  *)
(***************************************************************************)
EXTENDS Naturals, FiniteSets

CONSTANTS
  Emails,       (* people: an email address has at most one account         *)
  Orgs,         (* organization ids, handed out in ascending order          *)
  Tokens,       (* invitation tokens, handed out in ascending order         *)
  Roles,        (* roles that requests ask for                              *)
  Jobs,         (* sessions that may be open at once, numbered              *)
  None,         (* no email address                                         *)
  MaxRequests,  (* bound on the requests issued                             *)
  Seeds         (* what may be on record at the start, and the kinds of     *)
                (* request issued from there                                *)

OpNames == {"none", "register", "invite", "list", "revoke", "set_role", "remove",
            "preview", "accept", "accept_with_deletion"}

OWNER == "owner"
ADMIN == "admin"
UserRoles == {OWNER, ADMIN, "analyst", "viewer"}

ASSUME PeopleAreFinite == IsFiniteSet(Emails)
ASSUME OrgsAreFinite   == IsFiniteSet(Orgs)
ASSUME IdsArePositive  == Orgs \subseteq Nat \ {0} /\ Tokens \subseteq Nat \ {0}
ASSUME JobsAreNumbered == Jobs \subseteq Nat
ASSUME RolesAreRoles   == Roles \subseteq UserRoles
ASSUME NoneIsFresh     == None \notin Emails
ASSUME RequestsBounded == MaxRequests \in Nat

VARIABLES
  users,     (* user table: the account of each email address               *)
  orgs,      (* organization table: the slug of each, 0 until it is created *)
  closed,    (* organizations deleted                                       *)
  invites,   (* invitation table                                            *)
  stored,    (* organizations whose documents all have their PDFs           *)
  pc,        (* next step of each session                                   *)
  job,       (* what each session holds in memory                           *)
  raced,     (* history: the organizations a handler has changed although   *)
             (* their members had changed since it read them                *)
  broken,    (* history: the requests that broke off when PDFs of the       *)
             (* organization they delete were gone                          *)
  kinds,     (* the kinds of request issued                                 *)
  issued     (* requests issued so far                                      *)

tables == <<users, orgs, closed, invites, stored>>
vars   == <<users, orgs, closed, invites, stored, pc, job, raced, broken, kinds, issued>>

-----------------------------------------------------------------------------
(* Tables *)

(* via is the invitation its bearer came in by; the code's record of it is  *)
(* the audit log.                                                           *)
User == [email : Emails, id : Nat, org : Orgs, role : UserRoles,
         via : Tokens \cup {0}]

NoUser == [email |-> None, id |-> 0, org |-> 0, role |-> OWNER, via |-> 0]

Invitation == [status : {"none", "pending", "accepted", "expired", "gone"},
               late : BOOLEAN, org : Orgs, email : Emails, role : UserRoles]

OnRecord(t) == invites[t].status \in {"pending", "accepted", "expired"}
Valid(t)    == invites[t].status = "pending" /\ ~invites[t].late
Open(o)     == orgs[o] # 0 /\ o \notin closed
Members(o)  == {e \in Emails : users[e] # NoUser /\ users[e].org = o}
Owners(o)   == {e \in Members(o) : users[e].role = OWNER}

(* The account a copy was read from is still there, perhaps changed.        *)
Lives(copy) == copy # NoUser /\ users[copy.email].id = copy.id

(* The audit entry of a step refers to its organization and to its actor.   *)
Audited(actor) == Open(actor.org) /\ Lives(actor)

(* An organization created or an invitation issued takes the next id.       *)
NextOrg   == {o \in Orgs : orgs[o] = 0 /\ \A p \in Orgs : p < o => orgs[p] # 0}
NextToken == {t \in Tokens : /\ invites[t].status = "none"
                             /\ \A u \in Tokens : u < t => invites[u].status # "none"}

ASSUME SeedsAreTables ==
  \A seed \in Seeds :
    /\ seed.users \in [Emails -> User \cup {NoUser}]
    /\ seed.orgs \in [Orgs -> Nat]
    /\ seed.invites \in [Tokens -> Invitation]
    /\ seed.kinds \subseteq OpNames
    /\ \A e \in Emails : seed.users[e] # NoUser =>
         /\ seed.users[e].email = e /\ seed.users[e].via = 0
         /\ seed.users[e].id > MaxRequests
         /\ seed.orgs[seed.users[e].org] # 0
    /\ \A o \in Orgs : seed.orgs[o] # 0 =>
         \E e \in Emails : seed.users[e] # NoUser /\ seed.users[e].org = o
                           /\ seed.users[e].role = OWNER
    /\ \A t \in Tokens : seed.invites[t].status \in {"none", "pending"}

-----------------------------------------------------------------------------
(* Sessions *)

Steps == {"idle", "slug", "create", "classify", "issue", "list", "flip",
          "invitation", "delete", "target", "owners", "write", "account",
          "alone", "purge"}

Job == [op    : OpNames,
        num   : Nat,                     (* names the account it creates    *)
        actor : User \cup {NoUser},      (* the copy of its own account     *)
        row   : User \cup {NoUser},      (* the account it acts on          *)
        email : Emails \cup {None},
        tok   : Tokens \cup {0},
        role  : UserRoles,
        toks  : SUBSET Tokens,           (* invitations found late          *)
        slug  : Nat,
        stale : SUBSET Orgs]             (* changed since the copies        *)

Idle == [op |-> "none", num |-> 0, actor |-> NoUser, row |-> NoUser,
         email |-> None, tok |-> 0, role |-> OWNER, toks |-> {}, slug |-> 0,
         stale |-> {}]

Goto(j, step) == pc' = [pc EXCEPT ![j] = step]

(* Creating requests number the account they may create.  Idle sessions are *)
(* alike: the lowest of them takes the request.                             *)
Creating == {"register", "accept", "accept_with_deletion"}

Start(j, request, step) ==
  /\ pc[j] = "idle" /\ \A k \in Jobs : k < j => pc[k] # "idle"
  /\ issued < MaxRequests /\ request.op \in kinds
  /\ issued' = issued + 1
  /\ job' = [job EXCEPT ![j] = [request EXCEPT !.num =
                IF request.op \in Creating THEN issued + 1 ELSE 0]]
  /\ Goto(j, step)
  /\ UNCHANGED <<tables, raced, broken, kinds>>

Read(j, step, copy) ==
  /\ Goto(j, step)
  /\ job' = [job EXCEPT ![j] = copy]
  /\ UNCHANGED <<tables, raced, broken, kinds, issued>>

(* The handler raises, or has nothing to write.                             *)
Answer(j) == Read(j, "idle", Idle)

(* A commit that leaves the members of every organization as they are.      *)
Done(j) ==
  /\ Goto(j, "idle")
  /\ job' = [job EXCEPT ![j] = Idle]
  /\ UNCHANGED <<raced, broken, kinds, issued>>

(* A handler that decided by copies of the members of read now changes the  *)
(* organizations of changed.                                                *)
Races(j, read, changed) ==
  IF read \cap job[j].stale = {} THEN raced ELSE raced \cup read \cup changed

DoneWith(j, read, changed) ==
  /\ Goto(j, "idle")
  /\ job' = [k \in Jobs |->
               IF k = j THEN Idle
               ELSE IF pc[k] = "idle" THEN job[k]
               ELSE [job[k] EXCEPT !.stale = @ \cup changed]]
  /\ raced' = Races(j, read, changed)
  /\ UNCHANGED <<broken, kinds, issued>>

(* get_tenant_context and require_role: the account as it is now.           *)
Tenant(j, e, allowed, request, step) ==
  /\ users[e] # NoUser
  /\ users[e].role \in allowed
  /\ Start(j, [request EXCEPT !.actor = users[e]], step)

-----------------------------------------------------------------------------
(* Registration *)

RequestRegister(j, e) ==
  /\ users[e] = NoUser
  /\ Start(j, [Idle EXCEPT !.op = "register", !.email = e], "slug")

Slugs == {orgs[o] : o \in {p \in Orgs : Open(p)}}

(* Everybody registers the same name: the first suffix that is free.        *)
PickSlug(j) ==
  /\ pc[j] = "slug"
  /\ \E n \in 1..(Cardinality(Orgs) + 1) :
       /\ n \notin Slugs /\ \A m \in 1..(n - 1) : m \in Slugs
       /\ Read(j, "create", [job[j] EXCEPT !.slug = n])

(* The email address and the slug are unique in their tables.               *)
CreateOrganization(j) ==
  LET my == job[j]
      e  == my.email
  IN
  /\ pc[j] = "create"
  /\ IF users[e] # NoUser \/ my.slug \in Slugs THEN Answer(j)
     ELSE \E o \in NextOrg :
       /\ orgs' = [orgs EXCEPT ![o] = my.slug]
       /\ users' = [users EXCEPT ![e] =
            [email |-> e, id |-> my.num, org |-> o, role |-> OWNER, via |-> 0]]
       /\ stored' = stored \cup {o}
       /\ DoneWith(j, {}, {o})
       /\ UNCHANGED <<closed, invites>>

-----------------------------------------------------------------------------
(* Invitations, as the inviting organization handles them *)

INVITE_PERMISSIONS ==
  [r \in {OWNER, ADMIN} |-> IF r = OWNER THEN UserRoles ELSE UserRoles \ {OWNER}]

RequestInvite(j, e, x, r) ==
  /\ Tenant(j, e, {OWNER, ADMIN},
            [Idle EXCEPT !.op = "invite", !.email = x, !.role = r], "classify")
  /\ r \in INVITE_PERMISSIONS[users[e].role]

(* _classify_invite_email, and the reads of the inviter and the organization. *)
ClassifyInvite(j) ==
  /\ pc[j] = "classify"
  /\ IF \/ users[job[j].email] # NoUser /\ users[job[j].email].org = job[j].actor.org
        \/ ~Lives(job[j].actor) \/ users[job[j].actor.email].org # job[j].actor.org
     THEN Answer(j)
     ELSE Read(j, "issue", job[j])

IssueInvitation(j) ==
  LET my == job[j] IN
  /\ pc[j] = "issue"
  /\ IF ~Audited(my.actor) THEN Answer(j)
     ELSE \E t \in NextToken :
       /\ invites' = [invites EXCEPT ![t] =
            [status |-> "pending", late |-> FALSE, org |-> my.actor.org,
             email |-> my.email, role |-> my.role]]
       /\ Done(j)
       /\ UNCHANGED <<users, orgs, closed, stored>>

(* INVITATION_EXPIRE_DAYS go by.                                            *)
TimePasses(t) ==
  /\ Valid(t)
  /\ invites' = [invites EXCEPT ![t].late = TRUE]
  /\ UNCHANGED <<users, orgs, closed, stored, pc, job, raced, broken, kinds, issued>>

RequestList(j, e) ==
  Tenant(j, e, {OWNER, ADMIN}, [Idle EXCEPT !.op = "list"], "list")

ListPending(j) ==
  LET late == {t \in Tokens : /\ invites[t].status = "pending"
                              /\ invites[t].late
                              /\ invites[t].org = job[j].actor.org}
  IN
  /\ pc[j] = "list"
  /\ IF late = {} THEN Answer(j)
     ELSE Read(j, "flip", [job[j] EXCEPT !.toks = late])

(* An update that finds its row gone undoes the flush; of several updates   *)
(* sent as one batch the driver need not count the rows.                    *)
FlipExpired(j) ==
  LET late == job[j].toks
      here == {t \in late : OnRecord(t)}
  IN
  /\ pc[j] = "flip"
  /\ \/ /\ here # late
        /\ Answer(j)
     \/ /\ here = late \/ Cardinality(late) > 1
        /\ invites' = [t \in Tokens |-> IF t \in here
             THEN [invites[t] EXCEPT !.status = "expired"] ELSE invites[t]]
        /\ Done(j)
        /\ UNCHANGED <<users, orgs, closed, stored>>

RequestRevoke(j, e, t) ==
  Tenant(j, e, {OWNER, ADMIN}, [Idle EXCEPT !.op = "revoke", !.tok = t], "invitation")

FindInvitation(j) ==
  /\ pc[j] = "invitation" /\ job[j].op = "revoke"
  /\ IF OnRecord(job[j].tok) /\ invites[job[j].tok].org = job[j].actor.org
     THEN Read(j, "delete", job[j]) ELSE Answer(j)

(* Deleting a row that is gone is only a warning.                           *)
RevokeInvitation(j) ==
  /\ pc[j] = "delete"
  /\ IF ~Audited(job[j].actor) THEN Answer(j)
     ELSE /\ invites' = [invites EXCEPT ![job[j].tok].status = "gone"]
          /\ Done(j)
          /\ UNCHANGED <<users, orgs, closed, stored>>

-----------------------------------------------------------------------------
(* Members *)

RequestRole(j, e, x, r) ==
  Tenant(j, e, {OWNER}, [Idle EXCEPT !.op = "set_role", !.email = x, !.role = r], "target")

RequestRemoval(j, e, x) ==
  /\ x # e
  /\ Tenant(j, e, {OWNER, ADMIN}, [Idle EXCEPT !.op = "remove", !.email = x], "target")

(* Mutant: the member is looked up by id alone.                             *)
FindAnyMember(j) ==
  /\ pc[j] = "target"
  /\ IF users[job[j].email] = NoUser THEN Answer(j)
     ELSE Read(j, "write", [job[j] EXCEPT !.row = users[job[j].email]])

(* The member is looked up in the organization of the tenant.               *)
FindMember(j) ==
  LET my == job[j]
      x  == users[my.email]
  IN
  /\ pc[j] = "target"
  /\ IF \/ x = NoUser \/ x.org # my.actor.org
        \/ my.op = "remove" /\ x.role = OWNER /\ my.actor.role # OWNER
     THEN Answer(j)
     ELSE IF x.role = OWNER /\ (my.op = "set_role" => my.role # OWNER)
     THEN Read(j, "owners", [my EXCEPT !.row = x])
     ELSE Read(j, "write", [my EXCEPT !.row = x])

(* Mutant: the last owner may go.                                           *)
CountOwnersLoosely(j) ==
  /\ pc[j] = "owners"
  /\ IF Cardinality(Owners(job[j].row.org)) < 1 THEN Answer(j)
     ELSE Read(j, "write", job[j])

(* count_by_role, before an owner loses the role, the account or the        *)
(* organization.                                                            *)
CountOwners(j) ==
  /\ pc[j] = "owners"
  /\ IF Cardinality(Owners(job[j].row.org)) <= 1 THEN Answer(j)
     ELSE Read(j, "write", job[j])

(* Only a column that differs from the copy is written; an update that      *)
(* finds no row undoes the transaction.                                     *)
UpdateRole(j) ==
  LET my == job[j]
      x  == my.row.email
  IN
  /\ pc[j] = "write" /\ my.op = "set_role"
  /\ IF ~Audited(my.actor) \/ ~Lives(my.row) \/ my.role = my.row.role THEN Answer(j)
     ELSE /\ users' = [users EXCEPT ![x].role = my.role]
          /\ DoneWith(j, {my.row.org}, {users[x].org})
          /\ UNCHANGED <<orgs, closed, invites, stored>>

RemoveMember(j) ==
  LET my == job[j]
      x  == my.row.email
  IN
  /\ pc[j] = "write" /\ my.op = "remove"
  /\ IF ~Audited(my.actor) \/ ~Lives(my.row) THEN Answer(j)
     ELSE /\ users' = [users EXCEPT ![x] = NoUser]
          /\ DoneWith(j, {my.row.org}, {users[x].org})
          /\ UNCHANGED <<orgs, closed, invites, stored>>

-----------------------------------------------------------------------------
(* Invitations, as the people invited handle them *)

Accepting == {"accept", "accept_with_deletion"}

(* _get_valid_invitation_or_400.                                            *)
RequestInvitation(j, op, t) ==
  /\ invites[t].status = "pending"
  /\ IF invites[t].late
     THEN Start(j, [Idle EXCEPT !.op = op, !.toks = {t}], "flip")
     ELSE Start(j, [Idle EXCEPT !.op = op, !.tok = t], "account")

PreviewInvitation(j) ==
  /\ pc[j] = "account" /\ job[j].op = "preview"
  /\ Answer(j)

(* The account of the address invited, and the password given for it.       *)
FindAccount(j) ==
  LET my == job[j]
      to == invites[my.tok]
      x  == users[to.email]
      at == [my EXCEPT !.row = x, !.email = to.email, !.stale = {}]
  IN
  /\ pc[j] = "account" /\ my.op \in Accepting
  /\ \/ Answer(j)      (* wrong password, no full name, organization gone   *)
     \/ x = NoUser /\ my.op = "accept" /\ Open(to.org) /\ Read(j, "write", at)
     \/ x # NoUser /\ x.org # to.org /\ Open(to.org) /\ Read(j, "alone", at)

(* The old organization and the count of its members: a sole member may     *)
(* only leave by deleting it, anybody else only without.                    *)
CountMembers(j) ==
  LET my    == job[j]
      alone == Cardinality(Members(my.row.org)) = 1
  IN
  /\ pc[j] = "alone"
  /\ IF ~Open(my.row.org) \/ (alone # (my.op = "accept_with_deletion")) THEN Answer(j)
     ELSE IF my.op = "accept_with_deletion" THEN Read(j, "purge", my)
     ELSE IF my.row.role = OWNER THEN Read(j, "owners", my)
     ELSE Read(j, "write", my)

(* Mutant: the invitation is marked accepted without looking for its row.   *)
AcceptedBlindly(t) == TRUE

(* mark_accepted updates the invitation it read: no row, no commit.         *)
MarkAccepted(t) == OnRecord(t)

(* Mutant: the invitation stays pending.                                    *)
EnteringUnmarked(t) == invites

Entering(t) == [invites EXCEPT ![t].status = "accepted"]

(* transfer_to_org on the copy read: a role it had already is not written.  *)
Moved(copy, cur, t) ==
  [cur EXCEPT !.org = invites[t].org, !.via = t,
              !.role = IF invites[t].role = copy.role THEN @ ELSE invites[t].role]

Transfer(j) ==
  LET my == job[j]
      e  == my.email
      to == invites[my.tok]
  IN
  /\ pc[j] = "write" /\ my.op = "accept" /\ my.row # NoUser
  /\ IF Lives(my.row) /\ MarkAccepted(my.tok) /\ Open(to.org) /\ Open(my.row.org)
     THEN /\ users' = [users EXCEPT ![e] = Moved(my.row, @, my.tok)]
          /\ invites' = Entering(my.tok)
          /\ DoneWith(j, {my.row.org}, {users[e].org, to.org})
          /\ UNCHANGED <<orgs, closed, stored>>
     ELSE Answer(j)

(* Mutant: the organization of the new account is left out.                 *)
NewAccountAlone(j, t) ==
  [email |-> invites[t].email, id |-> job[j].num, org |-> 0,
   role |-> invites[t].role, via |-> t]

NewAccount(j, t) ==
  [email |-> invites[t].email, id |-> job[j].num, org |-> invites[t].org,
   role |-> invites[t].role, via |-> t]

Join(j) ==
  LET my == job[j]
      to == invites[my.tok]
  IN
  /\ pc[j] = "write" /\ my.op = "accept" /\ my.row = NoUser
  /\ IF users[my.email] = NoUser /\ MarkAccepted(my.tok) /\ Open(to.org)
     THEN /\ users' = [users EXCEPT ![my.email] = NewAccount(j, my.tok)]
          /\ invites' = Entering(my.tok)
          /\ DoneWith(j, {}, {to.org})
          /\ UNCHANGED <<orgs, closed, stored>>
     ELSE Answer(j)

(* Mutant: the data of the organization joined is purged.                   *)
PurgeJoined(j) ==
  /\ pc[j] = "purge"
  /\ stored' = stored \ {invites[job[j].tok].org}
  /\ Goto(j, "write")
  /\ UNCHANGED <<users, orgs, closed, invites, job, raced, broken, kinds, issued>>

(* purge_organization_company_data deletes the PDFs one by one, and at once: *)
(* from the first of them on, they are not all there.                       *)
Purge(j) ==
  /\ pc[j] = "purge"
  /\ stored' = stored \ {job[j].row.org}
  /\ raced' = Races(j, {job[j].row.org}, {})
  /\ Goto(j, "write")
  /\ UNCHANGED <<users, orgs, closed, invites, job, broken, kinds, issued>>

(* Mutant: the account is deleted by hand, and the rest not cascaded.       *)
SparedByDeletion(e, copy) == ~(e = copy.email /\ Lives(copy))

(* Who is left when an account and its organization are deleted: members    *)
(* go with their organization.                                              *)
LeftByDeletion(e, copy) ==
  ~(e = copy.email /\ Lives(copy)) /\ users[e].org # copy.org

CloseOrganization(j) ==
  LET my   == job[j]
      old  == my.row.org
      to   == invites[my.tok]
      kept == [e \in Emails |-> IF LeftByDeletion(e, my.row) THEN users[e] ELSE NoUser]
  IN
  /\ pc[j] = "write" /\ my.op = "accept_with_deletion"
  /\ IF kept[my.email] = NoUser /\ MarkAccepted(my.tok) /\ Open(to.org)
     THEN /\ users' = [kept EXCEPT ![my.email] = NewAccount(j, my.tok)]
          /\ closed' = closed \cup {old}
          /\ invites' = [t \in Tokens |->
               IF t = my.tok THEN Entering(t)[t]
               ELSE IF OnRecord(t) /\ invites[t].org = old
               THEN [invites[t] EXCEPT !.status = "gone"] ELSE invites[t]]
          /\ DoneWith(j, {old}, {old, to.org} \cup
               (IF Lives(my.row) THEN {users[my.email].org} ELSE {}))
          /\ UNCHANGED <<orgs, stored>>
     ELSE Answer(j)

(* The store raises at a later PDF, a flush or the commit raises, or the    *)
(* process ends: the transaction is rolled back, the PDFs are gone.  A      *)
(* request that breaks off anywhere else leaves no more trace than one that *)
(* goes no further.                                                         *)
BreakOff(j) ==
  /\ pc[j] = "write" /\ job[j].op = "accept_with_deletion"
  /\ broken' = broken \cup {job[j].num}
  /\ Goto(j, "idle")
  /\ job' = [job EXCEPT ![j] = Idle]
  /\ UNCHANGED <<tables, raced, kinds, issued>>

-----------------------------------------------------------------------------
Init ==
  \E seed \in Seeds :
    /\ users = seed.users /\ orgs = seed.orgs /\ invites = seed.invites
    /\ closed = {} /\ stored = {o \in Orgs : orgs[o] # 0}
    /\ pc = [j \in Jobs |-> "idle"] /\ job = [j \in Jobs |-> Idle]
    /\ raced = {} /\ broken = {} /\ kinds = seed.kinds /\ issued = 0

Request(j) ==
  \/ \E e \in Emails : RequestRegister(j, e) \/ RequestList(j, e)
  \/ \E e, x \in Emails : \/ RequestRemoval(j, e, x)
                          \/ \E r \in Roles : RequestInvite(j, e, x, r) \/ RequestRole(j, e, x, r)
  \/ \E t \in Tokens : \/ \E e \in Emails : RequestRevoke(j, e, t)
                       \/ \E op \in Accepting \cup {"preview"} : RequestInvitation(j, op, t)

Handle(j) ==
  \/ PickSlug(j) \/ CreateOrganization(j)
  \/ ClassifyInvite(j) \/ IssueInvitation(j) \/ ListPending(j) \/ FlipExpired(j)
  \/ FindInvitation(j) \/ RevokeInvitation(j)
  \/ FindMember(j) \/ CountOwners(j) \/ UpdateRole(j) \/ RemoveMember(j)
  \/ PreviewInvitation(j) \/ FindAccount(j) \/ CountMembers(j)
  \/ Transfer(j) \/ Join(j) \/ Purge(j) \/ CloseOrganization(j) \/ BreakOff(j)

Next ==
  \/ \E j \in Jobs : Request(j) \/ Handle(j)
  \/ \E t \in Tokens : TimePasses(t)

Spec == Init /\ [][Next]_vars

-----------------------------------------------------------------------------
(* Properties *)

(* Every table and every session's memory is of its type.                   *)
TypeOK ==
  /\ users \in [Emails -> User \cup {NoUser}]
  /\ orgs \in [Orgs -> Nat] /\ closed \subseteq Orgs
  /\ invites \in [Tokens -> Invitation]
  /\ stored \subseteq Orgs
  /\ pc \in [Jobs -> Steps] /\ job \in [Jobs -> Job]
  /\ raced \subseteq Orgs /\ broken \subseteq Nat /\ kinds \subseteq OpNames /\ issued \in Nat

(* Every organization has an owner: update_member_role and remove_member    *)
(* refuse to touch the last one, and a transfer does not let it go.         *)
OrganizationKeepsOwner == \A o \in Orgs : Open(o) => Owners(o) # {}

(* An organization loses its last owner only to a handler that acts on      *)
(* members it read before they were changed: two owners who demote each     *)
(* other, a removal beside a demotion, a transfer beside either.            *)
OwnerLossNeedsStaleRead ==
  \A o \in Orgs : Open(o) /\ Owners(o) = {} => o \in raced

(* The row a stored account names is its organization's: an organization    *)
(* that goes takes its members along, and nobody is let into one that went. *)
MembersHaveOrganization == \A e \in Emails : users[e] # NoUser => Open(users[e].org)

(* Only people of an account's own organization act on it: its role is set, *)
(* or it is removed, by somebody of that organization, or by itself, unless *)
(* the handler's copy of the membership was out of date.                    *)
ActsOn(j, e, op) ==
  pc[j] = "write" /\ job[j].op = op /\ job[j].email = e /\ job[j].actor.org = users[e].org

OnlyOwnOrganizationActs ==
  [][\A e \in Emails :
       /\ users[e] # NoUser /\ users'[e] = NoUser =>
            users[e].org \in raced' \/ \E j \in Jobs : ActsOn(j, e, "remove")
       /\ users[e].id = users'[e].id /\ users[e].via = users'[e].via
          /\ users[e].role # users'[e].role =>
            users[e].org \in raced' \/ \E j \in Jobs : ActsOn(j, e, "set_role")]_vars

(* Whoever comes in by an invitation comes into the organization that       *)
(* issued it, with the role it names unless the role was changed while the  *)
(* acceptance was on its way.                                               *)
JoinedAsInvited ==
  [][\A e \in Emails : \A t \in Tokens :
       users'[e].via = t /\ users[e].via # t =>
         /\ OnRecord(t) /\ invites'[t].status = "accepted"
         /\ invites[t].email = e /\ invites[t].org = users'[e].org
         /\ users'[e].role = invites[t].role \/ users[e].org \in raced']_vars

(* The PDFs of an organization are deleted before its deletion commits.     *)
(* They go only for the one member it has, who leaves it by deleting it,    *)
(* and the deletion then commits, unless the invitation followed was        *)
(* withdrawn, by its organization or along with it, unless members came or  *)
(* went between the count of them and the purge, or the purge and the       *)
(* commit, or unless the request broke off in between: never because of a   *)
(* condition it could have checked before it deleted anything.              *)
PurgedDeletionCommits ==
  [][\A o \in Orgs :
       /\ o \in stored /\ o \notin stored' => \E j \in Jobs :
            /\ pc[j] = "purge" /\ job[j].row.org = o
            /\ o \in job[j].stale \/ Members(o) = {job[j].email}
       /\ \A j \in Jobs :
            pc[j] = "write" /\ job[j].op = "accept_with_deletion" /\ job[j].row.org = o
              /\ pc'[j] # "write" /\ o \notin job[j].stale =>
                o \in closed' \/ ~OnRecord(job[j].tok) \/ job[j].num \in broken']_vars

(* The invitations keep the promise of InvitationLedger, however the        *)
(* handlers that issue, accept, list and revoke them overlap.               *)
Ledger == INSTANCE InvitationLedger WITH
  standing <- [t \in Tokens |-> invites[t].status],
  inside   <- {t \in Tokens : \E e \in Emails : users[e].via = t}

KeepsLedger == Ledger!Spec
=============================================================================
