-------------------------- MODULE Membership_proofs -------------------------
(***************************************************************************)
(* Why members keep an organization, owners are lost to stale reads only,  *)
(* invitations keep their ledger, and PDFs are purged for a deletion. Four *)
(* facts carry the argument: what a session holds at each of its steps     *)
(* (AllHeld); that an invitation once issued keeps its organization,       *)
(* address and role; that a copy whose organization nobody changed since   *)
(* is the account as it is (AllDecided); and that the organization an      *)
(* acceptance leads to is there as long as its invitation (AllAwaited).    *)
(***************************************************************************)
EXTENDS Membership, FiniteSetTheorems, TLAPS

-----------------------------------------------------------------------------
(* Users and empty records *)

LEMMA NobodyIsNoUser == /\ NoUser \notin User /\ NoUser.via \notin Tokens
                        /\ \A o \in Orgs : o # 0
                        /\ \A u \in User : u # NoUser /\ u.org # 0 /\ u.email # None
BY NoneIsFresh, IdsArePositive DEF User, NoUser

LEMMA IdleTyped == Idle \in Job
BY DEF Idle, Job, OpNames, UserRoles, OWNER, ADMIN

LEMMA HeldTyped ==
  ASSUME TypeOK, NEW j \in Jobs
  PROVE  /\ job[j] \in Job /\ pc[j] \in Steps
         /\ job[j].op \in OpNames /\ job[j].num \in Nat /\ job[j].slug \in Nat
         /\ job[j].actor \in User \cup {NoUser} /\ job[j].row \in User \cup {NoUser}
         /\ job[j].email \in Emails \cup {None} /\ job[j].tok \in Tokens \cup {0}
         /\ job[j].role \in UserRoles /\ job[j].toks \subseteq Tokens
         /\ job[j].stale \subseteq Orgs
BY DEF TypeOK, Job

-----------------------------------------------------------------------------
(* What a session holds at each of its steps *)

Tenanted == {"invite", "list", "revoke", "set_role", "remove"}
Invited  == Accepting \cup {"preview"}

(* Which handlers take which steps.                                         *)
Placed(j) ==
  LET op == job[j].op IN
  /\ pc[j] \in {"slug", "create"} => op = "register"
  /\ pc[j] \in {"classify", "issue"} => op = "invite"
  /\ pc[j] = "list" => op = "list"
  /\ pc[j] \in {"invitation", "delete"} => op = "revoke"
  /\ pc[j] = "target" => op \in {"set_role", "remove"}
  /\ pc[j] = "account" => op \in Invited
  /\ pc[j] = "alone" => op \in Accepting
  /\ pc[j] = "purge" => op = "accept_with_deletion"
  /\ pc[j] \in {"owners", "write"} => op \in {"set_role", "remove"} \cup Accepting
  /\ pc[j] = "owners" => op # "accept_with_deletion"

Filled(j) ==
  LET my == job[j] IN
  /\ my.op \in Tenanted => my.actor \in User
  /\ my.op \in {"register", "invite", "set_role", "remove"} => my.email \in Emails
  /\ my.op \in Creating => my.num # 0
  /\ my.row # NoUser => my.row.id # 0
  /\ pc[j] = "create" => my.slug # 0
  /\ my.op = "revoke" => my.tok \in Tokens
  /\ pc[j] = "delete" => invites[my.tok].status # "none"
  /\ pc[j] \in {"owners", "write"} /\ my.op \in {"set_role", "remove"} =>
       my.row \in User /\ my.row.email = my.email /\ my.row.org = my.actor.org

(* An invitation being accepted has been issued, and its bearer comes from  *)
(* another organization.                                                    *)
Bearing(j) ==
  LET my == job[j]
      to == invites[my.tok]
  IN
  /\ pc[j] \in {"account", "alone", "purge", "owners", "write"} /\ my.op \in Invited =>
       my.tok \in Tokens /\ to.status # "none"
  /\ pc[j] \in {"alone", "purge", "owners", "write"} /\ my.op \in Accepting =>
       /\ my.email = to.email
       /\ my.row # NoUser => my.row.email = my.email /\ my.row.org # to.org
  /\ pc[j] \in {"alone", "purge", "owners"}
       \/ (pc[j] = "write" /\ my.op = "accept_with_deletion") => my.row # NoUser
  /\ pc[j] \in {"purge", "owners", "write"} /\ my.op \in Accepting /\ my.row # NoUser =>
       orgs[my.row.org] # 0

Held(j) == Placed(j) /\ Filled(j) /\ Bearing(j)

AllHeld == \A j \in Jobs : Held(j)

(* Accounts as they are stored.                                             *)
Stored ==
  /\ \A e \in Emails : users[e] # NoUser =>
       /\ users[e].email = e /\ users[e].id # 0
       /\ users[e].via \in Tokens =>
            invites[users[e].via].status # "none" /\ invites[users[e].via].org = users[e].org
  /\ closed \subseteq {o \in Orgs : orgs[o] # 0}

-----------------------------------------------------------------------------
(* Types *)

LEMMA StartTyped ==
  ASSUME TypeOK, NEW j \in Jobs, NEW request \in Job, NEW step \in Steps,
         Start(j, request, step)
  PROVE  TypeOK'
<1>1. [request EXCEPT !.num = IF request.op \in Creating THEN issued + 1 ELSE 0] \in Job
  BY DEF TypeOK, Job
<1>2. job' \in [Jobs -> Job] /\ pc' \in [Jobs -> Steps] /\ issued' \in Nat
  BY <1>1 DEF TypeOK, Start, Goto
<1> QED
  BY <1>2 DEF TypeOK, Start, tables

LEMMA TenantTyped ==
  ASSUME TypeOK, NEW j \in Jobs, NEW e \in Emails, NEW allowed, NEW request \in Job,
         NEW step \in Steps, Tenant(j, e, allowed, request, step)
  PROVE  TypeOK'
<1>1. [request EXCEPT !.actor = users[e]] \in Job
  BY DEF TypeOK, Job
<1> QED
  BY <1>1, StartTyped DEF Tenant

LEMMA ReadTyped ==
  ASSUME TypeOK, NEW j \in Jobs, NEW step \in Steps, NEW copy \in Job, Read(j, step, copy)
  PROVE  TypeOK'
BY DEF TypeOK, Read, Goto, tables

LEMMA AnswerTyped ==
  ASSUME TypeOK, NEW j \in Jobs, Answer(j)
  PROVE  TypeOK'
BY ReadTyped, IdleTyped DEF Answer, Steps

LEMMA DoneTyped ==
  ASSUME TypeOK, NEW j \in Jobs, Done(j), invites' \in [Tokens -> Invitation],
         UNCHANGED <<users, orgs, closed, stored>>
  PROVE  TypeOK'
BY IdleTyped DEF TypeOK, Done, Goto, Steps

LEMMA DoneWithTyped ==
  ASSUME TypeOK, NEW j \in Jobs, NEW read \in SUBSET Orgs, NEW changed \in SUBSET Orgs,
         DoneWith(j, read, changed), invites' \in [Tokens -> Invitation],
         users' \in [Emails -> User \cup {NoUser}], orgs' \in [Orgs -> Nat],
         closed' \subseteq Orgs, stored' \subseteq Orgs
  PROVE  TypeOK'
<1>1. \A k \in Jobs : [job[k] EXCEPT !.stale = @ \cup changed] \in Job
  BY DEF TypeOK, Job
<1>2. job' \in [Jobs -> Job] /\ pc' \in [Jobs -> Steps]
  BY <1>1, IdleTyped DEF TypeOK, DoneWith, Goto, Steps
<1>3. raced' \subseteq Orgs
  BY DEF TypeOK, DoneWith, Races
<1> QED
  BY <1>2, <1>3 DEF TypeOK, DoneWith

LEMMA RequestTyped ==
  ASSUME TypeOK, NEW j \in Jobs, Request(j)
  PROVE  TypeOK'
<1> USE IdleTyped DEF Job, Idle, OpNames, Steps
<1>1. ASSUME NEW e \in Emails, RequestRegister(j, e) PROVE TypeOK'
  BY <1>1, StartTyped DEF RequestRegister
<1>2. ASSUME NEW e \in Emails, RequestList(j, e) PROVE TypeOK'
  BY <1>2, TenantTyped DEF RequestList
<1>3. ASSUME NEW e \in Emails, NEW x \in Emails, RequestRemoval(j, e, x) PROVE TypeOK'
  BY <1>3, TenantTyped DEF RequestRemoval
<1>4. ASSUME NEW e \in Emails, NEW x \in Emails, NEW r \in Roles, RequestInvite(j, e, x, r)
      PROVE  TypeOK'
  <2>1. [Idle EXCEPT !.op = "invite", !.email = x, !.role = r] \in Job
    BY RolesAreRoles
  <2> QED
    BY <1>4, <2>1, TenantTyped DEF RequestInvite
<1>5. ASSUME NEW e \in Emails, NEW x \in Emails, NEW r \in Roles, RequestRole(j, e, x, r)
      PROVE  TypeOK'
  <2>1. [Idle EXCEPT !.op = "set_role", !.email = x, !.role = r] \in Job
    BY RolesAreRoles
  <2> QED
    BY <1>5, <2>1, TenantTyped DEF RequestRole
<1>6. ASSUME NEW e \in Emails, NEW t \in Tokens, RequestRevoke(j, e, t) PROVE TypeOK'
  BY <1>6, TenantTyped DEF RequestRevoke
<1>7. ASSUME NEW t \in Tokens, NEW op \in Accepting \cup {"preview"},
             RequestInvitation(j, op, t)
      PROVE  TypeOK'
  <2>1. /\ [Idle EXCEPT !.op = op, !.toks = {t}] \in Job
        /\ [Idle EXCEPT !.op = op, !.tok = t] \in Job
    BY DEF Accepting
  <2> QED
    BY <1>7, <2>1, StartTyped DEF RequestInvitation
<1> QED
  BY <1>1, <1>2, <1>3, <1>4, <1>5, <1>6, <1>7 DEF Request

(* The tables a handler leaves are of their types.                          *)
LEMMA EnteringTyped ==
  ASSUME TypeOK, NEW t \in Tokens
  PROVE  Entering(t) \in [Tokens -> Invitation]
BY DEF TypeOK, Entering, Invitation

LEMMA NewAccountTyped ==
  ASSUME TypeOK, NEW j \in Jobs, NEW t \in Tokens
  PROVE  NewAccount(j, t) \in User
BY HeldTyped DEF TypeOK, NewAccount, User, Invitation

LEMMA LivingIsUser ==
  ASSUME TypeOK, Stored, NEW copy \in User \cup {NoUser}, Lives(copy), copy.id # 0
  PROVE  copy \in User /\ users[copy.email] \in User /\ users[copy.email].email = copy.email
BY DEF TypeOK, Stored, Lives, User, NoUser

LEMMA WalkTyped ==
  ASSUME TypeOK, AllHeld, NEW j \in Jobs,
         \/ PickSlug(j) \/ ClassifyInvite(j) \/ ListPending(j) \/ FindInvitation(j)
         \/ FindMember(j) \/ CountOwners(j) \/ PreviewInvitation(j) \/ FindAccount(j)
         \/ CountMembers(j) \/ BreakOff(j)
  PROVE  TypeOK'
<1> DEFINE my == job[j]
<1> USE HeldTyped, AnswerTyped, ReadTyped DEF Steps
<1>1. CASE PickSlug(j)
  <2>1. \A n \in Nat : [my EXCEPT !.slug = n] \in Job
    BY DEF Job
  <2>2. Cardinality(Orgs) \in Nat
    BY OrgsAreFinite, FS_CardinalityType
  <2>3. PICK n \in 1..(Cardinality(Orgs) + 1) : Read(j, "create", [my EXCEPT !.slug = n])
    BY <1>1 DEF PickSlug
  <2>4. n \in Nat
    BY <2>2
  <2> QED
    BY <2>1, <2>3, <2>4
<1>2. CASE ClassifyInvite(j)
  BY <1>2 DEF ClassifyInvite
<1>3. CASE ListPending(j)
  <2>1. \A S \in SUBSET Tokens : [my EXCEPT !.toks = S] \in Job
    BY DEF Job
  <2> QED
    BY <1>3, <2>1 DEF ListPending
<1>4. CASE FindInvitation(j)
  BY <1>4 DEF FindInvitation
<1>5. CASE FindMember(j)
  <2>1. my.email \in Emails
    BY <1>5 DEF FindMember, AllHeld, Held, Placed, Filled
  <2>2. \A x \in User \cup {NoUser} : [my EXCEPT !.row = x] \in Job
    BY DEF Job
  <2>3. users[my.email] \in User \cup {NoUser}
    BY <2>1 DEF TypeOK
  <2> QED
    BY <1>5, <2>2, <2>3 DEF FindMember
<1>6. CASE CountOwners(j)
  BY <1>6 DEF CountOwners
<1>7. CASE PreviewInvitation(j)
  BY <1>7 DEF PreviewInvitation
<1>8. CASE FindAccount(j)
  <2>1. my.tok \in Tokens
    BY <1>8 DEF FindAccount, AllHeld, Held, Bearing, Invited
  <2>2. invites[my.tok].email \in Emails
    BY <2>1 DEF TypeOK, Invitation
  <2>3. users[invites[my.tok].email] \in User \cup {NoUser}
    BY <2>2 DEF TypeOK
  <2>4. [my EXCEPT !.row = users[invites[my.tok].email], !.email = invites[my.tok].email,
                   !.stale = {}] \in Job
    BY <2>2, <2>3 DEF Job
  <2> QED
    BY <1>8, <2>4 DEF FindAccount
<1>9. CASE CountMembers(j)
  BY <1>9 DEF CountMembers
<1>10. CASE BreakOff(j)
  BY <1>10, IdleTyped DEF BreakOff, Goto, TypeOK, Job, tables
<1> QED
  BY <1>1, <1>2, <1>3, <1>4, <1>5, <1>6, <1>7, <1>8, <1>9, <1>10

LEMMA WriteTyped ==
  ASSUME TypeOK, AllHeld, Stored, NEW j \in Jobs,
         \/ CreateOrganization(j) \/ IssueInvitation(j) \/ FlipExpired(j)
         \/ RevokeInvitation(j) \/ UpdateRole(j) \/ RemoveMember(j) \/ Transfer(j)
         \/ Join(j) \/ Purge(j) \/ CloseOrganization(j)
  PROVE  TypeOK'
<1> DEFINE my == job[j]
<1> SUFFICES ASSUME ~Answer(j) PROVE TypeOK'
  BY AnswerTyped
<1>t. /\ orgs \in [Orgs -> Nat] /\ closed \subseteq Orgs /\ stored \subseteq Orgs
      /\ invites \in [Tokens -> Invitation]
  BY DEF TypeOK
<1>1. CASE CreateOrganization(j)
  <2>1. my.email \in Emails
    BY <1>1 DEF CreateOrganization, AllHeld, Held, Placed, Filled
  <2>2. PICK o \in NextOrg :
          /\ orgs' = [orgs EXCEPT ![o] = my.slug]
          /\ users' = [users EXCEPT ![my.email] =
               [email |-> my.email, id |-> my.num, org |-> o, role |-> OWNER, via |-> 0]]
          /\ stored' = stored \cup {o} /\ DoneWith(j, {}, {o})
          /\ UNCHANGED <<closed, invites>>
    BY <1>1 DEF CreateOrganization
  <2>3. o \in Orgs
    BY <2>2 DEF NextOrg
  <2>4. [email |-> my.email, id |-> my.num, org |-> o, role |-> OWNER, via |-> 0] \in User
    BY <2>1, <2>3, HeldTyped DEF User, UserRoles
  <2> QED
    BY <2>2, <2>3, <2>4, HeldTyped, DoneWithTyped DEF TypeOK
<1>2. CASE IssueInvitation(j)
  <2>1. my.email \in Emails /\ my.actor \in User
    BY <1>2 DEF IssueInvitation, AllHeld, Held, Placed, Filled, Tenanted
  <2>2. [status |-> "pending", late |-> FALSE, org |-> my.actor.org, email |-> my.email,
         role |-> my.role] \in Invitation
    BY <2>1, HeldTyped DEF Invitation, User
  <2>3. Done(j) /\ invites' \in [Tokens -> Invitation] /\ UNCHANGED <<users, orgs, closed, stored>>
    BY <1>2, <2>2 DEF IssueInvitation, TypeOK, NextToken
  <2> QED
    BY <2>3, DoneTyped
<1>3. CASE FlipExpired(j)
  <2>1. \A t \in Tokens : [invites[t] EXCEPT !.status = "expired"] \in Invitation
    BY DEF TypeOK, Invitation
  <2>2. Done(j) /\ invites' \in [Tokens -> Invitation] /\ UNCHANGED <<users, orgs, closed, stored>>
    BY <1>3, <2>1 DEF FlipExpired, TypeOK
  <2> QED
    BY <2>2, DoneTyped
<1>4. CASE RevokeInvitation(j)
  <2>1. [invites EXCEPT ![my.tok].status = "gone"] \in [Tokens -> Invitation]
    BY DEF TypeOK, Invitation
  <2> QED
    BY <1>4, <2>1, DoneTyped DEF RevokeInvitation
<1>5. CASE UpdateRole(j) \/ RemoveMember(j)
  <2>1. /\ my.row \in User /\ my.row.id # 0 /\ Lives(my.row)
    BY <1>5, NobodyIsNoUser DEF UpdateRole, RemoveMember, AllHeld, Held, Filled
  <2>2. /\ users[my.row.email] \in User /\ my.row.email \in Emails
        /\ my.row.org \in Orgs /\ users[my.row.email].org \in Orgs
    BY <2>1, LivingIsUser DEF User
  <2>3. [users[my.row.email] EXCEPT !.role = my.role] \in User
    BY <2>2, HeldTyped DEF User
  <2>4. CASE UpdateRole(j)
    <3>1. users' \in [Emails -> User \cup {NoUser}]
      BY <2>3, <2>4 DEF UpdateRole, TypeOK
    <3> QED
      BY <1>t, <2>2, <2>4, <3>1, DoneWithTyped DEF UpdateRole
  <2>5. CASE RemoveMember(j)
    <3>1. users' \in [Emails -> User \cup {NoUser}]
      BY <2>5 DEF RemoveMember, TypeOK
    <3> QED
      BY <1>t, <2>2, <2>5, <3>1, DoneWithTyped DEF RemoveMember
  <2> QED
    BY <1>5, <2>4, <2>5
<1>6. CASE Transfer(j)
  <2>1. /\ my.tok \in Tokens /\ my.row \in User /\ my.row.id # 0 /\ Lives(my.row)
        /\ my.row.email = my.email
    BY <1>6, HeldTyped DEF Transfer, AllHeld, Held, Filled, Bearing, Invited, Accepting
  <2>2. /\ users[my.email] \in User /\ my.email \in Emails /\ invites[my.tok] \in Invitation
        /\ my.row.org \in Orgs /\ users[my.email].org \in Orgs /\ invites[my.tok].org \in Orgs
    BY <2>1, LivingIsUser DEF User, TypeOK, Invitation
  <2>3. Moved(my.row, users[my.email], my.tok) \in User
    BY <2>1, <2>2 DEF Moved, User, Invitation
  <2>4. users' \in [Emails -> User \cup {NoUser}]
    BY <1>6, <2>3 DEF Transfer, TypeOK
  <2> QED
    BY <1>t, <1>6, <2>1, <2>2, <2>4, EnteringTyped, DoneWithTyped DEF Transfer
<1>7. CASE Join(j)
  <2>1. my.tok \in Tokens
    BY <1>7 DEF Join, AllHeld, Held, Bearing, Invited, Accepting
  <2>2. users' \in [Emails -> User \cup {NoUser}] /\ invites[my.tok].org \in Orgs
    BY <1>7, <2>1, NewAccountTyped DEF Join, TypeOK, Invitation
  <2> QED
    BY <1>t, <1>7, <2>1, <2>2, EnteringTyped, DoneWithTyped DEF Join
<1>8. CASE Purge(j)
  <2>1. my.row \in User
    BY <1>8, HeldTyped DEF Purge, AllHeld, Held, Bearing
  <2>2. my.row.org \in Orgs
    BY <2>1 DEF User
  <2> QED
    BY <1>8, <2>2 DEF Purge, TypeOK, Goto, Steps, Races
<1>9. CASE CloseOrganization(j)
  <2>1. my.tok \in Tokens /\ my.row \in User /\ my.row.email = my.email
    BY <1>9, HeldTyped DEF CloseOrganization, AllHeld, Held, Bearing, Invited, Accepting
  <2>2. /\ invites[my.tok].org \in Orgs /\ my.row.org \in Orgs /\ my.email \in Emails
    BY <2>1 DEF User, TypeOK, Invitation
  <2>3. Lives(my.row) => users[my.email].org \in Orgs
    <3>1. my.row.id # 0
      BY <2>1, NobodyIsNoUser DEF AllHeld, Held, Filled
    <3> QED
      BY <2>1, <3>1, LivingIsUser DEF User
  <2>4. users' \in [Emails -> User \cup {NoUser}]
    BY <1>9, <2>1, NewAccountTyped DEF CloseOrganization, TypeOK
  <2>5. invites' \in [Tokens -> Invitation]
    <3>1. \A t \in Tokens : [invites[t] EXCEPT !.status = "gone"] \in Invitation
      BY DEF TypeOK, Invitation
    <3> QED
      BY <1>9, <2>1, <3>1, EnteringTyped DEF CloseOrganization, TypeOK
  <2> QED
    BY <1>t, <1>9, <2>2, <2>3, <2>4, <2>5, DoneWithTyped DEF CloseOrganization
<1> QED
  BY <1>1, <1>2, <1>3, <1>4, <1>5, <1>6, <1>7, <1>8, <1>9

-----------------------------------------------------------------------------
(* What a step leaves alone *)

(* An invitation issued stays issued, to whom and for what it was.          *)
InvitesKept ==
  \A t \in Tokens : invites[t].status # "none" =>
    /\ invites'[t].status # "none" /\ invites'[t].org = invites[t].org
    /\ invites'[t].email = invites[t].email /\ invites'[t].role = invites[t].role

OrgsKept == \A o \in Orgs : orgs[o] # 0 => orgs'[o] = orgs[o]

(* Another session learns at most that organizations have changed.          *)
Bystander(k) ==
  /\ pc'[k] = pc[k]
  /\ \E S : job'[k] = [job[k] EXCEPT !.stale = @ \cup S]

Ended(j) == pc'[j] = "idle" /\ job'[j] = Idle

Walk(j) ==
  \/ PickSlug(j) \/ ClassifyInvite(j) \/ ListPending(j) \/ FindInvitation(j)
  \/ FindMember(j) \/ CountOwners(j) \/ PreviewInvitation(j) \/ FindAccount(j)
  \/ CountMembers(j) \/ BreakOff(j)

Write(j) ==
  \/ CreateOrganization(j) \/ IssueInvitation(j) \/ FlipExpired(j)
  \/ RevokeInvitation(j) \/ UpdateRole(j) \/ RemoveMember(j) \/ Transfer(j)
  \/ Join(j) \/ Purge(j) \/ CloseOrganization(j)

LEMMA HandlersSplit ==
  ASSUME NEW j, Handle(j)
  PROVE  Walk(j) \/ Write(j)
BY DEF Handle, Walk, Write

LEMMA StepTyped ==
  ASSUME TypeOK, AllHeld, Stored, [Next]_vars
  PROVE  TypeOK'
<1>1. ASSUME NEW t \in Tokens, TimePasses(t) PROVE TypeOK'
  BY <1>1 DEF TimePasses, TypeOK, Invitation
<1>2. ASSUME NEW j \in Jobs, Handle(j) PROVE TypeOK'
  BY <1>2, HandlersSplit, WalkTyped, WriteTyped DEF Walk, Write
<1>3. CASE UNCHANGED vars
  BY <1>3 DEF vars, TypeOK
<1> QED
  BY <1>1, <1>2, <1>3, RequestTyped DEF Next

LEMMA ReadsLeave ==
  ASSUME TypeOK, NEW j \in Jobs, Request(j) \/ Walk(j)
  PROVE  /\ UNCHANGED <<tables, raced>>
         /\ \A k \in Jobs : k # j => pc'[k] = pc[k] /\ job'[k] = job[k]
<1> DEFINE Goal == /\ UNCHANGED <<tables, raced>>
                   /\ \A k \in Jobs : k # j => pc'[k] = pc[k] /\ job'[k] = job[k]
<1>1. ASSUME NEW request, NEW step, Start(j, request, step) PROVE Goal
  BY <1>1 DEF Start, Goto, TypeOK, tables
<1>2. ASSUME NEW copy, NEW step, Read(j, step, copy) PROVE Goal
  BY <1>2 DEF Read, Goto, TypeOK, tables
<1>3. CASE Request(j)
  BY <1>1, <1>3 DEF Request, RequestRegister, RequestList, RequestRemoval, RequestInvite,
     RequestRole, RequestRevoke, RequestInvitation, Tenant
<1>4. CASE Walk(j)
  BY <1>2, <1>4 DEF Walk, PickSlug, ClassifyInvite, ListPending, FindInvitation, FindMember,
     CountOwners, PreviewInvitation, FindAccount, CountMembers, Answer, BreakOff, Goto, TypeOK
<1> QED
  BY <1>3, <1>4

LEMMA WritesEnd ==
  ASSUME TypeOK, NEW j \in Jobs, Write(j)
  PROVE  Ended(j) \/ Purge(j)
BY DEF Write, CreateOrganization, IssueInvitation, FlipExpired, RevokeInvitation, UpdateRole,
   RemoveMember, Transfer, Join, CloseOrganization, Answer, Read, Done, DoneWith, Goto,
   TypeOK, Ended

LEMMA OthersStandBy ==
  ASSUME TypeOK, NEW j \in Jobs, Request(j) \/ Handle(j), NEW k \in Jobs, k # j
  PROVE  Bystander(k)
<1>1. job[k] = [job[k] EXCEPT !.stale = @ \cup {}]
  BY HeldTyped DEF Job
<1>2. CASE Request(j) \/ Walk(j)
  BY <1>1, <1>2, ReadsLeave DEF Bystander
<1>3. CASE Purge(j)
  BY <1>1, <1>3 DEF Purge, Goto, TypeOK, Bystander
<1>4. CASE IssueInvitation(j) \/ FlipExpired(j) \/ RevokeInvitation(j)
  BY <1>1, <1>4 DEF IssueInvitation, FlipExpired, RevokeInvitation, Answer, Read, Done, Goto,
     TypeOK, Bystander
<1>5. ASSUME NEW read, NEW changed, DoneWith(j, read, changed)
      PROVE  Bystander(k)
  BY <1>1, <1>5 DEF DoneWith, Goto, TypeOK, Bystander
<1>6. CASE Answer(j)
  BY <1>1, <1>6 DEF Answer, Read, Goto, TypeOK, Bystander
<1>7. ASSUME Write(j), ~Answer(j), ~Purge(j),
             ~IssueInvitation(j), ~FlipExpired(j), ~RevokeInvitation(j)
      PROVE  \E read, changed : DoneWith(j, read, changed)
  BY <1>7 DEF Write, CreateOrganization, UpdateRole, RemoveMember, Transfer, Join,
     CloseOrganization
<1> QED
  BY <1>2, <1>3, <1>4, <1>5, <1>6, <1>7, HandlersSplit

LEMMA InvitesKeep ==
  ASSUME TypeOK, AllHeld, Stored, [Next]_vars
  PROVE  InvitesKept
<1>1. ASSUME invites' = invites PROVE InvitesKept
  BY <1>1 DEF InvitesKept
<1>e. ASSUME NEW t, invites' = Entering(t) PROVE InvitesKept
  BY <1>e DEF InvitesKept, Entering, TypeOK, Invitation
<1>2. ASSUME NEW j \in Jobs, IssueInvitation(j) PROVE InvitesKept
  BY <1>1, <1>2 DEF IssueInvitation, NextToken, Answer, Read, tables, InvitesKept, TypeOK
<1>3. ASSUME NEW j \in Jobs, FlipExpired(j) PROVE InvitesKept
  BY <1>1, <1>3 DEF FlipExpired, Answer, Read, tables, InvitesKept, TypeOK, Invitation
<1>4. ASSUME NEW j \in Jobs, RevokeInvitation(j) PROVE InvitesKept
  BY <1>1, <1>4 DEF RevokeInvitation, Answer, Read, tables, InvitesKept, TypeOK, Invitation
<1>5. ASSUME NEW j \in Jobs, Transfer(j) \/ Join(j) PROVE InvitesKept
  BY <1>1, <1>e, <1>5 DEF Transfer, Join, Answer, Read, tables
<1>6. ASSUME NEW j \in Jobs, CloseOrganization(j) PROVE InvitesKept
  <2>1. CASE Answer(j)
    BY <1>1, <2>1 DEF Answer, Read, tables
  <2>2. CASE ~Answer(j)
    <3> DEFINE my == job[j]
    <3>1. invites' = [t \in Tokens |->
               IF t = my.tok THEN Entering(t)[t]
               ELSE IF OnRecord(t) /\ invites[t].org = my.row.org
               THEN [invites[t] EXCEPT !.status = "gone"] ELSE invites[t]]
      BY <1>6, <2>2 DEF CloseOrganization
    <3>2. \A t \in Tokens : invites[t] \in Invitation
      BY DEF TypeOK
    <3>3. \A t \in Tokens : Entering(t)[t] = [invites[t] EXCEPT !.status = "accepted"]
      BY DEF Entering, TypeOK
    <3> QED
      BY <3>1, <3>2, <3>3 DEF InvitesKept, Invitation
  <2> QED
    BY <2>1, <2>2
<1>7. ASSUME NEW j \in Jobs, CreateOrganization(j) \/ UpdateRole(j) \/ RemoveMember(j) \/ Purge(j)
      PROVE InvitesKept
  BY <1>1, <1>7 DEF CreateOrganization, UpdateRole, RemoveMember, Purge, Answer, Read, tables
<1>8. ASSUME NEW t \in Tokens, TimePasses(t) PROVE InvitesKept
  BY <1>8 DEF TimePasses, InvitesKept, TypeOK, Invitation
<1>9. ASSUME NEW j \in Jobs, Request(j) \/ Walk(j) PROVE InvitesKept
  BY <1>1, <1>9, ReadsLeave DEF tables
<1> QED
  BY <1>1, <1>2, <1>3, <1>4, <1>5, <1>6, <1>7, <1>8, <1>9, HandlersSplit DEF Next, Write, vars

LEMMA OrgsKeep ==
  ASSUME TypeOK, [Next]_vars
  PROVE  OrgsKept
<1>1. ASSUME NEW j \in Jobs, CreateOrganization(j) PROVE OrgsKept
  BY <1>1 DEF CreateOrganization, NextOrg, Answer, Read, tables, OrgsKept, TypeOK
<1>2. ASSUME NEW j \in Jobs, Write(j), ~CreateOrganization(j) PROVE orgs' = orgs
  BY <1>2 DEF Write, IssueInvitation, FlipExpired, RevokeInvitation, UpdateRole, RemoveMember,
     Transfer, Join, Purge, CloseOrganization, Answer, Read, tables
<1>3. ASSUME NEW j \in Jobs, Request(j) \/ Walk(j) PROVE orgs' = orgs
  BY <1>3, ReadsLeave DEF tables
<1> QED
  BY <1>1, <1>2, <1>3, HandlersSplit DEF Next, TimePasses, vars, OrgsKept

LEMMA BystanderHolds ==
  ASSUME TypeOK, NEW k \in Jobs, Held(k), Bystander(k), InvitesKept, OrgsKept
  PROVE  Held(k)'
<1>1. /\ pc'[k] = pc[k]
      /\ job'[k].op = job[k].op /\ job'[k].num = job[k].num /\ job'[k].actor = job[k].actor
      /\ job'[k].row = job[k].row /\ job'[k].email = job[k].email
      /\ job'[k].tok = job[k].tok /\ job'[k].slug = job[k].slug
  BY HeldTyped DEF Bystander, Job
<1>2. Placed(k)'
  BY <1>1 DEF Held, Placed
<1>3. Filled(k)'
  BY <1>1 DEF Held, Filled, Placed, InvitesKept
<1>4. Bearing(k)'
  <2>1. job[k].row # NoUser => job[k].row.org \in Orgs
    BY HeldTyped DEF User
  <2> QED
    BY <1>1, <2>1 DEF Held, Bearing, InvitesKept, OrgsKept, Accepting, Invited
<1> QED
  BY <1>2, <1>3, <1>4 DEF Held

LEMMA EndHolds ==
  ASSUME NEW j \in Jobs, Ended(j)
  PROVE  Held(j)'
BY DEF Ended, Held, Placed, Filled, Bearing, Idle, Tenanted, Invited, Accepting, Creating

(* The session as a request leaves it.                                      *)
Began(j, step, op, actor, email, tok) ==
  LET my == job'[j] IN
  /\ pc'[j] = step /\ invites' = invites
  /\ my.op = op /\ my.actor = actor /\ my.email = email /\ my.tok = tok
  /\ my.row = NoUser /\ (op \in Creating => my.num # 0)

LEMMA StartBegins ==
  ASSUME TypeOK, NEW j \in Jobs, NEW request \in Job, NEW step, Start(j, request, step),
         request.row = NoUser
  PROVE  Began(j, step, request.op, request.actor, request.email, request.tok)
<1>1. /\ pc'[j] = step /\ invites' = invites
      /\ job'[j] = [request EXCEPT !.num =
            IF request.op \in Creating THEN issued + 1 ELSE 0]
  BY DEF Start, Goto, TypeOK, tables
<1>2. issued + 1 # 0
  BY DEF TypeOK
<1> QED
  BY <1>1, <1>2 DEF Began, Job

LEMMA TenantBegins ==
  ASSUME TypeOK, NEW j \in Jobs, NEW e \in Emails, NEW allowed, NEW request \in Job, NEW step,
         Tenant(j, e, allowed, request, step), request.row = NoUser
  PROVE  /\ users[e] \in User
         /\ Began(j, step, request.op, users[e], request.email, request.tok)
<1> DEFINE with == [request EXCEPT !.actor = users[e]]
<1>1. users[e] \in User
  BY DEF TypeOK, Tenant
<1>2. /\ with \in Job /\ with.row = NoUser /\ with.op = request.op /\ with.actor = users[e]
      /\ with.email = request.email /\ with.tok = request.tok
  BY <1>1 DEF Job
<1>3. Start(j, with, step)
  BY DEF Tenant
<1> HIDE DEF with
<1>4. Began(j, step, with.op, with.actor, with.email, with.tok)
  BY <1>2, <1>3, StartBegins
<1> QED
  BY <1>1, <1>2, <1>4

LEMMA RequestHolds ==
  ASSUME TypeOK, NEW j \in Jobs, Request(j)
  PROVE  Held(j)'
<1> USE DEF Held, Placed, Filled, Bearing, Tenanted, Invited, Accepting, Creating, Began
<1>2. ASSUME NEW e \in Emails, RequestRegister(j, e) PROVE Held(j)'
  <2> DEFINE r == [Idle EXCEPT !.op = "register", !.email = e]
  <2>1. /\ r \in Job /\ r.row = NoUser /\ r.op = "register" /\ r.actor = NoUser
        /\ r.email = e /\ r.tok = 0
    BY IdleTyped DEF Job, OpNames, Idle
  <2>2. Start(j, r, "slug")
    BY <1>2 DEF RequestRegister
  <2> HIDE DEF r
  <2>3. Began(j, "slug", r.op, r.actor, r.email, r.tok)
    BY <2>1, <2>2, StartBegins
  <2> QED
    BY <2>1, <2>3
<1>4. ASSUME NEW e \in Emails, RequestList(j, e) PROVE Held(j)'
  <2> DEFINE r == [Idle EXCEPT !.op = "list"]
  <2>1. r \in Job /\ r.row = NoUser /\ r.op = "list" /\ r.email = None /\ r.tok = 0
    BY IdleTyped DEF Job, OpNames, Idle
  <2>2. Tenant(j, e, {OWNER, ADMIN}, r, "list")
    BY <1>4 DEF RequestList
  <2> HIDE DEF r
  <2>3. users[e] \in User /\ Began(j, "list", r.op, users[e], r.email, r.tok)
    BY <2>1, <2>2, TenantBegins
  <2> QED
    BY <2>1, <2>3
<1>5. ASSUME NEW e \in Emails, NEW x \in Emails, RequestRemoval(j, e, x) PROVE Held(j)'
  <2> DEFINE r == [Idle EXCEPT !.op = "remove", !.email = x]
  <2>1. r \in Job /\ r.row = NoUser /\ r.op = "remove" /\ r.email = x /\ r.tok = 0
    BY IdleTyped DEF Job, OpNames, Idle
  <2>2. Tenant(j, e, {OWNER, ADMIN}, r, "target")
    BY <1>5 DEF RequestRemoval
  <2> HIDE DEF r
  <2>3. users[e] \in User /\ Began(j, "target", r.op, users[e], r.email, r.tok)
    BY <2>1, <2>2, TenantBegins
  <2> QED
    BY <2>1, <2>3
<1>6. ASSUME NEW e \in Emails, NEW x \in Emails, NEW o \in Roles, RequestInvite(j, e, x, o)
      PROVE  Held(j)'
  <2> DEFINE r == [Idle EXCEPT !.op = "invite", !.email = x, !.role = o]
  <2>1. r \in Job /\ r.row = NoUser /\ r.op = "invite" /\ r.email = x /\ r.tok = 0
    BY IdleTyped, RolesAreRoles DEF Job, OpNames, Idle
  <2>2. Tenant(j, e, {OWNER, ADMIN}, r, "classify")
    BY <1>6 DEF RequestInvite
  <2> HIDE DEF r
  <2>3. users[e] \in User /\ Began(j, "classify", r.op, users[e], r.email, r.tok)
    BY <2>1, <2>2, TenantBegins
  <2> QED
    BY <2>1, <2>3
<1>7. ASSUME NEW e \in Emails, NEW x \in Emails, NEW o \in Roles, RequestRole(j, e, x, o)
      PROVE  Held(j)'
  <2> DEFINE r == [Idle EXCEPT !.op = "set_role", !.email = x, !.role = o]
  <2>1. r \in Job /\ r.row = NoUser /\ r.op = "set_role" /\ r.email = x /\ r.tok = 0
    BY IdleTyped, RolesAreRoles DEF Job, OpNames, Idle
  <2>2. Tenant(j, e, {OWNER}, r, "target")
    BY <1>7 DEF RequestRole
  <2> HIDE DEF r
  <2>3. users[e] \in User /\ Began(j, "target", r.op, users[e], r.email, r.tok)
    BY <2>1, <2>2, TenantBegins
  <2> QED
    BY <2>1, <2>3
<1>8. ASSUME NEW e \in Emails, NEW t \in Tokens, RequestRevoke(j, e, t) PROVE Held(j)'
  <2> DEFINE r == [Idle EXCEPT !.op = "revoke", !.tok = t]
  <2>1. r \in Job /\ r.row = NoUser /\ r.op = "revoke" /\ r.email = None /\ r.tok = t
    BY IdleTyped DEF Job, OpNames, Idle
  <2>2. Tenant(j, e, {OWNER, ADMIN}, r, "invitation")
    BY <1>8 DEF RequestRevoke
  <2> HIDE DEF r
  <2>3. users[e] \in User /\ Began(j, "invitation", r.op, users[e], r.email, r.tok)
    BY <2>1, <2>2, TenantBegins
  <2> QED
    BY <2>1, <2>3
<1>9. ASSUME NEW t \in Tokens, NEW op \in Invited, RequestInvitation(j, op, t)
      PROVE  Held(j)'
  <2> DEFINE r == [Idle EXCEPT !.op = op, !.toks = {t}]
             q == [Idle EXCEPT !.op = op, !.tok = t]
  <2>1. /\ r \in Job /\ r.row = NoUser /\ r.op = op /\ r.actor = NoUser
        /\ q \in Job /\ q.row = NoUser /\ q.op = op /\ q.actor = NoUser /\ q.tok = t
    BY IdleTyped DEF Job, OpNames, Idle
  <2>2. /\ Start(j, r, "flip") \/ Start(j, q, "account")
        /\ invites[t].status # "none"
    BY <1>9 DEF RequestInvitation
  <2> HIDE DEF r, q
  <2>3. \/ Began(j, "flip", r.op, r.actor, r.email, r.tok)
        \/ Began(j, "account", q.op, q.actor, q.email, q.tok)
    BY <2>1, <2>2, StartBegins
  <2> QED
    BY <2>1, <2>2, <2>3
<1> QED
  BY <1>2, <1>4, <1>5, <1>6, <1>7, <1>8, <1>9 DEF Request

LEMMA WalkHolds ==
  ASSUME TypeOK, AllHeld, Stored, NEW j \in Jobs, Walk(j)
  PROVE  Held(j)'
<1> DEFINE my == job[j]
<1>h. Held(j)
  BY DEF AllHeld
<1>r. ASSUME NEW step, NEW copy, Read(j, step, copy)
      PROVE  pc'[j] = step /\ job'[j] = copy /\ invites' = invites /\ orgs' = orgs
  BY <1>r DEF Read, Goto, TypeOK, tables
<1>a. CASE Answer(j)
  BY <1>a, <1>r, EndHolds DEF Answer, Ended
<1> USE DEF Placed, Filled, Bearing, Invited, Accepting, Creating, Tenanted
<1>1. CASE PickSlug(j)
  <2>1. PICK n \in 1..(Cardinality(Orgs) + 1) : Read(j, "create", [my EXCEPT !.slug = n])
    BY <1>1 DEF PickSlug
  <2>2. n # 0
    BY OrgsAreFinite, FS_CardinalityType
  <2>3. /\ pc[j] = "slug" /\ pc'[j] = "create" /\ job'[j].slug # 0 /\ invites' = invites
        /\ job'[j].op = my.op /\ job'[j].row = my.row /\ job'[j].email = my.email
        /\ job'[j].num = my.num
    BY <1>1, <2>1, <2>2, <1>r, HeldTyped DEF PickSlug, Job
  <2> QED
    BY <1>h, <2>3 DEF Held
<1>2. CASE ClassifyInvite(j) /\ ~Answer(j)
  BY <1>h, <1>r, <1>2 DEF ClassifyInvite, Held
<1>3. CASE ListPending(j) /\ ~Answer(j)
  <2>1. PICK S \in SUBSET Tokens : Read(j, "flip", [my EXCEPT !.toks = S])
    BY <1>3 DEF ListPending
  <2>3. /\ pc[j] = "list" /\ pc'[j] = "flip" /\ invites' = invites
        /\ job'[j].op = my.op /\ job'[j].row = my.row /\ job'[j].actor = my.actor
    BY <1>3, <2>1, <1>r, HeldTyped DEF ListPending, Job
  <2> QED
    BY <1>h, <2>3 DEF Held
<1>4. CASE FindInvitation(j) /\ ~Answer(j)
  BY <1>h, <1>r, <1>4 DEF FindInvitation, OnRecord, Held
<1>5. CASE FindMember(j) /\ ~Answer(j)
  <2> DEFINE x == users[my.email]
  <2>1. my.email \in Emails /\ my.actor \in User /\ my.op \in {"set_role", "remove"}
    BY <1>5, <1>h DEF FindMember, Held
  <2>2. x # NoUser /\ x.org = my.actor.org
        /\ \E step \in {"owners", "write"} : Read(j, step, [my EXCEPT !.row = x])
    BY <1>5 DEF FindMember
  <2>3. x \in User /\ x.email = my.email /\ x.id # 0
    BY <2>1, <2>2 DEF TypeOK, Stored
  <2>4. /\ pc'[j] \in {"owners", "write"} /\ invites' = invites
        /\ job'[j].op = my.op /\ job'[j].row = x /\ job'[j].actor = my.actor
        /\ job'[j].email = my.email
    BY <2>2, <2>3, <1>r, HeldTyped DEF Job
  <2> QED
    BY <2>1, <2>2, <2>3, <2>4, NobodyIsNoUser DEF Held
<1>6. CASE CountOwners(j) /\ ~Answer(j)
  BY <1>h, <1>r, <1>6 DEF CountOwners, Held
<1>7. CASE PreviewInvitation(j)
  BY <1>a, <1>7 DEF PreviewInvitation
<1>8. CASE FindAccount(j) /\ ~Answer(j)
  <2> DEFINE to == invites[my.tok]
             x  == users[to.email]
             at == [my EXCEPT !.row = x, !.email = to.email, !.stale = {}]
  <2>1. my.tok \in Tokens /\ to.status # "none" /\ my.op \in Accepting /\ my.num # 0
    BY <1>8, <1>h DEF FindAccount, Held
  <2>2. to.email \in Emails
    BY <2>1 DEF TypeOK, Invitation
  <2>3. x \in User \cup {NoUser} /\ (x # NoUser => x.email = to.email /\ x.id # 0)
    BY <2>2 DEF TypeOK, Stored
  <2>4. PICK step \in {"write", "alone"} :
          /\ Read(j, step, at)
          /\ step = "write" => x = NoUser /\ my.op = "accept"
          /\ step = "alone" => x # NoUser /\ x.org # to.org
    BY <1>8 DEF FindAccount
  <2>5. /\ pc'[j] = step /\ invites' = invites
        /\ job'[j].op = my.op /\ job'[j].row = x /\ job'[j].email = to.email
        /\ job'[j].tok = my.tok /\ job'[j].num = my.num
    <3>1. at.op = my.op /\ at.row = x /\ at.email = to.email /\ at.tok = my.tok /\ at.num = my.num
      BY HeldTyped DEF Job
    <3> HIDE DEF at
    <3> QED
      BY <2>4, <3>1, <1>r
  <2> QED
    BY <2>1, <2>2, <2>3, <2>4, <2>5 DEF Held
<1>9. CASE CountMembers(j) /\ ~Answer(j)
  BY <1>h, <1>r, <1>9 DEF CountMembers, Open, Held
<1>10. CASE BreakOff(j)
  BY <1>10, EndHolds DEF BreakOff, Goto, TypeOK, Ended, tables
<1> QED
  BY <1>a, <1>10, <1>1, <1>2, <1>3, <1>4, <1>5, <1>6, <1>7, <1>8, <1>9 DEF Walk

LEMMA StepHolds ==
  ASSUME TypeOK, AllHeld, Stored, [Next]_vars
  PROVE  AllHeld'
<1>1. InvitesKept /\ OrgsKept
  BY InvitesKeep, OrgsKeep
<1>2. ASSUME NEW j \in Jobs, Request(j) \/ Handle(j) PROVE AllHeld'
  <2>1. \A k \in Jobs : k # j => Held(k)'
    BY <1>1, <1>2, OthersStandBy, BystanderHolds DEF AllHeld
  <2>2. ASSUME Purge(j) PROVE Held(j)'
    <3>1. /\ pc[j] = "purge" /\ pc'[j] = "write" /\ job'[j] = job[j]
          /\ invites' = invites /\ orgs' = orgs
      BY <2>2 DEF Purge, Goto, TypeOK
    <3>2. Held(j)
      BY DEF AllHeld
    <3> QED
      BY <3>1, <3>2 DEF Held, Placed, Filled, Bearing, Accepting, Invited
  <2>3. Held(j)'
    BY <1>2, <2>2, RequestHolds, HandlersSplit, WalkHolds, WritesEnd, EndHolds
  <2> QED
    BY <2>1, <2>3 DEF AllHeld
<1>3. ASSUME UNCHANGED <<pc, job>> PROVE AllHeld'
  <2>1. \A k \in Jobs : Bystander(k)
    <3>1. \A k \in Jobs : job[k] = [job[k] EXCEPT !.stale = @ \cup {}]
      BY HeldTyped DEF Job
    <3> QED
      BY <1>3, <3>1 DEF Bystander
  <2> QED
    BY <1>1, <2>1, BystanderHolds DEF AllHeld
<1> QED
  BY <1>2, <1>3 DEF Next, TimePasses, vars

-----------------------------------------------------------------------------
(* What a step makes of an account *)

(* An account stays, goes, is created with its organization, has its role   *)
(* set, is moved or comes in.                                               *)
Founded(j, e, o) ==
  /\ CreateOrganization(j) /\ e = job[j].email /\ users[e] = NoUser
  /\ o \in NextOrg /\ orgs' = [orgs EXCEPT ![o] = job[j].slug] /\ job[j].slug # 0
  /\ users'[e] = [email |-> e, id |-> job[j].num, org |-> o, role |-> OWNER, via |-> 0]
  /\ job[j].num # 0

RoleSet(j, e) ==
  /\ UpdateRole(j) /\ e = job[j].row.email /\ users[e] \in User
  /\ users'[e] = [users[e] EXCEPT !.role = job[j].role]

Carried(j, e) ==
  /\ Transfer(j) /\ e = job[j].email /\ users[e] \in User
  /\ users'[e] = Moved(job[j].row, users[e], job[j].tok)
  /\ Open(invites[job[j].tok].org) /\ job[j].tok \in Tokens

CameIn(j, e) ==
  /\ Join(j) \/ CloseOrganization(j)
  /\ e = job[j].email /\ job[j].num # 0 /\ job[j].tok \in Tokens
  /\ users'[e] = NewAccount(j, job[j].tok) /\ e = invites[job[j].tok].email
  /\ Open(invites[job[j].tok].org)

LEMMA AccountStep ==
  ASSUME TypeOK, AllHeld, Stored, NEW j \in Jobs, Request(j) \/ Handle(j), NEW e \in Emails
  PROVE  \/ users'[e] = users[e]
         \/ users'[e] = NoUser /\ (RemoveMember(j) \/ CloseOrganization(j))
         \/ \E o \in Orgs : Founded(j, e, o)
         \/ RoleSet(j, e) \/ Carried(j, e) \/ CameIn(j, e)
<1> DEFINE my == job[j]
<1>h. Held(j)
  BY DEF AllHeld
<1>a. CASE Answer(j) \/ Request(j) \/ Walk(j)
  BY <1>a, ReadsLeave DEF Answer, Read, tables
<1>1. CASE CreateOrganization(j) /\ ~Answer(j)
  <2>1. PICK o \in NextOrg :
          /\ orgs' = [orgs EXCEPT ![o] = my.slug]
          /\ users' = [users EXCEPT ![my.email] =
               [email |-> my.email, id |-> my.num, org |-> o, role |-> OWNER, via |-> 0]]
    BY <1>1 DEF CreateOrganization
  <2>2. o \in Orgs /\ my.num # 0 /\ my.slug # 0 /\ users[my.email] = NoUser
    BY <1>1, <2>1, <1>h DEF NextOrg, CreateOrganization, Held, Placed, Filled, Creating
  <2> QED
    BY <1>1, <2>1, <2>2 DEF Founded, TypeOK
<1>2. CASE UpdateRole(j) /\ ~Answer(j)
  <2>1. my.row \in User /\ my.row.id # 0 /\ Lives(my.row)
    BY <1>2, <1>h, NobodyIsNoUser DEF UpdateRole, Held, Filled
  <2>2. users[my.row.email] \in User
    BY <2>1, LivingIsUser
  <2> QED
    BY <1>2, <2>2 DEF UpdateRole, RoleSet, TypeOK
<1>3. CASE RemoveMember(j) /\ ~Answer(j)
  BY <1>3 DEF RemoveMember, TypeOK
<1>4. CASE Transfer(j) /\ ~Answer(j)
  <2>1. /\ my.tok \in Tokens /\ my.row \in User /\ my.row.id # 0 /\ Lives(my.row)
        /\ my.row.email = my.email
    BY <1>4, <1>h, HeldTyped DEF Transfer, Held, Filled, Bearing, Invited, Accepting
  <2>2. users[my.email] \in User
    BY <2>1, LivingIsUser
  <2> QED
    BY <1>4, <2>1, <2>2 DEF Transfer, Carried, TypeOK
<1>5. CASE Join(j) /\ ~Answer(j)
  <2>1. /\ my.tok \in Tokens /\ my.num # 0 /\ my.email = invites[my.tok].email
    BY <1>5, <1>h DEF Join, Held, Filled, Bearing, Invited, Accepting, Creating
  <2> QED
    BY <1>5, <2>1 DEF Join, CameIn, TypeOK
<1>6. CASE CloseOrganization(j) /\ ~Answer(j)
  <2>1. /\ my.tok \in Tokens /\ my.num # 0 /\ my.email = invites[my.tok].email
    BY <1>6, <1>h DEF CloseOrganization, Held, Filled, Bearing, Invited, Accepting, Creating
  <2> QED
    BY <1>6, <2>1 DEF CloseOrganization, CameIn
<1>7. CASE IssueInvitation(j) \/ FlipExpired(j) \/ RevokeInvitation(j) \/ Purge(j)
  BY <1>7, <1>a DEF IssueInvitation, FlipExpired, RevokeInvitation, Purge
<1> QED
  BY <1>a, <1>1, <1>2, <1>3, <1>4, <1>5, <1>6, <1>7, HandlersSplit DEF Write

LEMMA ClosedStep ==
  ASSUME TypeOK, AllHeld, Stored, NEW j \in Jobs, Request(j) \/ Handle(j)
  PROVE  \/ closed' = closed
         \/ /\ CloseOrganization(j) /\ closed' = closed \cup {job[j].row.org}
            /\ job[j].row \in User /\ orgs[job[j].row.org] # 0
            /\ \A e \in Emails : users'[e] \in {users[e], NoUser} \/ CameIn(j, e)
            /\ \A e \in Emails : users'[e] = users[e] /\ users[e] # NoUser /\ ~CameIn(j, e) =>
                 users[e].org # job[j].row.org
            /\ invites[job[j].tok].org # job[j].row.org
<1> DEFINE my == job[j]
<1>h. Held(j)
  BY DEF AllHeld
<1>a. CASE Answer(j) \/ Request(j) \/ Walk(j)
  BY <1>a, ReadsLeave DEF Answer, Read, tables
<1>1. CASE CloseOrganization(j) /\ ~Answer(j)
  <2>1. /\ my.tok \in Tokens /\ my.num # 0 /\ my.email = invites[my.tok].email
        /\ my.row \in User /\ orgs[my.row.org] # 0 /\ my.row.org # invites[my.tok].org
    BY <1>1, <1>h, HeldTyped
    DEF CloseOrganization, Held, Filled, Bearing, Invited, Accepting, Creating
  <2>2. CameIn(j, my.email)
    BY <1>1, <2>1 DEF CloseOrganization, CameIn, TypeOK, Invitation
  <2>3. \A e \in Emails : e # my.email =>
          users'[e] = IF LeftByDeletion(e, my.row) THEN users[e] ELSE NoUser
    BY <1>1 DEF CloseOrganization
  <2> QED
    BY <1>1, <2>1, <2>2, <2>3 DEF CloseOrganization, LeftByDeletion
<1>2. CASE Write(j) /\ ~CloseOrganization(j)
  BY <1>2 DEF Write, CreateOrganization, IssueInvitation, FlipExpired, RevokeInvitation,
     UpdateRole, RemoveMember, Transfer, Join, Purge, Answer, Read, Done, DoneWith, tables
<1> QED
  BY <1>a, <1>1, <1>2, HandlersSplit

LEMMA StepStored ==
  ASSUME TypeOK, AllHeld, Stored, [Next]_vars
  PROVE  Stored'
<1>0. InvitesKept /\ OrgsKept /\ TypeOK'
  BY InvitesKeep, OrgsKeep, StepTyped
<1> DEFINE Sound(e) ==
      users[e] # NoUser =>
        /\ users[e].email = e /\ users[e].id # 0
        /\ users[e].via \in Tokens =>
             invites[users[e].via].status # "none" /\ invites[users[e].via].org = users[e].org
<1>1. ASSUME NEW j \in Jobs, Request(j) \/ Handle(j), NEW e \in Emails PROVE Sound(e)'
  <2>0. Sound(e) /\ users[e] \in User \cup {NoUser}
    BY DEF Stored, TypeOK
  <2>i. invites' \in [Tokens -> Invitation]
    BY <1>0 DEF TypeOK
  <2>1. CASE users'[e] \in {users[e], NoUser}
    BY <1>0, <2>0, <2>1 DEF InvitesKept
  <2>2. ASSUME NEW o \in Orgs, Founded(j, e, o) PROVE Sound(e)'
    BY <2>2, IdsArePositive DEF Founded
  <2>3. CASE RoleSet(j, e)
    <3>1. /\ users'[e].email = users[e].email /\ users'[e].id = users[e].id
          /\ users'[e].via = users[e].via /\ users'[e].org = users[e].org /\ users[e] # NoUser
      BY <2>3, NobodyIsNoUser DEF RoleSet, User
    <3> QED
      BY <1>0, <2>0, <3>1 DEF InvitesKept
  <2>4. CASE Carried(j, e)
    <3>1. /\ users'[e].email = users[e].email /\ users'[e].id = users[e].id
          /\ users'[e].via = job[j].tok /\ users'[e].org = invites[job[j].tok].org
          /\ users[e] # NoUser /\ job[j].tok \in Tokens
      BY <2>4, NobodyIsNoUser DEF Carried, Moved, User
    <3>2. invites[job[j].tok].status # "none"
      BY <2>4 DEF Carried, Transfer, AllHeld, Held, Bearing, Invited, Accepting
    <3> QED
      BY <1>0, <2>0, <3>1, <3>2 DEF InvitesKept
  <2>5. CASE CameIn(j, e)
    <3>1. /\ users'[e].email = e /\ users'[e].id = job[j].num /\ job[j].num # 0
          /\ users'[e].via = job[j].tok /\ users'[e].org = invites[job[j].tok].org
          /\ job[j].tok \in Tokens
      BY <2>5 DEF CameIn, NewAccount
    <3>2. invites[job[j].tok].status # "none"
      BY <2>5 DEF CameIn, Join, CloseOrganization, AllHeld, Held, Bearing, Invited, Accepting
    <3> QED
      BY <1>0, <3>1, <3>2 DEF InvitesKept
  <2> QED
    BY <1>1, <2>1, <2>2, <2>3, <2>4, <2>5, AccountStep
<1>2. ASSUME NEW j \in Jobs, Request(j) \/ Handle(j)
      PROVE  closed' \subseteq {o \in Orgs : orgs'[o] # 0}
  <2>1. closed' \subseteq {o \in Orgs : orgs[o] # 0}
    BY <1>2, ClosedStep DEF Stored, User
  <2> QED
    BY <1>0, <2>1 DEF OrgsKept
<1>3. ASSUME UNCHANGED <<users, orgs, closed>> PROVE Stored'
  BY <1>0, <1>3 DEF Stored, InvitesKept
<1>4. ASSUME NEW j \in Jobs, Request(j) \/ Handle(j) PROVE Stored'
  BY <1>1, <1>2, <1>4 DEF Stored
<1> QED
  BY <1>3, <1>4 DEF Next, TimePasses, vars

LEMMA StepMembers ==
  ASSUME TypeOK, AllHeld, Stored, MembersHaveOrganization, [Next]_vars
  PROVE  MembersHaveOrganization'
<1> DEFINE Housed(e) == users[e] # NoUser => Open(users[e].org)
<1>1. ASSUME NEW j \in Jobs, Request(j) \/ Handle(j), NEW e \in Emails
      PROVE  Housed(e)'
  <2>0. OrgsKept /\ users[e] \in User \cup {NoUser}
    BY OrgsKeep DEF Next, TypeOK
  <2>1. CASE closed' = closed
    <3>1. \A o \in Orgs : Open(o) => Open(o)'
      BY <2>0, <2>1 DEF Open, OrgsKept
    <3>2. CASE users'[e] = users[e]
      BY <1>1, <2>0, <3>1, <3>2, NobodyIsNoUser DEF MembersHaveOrganization, User
    <3>3. ASSUME NEW o \in Orgs, Founded(j, e, o) PROVE Housed(e)'
      <4>1. orgs'[o] # 0 /\ o \notin closed /\ users'[e].org = o
        BY <3>3 DEF Founded, NextOrg, Stored, TypeOK
      <4> QED
        BY <2>1, <4>1 DEF Open
    <3>4. CASE RoleSet(j, e)
      <4>1. users'[e].org = users[e].org /\ users[e] # NoUser /\ users[e].org \in Orgs
        BY <3>4, NobodyIsNoUser DEF RoleSet, User
      <4> QED
        BY <3>1, <4>1 DEF MembersHaveOrganization
    <3>5. CASE Carried(j, e) \/ CameIn(j, e)
      <4>1. /\ users'[e].org = invites[job[j].tok].org /\ Open(invites[job[j].tok].org)
            /\ job[j].tok \in Tokens
        <5>1. CASE Carried(j, e)
          BY <5>1 DEF Carried, Moved, User
        <5>2. CASE CameIn(j, e)
          BY <5>2 DEF CameIn, NewAccount
        <5> QED
          BY <3>5, <5>1, <5>2
      <4> QED
        BY <3>1, <4>1 DEF TypeOK, Invitation
    <3> QED
      BY <1>1, <3>2, <3>3, <3>4, <3>5, AccountStep
  <2>2. CASE closed' # closed
    <3> DEFINE old == job[j].row.org
    <3>1. /\ closed' = closed \cup {old} /\ invites[job[j].tok].org # old
          /\ users'[e] \in {users[e], NoUser} \/ CameIn(j, e)
          /\ users'[e] = users[e] /\ users[e] # NoUser /\ ~CameIn(j, e) => users[e].org # old
      BY <1>1, <2>2, ClosedStep
    <3>2. \A o \in Orgs : Open(o) /\ o # old => Open(o)'
      BY <2>0, <3>1 DEF Open, OrgsKept
    <3>3. CASE CameIn(j, e)
      <4>1. /\ users'[e].org = invites[job[j].tok].org /\ Open(invites[job[j].tok].org)
            /\ job[j].tok \in Tokens
        BY <3>3 DEF CameIn, NewAccount
      <4> QED
        BY <3>1, <3>2, <4>1 DEF TypeOK, Invitation
    <3>4. CASE ~CameIn(j, e)
      BY <1>1, <2>0, <3>1, <3>2, <3>4 DEF MembersHaveOrganization, User
    <3> QED
      BY <3>3, <3>4
  <2> QED
    BY <2>1, <2>2
<1>2. ASSUME UNCHANGED <<users, orgs, closed>> PROVE MembersHaveOrganization'
  BY <1>2 DEF MembersHaveOrganization, Open
<1>3. ASSUME NEW j \in Jobs, Request(j) \/ Handle(j) PROVE MembersHaveOrganization'
  BY <1>1, <1>3 DEF MembersHaveOrganization
<1> QED
  BY <1>2, <1>3 DEF Next, TimePasses, vars

-----------------------------------------------------------------------------
(* Copies, and who hears of a change *)

(* A handler that changes accounts names the organizations they were in and *)
(* those they are in then.                                                  *)
Covers(changed) ==
  \A e \in Emails : users'[e] # users[e] =>
    /\ users[e] # NoUser => users[e].org \in changed
    /\ users'[e] # NoUser => users'[e].org \in changed

LEMMA ChangesAreTold ==
  ASSUME TypeOK, AllHeld, Stored, NEW j \in Jobs, Request(j) \/ Handle(j)
  PROVE  \/ users' = users
         \/ \E changed :
              /\ Covers(changed)
              /\ \/ (CreateOrganization(j) \/ Join(j)) /\ DoneWith(j, {}, changed)
                 \/ (UpdateRole(j) \/ RemoveMember(j) \/ Transfer(j) \/ CloseOrganization(j))
                      /\ job[j].row \in User /\ DoneWith(j, {job[j].row.org}, changed)
<1> DEFINE my == job[j]
<1>h. Held(j) /\ \A e \in Emails : users[e] \in User \cup {NoUser}
  BY DEF AllHeld, TypeOK
<1>a. CASE Answer(j) \/ Request(j) \/ Walk(j)
  BY <1>a, ReadsLeave DEF Answer, Read, tables
<1>1. CASE CreateOrganization(j) /\ ~Answer(j)
  <2>1. PICK o \in NextOrg :
          /\ users' = [users EXCEPT ![my.email] =
               [email |-> my.email, id |-> my.num, org |-> o, role |-> OWNER, via |-> 0]]
          /\ DoneWith(j, {}, {o})
    BY <1>1 DEF CreateOrganization
  <2>2. users[my.email] = NoUser
    BY <1>1 DEF CreateOrganization
  <2>3. Covers({o})
    BY <2>1, <2>2 DEF Covers, TypeOK
  <2> QED
    BY <1>1, <2>1, <2>3
<1>2. CASE UpdateRole(j) /\ ~Answer(j)
  <2>1. my.row \in User /\ my.row.id # 0 /\ Lives(my.row)
    BY <1>2, <1>h, NobodyIsNoUser DEF UpdateRole, Held, Filled
  <2>2. users[my.row.email] \in User
    BY <2>1, LivingIsUser
  <2>3. [users[my.row.email] EXCEPT !.role = my.role].org = users[my.row.email].org
    BY <2>2 DEF User
  <2>4. Covers({users[my.row.email].org})
    BY <1>2, <2>2, <2>3 DEF UpdateRole, Covers, TypeOK
  <2> QED
    BY <1>2, <2>1, <2>4 DEF UpdateRole
<1>3. CASE RemoveMember(j) /\ ~Answer(j)
  <2>1. my.row \in User
    BY <1>3, <1>h DEF RemoveMember, Held, Filled
  <2>2. Covers({users[my.row.email].org})
    BY <1>3 DEF RemoveMember, Covers, TypeOK
  <2> QED
    BY <1>3, <2>1, <2>2 DEF RemoveMember
<1>4. CASE Transfer(j) /\ ~Answer(j)
  <2>1. /\ my.row \in User /\ my.row.id # 0 /\ Lives(my.row) /\ my.row.email = my.email
    BY <1>4, <1>h, HeldTyped DEF Transfer, Held, Filled, Bearing, Accepting
  <2>2. users[my.email] \in User
    BY <2>1, LivingIsUser
  <2>3. Moved(my.row, users[my.email], my.tok).org = invites[my.tok].org
    BY <2>2 DEF Moved, User
  <2>4. Covers({users[my.email].org, invites[my.tok].org})
    BY <1>4, <2>3 DEF Transfer, Covers, TypeOK
  <2> QED
    BY <1>4, <2>1, <2>4 DEF Transfer
<1>5. CASE Join(j) /\ ~Answer(j)
  <2>1. Covers({invites[my.tok].org})
    BY <1>5 DEF Join, Covers, NewAccount, TypeOK
  <2> QED
    BY <1>5, <2>1 DEF Join
<1>6. CASE CloseOrganization(j) /\ ~Answer(j)
  <2> DEFINE old == my.row.org
             to  == invites[my.tok].org
             changed == {old, to} \cup (IF Lives(my.row) THEN {users[my.email].org} ELSE {})
  <2>1. my.row \in User /\ my.row.email = my.email
    BY <1>6, <1>h, HeldTyped DEF CloseOrganization, Held, Bearing, Accepting
  <2>2. ASSUME NEW e \in Emails, users'[e] # users[e]
        PROVE  /\ users[e] # NoUser => users[e].org \in changed
               /\ users'[e] # NoUser => users'[e].org \in changed
    <3>1. CASE e = my.email
      <4>1. users'[e].org = to
        BY <1>6, <3>1 DEF CloseOrganization, NewAccount
      <4>2. users[e] = NoUser \/ ~LeftByDeletion(e, my.row)
        BY <1>6, <3>1 DEF CloseOrganization
      <4> QED
        BY <2>1, <3>1, <4>1, <4>2 DEF LeftByDeletion
    <3>2. CASE e # my.email
      <4>1. users'[e] = IF LeftByDeletion(e, my.row) THEN users[e] ELSE NoUser
        BY <1>6, <3>2 DEF CloseOrganization
      <4> QED
        BY <2>1, <2>2, <3>2, <4>1 DEF LeftByDeletion
    <3> QED
      BY <3>1, <3>2
  <2>3. Covers(changed)
    BY <2>2 DEF Covers
  <2> QED
    BY <1>6, <2>1, <2>3 DEF CloseOrganization
<1>7. CASE IssueInvitation(j) \/ FlipExpired(j) \/ RevokeInvitation(j) \/ Purge(j)
  BY <1>7, <1>a DEF IssueInvitation, FlipExpired, RevokeInvitation, Purge
<1> QED
  BY <1>a, <1>1, <1>2, <1>3, <1>4, <1>5, <1>6, <1>7, HandlersSplit DEF Write

(* A copy of an account whose organization has not changed since is the     *)
(* account; the owners, and the members, counted then are there still.      *)
Acted == {"set_role", "remove", "accept"}

Current(j) ==
  LET my == job[j] IN
  pc[j] \in {"alone", "purge", "owners", "write"} /\ my.row # NoUser
    /\ my.row.org \notin my.stale => users[my.row.email] = my.row

Backed(j) ==
  LET my == job[j] IN
  pc[j] = "write" /\ my.op \in Acted /\ my.row # NoUser /\ my.row.role = OWNER
    /\ (my.op = "set_role" => my.role # OWNER) /\ my.row.org \notin my.stale =>
      \E x \in Owners(my.row.org) : x # my.row.email

Lone(j) ==
  LET my == job[j] IN
  pc[j] \in {"purge", "write"} /\ my.op = "accept_with_deletion"
    /\ my.row.org \notin my.stale => Members(my.row.org) \subseteq {my.row.email}

Decided(j) == Current(j) /\ Backed(j) /\ Lone(j)

AllDecided == \A j \in Jobs : Decided(j)

LEMMA BystanderDecided ==
  ASSUME TypeOK, AllHeld, Stored, NEW j \in Jobs, Request(j) \/ Handle(j),
         NEW k \in Jobs, k # j, Decided(k)
  PROVE  Decided(k)'
<1> DEFINE my == job[k]
           o  == my.row.org
<1>1. PICK S : pc'[k] = pc[k] /\ job'[k] = [my EXCEPT !.stale = @ \cup S]
  BY OthersStandBy DEF Bystander
<1>2. /\ job'[k].op = my.op /\ job'[k].row = my.row /\ job'[k].role = my.role
      /\ my.stale \subseteq job'[k].stale /\ my.row \in User \cup {NoUser}
  BY <1>1, HeldTyped DEF Job
<1>3. CASE pc[k] = "idle" \/ o \in job'[k].stale
  BY <1>1, <1>2, <1>3 DEF Decided, Current, Backed, Lone
<1>4. CASE pc[k] # "idle" /\ o \notin job'[k].stale
  <2>1. \A e \in Emails : users'[e] # users[e] =>
          /\ users[e] # NoUser => users[e].org # o
          /\ users'[e] # NoUser => users'[e].org # o
    <3>1. CASE users' = users
      BY <3>1
    <3>2. ASSUME NEW changed, NEW read, Covers(changed), DoneWith(j, read, changed)
          PROVE  \A e \in Emails : users'[e] # users[e] =>
                   /\ users[e] # NoUser => users[e].org # o
                   /\ users'[e] # NoUser => users'[e].org # o
      <4>1. job'[k].stale = my.stale \cup changed
        BY <1>4, <3>2, HeldTyped DEF DoneWith, Job
      <4> QED
        BY <1>4, <3>2, <4>1 DEF Covers
    <3> QED
      BY <3>1, <3>2, ChangesAreTold
  <2>2. Members(o)' = Members(o) /\ Owners(o)' = Owners(o)
    BY <1>1, <2>1 DEF Members, Owners
  <2> QED
    BY <1>1, <1>2, <1>4, <2>1, <2>2, NobodyIsNoUser
    DEF Decided, Current, Backed, Lone, User, Members, Owners
<1> QED
  BY <1>3, <1>4

LEMMA MembersAreFinite ==
  ASSUME NEW o
  PROVE  /\ IsFiniteSet(Members(o)) /\ IsFiniteSet(Owners(o))
BY PeopleAreFinite, FS_Subset DEF Members, Owners

LEMMA AnotherOwner ==
  ASSUME NEW o, NEW x, ~(Cardinality(Owners(o)) <= 1)
  PROVE  \E y \in Owners(o) : y # x
<1>1. IsFiniteSet(Owners(o)) /\ Cardinality(Owners(o)) \in Nat
  BY MembersAreFinite, FS_CardinalityType
<1>2. /\ IsFiniteSet(Owners(o) \ {x})
      /\ Cardinality(Owners(o) \ {x}) # 0
  BY <1>1, FS_RemoveElement
<1>3. Owners(o) \ {x} # {}
  BY <1>2, FS_EmptySet
<1> QED
  BY <1>3

LEMMA OnlyMember ==
  ASSUME NEW o, NEW x \in Members(o), Cardinality(Members(o)) = 1
  PROVE  Members(o) \subseteq {x}
<1>1. \E y : Members(o) = {y}
  BY MembersAreFinite, FS_Singleton
<1> QED
  BY <1>1

LEMMA WalkDecided ==
  ASSUME TypeOK, AllHeld, Stored, NEW j \in Jobs, Decided(j), Walk(j)
  PROVE  Decided(j)'
<1> DEFINE my == job[j]
<1>h. Held(j)
  BY DEF AllHeld
<1>r. ASSUME NEW step, NEW copy, Read(j, step, copy)
      PROVE  /\ pc'[j] = step /\ job'[j] = copy /\ users' = users
             /\ \A o : Members(o)' = Members(o) /\ Owners(o)' = Owners(o)
  BY <1>r DEF Read, Goto, TypeOK, tables, Members, Owners
<1> USE DEF Decided, Current, Backed, Lone, Acted
<1>a. CASE Answer(j)
  BY <1>a, <1>r DEF Answer
<1>b. ASSUME PickSlug(j) \/ ClassifyInvite(j) \/ ListPending(j) \/ FindInvitation(j)
               \/ PreviewInvitation(j)
      PROVE  pc'[j] \notin {"alone", "purge", "owners", "write"}
  BY <1>a, <1>b, <1>r
  DEF PickSlug, ClassifyInvite, ListPending, FindInvitation, PreviewInvitation, Answer
<1>1. CASE FindMember(j) /\ ~Answer(j)
  <2> DEFINE x  == users[my.email]
             at == [my EXCEPT !.row = x]
  <2>1. my.email \in Emails /\ my.op \in {"set_role", "remove"}
    BY <1>1, <1>h DEF FindMember, Held, Placed, Filled
  <2>2. /\ x # NoUser
        /\ \/ Read(j, "owners", at)
           \/ Read(j, "write", at) /\ (x.role # OWNER \/ (my.op = "set_role" /\ my.role = OWNER))
    BY <1>1, <2>1 DEF FindMember
  <2>3. x \in User /\ x.email = my.email
    BY <2>1, <2>2 DEF TypeOK, Stored
  <2>4. at.row = x /\ at.op = my.op /\ at.role = my.role
    BY <2>3, HeldTyped DEF Job
  <2> HIDE DEF at
  <2> QED
    BY <1>r, <2>1, <2>2, <2>3, <2>4
<1>2. CASE CountOwners(j) /\ ~Answer(j)
  <2>1. /\ pc[j] = "owners" /\ Read(j, "write", my)
        /\ ~(Cardinality(Owners(my.row.org)) <= 1)
    BY <1>2 DEF CountOwners
  <2>2. \E y \in Owners(my.row.org) : y # my.row.email
    BY <2>1, AnotherOwner
  <2>3. my.op # "accept_with_deletion"
    BY <2>1, <1>h DEF Held, Placed
  <2> QED
    BY <1>r, <2>1, <2>2, <2>3
<1>3. CASE FindAccount(j) /\ ~Answer(j)
  <2> DEFINE to == invites[my.tok]
             x  == users[to.email]
             at == [my EXCEPT !.row = x, !.email = to.email, !.stale = {}]
  <2>1. my.tok \in Tokens
    BY <1>3, <1>h DEF FindAccount, Held, Bearing, Invited
  <2>2. to.email \in Emails
    BY <2>1 DEF TypeOK, Invitation
  <2>3. x \in User \cup {NoUser} /\ (x # NoUser => x.email = to.email)
    BY <2>2 DEF TypeOK, Stored
  <2>4. \/ Read(j, "write", at) /\ x = NoUser /\ my.op = "accept"
        \/ Read(j, "alone", at) /\ x # NoUser
    BY <1>3 DEF FindAccount
  <2>5. at.row = x /\ at.op = my.op /\ at.role = my.role
    BY HeldTyped DEF Job
  <2> HIDE DEF at
  <2> QED
    BY <1>r, <2>3, <2>4, <2>5
<1>4. CASE CountMembers(j) /\ ~Answer(j)
  <2>1. /\ pc[j] = "alone" /\ my.row # NoUser
    BY <1>4, <1>h DEF CountMembers, Held, Bearing
  <2>2. \/ Read(j, "purge", my) /\ my.op = "accept_with_deletion"
             /\ Cardinality(Members(my.row.org)) = 1
        \/ Read(j, "owners", my) /\ my.op # "accept_with_deletion"
        \/ Read(j, "write", my) /\ my.op # "accept_with_deletion" /\ my.row.role # OWNER
    BY <1>4 DEF CountMembers
  <2>3. ASSUME Cardinality(Members(my.row.org)) = 1, my.row.org \notin my.stale
        PROVE  Members(my.row.org) \subseteq {my.row.email}
    <3>1. my.row.email \in Members(my.row.org)
      BY <2>1, <2>3, HeldTyped DEF Members, User
    <3> QED
      BY <2>3, <3>1, OnlyMember
  <2> QED
    BY <1>r, <2>1, <2>2, <2>3
<1>5. CASE BreakOff(j)
  BY <1>5 DEF BreakOff, Goto, TypeOK
<1> QED
  BY <1>a, <1>b, <1>1, <1>2, <1>3, <1>4, <1>5 DEF Walk

LEMMA StepDecided ==
  ASSUME TypeOK, AllHeld, Stored, AllDecided, [Next]_vars
  PROVE  AllDecided'
<1>1. ASSUME NEW j \in Jobs, Request(j) \/ Handle(j) PROVE AllDecided'
  <2>1. \A k \in Jobs : k # j => Decided(k)'
    BY <1>1, BystanderDecided DEF AllDecided
  <2>2. Decided(j)
    BY DEF AllDecided
  <2>3. ASSUME Purge(j) PROVE Decided(j)'
    <3>1. /\ pc[j] = "purge" /\ pc'[j] = "write" /\ job'[j] = job[j] /\ users' = users
          /\ job[j].op = "accept_with_deletion"
      BY <2>3 DEF Purge, Goto, TypeOK, AllHeld, Held, Placed
    <3> QED
      BY <2>2, <3>1 DEF Decided, Current, Backed, Lone, Acted, Members, Owners
  <2>4. ASSUME Request(j) PROVE pc'[j] \notin {"alone", "purge", "owners", "write"}
    <3>1. ASSUME NEW request, NEW step, Start(j, request, step) PROVE pc'[j] = step
      BY <3>1 DEF Start, Goto, TypeOK
    <3> QED
      BY <2>4, <3>1 DEF Request, RequestRegister, RequestList, RequestRemoval, RequestInvite,
         RequestRole, RequestRevoke, RequestInvitation, Tenant
  <2>5. Decided(j)'
    BY <1>1, <2>2, <2>3, <2>4, HandlersSplit, WalkDecided, WritesEnd
    DEF Decided, Current, Backed, Lone, Ended
  <2> QED
    BY <2>1, <2>5 DEF AllDecided
<1>2. ASSUME UNCHANGED <<pc, job, users>> PROVE AllDecided'
  BY <1>2 DEF AllDecided, Decided, Current, Backed, Lone, Members, Owners
<1> QED
  BY <1>1, <1>2 DEF Next, TimePasses, vars

-----------------------------------------------------------------------------
(* The last owner *)

LEMMA RacedGrows ==
  ASSUME TypeOK, [Next]_vars
  PROVE  raced \subseteq raced'
<1>1. ASSUME NEW j \in Jobs, Request(j) \/ Walk(j) PROVE raced' = raced
  BY <1>1, ReadsLeave
<1>2. ASSUME NEW j \in Jobs, Write(j) PROVE raced \subseteq raced'
  BY <1>2 DEF Write, CreateOrganization, IssueInvitation, FlipExpired, RevokeInvitation,
     UpdateRole, RemoveMember, Transfer, Join, Purge, CloseOrganization, Answer, Read, Done,
     DoneWith, Races
<1> QED
  BY <1>1, <1>2, HandlersSplit DEF Next, TimePasses, vars

(* A handler that acts on a stale copy marks the organizations it changes.  *)
LEMMA StaleWritesAreMarked ==
  ASSUME TypeOK, AllHeld, Stored, NEW j \in Jobs, Request(j) \/ Handle(j),
         ~CreateOrganization(j), ~Join(j), users' # users,
         job[j].row.org \in job[j].stale, NEW e \in Emails, users'[e] # users[e]
  PROVE  /\ users[e] # NoUser => users[e].org \in raced'
         /\ users'[e] # NoUser => users'[e].org \in raced'
<1>1. PICK changed : Covers(changed) /\ DoneWith(j, {job[j].row.org}, changed)
  BY ChangesAreTold
<1>2. changed \subseteq raced'
  BY <1>1 DEF DoneWith, Races
<1> QED
  BY <1>1, <1>2 DEF Covers

LEMMA OwnersStep ==
  ASSUME TypeOK, AllHeld, Stored, MembersHaveOrganization, AllDecided, [Next]_vars,
         OwnerLossNeedsStaleRead
  PROVE  OwnerLossNeedsStaleRead'
<1> SUFFICES ASSUME NEW o \in Orgs, Open(o)', Owners(o)' = {} PROVE o \in raced'
  BY DEF OwnerLossNeedsStaleRead
<1>0. raced \subseteq raced'
  BY RacedGrows
<1>1. ASSUME UNCHANGED <<users, orgs, closed>> PROVE o \in raced'
  BY <1>0, <1>1 DEF OwnerLossNeedsStaleRead, Open, Owners, Members
<1>2. ASSUME NEW j \in Jobs, Request(j) \/ Handle(j) PROVE o \in raced'
  <2> DEFINE my == job[j]
  <2>h. Held(j) /\ Decided(j) /\ my.row \in User \cup {NoUser}
    BY HeldTyped DEF AllHeld, AllDecided
  <2>1. CASE ~Open(o)
    <3>1. o \notin closed /\ orgs'[o] # 0 /\ orgs[o] = 0
      BY <2>1, <1>2, ClosedStep DEF Open
    <3>2. orgs' # orgs
      BY <3>1
    <3>3. CreateOrganization(j) /\ ~Answer(j)
      BY <1>2, <3>2, ReadsLeave, HandlersSplit
      DEF Write, IssueInvitation, FlipExpired, RevokeInvitation, UpdateRole, RemoveMember,
          Transfer, Join, Purge, CloseOrganization, Answer, Read, tables
    <3>4. PICK p \in NextOrg :
            /\ orgs' = [orgs EXCEPT ![p] = my.slug]
            /\ users' = [users EXCEPT ![my.email] =
                 [email |-> my.email, id |-> my.num, org |-> p, role |-> OWNER, via |-> 0]]
      BY <3>3 DEF CreateOrganization
    <3>5. p = o /\ my.email \in Emails
      BY <3>1, <3>3, <3>4, <2>h DEF CreateOrganization, Held, Placed, Filled, TypeOK, NextOrg
    <3>6. users'[my.email] = [email |-> my.email, id |-> my.num, org |-> o, role |-> OWNER,
                              via |-> 0]
      BY <3>4, <3>5 DEF TypeOK
    <3>7. users'[my.email] # NoUser
      BY <3>5, <3>6, NoneIsFresh DEF NoUser
    <3> QED
      BY <3>5, <3>6, <3>7 DEF Owners, Members
  <2>2. CASE Open(o) /\ Owners(o) = {}
    BY <1>0, <2>2 DEF OwnerLossNeedsStaleRead
  <2>3. ASSUME Open(o), NEW e \in Owners(o), o \notin raced' PROVE FALSE
    <3>1. /\ e \in Emails /\ users[e] \in User /\ users[e].org = o /\ users[e].role = OWNER
          /\ users[e].email = e /\ e \notin Owners(o)'
      BY <2>3, NobodyIsNoUser DEF Owners, Members, TypeOK, Stored
    <3>2. users'[e] # users[e]
      BY <3>1, NobodyIsNoUser DEF Owners, Members
    <3>3. ASSUME my.row \in User, my.row.org = o, my.row.email = e, my.row.role = OWNER,
                 \A x \in Emails : x # e => users'[x] = users[x],
                 pc[j] = "write", my.op \in Acted, my.op = "set_role" => my.role # OWNER,
                 o \notin my.stale
          PROVE  FALSE
      <4>1. PICK x \in Owners(o) : x # e
        BY <3>3, <2>h, NobodyIsNoUser DEF Decided, Backed
      <4>2. x \in Owners(o)'
        BY <3>3, <4>1 DEF Owners, Members
      <4> QED
        BY <4>2
    <3>4. ASSUME ~CreateOrganization(j), ~Join(j) PROVE my.row.org \notin my.stale
      BY <1>2, <2>3, <3>1, <3>2, <3>4, NobodyIsNoUser, StaleWritesAreMarked
    <3>5. CASE UpdateRole(j)
      <4>1. /\ e = my.row.email /\ users'[e] = [users[e] EXCEPT !.role = my.role]
            /\ pc[j] = "write" /\ my.op = "set_role" /\ my.row \in User
            /\ \A x \in Emails : x # e => users'[x] = users[x]
        BY <3>1, <3>2, <3>5, <2>h DEF UpdateRole, Answer, Read, tables, Held, Filled, TypeOK
      <4>2. my.role # OWNER
        BY <3>1, <4>1, NobodyIsNoUser DEF Owners, Members, User
      <4>3. users[e] = my.row
        BY <3>4, <3>5, <4>1, <2>h, NobodyIsNoUser
        DEF Decided, Current, UpdateRole, CreateOrganization, Join
      <4> QED
        BY <3>1, <3>3, <3>4, <3>5, <4>1, <4>2, <4>3 DEF Acted, UpdateRole, CreateOrganization, Join
    <3>6. CASE RemoveMember(j)
      <4>1. /\ e = my.row.email /\ pc[j] = "write" /\ my.op = "remove" /\ my.row \in User
            /\ \A x \in Emails : x # e => users'[x] = users[x]
        BY <3>1, <3>2, <3>6, <2>h DEF RemoveMember, Answer, Read, tables, Held, Filled, TypeOK
      <4>3. users[e] = my.row
        BY <3>4, <3>6, <4>1, <2>h, NobodyIsNoUser
        DEF Decided, Current, RemoveMember, CreateOrganization, Join
      <4> QED
        BY <3>1, <3>3, <3>4, <3>6, <4>1, <4>3 DEF Acted, RemoveMember, CreateOrganization, Join
    <3>7. CASE Transfer(j)
      <4>1. /\ e = my.email /\ pc[j] = "write" /\ my.op = "accept" /\ my.row \in User
            /\ my.row.email = my.email /\ \A x \in Emails : x # e => users'[x] = users[x]
        BY <3>1, <3>2, <3>7, <2>h
        DEF Transfer, Answer, Read, tables, Held, Bearing, Accepting, TypeOK
      <4>3. users[e] = my.row
        BY <3>4, <3>7, <4>1, <2>h, NobodyIsNoUser
        DEF Decided, Current, Transfer, CreateOrganization, Join
      <4> QED
        BY <3>1, <3>3, <3>4, <3>7, <4>1, <4>3 DEF Acted, Transfer, CreateOrganization, Join
    <3>8. CASE CloseOrganization(j)
      <4>1. /\ pc[j] = "write" /\ my.op = "accept_with_deletion" /\ my.row \in User
            /\ my.row.email = my.email /\ ~Answer(j)
        BY <3>2, <3>8, <2>h DEF CloseOrganization, Answer, Read, tables, Held, Bearing, Accepting
      <4>2. closed' = closed \cup {my.row.org}
        BY <3>8, <4>1 DEF CloseOrganization
      <4>3. o # my.row.org
        BY <4>2 DEF Open
      <4>4. e = my.email /\ Lives(my.row)
        <5>1. ASSUME e # my.email PROVE FALSE
          <6>1. users'[e] = IF LeftByDeletion(e, my.row) THEN users[e] ELSE NoUser
            BY <3>1, <3>8, <4>1, <5>1 DEF CloseOrganization
          <6> QED
            BY <3>1, <3>2, <4>1, <4>3, <5>1, <6>1 DEF LeftByDeletion
        <5>2. ~LeftByDeletion(my.email, my.row)
          BY <3>1, <3>8, <4>1, <5>1, NobodyIsNoUser DEF CloseOrganization
        <5> QED
          BY <3>1, <4>1, <4>3, <5>1, <5>2 DEF LeftByDeletion
      <4>5. users[e] = my.row
        BY <3>4, <3>8, <4>1, <4>4, <2>h, NobodyIsNoUser
        DEF Decided, Current, CloseOrganization, CreateOrganization, Join
      <4> QED
        BY <3>1, <4>3, <4>5
    <3>9. CASE CreateOrganization(j)
      BY <3>1, <3>2, <3>9, NobodyIsNoUser DEF CreateOrganization, Answer, Read, tables, TypeOK
    <3>10. CASE Join(j)
      BY <3>1, <3>2, <3>10, NobodyIsNoUser DEF Join, Answer, Read, tables, TypeOK
    <3> QED
      BY <1>2, <3>2, <3>5, <3>6, <3>7, <3>8, <3>9, <3>10, ChangesAreTold
  <2> QED
    BY <2>1, <2>2, <2>3
<1> QED
  BY <1>1, <1>2 DEF Next, TimePasses, vars

-----------------------------------------------------------------------------
(* Coming in, and being acted on *)

(* A handler on a copy of e that is not marked as stale has it as it is.    *)
LEMMA UnmarkedIsCurrent ==
  ASSUME TypeOK, AllHeld, Stored, AllDecided, NEW j \in Jobs, Handle(j),
         NEW e \in Emails, users[e] # NoUser, users'[e] # users[e], users[e].org \notin raced',
         UpdateRole(j) \/ RemoveMember(j) \/ Transfer(j) \/ CloseOrganization(j),
         job[j].row # NoUser, job[j].row.email = e
  PROVE  users[e] = job[j].row
<1>1. /\ ~CreateOrganization(j) /\ ~Join(j) /\ pc[j] = "write" /\ users' # users
  BY DEF UpdateRole, RemoveMember, Transfer, CloseOrganization, CreateOrganization, Join
<1>2. job[j].row.org \notin job[j].stale
  BY <1>1, StaleWritesAreMarked
<1> QED
  BY <1>1, <1>2 DEF AllDecided, Decided, Current

LEMMA JoinedStep ==
  ASSUME TypeOK, AllHeld, Stored, AllDecided, [Next]_vars,
         NEW e \in Emails, NEW t \in Tokens, users'[e].via = t, users[e].via # t
  PROVE  /\ OnRecord(t) /\ invites'[t].status = "accepted"
         /\ invites[t].email = e /\ invites[t].org = users'[e].org
         /\ users'[e].role = invites[t].role \/ users[e].org \in raced'
<1>1. PICK j \in Jobs : Request(j) \/ Handle(j)
  BY DEF Next, TimePasses, vars
<1> DEFINE my == job[j]
<1>h. Held(j) /\ my.row \in User \cup {NoUser} /\ t # 0 /\ users'[e] # users[e]
  BY HeldTyped, IdsArePositive DEF AllHeld
<1>s. Entering(t)[t].status = "accepted"
  BY DEF Entering, TypeOK, Invitation
<1>2. ASSUME NEW o \in Orgs, Founded(j, e, o) PROVE FALSE
  BY <1>2, <1>h DEF Founded
<1>3. CASE users'[e] = NoUser \/ RoleSet(j, e)
  BY <1>3, <1>h DEF NoUser, RoleSet, User
<1>4. CASE Carried(j, e)
  <2>1. /\ Transfer(j) /\ ~Answer(j) /\ my.email = e /\ users[e] \in User
        /\ users'[e] = Moved(my.row, users[e], my.tok)
    BY <1>4, <1>h DEF Carried, Answer, Read, tables
  <2>2. users'[e].via = my.tok /\ users'[e].org = invites[my.tok].org
        /\ users'[e].role \in {users[e].role, invites[my.tok].role}
        /\ (my.row.role # invites[my.tok].role => users'[e].role = invites[my.tok].role)
    BY <2>1 DEF Moved, User
  <2>3. /\ my.row # NoUser /\ my.row.email = e /\ invites[t].email = e
        /\ OnRecord(t) /\ invites'[t].status = "accepted"
    BY <1>h, <1>s, <2>1, <2>2 DEF Transfer, Held, Bearing, Accepting, MarkAccepted
  <2>4. users[e].org \in raced' \/ users[e] = my.row
    BY <1>1, <1>h, <2>1, <2>3, NobodyIsNoUser, UnmarkedIsCurrent DEF Handle
  <2> QED
    BY <2>2, <2>3, <2>4
<1>5. CASE CameIn(j, e)
  <2>1. /\ ~Answer(j) /\ my.email = e /\ my.tok = t /\ invites[t].email = e
        /\ users'[e].role = invites[t].role /\ users'[e].org = invites[t].org
    BY <1>5, <1>h DEF CameIn, NewAccount, Answer, Read, tables
  <2>2. OnRecord(t) /\ invites'[t].status = "accepted"
    BY <1>5, <1>s, <2>1 DEF CameIn, Join, CloseOrganization, MarkAccepted
  <2> QED
    BY <2>1, <2>2
<1> QED
  BY <1>1, <1>h, <1>2, <1>3, <1>4, <1>5, AccountStep

LEMMA RemovedStep ==
  ASSUME TypeOK, AllHeld, Stored, AllDecided, [Next]_vars,
         NEW e \in Emails, users[e] # NoUser, users'[e] = NoUser, users[e].org \notin raced'
  PROVE  \E j \in Jobs : ActsOn(j, e, "remove")
<1>1. PICK j \in Jobs : Request(j) \/ Handle(j)
  BY DEF Next, TimePasses, vars
<1> DEFINE my == job[j]
<1>h. Held(j) /\ Decided(j) /\ my.row \in User \cup {NoUser}
  BY HeldTyped DEF AllHeld, AllDecided
<1>2. RemoveMember(j) \/ CloseOrganization(j)
  <2>1. ASSUME NEW o \in Orgs, Founded(j, e, o) PROVE FALSE
    BY <2>1, NoneIsFresh DEF Founded, NoUser
  <2>2. ~RoleSet(j, e)
    BY NoneIsFresh DEF RoleSet, User, NoUser
  <2>3. ~Carried(j, e)
    <3>1. Carried(j, e) => users'[e].email \in Emails
      BY DEF Carried, Moved, User
    <3> QED
      BY <3>1, NoneIsFresh DEF NoUser
  <2>4. ~CameIn(j, e)
    BY NoneIsFresh DEF CameIn, NewAccount, NoUser
  <2> QED
    BY <1>1, <2>1, <2>2, <2>3, <2>4, AccountStep
<1>3. CASE RemoveMember(j)
  <2>1. /\ ~Answer(j) /\ pc[j] = "write" /\ my.op = "remove" /\ my.row # NoUser
        /\ my.row.email = my.email /\ my.row.org = my.actor.org
    BY <1>3, <1>h, NobodyIsNoUser DEF RemoveMember, Held, Filled, Answer, Read, tables
  <2>2. my.row.email = e
    BY <1>3, <2>1 DEF RemoveMember, TypeOK
  <2>3. users[e] = my.row
    BY <1>3, <2>1, <2>2, UnmarkedIsCurrent DEF Handle
  <2> QED
    BY <2>1, <2>2, <2>3 DEF ActsOn
<1>4. CASE CloseOrganization(j)
  <2>1. /\ ~Answer(j) /\ pc[j] = "write" /\ my.op = "accept_with_deletion"
        /\ my.row \in User /\ my.row.email = my.email /\ my.email = invites[my.tok].email
        /\ my.tok \in Tokens
    BY <1>4, <1>h DEF CloseOrganization, Held, Bearing, Accepting, Invited, Answer, Read, tables
  <2>2. my.email \in Emails
    BY <2>1 DEF TypeOK, Invitation
  <2>3. users'[my.email] = NewAccount(j, my.tok)
    BY <1>4, <2>1, <2>2 DEF CloseOrganization
  <2>4. e # my.email
    BY <2>1, <2>2, <2>3, NoneIsFresh DEF NewAccount, NoUser
  <2>5. users[e].org = my.row.org
    BY <1>4, <2>1, <2>4 DEF CloseOrganization, LeftByDeletion
  <2>6. my.row.org \notin my.stale
    BY <1>1, <1>4, <2>1, StaleWritesAreMarked DEF CloseOrganization, CreateOrganization, Join
  <2>7. Members(my.row.org) \subseteq {my.row.email}
    BY <1>h, <2>1, <2>6 DEF Decided, Lone
  <2> QED
    BY <2>1, <2>4, <2>5, <2>7 DEF Members
<1> QED
  BY <1>2, <1>3, <1>4

LEMMA RoleStep ==
  ASSUME TypeOK, AllHeld, Stored, AllDecided, [Next]_vars, NEW e \in Emails,
         users[e].id = users'[e].id, users[e].via = users'[e].via,
         users[e].role # users'[e].role, users[e].org \notin raced'
  PROVE  \E j \in Jobs : ActsOn(j, e, "set_role")
<1>1. PICK j \in Jobs : Request(j) \/ Handle(j)
  BY DEF Next, TimePasses, vars
<1> DEFINE my == job[j]
<1>h. Held(j) /\ Decided(j) /\ my.row \in User \cup {NoUser} /\ users'[e] # users[e]
  BY HeldTyped DEF AllHeld, AllDecided
<1>2. ASSUME users'[e] = NoUser PROVE FALSE
  BY <1>2, <1>h DEF Stored, NoUser
<1>3. ASSUME NEW o \in Orgs, Founded(j, e, o) PROVE FALSE
  BY <1>3 DEF Founded, NoUser
<1>4. CASE RoleSet(j, e)
  <2>1. /\ pc[j] = "write" /\ my.op = "set_role" /\ my.row # NoUser /\ users[e] # NoUser
        /\ my.row.email = my.email /\ my.row.org = my.actor.org /\ my.row.email = e
    BY <1>4, <1>h, NobodyIsNoUser DEF RoleSet, UpdateRole, Held, Filled
  <2>2. users[e] = my.row
    BY <1>4, <1>h, <2>1, UnmarkedIsCurrent DEF RoleSet, Handle
  <2> QED
    BY <2>1, <2>2 DEF ActsOn
<1>5. CASE Carried(j, e)
  <2>1. /\ pc[j] = "write" /\ my.op = "accept" /\ my.row # NoUser /\ users[e] # NoUser
        /\ my.row.email = e /\ my.row.org # invites[my.tok].org
    BY <1>5, <1>h, NobodyIsNoUser DEF Carried, Transfer, Held, Bearing, Accepting
  <2>2. users[e] = my.row
    BY <1>5, <1>h, <2>1, UnmarkedIsCurrent DEF Carried, Handle
  <2>3. users[e].via = my.tok /\ my.tok \in Tokens
    BY <1>5 DEF Carried, Moved, User
  <2> QED
    BY <2>1, <2>2, <2>3 DEF Stored
<1>6. CASE CameIn(j, e)
  <2>1. users[e].via = my.tok /\ my.tok \in Tokens /\ e = my.email /\ ~Answer(j)
    BY <1>6, <1>h DEF CameIn, NewAccount, Answer, Read, tables
  <2>2. users[e] # NoUser
    BY <2>1, NobodyIsNoUser
  <2>3. users[e].org = invites[my.tok].org
    BY <2>1, <2>2 DEF Stored
  <2>4. CloseOrganization(j)
    BY <1>6, <2>1, <2>2 DEF CameIn, Join
  <2>5. my.row # NoUser /\ my.row.email = e /\ my.row.org # invites[my.tok].org
    BY <2>1, <2>4, <1>h DEF CloseOrganization, Held, Bearing, Accepting
  <2>6. users[e] = my.row
    BY <1>h, <2>2, <2>4, <2>5, UnmarkedIsCurrent DEF Handle
  <2> QED
    BY <2>3, <2>5, <2>6
<1> QED
  BY <1>1, <1>h, <1>2, <1>3, <1>4, <1>5, <1>6, AccountStep

-----------------------------------------------------------------------------
(* The ledger of invitations *)

Standing == [t \in Tokens |-> invites[t].status]
Inside   == {t \in Tokens : \E e \in Emails : users[e].via = t}

LEMMA InitLedger == ASSUME Init PROVE Ledger!Init
<1>1. PICK seed \in Seeds : users = seed.users /\ invites = seed.invites
  BY DEF Init
<1>2. /\ \A e \in Emails : users[e] # NoUser => users[e].via = 0
      /\ \A t \in Tokens : invites[t].status \in {"none", "pending"}
  BY <1>1, SeedsAreTables
<1>3. \A e \in Emails : users[e].via \notin Tokens
  BY <1>2, NobodyIsNoUser, IdsArePositive
<1> QED
  BY <1>2, <1>3 DEF Ledger!Init

(* Only an acceptance brings anybody inside.                                *)
LEMMA InsideStep ==
  ASSUME TypeOK, AllHeld, Stored, NEW j \in Jobs, Request(j) \/ Handle(j)
  PROVE  /\ Inside' \subseteq Inside \cup {job[j].tok}
         /\ ~Transfer(j) /\ ~Join(j) /\ ~CloseOrganization(j) => Inside' \subseteq Inside
<1> SUFFICES ASSUME NEW t \in Inside'
             PROVE  \/ t \in Inside
                    \/ t = job[j].tok /\ (Transfer(j) \/ Join(j) \/ CloseOrganization(j))
  OBVIOUS
<1>1. PICK e \in Emails : users'[e].via = t /\ t \in Tokens /\ t # 0
  BY IdsArePositive DEF Inside
<1>2. CASE users'[e] = users[e]
  BY <1>1, <1>2 DEF Inside
<1>3. users'[e] # NoUser /\ \A o \in Orgs : ~Founded(j, e, o)
  BY <1>1 DEF Founded, NoUser
<1>4. CASE RoleSet(j, e)
  <2>1. users'[e].via = users[e].via
    BY <1>4 DEF RoleSet, User
  <2> QED
    BY <1>1, <2>1 DEF Inside
<1>5. CASE Carried(j, e)
  <2>1. users'[e].via = job[j].tok /\ Transfer(j)
    BY <1>5 DEF Carried, Moved, User
  <2> QED
    BY <1>1, <2>1
<1>6. CASE CameIn(j, e)
  <2>1. users'[e].via = job[j].tok /\ (Join(j) \/ CloseOrganization(j))
    BY <1>6 DEF CameIn, NewAccount
  <2> QED
    BY <1>1, <2>1
<1> QED
  BY <1>2, <1>3, <1>4, <1>5, <1>6, AccountStep

LEMMA AcceptStep ==
  ASSUME TypeOK, AllHeld, Stored, NEW j \in Jobs, ~Answer(j),
         Transfer(j) \/ Join(j) \/ CloseOrganization(j)
  PROVE  Ledger!Next
<1> DEFINE my == job[j]
           old == my.row.org
           lost == IF CloseOrganization(j)
                   THEN {t \in Tokens : t # my.tok /\ OnRecord(t) /\ invites[t].org = old}
                   ELSE {}
<1>1. my.tok \in Tokens /\ OnRecord(my.tok)
  BY DEF Transfer, Join, CloseOrganization, MarkAccepted, AllHeld, Held, Bearing, Invited, Accepting
<1>2. lost \in SUBSET {u \in Tokens : Standing[u] # "none"} /\ my.tok \notin lost
  BY DEF Standing, OnRecord
<1>3. Standing' = [t \in Tokens |-> IF t = my.tok THEN "accepted"
                                    ELSE IF t \in lost THEN "gone" ELSE Standing[t]]
  <2>1. \A t \in Tokens : invites[t] \in Invitation
    BY DEF TypeOK
  <2>2. \A t \in Tokens : Entering(my.tok)[t].status =
          IF t = my.tok THEN "accepted" ELSE invites[t].status
    BY <1>1, <2>1 DEF Entering, TypeOK, Invitation
  <2>3. CASE CloseOrganization(j)
    <3>1. invites' = [t \in Tokens |->
               IF t = my.tok THEN Entering(t)[t]
               ELSE IF OnRecord(t) /\ invites[t].org = old
               THEN [invites[t] EXCEPT !.status = "gone"] ELSE invites[t]]
      BY <2>3 DEF CloseOrganization
    <3>2. \A t \in Tokens : [invites[t] EXCEPT !.status = "gone"].status = "gone"
      BY <2>1 DEF Invitation
    <3> QED
      BY <1>1, <2>2, <2>3, <3>1, <3>2 DEF Standing
  <2>4. CASE Transfer(j) \/ Join(j)
    <3>1. invites' = Entering(my.tok) /\ ~CloseOrganization(j)
      BY <2>4 DEF Transfer, Join, CloseOrganization
    <3> QED
      BY <2>2, <3>1 DEF Standing
  <2> QED
    BY <2>3, <2>4
<1>4. Inside' \subseteq Inside \cup {my.tok}
  BY InsideStep DEF Handle
<1> HIDE DEF lost
<1>5. PICK t \in Tokens, l \in SUBSET {u \in Tokens : Standing[u] # "none"} :
        t = my.tok /\ l = lost
  BY <1>1, <1>2
<1>6. Ledger!Accept(t, l)
  BY <1>1, <1>2, <1>3, <1>4, <1>5 DEF Ledger!Accept, Ledger!OnRecord, Ledger!Become, Standing,
     Inside, OnRecord
<1> QED
  BY <1>6 DEF Ledger!Next, Standing

LEMMA LedgerStep ==
  ASSUME TypeOK, AllHeld, Stored, [Next]_vars
  PROVE  Ledger!Next \/ UNCHANGED <<Standing, Inside>>
<1>s. /\ UNCHANGED invites => UNCHANGED Standing
      /\ UNCHANGED users => UNCHANGED Inside
  BY DEF Standing, Inside
<1>a. ASSUME NEW j \in Jobs, Request(j) \/ Walk(j) \/ Answer(j)
      PROVE  UNCHANGED <<Standing, Inside>>
  BY <1>a, <1>s, ReadsLeave DEF Answer, Read, tables
<1>1. ASSUME NEW j \in Jobs, IssueInvitation(j), ~Answer(j) PROVE Ledger!Next
  <2>1. PICK t \in NextToken :
          /\ invites' = [invites EXCEPT ![t] =
               [status |-> "pending", late |-> FALSE, org |-> job[j].actor.org,
                email |-> job[j].email, role |-> job[j].role]]
          /\ UNCHANGED users
    BY <1>1 DEF IssueInvitation
  <2>2. t \in Tokens /\ invites[t].status = "none"
    BY DEF NextToken
  <2>3. Standing' = [u \in Tokens |-> IF u \in {t} THEN "pending" ELSE Standing[u]]
    BY <2>1, <2>2 DEF Standing, TypeOK
  <2>4. Ledger!Issue(t)
    BY <1>s, <2>1, <2>2, <2>3 DEF Ledger!Issue, Ledger!Become, Standing, Inside
  <2> QED
    BY <2>2, <2>4 DEF Ledger!Next
<1>2. ASSUME NEW j \in Jobs, FlipExpired(j), ~Answer(j) PROVE Ledger!Next
  <2> DEFINE here == {t \in job[j].toks : OnRecord(t)}
  <2>1. /\ invites' = [t \in Tokens |-> IF t \in here
             THEN [invites[t] EXCEPT !.status = "expired"] ELSE invites[t]]
        /\ UNCHANGED users /\ here \in SUBSET Tokens
    BY <1>2, HeldTyped DEF FlipExpired
  <2>2. \A t \in Tokens : [invites[t] EXCEPT !.status = "expired"].status = "expired"
    BY DEF TypeOK, Invitation
  <2>3. Standing' = [u \in Tokens |-> IF u \in here THEN "expired" ELSE Standing[u]]
    BY <2>1, <2>2 DEF Standing
  <2>4. \A t \in here : Standing[t] \in {"pending", "accepted", "expired"}
    BY <2>1 DEF Standing, OnRecord
  <2> HIDE DEF here
  <2>5. PICK S \in SUBSET Tokens : S = here
    BY <2>1
  <2>6. Ledger!Lapse(S)
    BY <1>s, <2>1, <2>3, <2>4, <2>5
    DEF Ledger!Lapse, Ledger!Become, Ledger!OnRecord, Standing, Inside
  <2> QED
    BY <2>6 DEF Ledger!Next
<1>3. ASSUME NEW j \in Jobs, RevokeInvitation(j), ~Answer(j)
      PROVE  Ledger!Next \/ UNCHANGED <<Standing, Inside>>
  <2>0. job[j].tok \in Tokens /\ invites[job[j].tok].status # "none"
    BY <1>3 DEF RevokeInvitation, AllHeld, Held, Placed, Filled
  <2>p. PICK t \in Tokens : t = job[j].tok
    BY <2>0
  <2>1. /\ invites' = [invites EXCEPT ![t].status = "gone"] /\ UNCHANGED users
        /\ invites[t].status # "none"
    BY <1>3, <2>0, <2>p DEF RevokeInvitation
  <2>2. Standing' = [u \in Tokens |-> IF u \in {t} THEN "gone" ELSE Standing[u]]
    BY <2>1 DEF Standing, TypeOK, Invitation
  <2>3. CASE OnRecord(t)
    <3>1. Ledger!Withdraw(t)
      BY <1>s, <2>1, <2>2, <2>3
      DEF Ledger!Withdraw, Ledger!Become, Ledger!OnRecord, Standing, Inside, OnRecord
    <3> QED
      BY <3>1 DEF Ledger!Next
  <2>4. CASE ~OnRecord(t)
    <3>1. invites[t].status = "gone"
      BY <2>1, <2>4 DEF OnRecord, TypeOK, Invitation
    <3> QED
      BY <1>s, <2>1, <2>2, <3>1 DEF Standing
  <2> QED
    BY <2>3, <2>4
<1>4. ASSUME NEW j \in Jobs,
             CreateOrganization(j) \/ UpdateRole(j) \/ RemoveMember(j) \/ Purge(j), ~Answer(j)
      PROVE  Ledger!Next
  <2>1. /\ UNCHANGED invites /\ Handle(j) /\ ~Transfer(j) /\ ~Join(j) /\ ~CloseOrganization(j)
    BY <1>4 DEF CreateOrganization, UpdateRole, RemoveMember, Purge, Transfer, Join,
       CloseOrganization, Handle
  <2>2. Inside' \subseteq Inside
    BY <2>1, InsideStep
  <2>3. Ledger!Leave
    BY <1>s, <2>1, <2>2 DEF Ledger!Leave, Standing, Inside
  <2> QED
    BY <2>3 DEF Ledger!Next
<1>5. ASSUME NEW t \in Tokens, TimePasses(t) PROVE UNCHANGED <<Standing, Inside>>
  BY <1>s, <1>5 DEF TimePasses, Standing, TypeOK, Invitation
<1>6. CASE UNCHANGED vars
  BY <1>s, <1>6 DEF vars
<1> QED
  BY <1>a, <1>1, <1>2, <1>3, <1>4, <1>5, <1>6, AcceptStep, HandlersSplit DEF Next, Write

-----------------------------------------------------------------------------
(* A purge that is undone *)

(* The organization an acceptance leads to is there while the invitation    *)
(* is: what deletes it deletes its invitations.                             *)
Awaited(j) ==
  LET to == invites[job[j].tok] IN
  pc[j] \in {"alone", "purge", "owners", "write"} /\ job[j].op \in Accepting
    /\ OnRecord(job[j].tok) => Open(to.org)

AllAwaited == \A j \in Jobs : Awaited(j)

(* No invitation comes back, and those of an organization go with it.       *)
LEMMA InvitationsGo ==
  ASSUME TypeOK, AllHeld, Stored, NEW j \in Jobs, Request(j) \/ Handle(j),
         NEW t \in Tokens, invites[t].status # "none", OnRecord(t)'
  PROVE  /\ OnRecord(t)
         /\ Open(invites[t].org) => Open(invites[t].org)'
<1>1. OnRecord(t)
  <2>1. CASE Request(j) \/ Walk(j)
    BY <2>1, ReadsLeave DEF tables, OnRecord
  <2>2. CASE CloseOrganization(j)
    BY <2>2 DEF CloseOrganization, Answer, Read, tables, Entering, MarkAccepted, OnRecord,
       TypeOK, Invitation
  <2>3. CASE Write(j) /\ ~CloseOrganization(j)
    BY <2>3 DEF Write, CreateOrganization, IssueInvitation, NextToken, FlipExpired,
       RevokeInvitation, UpdateRole, RemoveMember, Transfer, Join, Purge, Answer, Read, tables,
       Entering, MarkAccepted, OnRecord, TypeOK, Invitation
  <2> QED
    BY <2>1, <2>2, <2>3, HandlersSplit
<1>2. ASSUME Open(invites[t].org), ~Open(invites[t].org)' PROVE FALSE
  <2>1. invites[t].org \in Orgs
    BY DEF TypeOK, Invitation
  <2>2. orgs'[invites[t].org] # 0
    <3>1. OrgsKept
      BY OrgsKeep DEF Next
    <3> QED
      BY <1>2, <2>1, <3>1 DEF OrgsKept, Open
  <2>3. invites'[t].org = invites[t].org
    <3>1. InvitesKept
      BY InvitesKeep DEF Next
    <3> QED
      BY <3>1 DEF InvitesKept
  <2>4. /\ CloseOrganization(j) /\ invites[t].org = job[j].row.org /\ closed' # closed
        /\ invites[job[j].tok].org # job[j].row.org
    BY <1>2, <2>2, <2>3, ClosedStep DEF Open
  <2>5. invites'[t].status = "gone"
    <3>1. t # job[j].tok /\ ~Answer(j)
      BY <2>4 DEF Answer, Read, tables
    <3> QED
      BY <1>1, <2>4, <3>1 DEF CloseOrganization, TypeOK, Invitation
  <2> QED
    BY <2>5 DEF OnRecord
<1> QED
  BY <1>1, <1>2

(* A session that keeps its invitation keeps it open.                       *)
LEMMA AwaitedStays ==
  ASSUME TypeOK, AllHeld, Stored, NEW j \in Jobs, Request(j) \/ Handle(j),
         NEW k \in Jobs, Awaited(k), pc[k] \in {"alone", "purge", "owners", "write"},
         job'[k].tok = job[k].tok, job'[k].op = job[k].op
  PROVE  Awaited(k)'
<1> SUFFICES ASSUME job[k].op \in Accepting, NEW t \in Tokens, t = job[k].tok,
                    invites[t].status # "none", OnRecord(t)'
             PROVE  Open(invites[t].org)'
  <2>1. /\ job[k].op \in Accepting => job[k].tok \in Tokens
        /\ job[k].op \in Accepting => invites[job[k].tok].status # "none"
    BY DEF AllHeld, Held, Bearing, Invited
  <2> QED
    BY <2>1 DEF Awaited, OnRecord
<1>1. OnRecord(t) /\ (Open(invites[t].org) => Open(invites[t].org)')
  <2> HIDE DEF Awaited
  <2> QED
    BY InvitationsGo
<1>2. Open(invites[t].org)
  BY <1>1 DEF Awaited
<1>3. invites'[t].org = invites[t].org
  BY InvitesKeep DEF InvitesKept, Next
<1> QED
  BY <1>1, <1>2, <1>3

LEMMA StepAwaited ==
  ASSUME TypeOK, AllHeld, Stored, AllAwaited, [Next]_vars
  PROVE  AllAwaited'
<1>1. ASSUME NEW j \in Jobs, Request(j) \/ Handle(j), NEW k \in Jobs, k # j PROVE Awaited(k)'
  <2>1. pc'[k] = pc[k] /\ job'[k].tok = job[k].tok /\ job'[k].op = job[k].op
    BY <1>1, OthersStandBy, HeldTyped DEF Bystander, Job
  <2>2. CASE pc[k] \in {"alone", "purge", "owners", "write"}
    BY <1>1, <2>1, <2>2, AwaitedStays DEF AllAwaited
  <2> QED
    BY <2>1, <2>2 DEF Awaited
<1>2. ASSUME NEW j \in Jobs, Request(j) \/ Handle(j) PROVE Awaited(j)'
  <2> DEFINE my == job[j]
  <2>h. Held(j) /\ Awaited(j)
    BY DEF AllHeld, AllAwaited
  <2>r. ASSUME NEW step, NEW copy, Read(j, step, copy)
        PROVE  /\ pc'[j] = step /\ job'[j] = copy /\ invites' = invites
               /\ orgs' = orgs /\ closed' = closed
    BY <2>r DEF Read, Goto, TypeOK, tables
  <2>a. CASE Answer(j)
    BY <2>a, <2>r DEF Answer, Awaited
  <2>1. CASE Request(j)
    <3>1. ASSUME NEW request, NEW step, Start(j, request, step) PROVE pc'[j] = step
      BY <3>1 DEF Start, Goto, TypeOK
    <3>2. pc'[j] \notin {"alone", "purge", "owners", "write"}
      BY <2>1, <3>1 DEF Request, RequestRegister, RequestList, RequestRemoval, RequestInvite,
         RequestRole, RequestRevoke, RequestInvitation, Tenant
    <3> QED
      BY <3>2 DEF Awaited
  <2>2. CASE Purge(j)
    <3>1. pc[j] = "purge" /\ job' = job
      BY <2>2 DEF Purge
    <3> QED
      BY <1>2, <2>h, <3>1, AwaitedStays
  <2>3. CASE (CountOwners(j) \/ CountMembers(j)) /\ ~Answer(j)
    <3>1. pc[j] \in {"owners", "alone"} /\ job'[j] = my
      BY <2>3, <2>r DEF CountOwners, CountMembers
    <3> QED
      BY <1>2, <2>h, <3>1, AwaitedStays
  <2>4. CASE FindMember(j) /\ ~Answer(j)
    <3>1. my.op \in {"set_role", "remove"} /\ \E x : job'[j] = [my EXCEPT !.row = x]
      BY <2>4, <2>r, <2>h DEF FindMember, Held, Placed
    <3>2. job'[j].op = my.op
      BY <3>1, HeldTyped DEF Job
    <3> QED
      BY <3>1, <3>2 DEF Awaited, Accepting
  <2>5. CASE FindAccount(j) /\ ~Answer(j)
    <3>1. Open(invites[my.tok].org) /\ UNCHANGED <<invites, orgs, closed>>
      BY <2>5, <2>r DEF FindAccount
    <3>2. \E x, e : job'[j] = [my EXCEPT !.row = x, !.email = e, !.stale = {}]
      BY <2>5, <2>r DEF FindAccount
    <3>3. job'[j].tok = my.tok
      BY <3>2, HeldTyped DEF Job
    <3> QED
      BY <3>1, <3>3 DEF Awaited, Open
  <2>6. ASSUME \/ PickSlug(j) \/ ClassifyInvite(j) \/ ListPending(j) \/ FindInvitation(j)
               \/ PreviewInvitation(j)
        PROVE  Answer(j) \/ pc'[j] \notin {"alone", "purge", "owners", "write"}
    <3>1. \E step, copy : step \in {"idle", "create", "issue", "flip", "delete"} /\ Read(j, step, copy)
      <4>1. CASE PickSlug(j)
        BY <4>1 DEF PickSlug
      <4>2. CASE ClassifyInvite(j) \/ FindInvitation(j) \/ PreviewInvitation(j)
        BY <4>2 DEF ClassifyInvite, FindInvitation, PreviewInvitation, Answer
      <4>3. CASE ListPending(j)
        BY <4>3 DEF ListPending, Answer
      <4> QED
        BY <2>6, <4>1, <4>2, <4>3
    <3> QED
      BY <3>1, <2>r
  <2>7. CASE Ended(j)
    BY <2>7 DEF Ended, Awaited
  <2>8. CASE BreakOff(j)
    BY <2>8 DEF BreakOff, Goto, TypeOK, Awaited
  <2> QED
    BY <1>2, <2>a, <2>1, <2>2, <2>3, <2>4, <2>5, <2>6, <2>7, <2>8, HandlersSplit, WritesEnd
    DEF Walk, Awaited
<1>3. ASSUME NEW t \in Tokens, TimePasses(t) PROVE AllAwaited'
  <2>1. /\ pc' = pc /\ job' = job /\ orgs' = orgs /\ closed' = closed
        /\ \A u \in Tokens : /\ invites'[u].status = invites[u].status
                              /\ invites'[u].org = invites[u].org
    BY <1>3 DEF TimePasses, TypeOK, Invitation
  <2> SUFFICES ASSUME NEW k \in Jobs, pc[k] \in {"alone", "purge", "owners", "write"},
                      job[k].op \in Accepting
               PROVE  Awaited(k)'
    BY <2>1 DEF AllAwaited, Awaited
  <2>2. job[k].tok \in Tokens
    BY DEF AllHeld, Held, Bearing, Invited
  <2> QED
    BY <2>1, <2>2 DEF AllAwaited, Awaited, OnRecord, Open
<1>4. CASE UNCHANGED vars
  BY <1>4 DEF vars, AllAwaited, Awaited, OnRecord, Open
<1> QED
  BY <1>1, <1>2, <1>3, <1>4 DEF Next, AllAwaited

(* Whose PDFs go.                                                           *)
LEMMA PurgeStep ==
  ASSUME TypeOK, AllHeld, Stored, AllDecided, [Next]_vars,
         NEW o \in Orgs, o \in stored, o \notin stored'
  PROVE  \E j \in Jobs : /\ pc[j] = "purge" /\ job[j].row.org = o
                         /\ o \in job[j].stale \/ Members(o) = {job[j].email}
<1>1. PICK j \in Jobs : Request(j) \/ Handle(j)
  BY DEF Next, TimePasses, vars
<1>2. Purge(j)
  <2>1. ~(Request(j) \/ Walk(j))
    BY ReadsLeave DEF tables
  <2>2. Write(j)
    BY <1>1, <2>1, HandlersSplit
  <2> QED
    BY <2>2 DEF Write, CreateOrganization, IssueInvitation, FlipExpired, RevokeInvitation,
       UpdateRole, RemoveMember, Transfer, Join, CloseOrganization, Answer, Read, tables
<1>3. pc[j] = "purge" /\ job[j].row.org = o
  BY <1>2 DEF Purge
<1>4. ASSUME o \notin job[j].stale PROVE Members(o) = {job[j].email}
  <2>1. /\ job[j].op = "accept_with_deletion" /\ job[j].row # NoUser
        /\ job[j].row.email = job[j].email
    BY <1>3 DEF AllHeld, Held, Placed, Bearing, Accepting
  <2>2. /\ users[job[j].email] = job[j].row /\ Members(o) \subseteq {job[j].email}
    BY <1>3, <1>4, <2>1 DEF AllDecided, Decided, Current, Lone
  <2>3. job[j].email \in Emails
    BY <2>1, HeldTyped DEF User
  <2> QED
    BY <1>3, <2>1, <2>2, <2>3 DEF Members
<1> QED
  BY <1>3, <1>4

(* When a deletion is undone after its purge.                               *)
LEMMA UndoneStep ==
  ASSUME TypeOK, AllHeld, Stored, AllDecided, AllAwaited, [Next]_vars,
         NEW o \in Orgs, NEW j \in Jobs, pc[j] = "write", job[j].op = "accept_with_deletion",
         job[j].row.org = o, pc'[j] # "write", o \notin job[j].stale
  PROVE  o \in closed' \/ ~OnRecord(job[j].tok) \/ job[j].num \in broken'
<1> DEFINE my   == job[j]
           kept == [e \in Emails |-> IF LeftByDeletion(e, my.row) THEN users[e] ELSE NoUser]
<1>1. CloseOrganization(j) \/ BreakOff(j)
  <2>1. Request(j) \/ Handle(j)
    BY OthersStandBy DEF Bystander, Next, TimePasses, vars
  <2> QED
    BY <2>1 DEF Request, RequestRegister, RequestList, RequestRemoval, RequestInvite,
       RequestRole, RequestRevoke, RequestInvitation, Tenant, Start, Handle, PickSlug,
       CreateOrganization, ClassifyInvite, IssueInvitation, ListPending, FlipExpired,
       FindInvitation, RevokeInvitation, FindMember, CountOwners, UpdateRole, RemoveMember,
       PreviewInvitation, FindAccount, CountMembers, Transfer, Join, Purge
<1> SUFFICES ASSUME OnRecord(my.tok), CloseOrganization(j) PROVE o \in closed'
  BY <1>1 DEF BreakOff
<1>2. my.row # NoUser /\ my.row.email = my.email
  BY DEF AllHeld, Held, Bearing, Accepting
<1>3. users[my.row.email] = my.row /\ my.email \in Emails
  BY <1>2, HeldTyped DEF AllDecided, Decided, Current, User
<1>4. kept[my.email] = NoUser
  BY <1>2, <1>3 DEF LeftByDeletion
<1>5. Open(invites[my.tok].org)
  BY DEF AllAwaited, Awaited, Accepting
<1> QED
  BY <1>4, <1>5 DEF CloseOrganization, MarkAccepted

-----------------------------------------------------------------------------
(* The properties, for any number of people, organizations, invitations,    *)
(* sessions and requests                                                    *)

Invariant ==
  /\ TypeOK /\ AllHeld /\ Stored /\ MembersHaveOrganization
  /\ AllDecided /\ OwnerLossNeedsStaleRead /\ AllAwaited

LEMMA InitInvariant == ASSUME Init PROVE Invariant
<1>1. PICK seed \in Seeds :
        /\ users = seed.users /\ orgs = seed.orgs /\ invites = seed.invites
        /\ closed = {} /\ stored = {o \in Orgs : orgs[o] # 0}
        /\ pc = [j \in Jobs |-> "idle"] /\ job = [j \in Jobs |-> Idle]
        /\ raced = {} /\ broken = {} /\ kinds = seed.kinds /\ issued = 0
  BY DEF Init
<1>2. /\ users \in [Emails -> User \cup {NoUser}] /\ orgs \in [Orgs -> Nat]
      /\ invites \in [Tokens -> Invitation] /\ kinds \subseteq OpNames
      /\ \A e \in Emails : users[e] # NoUser =>
           /\ users[e].email = e /\ users[e].via = 0 /\ users[e].id > MaxRequests
           /\ orgs[users[e].org] # 0
      /\ \A o \in Orgs : orgs[o] # 0 =>
           \E e \in Emails : users[e] # NoUser /\ users[e].org = o /\ users[e].role = OWNER
  BY <1>1, SeedsAreTables
<1>3. TypeOK
  BY <1>1, <1>2, IdleTyped DEF TypeOK, Steps
<1>4. AllHeld
  BY <1>1 DEF AllHeld, Held, Placed, Filled, Bearing, Idle, Tenanted, Invited, Accepting, Creating
<1>5. Stored
  <2>1. \A e \in Emails : users[e] # NoUser => users[e].id # 0
    BY <1>2, RequestsBounded DEF User
  <2> QED
    BY <1>1, <1>2, <2>1, IdsArePositive DEF Stored
<1>6. MembersHaveOrganization /\ OwnerLossNeedsStaleRead
  BY <1>1, <1>2 DEF MembersHaveOrganization, OwnerLossNeedsStaleRead, Open, Owners, Members
<1>7. AllDecided
  BY <1>1 DEF AllDecided, Decided, Current, Backed, Lone
<1>8. AllAwaited
  BY <1>1 DEF AllAwaited, Awaited
<1> QED
  BY <1>3, <1>4, <1>5, <1>6, <1>7, <1>8 DEF Invariant

LEMMA StepInvariant == ASSUME Invariant, [Next]_vars PROVE Invariant'
BY StepTyped, StepHolds, StepStored, StepMembers, StepDecided, OwnersStep, StepAwaited DEF Invariant

LEMMA Always == Spec => []Invariant
BY InitInvariant, StepInvariant, PTL DEF Spec

(* Tables and sessions keep their types.                                    *)
THEOREM TypeCorrect == Spec => []TypeOK
<1>1. Invariant => TypeOK
  BY DEF Invariant
<1> QED
  BY <1>1, Always, PTL

(* No account is left without its organization: nobody is let into one that *)
(* is deleted, and nobody outlives the one he belongs to.                   *)
THEOREM MembersKeepOrganization == Spec => []MembersHaveOrganization
<1>1. Invariant => MembersHaveOrganization
  BY DEF Invariant
<1> QED
  BY <1>1, Always, PTL

(* The last owner goes only by a handler that acted on a stale copy.        *)
THEOREM LastOwnerNeedsStaleRead == Spec => []OwnerLossNeedsStaleRead
<1>1. Invariant => OwnerLossNeedsStaleRead
  BY DEF Invariant
<1> QED
  BY <1>1, Always, PTL

(* Whoever comes in by an invitation comes in as it says.                   *)
THEOREM EntryAsInvited == Spec => JoinedAsInvited
<1> DEFINE A == \A e \in Emails : \A t \in Tokens :
       users'[e].via = t /\ users[e].via # t =>
         /\ OnRecord(t) /\ invites'[t].status = "accepted"
         /\ invites[t].email = e /\ invites[t].org = users'[e].org
         /\ users'[e].role = invites[t].role \/ users[e].org \in raced'
<1>1. Invariant /\ [Next]_vars => [A]_vars
  BY JoinedStep DEF Invariant
<1> QED
  BY <1>1, Always, PTL DEF Spec, JoinedAsInvited

(* Roles are set and members removed by people of the same organization.    *)
THEOREM ActedOnFromInside == Spec => OnlyOwnOrganizationActs
<1> DEFINE A == \A e \in Emails :
       /\ users[e] # NoUser /\ users'[e] = NoUser =>
            users[e].org \in raced' \/ \E j \in Jobs : ActsOn(j, e, "remove")
       /\ users[e].id = users'[e].id /\ users[e].via = users'[e].via
          /\ users[e].role # users'[e].role =>
            users[e].org \in raced' \/ \E j \in Jobs : ActsOn(j, e, "set_role")
<1>1. Invariant /\ [Next]_vars => [A]_vars
  BY RemovedStep, RoleStep DEF Invariant
<1> QED
  BY <1>1, Always, PTL DEF Spec, OnlyOwnOrganizationActs

(* PDFs are purged for a sole member who leaves, and the deletion they go   *)
(* with commits, unless members or the invitation went in between or the    *)
(* request broke off there.                                                 *)
THEOREM PurgesAreForDeletions == Spec => PurgedDeletionCommits
<1> DEFINE A == \A o \in Orgs :
       /\ o \in stored /\ o \notin stored' => \E j \in Jobs :
            /\ pc[j] = "purge" /\ job[j].row.org = o
            /\ o \in job[j].stale \/ Members(o) = {job[j].email}
       /\ \A j \in Jobs :
            pc[j] = "write" /\ job[j].op = "accept_with_deletion" /\ job[j].row.org = o
              /\ pc'[j] # "write" /\ o \notin job[j].stale =>
                o \in closed' \/ ~OnRecord(job[j].tok) \/ job[j].num \in broken'
<1>1. Invariant /\ [Next]_vars => [A]_vars
  BY PurgeStep, UndoneStep DEF Invariant
<1> QED
  BY <1>1, Always, PTL DEF Spec, PurgedDeletionCommits

(* Membership implements the ledger of invitations.                         *)
THEOREM MembershipKeepsLedger == Spec => KeepsLedger
<1>1. Invariant /\ [Next]_vars => [Ledger!Next]_<<Standing, Inside>>
  BY LedgerStep DEF Invariant
<1>2. Init => Ledger!Init
  BY InitLedger
<1> QED
  BY <1>1, <1>2, Always, PTL DEF Spec, KeepsLedger, Ledger!Spec, Standing, Inside
=============================================================================
