---------------------------- MODULE MCMembership ----------------------------
EXTENDS Membership, TLC

CONSTANTS a, b, c

Account(e, n, o, r) == [email |-> e, id |-> n, org |-> o, role |-> r, via |-> 0]
Invite(s, o, e, r)  == [status |-> s, late |-> FALSE, org |-> o, email |-> e, role |-> r]

NoInvite == Invite("none", 1, a, OWNER)

(* Two owners of one organization, the sole owner of another, and an        *)
(* invitation of each for somebody of the other.                            *)
TwoOwners ==
  [users   |-> (a :> Account(a, 91, 1, OWNER)) @@ (b :> Account(b, 92, 1, OWNER))
               @@ (c :> Account(c, 93, 2, OWNER)),
   orgs    |-> [o \in Orgs |-> IF o < 3 THEN o ELSE 0],
   invites |-> [t \in Tokens |-> CASE t = 1 -> Invite("pending", 1, c, "viewer")
                                   [] t = 2 -> Invite("pending", 2, b, ADMIN)
                                   [] OTHER -> NoInvite],
   kinds   |-> {"set_role", "remove", "accept", "accept_with_deletion"}]

(* One owner and an administrator, and somebody without an account invited. *)
OwnerAndAdmin ==
  [users   |-> (a :> Account(a, 91, 1, OWNER)) @@ (b :> Account(b, 92, 1, ADMIN))
               @@ (c :> NoUser),
   orgs    |-> [o \in Orgs |-> IF o = 1 THEN 1 ELSE 0],
   invites |-> [t \in Tokens |-> IF t = 1 THEN Invite("pending", 1, c, "viewer") ELSE NoInvite],
   kinds   |-> {"invite", "list", "revoke", "accept", "remove", "register", "preview"}]

AllSeeds == {TwoOwners, OwnerAndAdmin}
AllRoles == {OWNER, ADMIN, "viewer"}
=============================================================================
