-------------------------- MODULE InvitationLedger --------------------------
(***************************************************************************)
(* What the invitations of all organizations promise, whatever their       *)
(* handlers do at the same time: nobody comes in by an invitation that is  *)
(* not on record, coming in and marking the invitation accepted are one    *)
(* step, and an invitation that is gone never comes back.                  *)
(***************************************************************************)
CONSTANT Tokens

VARIABLES
  standing,  (* what the ledger says of each invitation                     *)
  inside     (* the invitations some present member came in by              *)

States == {"none", "pending", "accepted", "expired", "gone"}

OnRecord(t) == standing[t] \in {"pending", "accepted", "expired"}

Become(S, s) == [t \in Tokens |-> IF t \in S THEN s ELSE standing[t]]

TypeOK == standing \in [Tokens -> States] /\ inside \subseteq Tokens

Init ==
  /\ standing \in [Tokens -> {"none", "pending"}]
  /\ inside = {}

Issue(t) ==
  /\ standing[t] = "none"
  /\ standing' = Become({t}, "pending")
  /\ inside' = inside

(* Accepting one invitation may delete the organization its bearer leaves,  *)
(* and with it the invitations that organization had issued.                *)
Accept(t, lost) ==
  /\ OnRecord(t) /\ t \notin lost
  /\ standing' = [Become(lost, "gone") EXCEPT ![t] = "accepted"]
  /\ inside' \subseteq inside \cup {t}

Lapse(S) ==
  /\ \A t \in S : OnRecord(t)
  /\ standing' = Become(S, "expired")
  /\ inside' = inside

Withdraw(t) ==
  /\ OnRecord(t)
  /\ standing' = Become({t}, "gone")
  /\ inside' = inside

Leave ==
  /\ inside' \subseteq inside
  /\ standing' = standing

Next ==
  \/ \E t \in Tokens : Issue(t) \/ Withdraw(t)
  \/ \E t \in Tokens : \E lost \in SUBSET {u \in Tokens : standing[u] # "none"} :
       Accept(t, lost)
  \/ \E S \in SUBSET Tokens : Lapse(S)
  \/ Leave

Spec == Init /\ [][Next]_<<standing, inside>>
=============================================================================
