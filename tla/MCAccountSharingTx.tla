------------------------- MODULE MCAccountSharingTx -------------------------
(* Small instances of AccountSharingTx: up to four concurrent requests on  *)
(* databases where they meet.                                              *)
EXTENDS AccountSharingTx

CONSTANTS u1, u2, adm

OwnerViewer == {"owner", "viewer"}

Members  == {"invite", "cancel", "accept", "decline", "role", "remove",
             "select", "create"}
Deletion == {"delete", "remove", "role", "accept", "invite", "create"}
Managing == {"invite", "remove"}
Leaving  == {"delete", "remove", "accept"}

(* n requests, at most each of one handler.                                *)
MixOf(n, each, kinds) == [requests |-> n, each |-> each, kinds |-> kinds]
Mix(n, kinds) == MixOf(n, n, kinds)

AllMixes == {Mix(2, Members), Mix(2, Deletion), Mix(3, Managing), Mix(3, Leaving)}
InvitedMix  == {Mix(2, {"invite", "accept"})}
OwnerlessMix == {MixOf(4, 1, {"remove", "accept", "role", "delete"})}

Symmetry == Permutations(Requests)

Row3(x, y, z) == u1 :> x @@ u2 :> y @@ adm :> z

Nobody == Row3("", "", "")

(* Only account 1 exists; the others are free identifiers.                 *)
First(x, none) == [a \in Accounts |-> IF a = 1 THEN x ELSE none]

Invite(a, email, r, by) ==
    [account |-> a, email |-> email, role |-> r, by |-> by, open |-> TRUE]

(* Two owners, u1 the older, and an owner's invitation to the third user.  *)
TwoOwners ==
    [users |-> {u1, u2, adm}, accounts |-> {1},
     role |-> First(Row3("owner", "owner", ""), Nobody),
     older |-> First({<<u1, u2>>}, {}),
     invitations |-> {Invite(1, adm, "owner", u1)},
     selected |-> Row3(1, 1, Other)]

(* One owner between an older and a younger member.                        *)
OneOwner ==
    [users |-> {u1, u2, adm}, accounts |-> {1},
     role |-> First(Row3("viewer", "owner", "viewer"), Nobody),
     older |-> First({<<u1, u2>>, <<u1, adm>>, <<u2, adm>>}, {}),
     invitations |-> {},
     selected |-> Row3(1, 1, 1)]

(* A former member has the account selected; the owner invites them again. *)
FormerMember ==
    [users |-> {u1, u2, adm}, accounts |-> {1},
     role |-> First(Row3("owner", "", ""), Nobody),
     older |-> First({}, {}),
     invitations |-> {Invite(1, u2, "owner", u1)},
     selected |-> Row3(1, 1, Other)]

(* The only owner invites another one.                                     *)
OwnerInvites ==
    [users |-> {u1, u2, adm}, accounts |-> {1},
     role |-> First(Row3("owner", "", "viewer"), Nobody),
     older |-> First({<<u1, adm>>}, {}),
     invitations |-> {Invite(1, u2, "owner", u1)},
     selected |-> Row3(1, Other, 1)]
OwnerInvitesOnly == {OwnerInvites}

Databases == {TwoOwners, OneOwner, FormerMember}

=============================================================================
