---------------------------- MODULE AdminAccess ----------------------------
(***************************************************************************)
(* Who administers a restaurant: onboarding, invites and their redemption, *)
(* removal of admins, and the pruning of orphans when a process boots.     *)
(*                                                                         *)
(* Redeeming an invite (AdminFinalize) is the one MongoDB transaction of   *)
(* the program.  A transaction reads from the snapshot taken at its first  *)
(* read; a write to a document that another transaction has written, or    *)
(* that changed after the snapshot, is a write conflict, which makes       *)
(* WithTransaction start the callback again; a write outside a transaction *)
(* waits for the transaction that holds its document.  Everything else is  *)
(* a sequence of single-document operations that interleaves with it.      *)
(***************************************************************************)
EXTENDS Naturals

CONSTANTS
    User, Restaurant,
    Invite,         \* invite codes, never drawn twice
    InviteFor,      \* [Invite -> Restaurant]
    InviteRole,     \* [Invite -> {"admin", "staff"}]
    Claim,          \* calls of AdminFinalize
    ClaimUser,      \* [Claim -> User]
    ClaimInvite,    \* [Claim -> Invite \cup {LegacyCode}]
    Mismatch,       \* claims whose e-mail is not the invite's
    LegacyCode,     \* ADMIN_LEGACY_INVITE_CODE
    LegacyFor,      \* ADMIN_LEGACY_RESTAURANT_ID
    DBFaults,       \* BOOLEAN: may a call fail, or a process die in it?
    MaxBoots,       \* bound on boots of a process
    None            \* no row

Roles == {"owner", "admin", "staff"}

ASSUME AccessAssumption ==
    /\ InviteFor \in [Invite -> Restaurant]
    /\ InviteRole \in [Invite -> {"admin", "staff"}]
    /\ ClaimUser \in [Claim -> User]
    /\ LegacyCode \notin Invite
    /\ ClaimInvite \in [Claim -> Invite \cup {LegacyCode}]
    /\ Mismatch \subseteq Claim
    /\ LegacyFor \in Restaurant
    /\ DBFaults \in BOOLEAN
    /\ MaxBoots \in Nat
    /\ None \notin User \cup [role : Roles, id : Nat]
                        \cup [usedBy : User \cup {None}, revoked : BOOLEAN]

VARIABLES
    restaurants,    \* collection restaurants: the ids that exist
    creating,       \* the owner whose Create is between its two inserts
    known,          \* restaurants that ever existed: ids are not reused
    members,        \* collection admin_users, by restaurant and user
    inserted,       \* rows inserted so far for a pair: the identity of the next
    invites,        \* collection admin_invites: the row, or None
    issued,         \* codes drawn so far
    claims,         \* how far a claim has come
    snap,           \* what the transaction of a claim sees
    admitted,       \* claims whose transaction committed
    removals,       \* removals between their read and their delete
    removed,        \* pairs that lost a row to staff, or to a boot that had
                    \* missed their restaurant
    boot            \* the pruning process: stage, boots so far, ids it holds,
                    \* and those of them whose restaurant it missed

onboardingVars == <<restaurants, creating, known>>
memberVars     == <<members, inserted>>
inviteVars     == <<invites, issued>>
claimVars      == <<claims, snap, admitted>>
removalVars    == <<removals, removed>>
vars == <<onboardingVars, memberVars, inviteVars, claimVars, removalVars, boot>>

Pair == Restaurant \X User
Row == [role : Roles, id : Nat]
InviteRow == [usedBy : User \cup {None}, revoked : BOOLEAN]
Stages == {"idle", "found", "joined", "marked", "done", "refused"}
Open == {"found", "joined", "marked"}

TypeOK ==
    /\ restaurants \subseteq known /\ known \subseteq Restaurant
    /\ creating \in [Restaurant -> User \cup {None}]
    /\ members \in [Pair -> Row \cup {None}]
    /\ inserted \in [Pair -> Nat]
    /\ invites \in [Invite -> InviteRow \cup {None}]
    /\ issued \subseteq Invite
    /\ claims \in [Claim -> Stages]
    /\ DOMAIN snap = Claim
    /\ \A c \in Claim : claims[c] \in Open =>
           /\ ClaimInvite[c] \in Invite
           /\ snap[c] \in [invite : InviteRow, member : Row \cup {None}, exists : BOOLEAN]
    /\ admitted \subseteq Claim
    /\ removals \subseteq Pair \X Nat
    /\ removed \subseteq Pair
    /\ boot \in [stage : {"off", "listed", "checked"}, count : Nat,
                 ids : SUBSET Restaurant, missed : SUBSET Restaurant]

Init ==
    /\ restaurants = {} /\ known = {}
    /\ creating = [x \in Restaurant |-> None]
    /\ members = [p \in Pair |-> None]
    /\ inserted = [p \in Pair |-> 0]
    /\ invites = [i \in Invite |-> None]
    /\ issued = {}
    /\ claims = [c \in Claim |-> "idle"]
    /\ snap = [c \in Claim |-> None]
    /\ admitted = {}
    /\ removals = {} /\ removed = {}
    /\ boot = [stage |-> "off", count |-> 0, ids |-> {}, missed |-> {}]

IsMember(p) == members[p] # None
PairOf(c) == <<InviteFor[ClaimInvite[c]], ClaimUser[c]>>

\* Documents that a transaction has written and not committed: the inserted
\* row of a pair, and an invite.
RowHeld(p) ==
    \E c \in Claim : /\ claims[c] \in {"joined", "marked"}
                     /\ PairOf(c) = p /\ snap[c].member = None
InviteHeld(i) == \E c \in Claim : claims[c] = "marked" /\ ClaimInvite[c] = i

\* Mutant: an invite's empty role is stored as it is.
InsertEmptyRole(p, role) ==
    /\ members' = [members EXCEPT ![p] = [role |-> "", id |-> inserted[p]]]
    /\ inserted' = [inserted EXCEPT ![p] = @ + 1]

Insert(p, role) ==
    /\ members' = [members EXCEPT ![p] = [role |-> role, id |-> inserted[p]]]
    /\ inserted' = [inserted EXCEPT ![p] = @ + 1]

-----------------------------------------------------------------------------
(* Onboarding: RestaurantService.Create, two inserts and no transaction     *)

InsertRestaurant(u, x) ==
    /\ x \notin known
    /\ restaurants' = restaurants \cup {x}
    /\ known' = known \cup {x}
    /\ creating' = [creating EXCEPT ![x] = u]
    /\ UNCHANGED <<memberVars, inviteVars, claimVars, removalVars, boot>>

\* An error, or the end of the process, leaves a restaurant without owner.
InsertOwner(x) ==
    /\ creating[x] # None /\ ~RowHeld(<<x, creating[x]>>)
    /\ creating' = [creating EXCEPT ![x] = None]
    /\ \/ ~IsMember(<<x, creating[x]>>) /\ Insert(<<x, creating[x]>>, "owner")
       \/ (IsMember(<<x, creating[x]>>) \/ DBFaults) /\ UNCHANGED memberVars
    /\ UNCHANGED <<restaurants, known, inviteVars, claimVars, removalVars, boot>>

\* "Restaurants today are deleted directly in the DB with no cascade."
DropRestaurant(x) ==
    /\ x \in restaurants
    /\ restaurants' = restaurants \ {x}
    /\ UNCHANGED <<creating, known, memberVars, inviteVars, claimVars, removalVars, boot>>

-----------------------------------------------------------------------------
(* Invites: InviteService                                                   *)

CreateInvite(u, i) ==
    /\ i \notin issued
    /\ InviteFor[i] \in restaurants /\ IsMember(<<InviteFor[i], u>>)
    /\ issued' = issued \cup {i}
    /\ invites' = [invites EXCEPT ![i] = [usedBy |-> None, revoked |-> FALSE]]
    /\ UNCHANGED <<onboardingVars, memberVars, claimVars, removalVars, boot>>

Revoke(i) ==
    /\ invites[i] # None /\ ~InviteHeld(i)
    /\ invites' = [invites EXCEPT ![i].revoked = TRUE]
    /\ UNCHANGED <<onboardingVars, memberVars, issued, claimVars, removalVars, boot>>

DeleteInvite(i) ==
    /\ invites[i] # None /\ ~InviteHeld(i)
    /\ invites' = [invites EXCEPT ![i] = None]
    /\ UNCHANGED <<onboardingVars, memberVars, issued, claimVars, removalVars, boot>>

-----------------------------------------------------------------------------
(* Redemption: AuthService.AdminFinalize                                    *)

At(c, stage) == claims' = [claims EXCEPT ![c] = stage]

Active(row) == row # None /\ ~row.revoked /\ row.usedBy = None

\* FindActiveByCode opens the transaction's snapshot.
FindInvite(c) ==
    /\ claims[c] = "idle" /\ ClaimInvite[c] \in Invite
    /\ LET i == ClaimInvite[c]
       IN  IF Active(invites[i]) /\ c \notin Mismatch
           THEN /\ snap' = [snap EXCEPT ![c] =
                       [invite |-> invites[i], member |-> members[PairOf(c)],
                        exists |-> InviteFor[i] \in restaurants]]
                /\ At(c, "found")
           ELSE At(c, "refused") /\ UNCHANGED snap
    /\ UNCHANGED <<onboardingVars, memberVars, inviteVars, admitted, removalVars, boot>>

\* upsertAdminUser: $setOnInsert, so a row that the snapshot has is not
\* written and cannot conflict.
UpsertMember(c) ==
    /\ claims[c] = "found"
    /\ IF snap[c].member # None \/ (~IsMember(PairOf(c)) /\ ~RowHeld(PairOf(c)))
       THEN At(c, "joined")
       ELSE At(c, "idle") \/ At(c, "refused")
    /\ UNCHANGED <<onboardingVars, memberVars, inviteVars, snap, admitted, removalVars, boot>>

\* The invite was written by another transaction or changed since the snapshot.
InviteConflict(c) == InviteHeld(ClaimInvite[c]) \/ invites[ClaimInvite[c]] # snap[c].invite

\* Mutant: MarkUsed is called with the request's context and not with the
\* session's, so its write is outside the transaction and never conflicts.
MarkUsedOutside(c) ==
    /\ claims[c] = "joined"
    /\ At(c, "marked")
    /\ UNCHANGED <<onboardingVars, memberVars, inviteVars, snap, admitted, removalVars, boot>>

\* Mutant: the write is tried again without restarting the transaction.
MarkUsedAgain(c) ==
    /\ claims[c] = "joined"
    /\ IF InviteConflict(c) THEN UNCHANGED claims ELSE At(c, "marked")
    /\ UNCHANGED <<onboardingVars, memberVars, inviteVars, snap, admitted, removalVars, boot>>

\* MarkUsed filters on _id alone: that the invite is still active here is
\* left to the write conflict.
MarkUsed(c) ==
    /\ claims[c] = "joined"
    /\ IF InviteConflict(c) THEN At(c, "idle") ELSE At(c, "marked")
    /\ UNCHANGED <<onboardingVars, memberVars, inviteVars, snap, admitted, removalVars, boot>>

\* Mutant: the invite is marked first and the process may die before the upsert.
CommitInviteFirst(c) ==
    /\ claims[c] = "marked" /\ snap[c].exists
    /\ invites' = [invites EXCEPT ![ClaimInvite[c]] =
                       [snap[c].invite EXCEPT !.usedBy = ClaimUser[c]]]
    /\ admitted' = admitted \cup {c}
    /\ \/ Insert(PairOf(c), InviteRole[ClaimInvite[c]]) /\ At(c, "done")
       \/ UNCHANGED memberVars /\ At(c, "refused")
    /\ UNCHANGED <<onboardingVars, issued, snap, removalVars, boot>>

\* The restaurant is there: the token is signed and the transaction commits.
Commit(c) ==
    /\ claims[c] = "marked" /\ snap[c].exists
    /\ invites' = [invites EXCEPT ![ClaimInvite[c]] =
                       [snap[c].invite EXCEPT !.usedBy = ClaimUser[c]]]
    /\ IF snap[c].member = None
       THEN Insert(PairOf(c), InviteRole[ClaimInvite[c]])
       ELSE UNCHANGED memberVars
    /\ admitted' = admitted \cup {c}
    /\ At(c, "done") \/ (DBFaults /\ At(c, "refused"))
    /\ UNCHANGED <<onboardingVars, issued, snap, removalVars, boot>>

\* "invite's restaurant not found"
AbortWithoutRestaurant(c) ==
    /\ claims[c] = "marked" /\ ~snap[c].exists
    /\ At(c, "refused")
    /\ UNCHANGED <<onboardingVars, memberVars, inviteVars, snap, admitted, removalVars, boot>>

\* A database error or the end of the process.
AbortWithFault(c) ==
    /\ DBFaults /\ claims[c] \in Open
    /\ At(c, "refused")
    /\ UNCHANGED <<onboardingVars, memberVars, inviteVars, snap, admitted, removalVars, boot>>

\* The bootstrap code of the environment: one upsert, no transaction.
LegacyFinalize(c) ==
    /\ claims[c] = "idle" /\ ClaimInvite[c] = LegacyCode
    /\ LET p == <<LegacyFor, ClaimUser[c]>>
       IN  IF LegacyFor \notin restaurants
           THEN At(c, "refused") /\ UNCHANGED memberVars
           ELSE /\ ~RowHeld(p)
                /\ IF IsMember(p) THEN UNCHANGED memberVars ELSE Insert(p, "admin")
                /\ At(c, "done")
    /\ UNCHANGED <<onboardingVars, inviteVars, snap, admitted, removalVars, boot>>

-----------------------------------------------------------------------------
(* Removal: AdminService.Delete, a read and a delete by _id                 *)

MayRemove(a, x, u) == u # a /\ members[<<x, u>>].role # "owner"

StartRemoval(a, x, u) ==
    /\ x \in restaurants /\ IsMember(<<x, a>>) /\ IsMember(<<x, u>>)
    /\ MayRemove(a, x, u)
    /\ removals' = removals \cup {<<<<x, u>>, members[<<x, u>>].id>>}
    /\ UNCHANGED <<onboardingVars, memberVars, inviteVars, claimVars, removed, boot>>

\* The row is found by _id, so a row inserted meanwhile for the same user stays.
Finds(p, id) == IsMember(p) /\ members[p].id = id

FinishRemoval(p, id) ==
    /\ <<p, id>> \in removals
    /\ removals' = removals \ {<<p, id>>}
    /\ IF Finds(p, id)
       THEN members' = [members EXCEPT ![p] = None] /\ removed' = removed \cup {p}
       ELSE UNCHANGED <<members, removed>>
    /\ UNCHANGED <<onboardingVars, inserted, inviteVars, claimVars, boot>>

-----------------------------------------------------------------------------
(* Boot of another process: pruneOrphanAdminUsers                           *)

ListReferenced ==
    /\ boot.stage = "off" /\ boot.count < MaxBoots
    /\ boot' = [stage |-> "listed", count |-> boot.count + 1,
                ids |-> {x \in Restaurant : \E u \in User : IsMember(<<x, u>>)},
                missed |-> {}]
    /\ UNCHANGED <<onboardingVars, memberVars, inviteVars, claimVars, removalVars>>

\* Mutant: rows are deleted when their restaurant is not in the list just read.
CheckExistingNotIn ==
    /\ boot.stage = "listed"
    /\ boot' = [boot EXCEPT !.stage = "checked", !.ids = Restaurant \ restaurants]
    /\ UNCHANGED <<onboardingVars, memberVars, inviteVars, claimVars, removalVars>>

\* The cursor ends at the first error of the database, which is not looked at:
\* what it has not shown by then counts as missing.
CheckExisting ==
    /\ boot.stage = "listed"
    /\ \E seen \in SUBSET restaurants :
         /\ seen = restaurants \/ DBFaults
         /\ boot' = [boot EXCEPT !.stage = "checked", !.ids = @ \ seen,
                                !.missed = (boot.ids \cap restaurants) \ seen]
    /\ UNCHANGED <<onboardingVars, memberVars, inviteVars, claimVars, removalVars>>

\* DeleteMany goes row by row, and an error leaves the rest.
PruneOrphans ==
    LET orphans == {p \in Pair : p[1] \in boot.ids}
    IN  /\ boot.stage = "checked"
        /\ boot' = [boot EXCEPT !.stage = "off", !.ids = {}, !.missed = {}]
        /\ \E gone \in SUBSET orphans :
             /\ gone = orphans \/ DBFaults
             /\ members' = [p \in Pair |-> IF p \in gone THEN None ELSE members[p]]
             /\ removed' = removed \cup {p \in gone : p[1] \in boot.missed}
        /\ UNCHANGED <<onboardingVars, inserted, inviteVars, claimVars, removals>>

-----------------------------------------------------------------------------
ClaimStep(c) ==
    \/ FindInvite(c) \/ UpsertMember(c) \/ MarkUsed(c) \/ Commit(c)
    \/ AbortWithoutRestaurant(c) \/ LegacyFinalize(c)

Next ==
    \/ \E x \in Restaurant : InsertOwner(x) \/ DropRestaurant(x)
    \/ \E x \in Restaurant, u \in User :
         InsertRestaurant(u, x) \/ \E a \in User : StartRemoval(a, x, u)
    \/ \E i \in Invite : Revoke(i) \/ DeleteInvite(i) \/ \E u \in User : CreateInvite(u, i)
    \/ \E c \in Claim : ClaimStep(c) \/ AbortWithFault(c)
    \/ \E d \in removals : FinishRemoval(d[1], d[2])
    \/ ListReferenced \/ CheckExisting \/ PruneOrphans

Spec == Init /\ [][Next]_vars

\* A claim that has started runs on: the driver retries while the server
\* answers.
FairSpec == Spec /\ \A c \in Claim : WF_vars(claims[c] \in Open /\ ClaimStep(c))
                                  /\ WF_vars(snap[c] # None /\ FindInvite(c))

-----------------------------------------------------------------------------
(* Properties                                                               *)

\* A claim commits only while its invite is active: one that was revoked,
\* deleted or used after the claim read it admits nobody.
AdmitsWhileActive ==
    [][\A c \in admitted' \ admitted : Active(invites[ClaimInvite[c]])]_vars

\* An invite is not used up in vain: when it is marked, its user belongs to the
\* restaurant, unless an admin removed the user, the restaurant is gone, or a
\* boot whose scan was cut short took it for gone.
UsedInviteJoins ==
    [][\A c \in admitted' \ admitted :
          \/ members'[PairOf(c)] # None
          \/ PairOf(c) \in removed
          \/ InviteFor[ClaimInvite[c]] \notin restaurants]_vars

\* Nobody loses a membership of a restaurant that exists, except by an
\* admin's removal, which never reaches the owner, or by a boot whose scan of
\* restaurants an error cut short before it came to this one: a boot that saw
\* them all takes no row, not even of a restaurant just being created.
OwnersStay ==
    [][\A p \in Pair :
          p[1] \in restaurants /\ members[p] # None /\ members'[p] # members[p]
              => \/ members[p].role # "owner" /\ <<p, members[p].id>> \in removals
                 \/ PruneOrphans /\ p[1] \in boot.missed]_vars

\* A claim that has read its invite is answered: conflicts between claims do
\* not make them start over for ever.
ClaimsEnd == \A c \in Claim : claims[c] \in Open ~> claims[c] \in {"done", "refused"}

\* restaurant/service: "The creator becomes the owner-level admin for this
\* restaurant": a restaurant whose creation has ended has an owner.
CreatorBecomesOwner ==
    \A x \in restaurants : creating[x] = None =>
        \E u \in User : IsMember(<<x, u>>) /\ members[<<x, u>>].role = "owner"
=============================================================================
