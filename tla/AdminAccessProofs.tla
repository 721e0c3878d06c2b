-------------------------- MODULE AdminAccessProofs --------------------------
(* Invites admit while they are active and not in vain, and owners stay:    *)
(* the proofs.                                                              *)
EXTENDS AdminAccess, TLAPS

-----------------------------------------------------------------------------
(* The inductive invariant                                                  *)

Holds(c) == claims[c] \in {"joined", "marked"} /\ snap[c].member = None

\* What the transaction of a claim saw, and what has become of it.
Sound(c) ==
    claims[c] \in Open =>
      LET x == InviteFor[ClaimInvite[c]]
      IN /\ Active(snap[c].invite)
         /\ claims[c] = "marked" => invites[ClaimInvite[c]] = snap[c].invite
         /\ snap[c].exists \/ snap[c].member # None => x \in known
         /\ snap[c].member # None =>
              IsMember(PairOf(c)) \/ PairOf(c) \in removed \/ x \notin restaurants
         /\ Holds(c) => ~IsMember(PairOf(c))

\* Two transactions that go on have not written the same document.
Exclusive ==
    \A c, d \in Claim : c # d =>
        /\ claims[c] = "marked" /\ claims[d] = "marked" => ClaimInvite[c] # ClaimInvite[d]
        /\ Holds(c) /\ Holds(d) => PairOf(c) # PairOf(d)

Drawn == \A i \in Invite : invites[i] # None => i \in issued

\* Rows are of restaurants that existed once, and so are the ids a boot holds,
\* which after its second read no longer exist, but for those it has missed.
Existed ==
    /\ \A p \in Pair : IsMember(p) => p[1] \in known
    /\ \A x \in Restaurant : creating[x] # None => x \in known
    /\ boot.ids \subseteq known
    /\ boot.stage = "checked" => boot.ids \cap restaurants \subseteq boot.missed

\* A removal holds the identity of a row that was there, and was no owner's.
Removable ==
    /\ \A p \in Pair : IsMember(p) => members[p].id < inserted[p]
    /\ \A p \in Pair, id \in Nat : <<p, id>> \in removals =>
         id < inserted[p] /\ (Finds(p, id) => members[p].role # "owner")

AccessInv ==
    TypeOK /\ (\A c \in Claim : Sound(c)) /\ Exclusive /\ Drawn /\ Existed /\ Removable

-----------------------------------------------------------------------------
(* Rows                                                                     *)

\* What the transaction of a claim that goes on refers to.
LEMMA OpenClaim ==
    ASSUME TypeOK, NEW c \in Claim, claims[c] \in Open
    PROVE  /\ ClaimInvite[c] \in Invite /\ InviteFor[ClaimInvite[c]] \in Restaurant
           /\ PairOf(c) \in Pair /\ PairOf(c)[1] = InviteFor[ClaimInvite[c]]
           /\ snap[c].invite \in InviteRow /\ snap[c].member \in Row \cup {None}
           /\ snap[c].exists \in BOOLEAN
  BY AccessAssumption DEF TypeOK, PairOf, Pair

\* A row that is inserted where there was none gets an identity no removal holds.
LEMMA InsertKeeps ==
    ASSUME AccessInv, NEW p \in Pair, NEW role \in Roles, Insert(p, role), ~IsMember(p),
           p[1] \in known, UNCHANGED <<removals, known>>
    PROVE  /\ members' \in [Pair -> Row \cup {None}] /\ inserted' \in [Pair -> Nat]
           /\ members'[p] # None /\ \A q \in Pair \ {p} : members'[q] = members[q]
           /\ \A q \in Pair : IsMember(q)' => q[1] \in known
           /\ Removable'
<1> DEFINE row == [role |-> role, id |-> inserted[p]]
<1>1. inserted[p] \in Nat /\ row \in Row BY DEF AccessInv, TypeOK, Row
<1>2. row # None BY <1>1, AccessAssumption DEF Row
<1>3. members' = [members EXCEPT ![p] = row] /\ inserted' = [inserted EXCEPT ![p] = @ + 1]
  BY DEF Insert
<1> HIDE DEF row
<1>4. /\ members'[p] = row /\ \A q \in Pair \ {p} : members'[q] = members[q]
      /\ inserted'[p] = inserted[p] + 1 /\ \A q \in Pair \ {p} : inserted'[q] = inserted[q]
  BY <1>3 DEF AccessInv, TypeOK
<1>5. members' \in [Pair -> Row \cup {None}] /\ inserted' \in [Pair -> Nat]
  BY <1>1, <1>3 DEF AccessInv, TypeOK
<1>6. \A q \in Pair : IsMember(q)' => q[1] \in known
  BY <1>4 DEF AccessInv, Existed, IsMember
<1>7. row.id = inserted[p] BY DEF row
<1>8. ASSUME NEW q \in Pair, IsMember(q)' PROVE members'[q].id < inserted'[q]
  <2>1. CASE q = p BY <1>1, <1>4, <1>7, <2>1
  <2>2. CASE q # p BY <1>4, <1>8, <2>2 DEF AccessInv, Removable, IsMember
  <2> QED BY <2>1, <2>2
<1>9. ASSUME NEW q \in Pair, NEW id \in Nat, <<q, id>> \in removals'
      PROVE  id < inserted'[q] /\ (Finds(q, id)' => members'[q].role # "owner")
  <2>1. id < inserted[q] /\ (Finds(q, id) => members[q].role # "owner")
    BY <1>9 DEF AccessInv, Removable
  <2>2. CASE q = p BY <1>1, <1>4, <1>7, <2>1, <2>2 DEF Finds
  <2>3. CASE q # p BY <1>4, <2>1, <2>3 DEF Finds, IsMember
  <2> QED BY <2>2, <2>3
<1> QED BY <1>2, <1>4, <1>5, <1>6, <1>8, <1>9 DEF Removable

\* So the claims of other pairs, and those that found a row, are not touched.
LEMMA InsertSound ==
    ASSUME AccessInv, NEW p \in Pair, members'[p] # None,
           \A q \in Pair \ {p} : members'[q] = members[q],
           UNCHANGED <<restaurants, known, invites, snap, removed>>,
           NEW c \in Claim, claims'[c] = claims[c], ~(Holds(c) /\ PairOf(c) = p)
    PROVE  Sound(c)'
<1> SUFFICES ASSUME claims[c] \in Open PROVE Sound(c)' BY DEF Sound
<1>1. PairOf(c) \in Pair BY OpenClaim DEF AccessInv
<1>2. PairOf(c)' = PairOf(c) /\ Holds(c)' = Holds(c) BY DEF PairOf, Holds
<1>3. IsMember(PairOf(c)) => IsMember(PairOf(c))' BY <1>1, <1>2 DEF IsMember
<1>4. Holds(c) => ~IsMember(PairOf(c))' BY <1>1, <1>2 DEF AccessInv, Sound, IsMember
<1> QED BY <1>2, <1>3, <1>4 DEF AccessInv, Sound, Active

\* Nothing about a claim changes while rows, invites and restaurants stay.
LEMMA QuietSound ==
    ASSUME NEW c \in Claim, Sound(c), claims'[c] = claims[c], snap'[c] = snap[c],
           UNCHANGED <<members, restaurants, known, invites, removed>>
    PROVE  Sound(c)'
  BY DEF Sound, Active, Holds, PairOf, IsMember

-----------------------------------------------------------------------------
(* The invariant is inductive                                               *)

LEMMA InitInv == Init => AccessInv
<1> SUFFICES ASSUME Init PROVE AccessInv OBVIOUS
<1>1. TypeOK BY DEF Init, TypeOK, Stages, Open
<1>2. \A p \in Pair : ~IsMember(p) BY DEF Init, IsMember
<1>3. Existed /\ Removable BY <1>2 DEF Init, Existed, Removable
<1> QED BY <1>1, <1>3 DEF Init, AccessInv, Sound, Open, Exclusive, Holds, Drawn

LEMMA OnboardingInv ==
    ASSUME AccessInv, NEW x \in Restaurant,
           \/ InsertOwner(x) \/ DropRestaurant(x)
           \/ \E u \in User : InsertRestaurant(u, x)
    PROVE  AccessInv'
<1>1. CASE InsertOwner(x)
  <2> DEFINE p == <<x, creating[x]>>
  <2>1. /\ p \in Pair /\ p[1] = x /\ x \in known /\ ~RowHeld(p)
        /\ creating' = [creating EXCEPT ![x] = None]
        /\ UNCHANGED <<restaurants, known, inviteVars, claimVars, removalVars, boot>>
    BY <1>1 DEF InsertOwner, AccessInv, TypeOK, Existed, Pair
  <2>2. creating' \in [Restaurant -> User \cup {None}]
        /\ \A y \in Restaurant : creating'[y] # None => creating[y] # None
    BY <2>1 DEF AccessInv, TypeOK
  <2> HIDE DEF p
  <2>3. Exclusive' /\ Drawn'
    BY <2>1 DEF inviteVars, claimVars, AccessInv, Exclusive, Holds, PairOf, Drawn
  <2>4. CASE UNCHANGED memberVars
    <3>1. TypeOK' BY <2>1, <2>2, <2>4
      DEF AccessInv, TypeOK, memberVars, inviteVars, claimVars, removalVars
    <3>2. \A c \in Claim : Sound(c)' BY <2>1, <2>4, QuietSound
      DEF AccessInv, memberVars, inviteVars, claimVars, removalVars
    <3>3. Existed' BY <2>1, <2>2, <2>4 DEF AccessInv, Existed, IsMember, memberVars
    <3>4. Removable' BY <2>1, <2>4
      DEF AccessInv, Removable, Finds, IsMember, memberVars, removalVars
    <3> QED BY <2>3, <3>1, <3>2, <3>3, <3>4 DEF AccessInv
  <2>5. CASE ~IsMember(p) /\ Insert(p, "owner")
    <3>1. /\ members' \in [Pair -> Row \cup {None}] /\ inserted' \in [Pair -> Nat]
          /\ members'[p] # None /\ \A q \in Pair \ {p} : members'[q] = members[q]
          /\ \A q \in Pair : IsMember(q)' => q[1] \in known
          /\ Removable'
      BY <2>1, <2>5, InsertKeeps DEF Roles, removalVars
    <3>2. TypeOK' BY <2>1, <2>2, <3>1 DEF AccessInv, TypeOK, inviteVars, claimVars, removalVars
    <3>3. Existed' BY <2>1, <2>2, <3>1 DEF AccessInv, Existed
    <3>4. \A c \in Claim : Holds(c) => PairOf(c) # p BY <2>1 DEF RowHeld, Holds
    <3>5. \A c \in Claim : Sound(c)' BY <2>1, <3>1, <3>4, InsertSound
      DEF inviteVars, claimVars, removalVars
    <3> QED BY <2>3, <3>1, <3>2, <3>3, <3>5 DEF AccessInv
  <2> QED BY <1>1, <2>4, <2>5 DEF InsertOwner, p
<1>2. CASE DropRestaurant(x)
  <2>1. /\ restaurants' = restaurants \ {x}
        /\ UNCHANGED <<creating, known, members, inserted, invites, issued, claims, snap,
                       admitted, removals, removed, boot>>
    BY <1>2 DEF DropRestaurant, memberVars, inviteVars, claimVars, removalVars
  <2>2. TypeOK' BY <2>1 DEF AccessInv, TypeOK
  <2>3. \A c \in Claim : Sound(c)'
    BY <2>1 DEF AccessInv, Sound, Active, Holds, PairOf, IsMember
  <2> QED BY <2>1, <2>2, <2>3
    DEF AccessInv, Exclusive, Holds, PairOf, Drawn, Existed, Removable, Finds, IsMember
<1>3. ASSUME NEW u \in User, InsertRestaurant(u, x) PROVE AccessInv'
  <2>1. /\ x \notin known /\ restaurants' = restaurants \cup {x} /\ known' = known \cup {x}
        /\ creating' = [creating EXCEPT ![x] = u]
        /\ UNCHANGED <<members, inserted, invites, issued, claims, snap,
                       admitted, removals, removed, boot>>
    BY <1>3 DEF InsertRestaurant, memberVars, inviteVars, claimVars, removalVars
  <2>2. TypeOK' BY <2>1 DEF AccessInv, TypeOK
  <2>3. \A c \in Claim : Sound(c)'
    BY <2>1 DEF AccessInv, Sound, Active, Holds, PairOf, IsMember
  <2>4. Existed' BY <2>1 DEF AccessInv, TypeOK, Existed, IsMember
  <2> QED BY <2>1, <2>2, <2>3, <2>4
    DEF AccessInv, Exclusive, Holds, PairOf, Drawn, Removable, Finds, IsMember
<1> QED BY <1>1, <1>2, <1>3

\* An invite whose transaction is about to commit is neither revoked nor deleted.
LEMMA InvitesInv ==
    ASSUME AccessInv, NEW i \in Invite,
           Revoke(i) \/ DeleteInvite(i) \/ \E u \in User : CreateInvite(u, i)
    PROVE  AccessInv'
<1>1. UNCHANGED <<restaurants, creating, known, members, inserted, claims, snap, admitted,
                  removals, removed, boot>>
  BY DEF Revoke, DeleteInvite, CreateInvite, onboardingVars, memberVars, claimVars, removalVars
<1>2. /\ invites' \in [Invite -> InviteRow \cup {None}]
      /\ issued' \subseteq Invite /\ issued \subseteq issued'
      /\ \A j \in Invite \ {i} : invites'[j] = invites[j]
      /\ i \in issued'
  <2>1. CASE Revoke(i)
    <3>1. invites[i] \in InviteRow BY <2>1 DEF Revoke, AccessInv, TypeOK
    <3>2. [invites[i] EXCEPT !.revoked = TRUE] \in InviteRow BY <3>1 DEF InviteRow
    <3>3. invites' = [invites EXCEPT ![i] = [invites[i] EXCEPT !.revoked = TRUE]]
      BY <2>1 DEF Revoke
    <3> QED BY <2>1, <3>2, <3>3 DEF Revoke, AccessInv, TypeOK, Drawn
  <2>2. CASE DeleteInvite(i) BY <2>2 DEF DeleteInvite, AccessInv, TypeOK, Drawn
  <2>3. CASE \E u \in User : CreateInvite(u, i)
    BY <2>3 DEF CreateInvite, AccessInv, TypeOK, InviteRow
  <2> QED BY <2>1, <2>2, <2>3
<1>3. ASSUME NEW c \in Claim, claims[c] = "marked" PROVE ClaimInvite[c] # i
  <2>1. InviteHeld(ClaimInvite[c]) BY <1>3 DEF InviteHeld
  <2>2. invites[ClaimInvite[c]] = snap[c].invite /\ Active(snap[c].invite)
    BY <1>3 DEF AccessInv, Sound, Open
  <2>3. ClaimInvite[c] \in issued
    BY <1>3, <2>2, OpenClaim DEF AccessInv, Drawn, Active, Open
  <2> QED BY <2>1, <2>3 DEF Revoke, DeleteInvite, CreateInvite
<1>4. \A c \in Claim : Sound(c)'
  <2> TAKE c \in Claim
  <2> SUFFICES ASSUME claims[c] \in Open PROVE Sound(c)' BY <1>1 DEF Sound
  <2>1. ClaimInvite[c] \in Invite BY OpenClaim DEF AccessInv
  <2>2. claims[c] = "marked" => invites'[ClaimInvite[c]] = snap[c].invite
    BY <1>2, <1>3, <2>1 DEF AccessInv, Sound
  <2> QED BY <1>1, <2>2 DEF AccessInv, Sound, Active, Holds, PairOf, IsMember
<1>5. TypeOK' BY <1>1, <1>2 DEF AccessInv, TypeOK
<1>6. Drawn' BY <1>2 DEF AccessInv, Drawn
<1> QED BY <1>1, <1>4, <1>5, <1>6
  DEF AccessInv, Exclusive, Holds, PairOf, Existed, Removable, Finds, IsMember

\* What the steps of a claim before its commit have in common.
LEMMA ClaimMoves ==
    ASSUME AccessInv, NEW c \in Claim, NEW stage \in Stages, At(c, stage),
           UNCHANGED <<onboardingVars, memberVars, inviteVars, admitted, removalVars, boot>>,
           \A d \in Claim \ {c} : snap'[d] = snap[d], TypeOK', Sound(c)',
           \A d \in Claim \ {c} :
              /\ stage = "marked" /\ claims[d] = "marked" => ClaimInvite[c] # ClaimInvite[d]
              /\ Holds(c)' /\ Holds(d) => PairOf(c) # PairOf(d)
    PROVE  AccessInv'
<1>1. UNCHANGED <<restaurants, creating, known, members, inserted, invites, issued,
                  removals, removed, boot>>
  BY DEF onboardingVars, memberVars, inviteVars, removalVars
<1>2. claims'[c] = stage /\ \A d \in Claim \ {c} : claims'[d] = claims[d]
  BY DEF At, AccessInv, TypeOK
<1>3. \A d \in Claim \ {c} : Sound(d)' BY <1>1, <1>2, QuietSound DEF AccessInv
<1>4. Exclusive'
  <2> SUFFICES ASSUME NEW d \in Claim, NEW e \in Claim, d # e
               PROVE  /\ claims'[d] = "marked" /\ claims'[e] = "marked"
                            => ClaimInvite[d] # ClaimInvite[e]
                      /\ Holds(d)' /\ Holds(e)' => PairOf(d) # PairOf(e)
    BY DEF Exclusive, PairOf
  <2>1. \A b \in Claim \ {c} : Holds(b)' = Holds(b) BY <1>2 DEF Holds
  <2>2. CASE d # c /\ e # c BY <1>2, <2>1, <2>2 DEF AccessInv, Exclusive
  <2>3. CASE d = c BY <1>2, <2>1, <2>3
  <2>4. CASE e = c BY <1>2, <2>1, <2>4
  <2> QED BY <2>2, <2>3, <2>4
<1> QED BY <1>1, <1>3, <1>4 DEF AccessInv, Drawn, Existed, Removable, Finds, IsMember

\* A claim that is not under way relies on nothing.
LEMMA ClaimStops ==
    ASSUME AccessInv, NEW c \in Claim, NEW stage \in {"idle", "done", "refused"},
           At(c, stage),
           UNCHANGED <<onboardingVars, memberVars, inviteVars, snap, admitted, removalVars, boot>>
    PROVE  AccessInv'
<1>1. /\ claims'[c] = stage /\ claims' \in [Claim -> Stages]
      /\ \A d \in Claim \ {c} : claims'[d] = claims[d]
  BY DEF At, AccessInv, TypeOK, Stages
<1>2. TypeOK' BY <1>1
  DEF AccessInv, TypeOK, Open, onboardingVars, memberVars, inviteVars, removalVars
<1>3. Sound(c)' /\ ~Holds(c)' BY <1>1 DEF Sound, Open, Holds
<1> QED BY <1>2, <1>3, ClaimMoves DEF Stages

\* A claim reads an active invite, and remembers whether the user had a row.
LEMMA FindInv == ASSUME AccessInv, NEW c \in Claim, FindInvite(c) PROVE AccessInv'
<1> DEFINE i == ClaimInvite[c]
           x == InviteFor[i]
           seen == [invite |-> invites[i], member |-> members[PairOf(c)],
                    exists |-> x \in restaurants]
<1>1. /\ i \in Invite /\ claims[c] = "idle"
      /\ UNCHANGED <<onboardingVars, memberVars, inviteVars, admitted, removalVars, boot>>
  BY DEF FindInvite
<1>2. CASE At(c, "refused") /\ UNCHANGED snap BY <1>1, <1>2, ClaimStops
<1>3. CASE Active(invites[i]) /\ At(c, "found") /\ snap' = [snap EXCEPT ![c] = seen]
  <2>1. UNCHANGED <<restaurants, creating, known, members, inserted, invites, issued,
                    removals, removed, boot>>
    BY <1>1 DEF onboardingVars, memberVars, inviteVars, removalVars
  <2>2. PairOf(c) \in Pair /\ PairOf(c)[1] = x
    BY <1>1, AccessAssumption DEF PairOf, Pair
  <2>3. seen \in [invite : InviteRow, member : Row \cup {None}, exists : BOOLEAN]
    BY <1>1, <1>3, <2>2 DEF AccessInv, TypeOK, Active
  <2>4. /\ claims'[c] = "found" /\ claims' \in [Claim -> Stages]
        /\ \A d \in Claim \ {c} : claims'[d] = claims[d] /\ snap'[d] = snap[d]
        /\ snap'[c] = seen /\ DOMAIN snap' = Claim
    BY <1>3 DEF At, AccessInv, TypeOK, Stages
  <2>5. TypeOK' BY <1>1, <2>1, <2>3, <2>4 DEF AccessInv, TypeOK
  <2>6. seen.invite = invites[i] /\ seen.member = members[PairOf(c)]
        /\ seen.exists = (x \in restaurants)
    OBVIOUS
  <2> HIDE DEF seen
  <2>7. restaurants \subseteq known BY DEF AccessInv, TypeOK
  <2>8. IsMember(PairOf(c)) => x \in known BY <2>2 DEF AccessInv, Existed
  <2>9. Sound(c)' BY <1>3, <2>1, <2>4, <2>6, <2>7, <2>8
    DEF Sound, Active, Holds, PairOf, IsMember
  <2>10. ~Holds(c)' BY <2>4 DEF Holds
  <2> QED BY <1>1, <1>3, <2>4, <2>5, <2>9, <2>10, ClaimMoves DEF Stages
<1> QED BY <1>2, <1>3 DEF FindInvite

\* A claim writes a row, and an invite, that no other claim has written.
LEMMA WriteInv ==
    ASSUME AccessInv, NEW c \in Claim, UpsertMember(c) \/ MarkUsed(c)
    PROVE  AccessInv'
<1>1. UNCHANGED <<onboardingVars, memberVars, inviteVars, snap, admitted, removalVars, boot>>
  BY DEF UpsertMember, MarkUsed
<1>2. UNCHANGED <<restaurants, creating, known, members, inserted, invites, issued, snap,
                  removals, removed, boot>>
  BY <1>1 DEF onboardingVars, memberVars, inviteVars, removalVars
<1>3. claims[c] \in Open /\ Sound(c) BY DEF UpsertMember, MarkUsed, Open, AccessInv
<1>4. ASSUME NEW stage \in {"joined", "marked"}, At(c, stage)
      PROVE  /\ TypeOK' /\ claims'[c] = stage
             /\ Sound(c)' <=> /\ stage = "marked" => invites[ClaimInvite[c]] = snap[c].invite
                              /\ snap[c].member = None => ~IsMember(PairOf(c))
  <2>1. claims'[c] = stage /\ claims' \in [Claim -> Stages]
        /\ \A d \in Claim \ {c} : claims'[d] = claims[d]
    BY <1>4 DEF At, AccessInv, TypeOK, Stages
  <2>2. TypeOK' BY <1>1, <1>2, <1>3, <2>1 DEF AccessInv, TypeOK
  <2>3. Holds(c)' <=> snap[c].member = None BY <1>2, <2>1 DEF Holds
  <2>4. claims'[c] \in Open BY <2>1 DEF Open
  <2> QED BY <1>2, <1>3, <2>1, <2>2, <2>3, <2>4 DEF Sound, Active, PairOf, IsMember
<1>5. CASE UpsertMember(c)
  <2>1. CASE At(c, "idle") \/ At(c, "refused") BY <1>1, <2>1, ClaimStops
  <2>2. CASE /\ snap[c].member # None \/ (~IsMember(PairOf(c)) /\ ~RowHeld(PairOf(c)))
             /\ At(c, "joined")
    <3>1. TypeOK' /\ Sound(c)' /\ claims'[c] = "joined" BY <1>4, <2>2
    <3>2. \A d \in Claim \ {c} : Holds(c)' /\ Holds(d) => PairOf(c) # PairOf(d)
      BY <1>2, <2>2 DEF Holds, RowHeld
    <3> QED BY <1>1, <2>2, <3>1, <3>2, ClaimMoves DEF Stages
  <2> QED BY <1>5, <2>1, <2>2 DEF UpsertMember
<1>6. CASE MarkUsed(c)
  <2>1. CASE At(c, "idle") BY <1>1, <2>1, ClaimStops
  <2>2. CASE ~InviteConflict(c) /\ At(c, "marked")
    <3>1. claims[c] = "joined" BY <1>6 DEF MarkUsed
    <3>2. snap[c].member = None => ~IsMember(PairOf(c)) BY <1>3, <3>1 DEF Sound, Holds
    <3>3. invites[ClaimInvite[c]] = snap[c].invite BY <2>2 DEF InviteConflict
    <3>4. TypeOK' /\ Sound(c)' /\ claims'[c] = "marked" BY <1>4, <2>2, <3>2, <3>3
    <3>5. \A d \in Claim \ {c} : claims[d] = "marked" => ClaimInvite[c] # ClaimInvite[d]
      BY <2>2 DEF InviteConflict, InviteHeld
    <3>6. Holds(c)' <=> Holds(c) BY <1>2, <3>1, <3>4 DEF Holds
    <3>7. \A d \in Claim \ {c} : Holds(c)' /\ Holds(d) => PairOf(c) # PairOf(d)
      BY <3>6 DEF AccessInv, Exclusive
    <3> QED BY <1>1, <2>2, <3>4, <3>5, <3>7, ClaimMoves DEF Stages
  <2> QED BY <1>6, <2>1, <2>2 DEF MarkUsed
<1> QED BY <1>5, <1>6

\* A commit inserts the row where there is none, and writes an invite that no
\* other claim has written.
LEMMA CommitInv == ASSUME AccessInv, NEW c \in Claim, Commit(c) PROVE AccessInv'
<1> DEFINE i == ClaimInvite[c]
           p == PairOf(c)
           row == [snap[c].invite EXCEPT !.usedBy = ClaimUser[c]]
<1>1. claims[c] = "marked" /\ claims[c] \in Open /\ Sound(c)
  BY DEF Commit, Open, AccessInv
<1>2. /\ i \in Invite /\ p \in Pair /\ p[1] = InviteFor[i] /\ snap[c].invite \in InviteRow
  BY <1>1, OpenClaim DEF AccessInv
<1>3. row \in InviteRow BY <1>2, AccessAssumption DEF InviteRow
<1>4. /\ invites' = [invites EXCEPT ![i] = row]
      /\ UNCHANGED <<restaurants, creating, known, issued, snap, removals, removed, boot>>
      /\ admitted' = admitted \cup {c}
      /\ IF snap[c].member = None THEN Insert(p, InviteRole[i]) ELSE UNCHANGED memberVars
      /\ \E stage \in {"done", "refused"} : At(c, stage)
  BY DEF Commit, onboardingVars, removalVars
<1> HIDE DEF row
<1>5. invites' \in [Invite -> InviteRow \cup {None}]
      /\ \A j \in Invite \ {i} : invites'[j] = invites[j]
  BY <1>3, <1>4 DEF AccessInv, TypeOK
<1>6. /\ claims'[c] \in {"done", "refused"} /\ claims' \in [Claim -> Stages]
      /\ \A d \in Claim \ {c} : claims'[d] = claims[d]
  BY <1>4 DEF At, AccessInv, TypeOK, Stages
<1>7. ASSUME snap[c].member = None
      PROVE  /\ members' \in [Pair -> Row \cup {None}] /\ inserted' \in [Pair -> Nat]
             /\ members'[p] # None /\ \A q \in Pair \ {p} : members'[q] = members[q]
             /\ \A q \in Pair : IsMember(q)' => q[1] \in known
             /\ Removable'
  <2>1. ~IsMember(p) BY <1>1, <1>7 DEF Sound, Holds
  <2>2. p[1] \in known BY <1>1, <1>2 DEF Commit, Sound
  <2>3. InviteRole[i] \in Roles BY <1>2, AccessAssumption DEF Roles
  <2> QED BY <1>2, <1>4, <1>7, <2>1, <2>2, <2>3, InsertKeeps
<1>8. /\ members' \in [Pair -> Row \cup {None}] /\ inserted' \in [Pair -> Nat]
      /\ \A q \in Pair : IsMember(q)' => q[1] \in known
      /\ Removable'
  <2>1. CASE snap[c].member = None BY <1>7, <2>1
  <2>2. CASE snap[c].member # None
    BY <1>4, <2>2 DEF memberVars, AccessInv, TypeOK, Existed, Removable, Finds, IsMember
  <2> QED BY <2>1, <2>2
<1>9. TypeOK' BY <1>4, <1>5, <1>6, <1>8 DEF AccessInv, TypeOK, Open
<1>10. Drawn'
  <2>1. i \in issued BY <1>1, <1>2 DEF AccessInv, Drawn, Sound, Active
  <2> QED BY <1>4, <1>5, <2>1 DEF AccessInv, Drawn
<1>11. Existed' BY <1>4, <1>8 DEF AccessInv, Existed
<1>12. Exclusive' BY <1>4, <1>6 DEF AccessInv, Exclusive, Holds, PairOf
<1>13. ASSUME NEW d \in Claim PROVE Sound(d)'
  <2>1. CASE d = c BY <1>6, <2>1 DEF Sound, Open
  <2>2. CASE claims[d] \notin Open /\ d # c BY <1>6, <2>2 DEF Sound
  <2>3. CASE claims[d] \in Open /\ d # c
    <3>1. /\ ClaimInvite[d] \in Invite /\ PairOf(d) \in Pair /\ Sound(d)
          /\ claims'[d] = claims[d]
      BY <1>6, <2>3, OpenClaim DEF AccessInv
    <3>2. claims[d] = "marked" => invites'[ClaimInvite[d]] = snap[d].invite
      BY <1>1, <1>5, <2>3, <3>1 DEF AccessInv, Exclusive, Sound
    <3>3. IsMember(PairOf(d)) => members'[PairOf(d)] # None
      BY <1>4, <1>7, <3>1 DEF IsMember, memberVars
    <3>4. Holds(d) => members'[PairOf(d)] = None
      <4>1. Holds(d) /\ snap[c].member = None => PairOf(d) # p
        BY <1>1, <2>3 DEF AccessInv, Exclusive, Holds
      <4> QED BY <1>4, <1>7, <2>3, <3>1, <4>1 DEF Sound, IsMember, memberVars
    <3> QED BY <1>4, <3>1, <3>2, <3>3, <3>4 DEF Sound, Active, Holds, PairOf, IsMember
  <2> QED BY <2>1, <2>2, <2>3
<1> QED BY <1>8, <1>9, <1>10, <1>11, <1>12, <1>13 DEF AccessInv

\* The bootstrap code inserts a row that no transaction has written.
LEMMA LegacyInv == ASSUME AccessInv, NEW c \in Claim, LegacyFinalize(c) PROVE AccessInv'
<1> DEFINE p == <<LegacyFor, ClaimUser[c]>>
<1>1. /\ claims[c] = "idle"
      /\ UNCHANGED <<onboardingVars, inviteVars, snap, admitted, removalVars, boot>>
  BY DEF LegacyFinalize
<1>2. CASE UNCHANGED memberVars /\ \E stage \in {"done", "refused"} : At(c, stage)
  BY <1>1, <1>2, ClaimStops
<1>3. CASE /\ LegacyFor \in restaurants /\ ~RowHeld(p) /\ ~IsMember(p)
           /\ Insert(p, "admin") /\ At(c, "done")
  <2>1. UNCHANGED <<restaurants, creating, known, invites, issued, snap, admitted,
                    removals, removed, boot>>
    BY <1>1 DEF onboardingVars, inviteVars, removalVars
  <2>2. p \in Pair /\ p[1] \in known
    BY <1>3, AccessAssumption DEF Pair, AccessInv, TypeOK
  <2> HIDE DEF p
  <2>3. /\ members' \in [Pair -> Row \cup {None}] /\ inserted' \in [Pair -> Nat]
        /\ members'[p] # None /\ \A q \in Pair \ {p} : members'[q] = members[q]
        /\ \A q \in Pair : IsMember(q)' => q[1] \in known
        /\ Removable'
    BY <1>3, <2>1, <2>2, InsertKeeps DEF Roles
  <2>4. /\ claims'[c] = "done" /\ claims' \in [Claim -> Stages]
        /\ \A d \in Claim \ {c} : claims'[d] = claims[d]
    BY <1>3 DEF At, AccessInv, TypeOK, Stages
  <2>5. TypeOK' BY <2>1, <2>3, <2>4 DEF AccessInv, TypeOK, Open
  <2>6. \A d \in Claim : Holds(d) => PairOf(d) # p BY <1>3 DEF RowHeld, Holds
  <2>7. \A d \in Claim \ {c} : Sound(d)' BY <2>1, <2>2, <2>3, <2>4, <2>6, InsertSound
  <2>8. Sound(c)' BY <2>4 DEF Sound, Open
  <2>9. Exclusive' BY <2>1, <2>4 DEF AccessInv, Exclusive, Holds, PairOf
  <2> QED BY <2>1, <2>3, <2>5, <2>7, <2>8, <2>9 DEF AccessInv, Drawn, Existed
<1> QED BY <1>2, <1>3 DEF LegacyFinalize

\* A removal deletes the row it read, by its identity, and none of an owner.
LEMMA RemovalInv ==
    ASSUME AccessInv,
           \/ \E x \in Restaurant, u \in User, a \in User : StartRemoval(a, x, u)
           \/ \E d \in removals : FinishRemoval(d[1], d[2])
    PROVE  AccessInv'
<1>1. ASSUME NEW x \in Restaurant, NEW u \in User, NEW a \in User, StartRemoval(a, x, u)
      PROVE  AccessInv'
  <2> DEFINE p == <<x, u>>
             id == members[p].id
  <2>1. /\ UNCHANGED <<restaurants, creating, known, members, inserted, invites, issued,
                       claims, snap, admitted, removed, boot>>
        /\ removals' = removals \cup {<<p, id>>}
        /\ IsMember(p) /\ members[p].role # "owner"
    BY <1>1 DEF StartRemoval, MayRemove, onboardingVars, memberVars, inviteVars, claimVars
  <2>2. p \in Pair /\ id \in Nat BY <2>1 DEF Pair, AccessInv, TypeOK, IsMember, Row
  <2>3. id < inserted[p] BY <2>1, <2>2 DEF AccessInv, Removable
  <2>4. TypeOK' BY <2>1, <2>2 DEF AccessInv, TypeOK
  <2>5. \A c \in Claim : Sound(c)' BY <2>1, QuietSound DEF AccessInv
  <2>6. Removable'
    <3> SUFFICES ASSUME NEW q \in Pair, NEW n \in Nat, <<q, n>> \in removals'
                 PROVE  n < inserted[q] /\ (Finds(q, n) => members[q].role # "owner")
      BY <2>1 DEF AccessInv, Removable, Finds, IsMember
    <3>1. <<q, n>> \in removals \/ (q = p /\ n = id) BY <2>1
    <3> QED BY <2>1, <2>3, <3>1 DEF AccessInv, Removable
  <2> QED BY <2>1, <2>4, <2>5, <2>6
    DEF AccessInv, Exclusive, Holds, PairOf, Drawn, Existed, IsMember
<1>2. ASSUME NEW d \in removals, FinishRemoval(d[1], d[2]) PROVE AccessInv'
  <2>1. PICK p \in Pair, id \in Nat : d = <<p, id>> BY DEF AccessInv, TypeOK
  <2>2. /\ UNCHANGED <<restaurants, creating, known, inserted, invites, issued,
                       claims, snap, admitted, boot>>
        /\ removals' = removals \ {<<p, id>>}
        /\ \/ members' = [members EXCEPT ![p] = None] /\ removed' = removed \cup {p}
           \/ UNCHANGED <<members, removed>>
    BY <1>2, <2>1 DEF FinishRemoval, onboardingVars, inviteVars, claimVars
  <2>3. /\ TypeOK'
        /\ \A q \in Pair : members'[q] = members[q] \/ (members'[q] = None /\ q \in removed')
        /\ removed \subseteq removed'
    BY <2>2 DEF AccessInv, TypeOK
  <2>4. ASSUME NEW c \in Claim PROVE Sound(c)'
    <3> SUFFICES ASSUME claims[c] \in Open PROVE Sound(c)' BY <2>2 DEF Sound
    <3>1. PairOf(c) \in Pair BY OpenClaim DEF AccessInv
    <3> QED BY <2>2, <2>3, <3>1 DEF AccessInv, Sound, Active, Holds, PairOf, IsMember
  <2>5. Existed' BY <2>2, <2>3 DEF AccessInv, Existed, IsMember
  <2>6. Removable' BY <2>2, <2>3 DEF AccessInv, Removable, Finds, IsMember
  <2> QED BY <2>2, <2>3, <2>4, <2>5, <2>6 DEF AccessInv, Exclusive, Holds, PairOf, Drawn
<1> QED BY <1>1, <1>2

\* A boot deletes rows of restaurants that no longer exist or that it missed,
\* and the latter are noted.
LEMMA BootInv == ASSUME AccessInv, ListReferenced \/ CheckExisting \/ PruneOrphans PROVE AccessInv'
<1>1. /\ UNCHANGED <<restaurants, creating, known, inserted, invites, issued, claims, snap,
                     admitted, removals>>
      /\ removed \subseteq removed' /\ removed' \subseteq Pair
  BY DEF ListReferenced, CheckExisting, PruneOrphans, onboardingVars, memberVars, inviteVars,
         claimVars, removalVars, AccessInv, TypeOK
<1>2. /\ boot' \in [stage : {"off", "listed", "checked"}, count : Nat,
                   ids : SUBSET Restaurant, missed : SUBSET Restaurant]
      /\ boot'.ids \subseteq known
      /\ boot'.stage = "checked" => boot'.ids \cap restaurants \subseteq boot'.missed
  <2>1. CASE ListReferenced
    <3>1. \A x \in Restaurant, u \in User : IsMember(<<x, u>>) => x \in known
      BY DEF AccessInv, Existed, Pair
    <3>2. /\ boot'.stage = "listed" /\ boot'.ids \subseteq known
          /\ boot' = [stage |-> "listed", count |-> boot.count + 1, ids |-> boot'.ids,
                      missed |-> {}]
      BY <2>1, <3>1 DEF ListReferenced
    <3>3. boot.count + 1 \in Nat /\ known \subseteq Restaurant BY DEF AccessInv, TypeOK
    <3> QED BY <3>2, <3>3
  <2>2. CASE CheckExisting
    <3>1. PICK seen \in SUBSET restaurants :
            boot' = [boot EXCEPT !.stage = "checked", !.ids = @ \ seen,
                                 !.missed = (boot.ids \cap restaurants) \ seen]
      BY <2>2 DEF CheckExisting
    <3> QED BY <3>1 DEF AccessInv, TypeOK, Existed
  <2>3. CASE PruneOrphans BY <2>3 DEF PruneOrphans, AccessInv, TypeOK, Existed
  <2> QED BY <2>1, <2>2, <2>3
<1>3. \A q \in Pair :
        \/ members'[q] = members[q]
        \/ /\ members'[q] = None /\ q[1] \in boot.ids /\ boot.stage = "checked"
           /\ q[1] \in boot.missed => q \in removed'
  BY DEF ListReferenced, CheckExisting, PruneOrphans, memberVars, AccessInv, TypeOK
<1>4. members' \in [Pair -> Row \cup {None}]
  BY DEF ListReferenced, CheckExisting, PruneOrphans, memberVars, AccessInv, TypeOK
<1>5. TypeOK' BY <1>1, <1>2, <1>4 DEF AccessInv, TypeOK
<1>6. ASSUME NEW c \in Claim PROVE Sound(c)'
  <2> SUFFICES ASSUME claims[c] \in Open PROVE Sound(c)' BY <1>1 DEF Sound
  <2>1. PairOf(c) \in Pair /\ PairOf(c)[1] = InviteFor[ClaimInvite[c]]
    BY OpenClaim DEF AccessInv
  <2>2. \/ members'[PairOf(c)] = members[PairOf(c)]
        \/ /\ members'[PairOf(c)] = None
           /\ InviteFor[ClaimInvite[c]] \notin restaurants \/ PairOf(c) \in removed'
    BY <1>3, <2>1 DEF AccessInv, Existed
  <2> QED BY <1>1, <2>2 DEF AccessInv, Sound, Active, Holds, PairOf, IsMember
<1>7. Existed' BY <1>1, <1>2, <1>3 DEF AccessInv, Existed, IsMember
<1>8. Removable' BY <1>1, <1>3 DEF AccessInv, Removable, Finds, IsMember
<1> QED BY <1>1, <1>5, <1>6, <1>7, <1>8 DEF AccessInv, Exclusive, Holds, PairOf, Drawn

\* A claim that gives up writes nothing.
LEMMA AbortInv ==
    ASSUME AccessInv, NEW c \in Claim, AbortWithoutRestaurant(c) \/ AbortWithFault(c)
    PROVE  AccessInv'
  BY ClaimStops DEF AbortWithoutRestaurant, AbortWithFault

LEMMA NextInv == ASSUME AccessInv, [Next]_vars PROVE AccessInv'
<1>1. CASE UNCHANGED vars
  <2>1. UNCHANGED <<restaurants, creating, known, members, inserted, invites, issued, claims,
                    snap, admitted, removals, removed, boot>>
    BY <1>1 DEF vars, onboardingVars, memberVars, inviteVars, claimVars, removalVars
  <2>2. TypeOK' BY <2>1 DEF AccessInv, TypeOK
  <2>3. \A c \in Claim : Sound(c)' BY <2>1, QuietSound DEF AccessInv
  <2> QED BY <2>1, <2>2, <2>3
    DEF AccessInv, Exclusive, Holds, PairOf, Drawn, Existed, Removable, Finds, IsMember
<1>2. CASE Next
  BY <1>2, OnboardingInv, InvitesInv, FindInv, WriteInv, CommitInv, LegacyInv, AbortInv,
     RemovalInv, BootInv
     DEF Next, ClaimStep
<1> QED BY <1>1, <1>2

LEMMA AccessInvariant == Spec => []AccessInv
  BY InitInv, NextInv, PTL DEF Spec

\* Rows, invites, claims and removals keep their shape, for any users,
\* restaurants and claims.
THEOREM AccessTypeCorrect == Spec => []TypeOK
<1>1. AccessInv => TypeOK BY DEF AccessInv
<1> QED BY <1>1, AccessInvariant, PTL

-----------------------------------------------------------------------------
(* What a step may not do                                                   *)

\* Only its own commit admits a claim.
LEMMA OnlyCommitAdmits ==
    ASSUME [Next]_vars, NEW c \in admitted' \ admitted
    PROVE  c \in Claim /\ Commit(c)
<1>1. PICK d \in Claim : Commit(d)
  BY DEF Next, vars, claimVars, InsertOwner, DropRestaurant, InsertRestaurant, StartRemoval,
         Revoke, DeleteInvite, CreateInvite, ClaimStep, FindInvite, UpsertMember, MarkUsed,
         AbortWithoutRestaurant, AbortWithFault, LegacyFinalize, FinishRemoval,
         ListReferenced, CheckExisting, PruneOrphans
<1>2. admitted' = admitted \cup {d} BY <1>1 DEF Commit
<1>3. c = d BY <1>2
<1> QED BY <1>1, <1>3

\* It writes an invite that the claim saw active and that is as it was.
LEMMA AdmitStep ==
    ASSUME AccessInv, [Next]_vars
    PROVE  \A c \in admitted' \ admitted : Active(invites[ClaimInvite[c]])
<1> SUFFICES ASSUME NEW c \in admitted' \ admitted PROVE Active(invites[ClaimInvite[c]])
  OBVIOUS
<1>1. c \in Claim /\ Commit(c) BY OnlyCommitAdmits
<1>2. claims[c] = "marked" /\ Sound(c) BY <1>1 DEF Commit, AccessInv
<1> QED BY <1>2 DEF Sound, Open

\* A claim commits only while its invite is active, however it overlaps with
\* revocations, deletions, other claims and failures: the transaction's write
\* conflict does what the filter of MarkUsed does not (invite/repository/repository.go, MarkUsed).
THEOREM AdmitsWhileActiveHolds == Spec => AdmitsWhileActive
<1>1. AccessInv /\ [Next]_vars
        => [\A c \in admitted' \ admitted : Active(invites[ClaimInvite[c]])]_vars
  BY AdmitStep
<1> QED BY <1>1, AccessInvariant, PTL DEF Spec, AdmitsWhileActive

\* At the commit the user has a row, by this claim or by an earlier one, unless
\* the row was removed, by staff or by a boot that had missed the restaurant, or
\* the restaurant is gone.
LEMMA JoinStep ==
    ASSUME AccessInv, [Next]_vars, NEW c \in admitted' \ admitted
    PROVE  \/ members'[PairOf(c)] # None
           \/ PairOf(c) \in removed
           \/ InviteFor[ClaimInvite[c]] \notin restaurants
<1>1. c \in Claim /\ Commit(c) BY OnlyCommitAdmits
<1>2. claims[c] = "marked" /\ claims[c] \in Open /\ Sound(c)
  BY <1>1 DEF Commit, Open, AccessInv
<1>3. CASE snap[c].member # None
  BY <1>1, <1>2, <1>3 DEF Commit, Sound, IsMember, memberVars
<1>4. CASE snap[c].member = None
  <2> DEFINE row == [role |-> InviteRole[ClaimInvite[c]], id |-> inserted[PairOf(c)]]
  <2>1. PairOf(c) \in Pair /\ ClaimInvite[c] \in Invite BY <1>1, <1>2, OpenClaim DEF AccessInv
  <2>2. row \in Row BY <2>1, AccessAssumption DEF Row, Roles, AccessInv, TypeOK
  <2>3. row # None BY <2>2, AccessAssumption DEF Row
  <2>4. members' = [members EXCEPT ![PairOf(c)] = row] BY <1>1, <1>4 DEF Commit, Insert
  <2> HIDE DEF row
  <2> QED BY <2>1, <2>3, <2>4 DEF AccessInv, TypeOK
<1> QED BY <1>3, <1>4

\* An invite is not used up in vain (auth/service/service.go, AdminFinalize).
THEOREM UsedInviteJoinsHolds == Spec => UsedInviteJoins
<1>1. AccessInv /\ [Next]_vars
        => [\A c \in admitted' \ admitted :
              \/ members'[PairOf(c)] # None
              \/ PairOf(c) \in removed
              \/ InviteFor[ClaimInvite[c]] \notin restaurants]_vars
  BY JoinStep
<1> QED BY <1>1, AccessInvariant, PTL DEF Spec, UsedInviteJoins

\* A row changes only by a removal that read it, or with its restaurant gone or
\* missed.
LEMMA StayStep ==
    ASSUME AccessInv, [Next]_vars, NEW p \in Pair,
           p[1] \in restaurants, members[p] # None, members'[p] # members[p]
    PROVE  \/ members[p].role # "owner" /\ <<p, members[p].id>> \in removals
           \/ PruneOrphans /\ p[1] \in boot.missed
<1>1. CASE \E d \in removals : FinishRemoval(d[1], d[2])
  <2>1. PICK d \in removals : FinishRemoval(d[1], d[2]) BY <1>1
  <2>2. d = <<p, members[p].id>>
    <3>1. PICK q \in Pair, id \in Nat : d = <<q, id>> BY DEF AccessInv, TypeOK
    <3>2. Finds(q, id) /\ members' = [members EXCEPT ![q] = None]
      BY <2>1, <3>1 DEF FinishRemoval
    <3>3. q = p BY <3>1, <3>2 DEF AccessInv, TypeOK
    <3> QED BY <3>1, <3>2, <3>3 DEF Finds
  <2>3. members[p].id \in Nat BY DEF AccessInv, TypeOK, Row
  <2>4. Finds(p, members[p].id) BY DEF Finds, IsMember
  <2> QED BY <2>2, <2>3, <2>4 DEF AccessInv, Removable
<1>2. CASE PruneOrphans
  <2>1. p[1] \in boot.ids BY <1>2 DEF PruneOrphans
  <2> QED BY <1>2, <2>1 DEF PruneOrphans, AccessInv, Existed
<1>3. ASSUME NEW q \in Pair, NEW role, ~IsMember(q), Insert(q, role) PROVE FALSE
  BY <1>3 DEF Insert, IsMember, AccessInv, TypeOK
<1>4. ASSUME NEW x \in Restaurant, InsertOwner(x) PROVE FALSE
  <2>1. <<x, creating[x]>> \in Pair BY <1>4 DEF InsertOwner, AccessInv, TypeOK, Pair
  <2> QED BY <1>3, <1>4, <2>1 DEF InsertOwner, memberVars
<1>5. ASSUME NEW c \in Claim, Commit(c) PROVE FALSE
  <2>1. claims[c] \in Open /\ claims[c] = "marked" /\ Sound(c)
    BY <1>5 DEF Commit, Open, AccessInv
  <2>2. PairOf(c) \in Pair BY <2>1, OpenClaim DEF AccessInv
  <2>3. snap[c].member = None => ~IsMember(PairOf(c)) BY <2>1 DEF Sound, Holds
  <2> QED BY <1>3, <1>5, <2>2, <2>3 DEF Commit, memberVars
<1>6. ASSUME NEW c \in Claim, LegacyFinalize(c) PROVE FALSE
  <2>1. <<LegacyFor, ClaimUser[c]>> \in Pair BY AccessAssumption DEF Pair
  <2> QED BY <1>3, <1>6, <2>1 DEF LegacyFinalize, memberVars
<1>7. ASSUME UNCHANGED members PROVE FALSE BY <1>7
<1> QED BY <1>1, <1>2, <1>4, <1>5, <1>6, <1>7
  DEF Next, vars, memberVars, DropRestaurant, InsertRestaurant, StartRemoval,
      Revoke, DeleteInvite, CreateInvite, ClaimStep, FindInvite, UpsertMember, MarkUsed,
      AbortWithoutRestaurant, AbortWithFault, ListReferenced, CheckExisting

\* Nobody loses a membership of a restaurant that exists except by an admin's
\* removal, which never reaches the owner, or by a boot whose scan of
\* restaurants an error cut short before this one; a boot that sees them all
\* takes none (admin/service/service.go, Delete; database.go,
\* pruneOrphanAdminUsers).
THEOREM OwnersStayHolds == Spec => OwnersStay
<1>1. AccessInv /\ [Next]_vars
        => [\A p \in Pair :
              p[1] \in restaurants /\ members[p] # None /\ members'[p] # members[p]
                  => \/ members[p].role # "owner" /\ <<p, members[p].id>> \in removals
                     \/ PruneOrphans /\ p[1] \in boot.missed]_vars
  BY StayStep
<1> QED BY <1>1, AccessInvariant, PTL DEF Spec, OwnersStay
=============================================================================
