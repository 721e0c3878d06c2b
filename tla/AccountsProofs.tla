--------------------------- MODULE AccountsProofs ---------------------------
(* One account for a person, with a profile that keeps what is answered:    *)
(* the proofs.                                                              *)
EXTENDS Accounts, TLAPS

-----------------------------------------------------------------------------
(* The inductive invariant                                                  *)

Unspent == {"idle", "free", "stranger", "unknown"}
Naming == {"inserted", "undo", "linking", "known", "profileless", "customerless", "created",
           "answered"}
Linking == {"known", "profileless", "answered"}

\* A call that may still insert its user names none; who exists was inserted
\* by a call that will not do so again, and so was whoever is named.
Named ==
    /\ \A k \in Call : calls[k].stage \in Unspent => calls[k].user = None
    /\ \A u \in Call : users[u] # None =>
         calls[u].stage \notin Unspent /\ users[u].email = EmailOf[u]
    /\ \A k \in Call : calls[k].stage \in Naming =>
         calls[k].user \in Call /\ calls[calls[k].user].stage \notin Unspent

\* The stages belong to a handler, and signups are about their own user.
StagedAt(k) ==
    /\ calls[k].stage \in {"free", "inserted", "undo"} => KindOf[k] = "signup"
    /\ calls[k].stage \in {"stranger", "linking", "unknown", "known", "profileless"}
         => KindOf[k] = "google"
    /\ calls[k].stage \in {"customerless", "created"} => KindOf[k] = "setup"
    /\ KindOf[k] = "signup" /\ calls[k].stage \in Naming => calls[k].user = k
    /\ calls[k].stage = "created" \/ (KindOf[k] = "setup" /\ Answered(k))
         => calls[k].customer \in Call
Staged == \A k \in Call : StagedAt(k)

\* E-mails and Google accounts are unique, and calls know whom they name by.
Linked ==
    /\ \A u, v \in Call :
         /\ users[u] # None /\ users[v] # None
         /\ users[u].email = users[v].email \/ (users[u].sub = users[v].sub /\ users[u].sub # None)
         => u = v
    /\ \A k \in Call : KindOf[k] \in {"signup", "login"} /\ Answered(k) =>
         EmailOf[calls[k].user] = EmailOf[k]
    /\ \A k \in Call :
         KindOf[k] = "google" /\ calls[k].stage \in Linking /\ users[calls[k].user] # None =>
           users[calls[k].user].sub = SubOf[k] \/ Relinked(k)

\* Without a race one call at a time makes the customer of a user.
Making(k) == calls[k].stage \in {"customerless", "created"}
OneMaker ==
    \A k \in Call : Making(k) /\ calls[k].user \notin raced =>
        /\ Customer(calls[k].user) = None
        /\ \A q \in Call : Making(q) /\ calls[q].user = calls[k].user => q = k

\* What a call has been answered about a profile that it found.
Holds(k, profile) ==
    /\ KindOf[k] = "address" => k \in profile.addresses \/ \E q \in Call : Removes(q, k)
    /\ KindOf[k] = "remove" =>
         RemovedBy[k] \notin profile.addresses /\ calls[RemovedBy[k]].stage # "idle"
    /\ KindOf[k] = "profile" => profile.fields # None /\ KindOf[profile.fields] = "profile"
    /\ KindOf[k] = "setup" /\ calls[k].user \notin raced => calls[k].customer = profile.customer

\* Whose token came with a profile, unless the database failed.
Welcome(k) == KindOf[k] \in Signed /\ KindOf[TokenOf[k]] # "login"

Founded ==
    /\ \A u \in Call : profiles[u] # None /\ profiles[u].fields # None =>
         KindOf[profiles[u].fields] = "profile"
    /\ dbErrors = 0 => \A k \in Call :
         /\ KindOf[k] \in {"signup", "google"} /\ Answered(k) => profiles[calls[k].user] # None
         /\ Welcome(k) /\ (Answered(k) \/ Making(k)) => profiles[calls[k].user] # None
         /\ Welcome(k) /\ Answered(k) => Holds(k, profiles[calls[k].user])

AccountInv == TypeOK /\ Named /\ Staged /\ Linked /\ OneMaker /\ Founded

-----------------------------------------------------------------------------
(* What a step does to the calls                                            *)

\* The call of a handler goes on; once it can no longer insert a user, it keeps
\* the one it names.
Moves(k) ==
    /\ \A q \in Call \ {k} : calls'[q] = calls[q]
    /\ calls[k].stage \notin {"answered", "refused", "lost"} /\ calls'[k].stage # "idle"
    /\ calls[k].stage \notin Unspent =>
         calls'[k].stage \notin Unspent /\ calls'[k].user = calls[k].user

\* It names nobody yet, itself, or somebody who is named or exists.
NamesAt(k) ==
    /\ calls'[k].stage \in Unspent => calls'[k].user = None
    /\ calls'[k].stage \in Naming =>
         /\ calls'[k].user \in Call
         /\ \/ calls'[k].user = k /\ calls'[k].stage \notin Unspent
            \/ calls[calls'[k].user].stage \notin Unspent

Signs(k) == SignupRead(k) \/ SignupUser(k) \/ SignupProfile(k) \/ DeleteUser(k) \/ Login(k)
Googles(k) ==
    FindBySub(k) \/ FindByEmail(k) \/ AttachGoogleSub(k) \/ InsertGoogleUser(k)
    \/ FindProfile(k) \/ GoogleProfile(k)
Saves(k) ==
    FindCustomer(k) \/ CreateCustomer(k) \/ SetStripeCustomerID(k)
    \/ AddAddress(k) \/ RemoveAddress(k) \/ UpdateProfile(k)
CallStep(k) == Signs(k) \/ Googles(k) \/ Saves(k)

Row == [stage : Stages, user : Call \cup {None}, customer : Call \cup {None}]

LEMMA GotoMoves ==
    ASSUME TypeOK, NEW k \in Call, NEW stage \in Stages, Goto(k, stage)
    PROVE  /\ calls' \in [Call -> Row] /\ \A q \in Call \ {k} : calls'[q] = calls[q]
           /\ calls'[k].stage = stage /\ calls'[k].user = calls[k].user
           /\ calls'[k].customer = calls[k].customer
  BY DEF TypeOK, Goto, Row

LEMMA GotoAsMoves ==
    ASSUME TypeOK, NEW k \in Call, NEW stage \in Stages, NEW u \in Call \cup {None},
           GotoAs(k, stage, u)
    PROVE  /\ calls' \in [Call -> Row] /\ \A q \in Call \ {k} : calls'[q] = calls[q]
           /\ calls'[k].stage = stage /\ calls'[k].user = u
           /\ calls'[k].customer = calls[k].customer
  BY DEF TypeOK, GotoAs, Row

LEMMA ErrorCounts == TypeOK /\ (NoDBError \/ DBError) => dbErrors' \in Nat
  BY AccountsAssumption DEF TypeOK, NoDBError, DBError

\* What a step of a handler does to its call alone.
Stepped(k) ==
    /\ calls' \in [Call -> Row]
    /\ Moves(k) /\ NamesAt(k) /\ StagedAt(k)'

\* A call that ends without an answer.
LEMMA EndsStepped ==
    ASSUME TypeOK, NEW k \in Call, Goto(k, "refused"),
           calls[k].stage \notin {"answered", "refused", "lost"}
    PROVE  Stepped(k)
<1>1. "refused" \in Stages BY DEF Stages
<1> QED BY <1>1, GotoMoves DEF Stepped, Moves, NamesAt, StagedAt, Unspent, Naming, Answered

LEMMA SignsMove ==
    ASSUME TypeOK, Named, Staged, NEW k \in Call, Signs(k)
    PROVE  Stepped(k)
<1> USE DEF Stepped, Moves, NamesAt, StagedAt, Unspent, Naming, At, Answered
<1>1. StagedAt(k) BY DEF Staged
<1>2. {"free", "inserted", "undo", "answered", "refused"} \subseteq Stages BY DEF Stages
<1>3. CASE SignupRead(k)
  <2>1. Goto(k, "free") \/ Goto(k, "refused") BY <1>3 DEF SignupRead
  <2> QED BY <1>1, <1>2, <1>3, <2>1, GotoMoves DEF SignupRead, Named
<1>4. CASE SignupUser(k)
  <2>1. GotoAs(k, "inserted", k) \/ Goto(k, "refused") BY <1>4 DEF SignupUser, InsertUser
  <2>2. CASE GotoAs(k, "inserted", k) BY <1>1, <1>2, <1>4, <2>2, GotoAsMoves DEF SignupUser
  <2> QED BY <1>4, <2>1, <2>2, EndsStepped DEF SignupUser
<1>5. CASE SignupProfile(k)
  <2>1. Goto(k, "answered") \/ Goto(k, "undo") BY <1>5 DEF SignupProfile
  <2> QED BY <1>1, <1>2, <1>5, <2>1, GotoMoves DEF SignupProfile, Named
<1>6. CASE DeleteUser(k) BY <1>6, EndsStepped DEF DeleteUser
<1>7. CASE Login(k)
  <2>1. CASE \E u \in UsersWithEmail(EmailOf[k]) : GotoAs(k, "answered", u)
    <3>1. PICK u \in Call : users[u] # None /\ GotoAs(k, "answered", u)
      BY <2>1 DEF UsersWithEmail
    <3> QED BY <1>1, <1>2, <1>7, <3>1, GotoAsMoves DEF Login, Named
  <2> QED BY <1>7, <2>1, EndsStepped DEF Login
<1> QED BY <1>3, <1>4, <1>5, <1>6, <1>7 DEF Signs

LEMMA GooglesMove ==
    ASSUME TypeOK, Named, Staged, NEW k \in Call, Googles(k)
    PROVE  Stepped(k)
<1> USE DEF Stepped, Moves, NamesAt, StagedAt, Unspent, Naming, At, Answered
<1>1. StagedAt(k) BY DEF Staged
<1>2. {"stranger", "linking", "unknown", "known", "profileless", "answered"} \subseteq Stages
  BY DEF Stages
<1>3. CASE FindBySub(k)
  <2>1. CASE \E u \in UsersWithSub(SubOf[k]) : GotoAs(k, "known", u)
    <3>1. PICK u \in Call : users[u] # None /\ GotoAs(k, "known", u) BY <2>1 DEF UsersWithSub
    <3> QED BY <1>1, <1>2, <1>3, <3>1, GotoAsMoves DEF FindBySub, Named
  <2>2. CASE Goto(k, "stranger") BY <1>1, <1>2, <1>3, <2>2, GotoMoves DEF FindBySub, Named
  <2> QED BY <1>3, <2>1, <2>2 DEF FindBySub
<1>4. CASE FindByEmail(k)
  <2>1. CASE \E u \in UsersWithEmail(EmailOf[k]) : GotoAs(k, "linking", u)
    <3>1. PICK u \in Call : users[u] # None /\ GotoAs(k, "linking", u)
      BY <2>1 DEF UsersWithEmail
    <3> QED BY <1>1, <1>2, <1>4, <3>1, GotoAsMoves DEF FindByEmail, Named
  <2>2. CASE Goto(k, "unknown") BY <1>1, <1>2, <1>4, <2>2, GotoMoves DEF FindByEmail, Named
  <2> QED BY <1>4, <2>1, <2>2 DEF FindByEmail
<1>5. CASE AttachGoogleSub(k)
  <2>1. Goto(k, "known") \/ Goto(k, "refused") BY <1>5 DEF AttachGoogleSub
  <2>2. CASE Goto(k, "known")
    BY <1>1, <1>2, <1>5, <2>2, GotoMoves DEF AttachGoogleSub, Named
  <2> QED BY <1>5, <2>1, <2>2, EndsStepped DEF AttachGoogleSub
<1>6. CASE InsertGoogleUser(k)
  <2>1. GotoAs(k, "known", k) \/ Goto(k, "refused") BY <1>6 DEF InsertGoogleUser, InsertUser
  <2>2. CASE GotoAs(k, "known", k) BY <1>1, <1>2, <1>6, <2>2, GotoAsMoves DEF InsertGoogleUser
  <2> QED BY <1>6, <2>1, <2>2, EndsStepped DEF InsertGoogleUser
<1>7. CASE FindProfile(k)
  <2>1. Goto(k, "profileless") \/ Goto(k, "answered") BY <1>7 DEF FindProfile
  <2> QED BY <1>1, <1>2, <1>7, <2>1, GotoMoves DEF FindProfile, Named
<1>8. CASE GoogleProfile(k)
  <2>1. Goto(k, "answered") BY <1>8 DEF GoogleProfile
  <2> QED BY <1>1, <1>2, <1>8, <2>1, GotoMoves DEF GoogleProfile, Named
<1> QED BY <1>3, <1>4, <1>5, <1>6, <1>7, <1>8 DEF Googles

\* The user of a token that somebody has.
LEMMA OwnerNamed ==
    ASSUME TypeOK, Named, NEW k \in Call, SignedIn(k)
    PROVE  /\ TokenOf[k] \in Call /\ Owner(k) \in Call /\ calls[Owner(k)].stage \notin Unspent
           /\ calls[TokenOf[k]].stage = "answered" /\ calls[TokenOf[k]].user = Owner(k)
  BY AccountsAssumption DEF SignedIn, Owner, Named, Naming

LEMMA UpdateMoves ==
    ASSUME TypeOK, NEW k \in Call, NEW u, NEW profile, NEW found, UpdateForUser(k, u, profile, found)
    PROVE  GotoAs(k, found, u) \/ Goto(k, "refused")
  BY DEF UpdateForUser

LEMMA SavesMove ==
    ASSUME TypeOK, Named, Staged, NEW k \in Call, Saves(k)
    PROVE  Stepped(k)
<1> USE DEF Stepped, Moves, NamesAt, StagedAt, Unspent, Naming, At, Answered
<1>1. StagedAt(k) BY DEF Staged
<1>2. {"customerless", "created", "answered", "refused"} \subseteq Stages BY DEF Stages
<1>3. CASE FindCustomer(k)
  <2>1. Owner(k) \in Call /\ calls[Owner(k)].stage \notin Unspent
    BY <1>3, OwnerNamed DEF FindCustomer
  <2>2. Customer(Owner(k)) \in Call \cup {None}
    BY <2>1, AccountsAssumption DEF TypeOK, Customer, Profile
  <2>3. CASE Customer(Owner(k)) # None
    BY <1>1, <1>2, <1>3, <2>1, <2>2, <2>3 DEF FindCustomer, TypeOK, Row
  <2>4. CASE Customer(Owner(k)) = None
    BY <1>1, <1>2, <1>3, <2>1, <2>4, GotoAsMoves DEF FindCustomer
  <2> QED BY <2>3, <2>4
<1>4. CASE CreateCustomer(k)
  <2>1. CASE calls' = [calls EXCEPT ![k].stage = "created", ![k].customer = k]
    <3>1. calls[k] \in Row BY DEF TypeOK, Row
    <3>2. calls[k].user \in Call /\ calls[calls[k].user].stage \notin Unspent
      BY <1>4 DEF CreateCustomer, Named
    <3>3. /\ calls' \in [Call -> Row] /\ calls'[k].stage = "created"
          /\ calls'[k].user = calls[k].user /\ calls'[k].customer = k
          /\ \A q \in Call \ {k} : calls'[q] = calls[q]
      BY <1>2, <2>1, <3>1 DEF TypeOK, Row
    <3> QED BY <1>1, <1>4, <3>2, <3>3 DEF CreateCustomer
  <2> QED BY <1>4, <2>1, EndsStepped DEF CreateCustomer
<1>5. CASE SetStripeCustomerID(k)
  <2>1. Goto(k, "answered") BY <1>5 DEF SetStripeCustomerID
  <2> QED BY <1>1, <1>2, <1>5, <2>1, GotoMoves DEF SetStripeCustomerID, Named
<1>6. CASE AddAddress(k) \/ RemoveAddress(k) \/ UpdateProfile(k)
  <2>1. /\ At(k, "idle") /\ KindOf[k] \in {"address", "remove", "profile"} /\ SignedIn(k)
        /\ GotoAs(k, "answered", Owner(k)) \/ GotoAs(k, "refused", Owner(k)) \/ Goto(k, "refused")
    BY <1>6, UpdateMoves DEF AddAddress, RemoveAddress, UpdateProfile
  <2>2. Owner(k) \in Call /\ calls[Owner(k)].stage \notin Unspent BY <2>1, OwnerNamed
  <2> QED BY <1>1, <1>2, <2>1, <2>2, GotoAsMoves, EndsStepped
<1> QED BY <1>3, <1>4, <1>5, <1>6 DEF Saves

LEMMA CallMoves == ASSUME TypeOK, Named, Staged, NEW k \in Call, CallStep(k) PROVE Stepped(k)
  BY SignsMove, GooglesMove, SavesMove DEF CallStep

-----------------------------------------------------------------------------
(* What a step does to the documents                                        *)

\* A user is inserted, taken back or linked to a Google account, or none is changed.
Inserts(k, rec) ==
    /\ calls[k].stage \in Unspent /\ ~Duplicate(rec)
    /\ rec \in User /\ rec.email = EmailOf[k]
    /\ calls'[k].stage \notin Unspent
    /\ users' = [users EXCEPT ![k] = rec]
Links(k) ==
    LET u == calls[k].user IN
    /\ calls[k].stage = "linking" /\ users[u] # None
    /\ UsersWithSub(SubOf[k]) \ {u} = {}
    /\ users' = [users EXCEPT ![u].sub = SubOf[k]]
TakesBack(k) == users' = [users EXCEPT ![k] = None]

LEMMA UsersChange ==
    ASSUME TypeOK, NEW k \in Call, CallStep(k)
    PROVE  \/ UNCHANGED users \/ TakesBack(k) \/ Links(k)
           \/ \E rec \in User : Inserts(k, rec) /\ rec.sub \in {None, SubOf[k]}
<1>1. CASE InsertGoogleUser(k) \/ SignupUser(k)
  <2>1. PICK rec \in User, done \in {"inserted", "known"} :
           /\ InsertUser(k, rec, done) /\ rec.email = EmailOf[k] /\ rec.sub \in {None, SubOf[k]}
    <3>1. [email |-> EmailOf[k], sub |-> SubOf[k], password |-> FALSE] \in User
      BY DEF User
    <3>2. [email |-> EmailOf[k], sub |-> None, password |-> TRUE] \in User
      BY DEF User
    <3>3. CASE InsertGoogleUser(k) BY <3>1, <3>3 DEF InsertGoogleUser
    <3>4. CASE SignupUser(k) BY <3>2, <3>4 DEF SignupUser
    <3> QED BY <1>1, <3>3, <3>4
  <2>2. CASE UNCHANGED users BY <2>2
  <2>3. CASE ~UNCHANGED users
    <3>1. /\ ~Duplicate(rec) /\ users' = [users EXCEPT ![k] = rec]
          /\ GotoAs(k, done, k) \/ Goto(k, "refused")
      BY <2>1, <2>3 DEF InsertUser
    <3>2. {"inserted", "known", "refused"} \subseteq Stages BY DEF Stages
    <3>3. calls'[k].stage \notin Unspent
      BY <3>1, <3>2, GotoAsMoves, GotoMoves DEF Unspent
    <3>4. calls[k].stage \in Unspent
      BY <1>1 DEF InsertGoogleUser, SignupUser, At, Unspent
    <3> QED BY <2>1, <3>1, <3>3, <3>4 DEF Inserts
  <2> QED BY <2>2, <2>3
<1>2. CASE AttachGoogleSub(k) BY <1>2 DEF AttachGoogleSub, Links, At
<1>3. CASE DeleteUser(k) BY <1>3 DEF DeleteUser, TakesBack
<1>4. CASE ~(InsertGoogleUser(k) \/ SignupUser(k) \/ AttachGoogleSub(k) \/ DeleteUser(k))
  <2>1. UNCHANGED users
    BY <1>4 DEF CallStep, Signs, Googles, Saves, SignupRead, SignupProfile, Login, FindBySub,
       FindByEmail, FindProfile, GoogleProfile, FindCustomer, CreateCustomer,
       SetStripeCustomerID, AddAddress, RemoveAddress, UpdateProfile, UpdateForUser, Reads
  <2> QED BY <2>1
<1> QED BY <1>1, <1>2, <1>3, <1>4

LEMMA UsersTyped ==
    ASSUME TypeOK, Named, NEW k \in Call, CallStep(k)
    PROVE  users' \in [Call -> User \cup {None}]
<1>1. CASE Links(k)
  <2>1. calls[k].user \in Call BY <1>1 DEF Links, Named, Naming
  <2>2. users[calls[k].user] \in User BY <1>1, <2>1 DEF Links, TypeOK
  <2>3. [users[calls[k].user] EXCEPT !.sub = SubOf[k]] \in User BY <2>2 DEF User
  <2> QED BY <1>1, <2>1, <2>3 DEF Links, TypeOK
<1>2. CASE ~Links(k) BY <1>2, UsersChange DEF TypeOK, TakesBack, Inserts
<1> QED BY <1>1, <1>2

\* A profile is made, or changed in one field by the call that is about it.
Makes(u) == profiles[u] = None /\ profiles' = [profiles EXCEPT ![u] = NewProfile]
Changes(k, u) ==
    /\ profiles[u] # None
    /\ \/ calls[k].stage = "created" /\ u = calls[k].user
          /\ profiles' = [profiles EXCEPT ![u].customer = calls[k].customer]
       \/ AddAddress(k) /\ u = Owner(k)
          /\ profiles' = [profiles EXCEPT ![u] = [profiles[u] EXCEPT !.addresses = @ \cup {k}]]
       \/ RemoveAddress(k) /\ u = Owner(k)
          /\ profiles' = [profiles EXCEPT ![u] =
                            [profiles[u] EXCEPT !.addresses = @ \ {RemovedBy[k]}]]
       \/ UpdateProfile(k) /\ u = Owner(k)
          /\ profiles' = [profiles EXCEPT ![u] = [profiles[u] EXCEPT !.fields = k]]

LEMMA ProfilesChange ==
    ASSUME TypeOK, Named, Staged, NEW k \in Call, CallStep(k)
    PROVE  UNCHANGED profiles \/ \E u \in Call : Makes(u) \/ Changes(k, u)
<1>1. CASE SignupProfile(k) BY <1>1 DEF SignupProfile, Makes
<1>2. CASE GoogleProfile(k)
  <2>1. calls[k].user \in Call BY <1>2 DEF GoogleProfile, At, Named, Naming
  <2>2. UNCHANGED profiles \/ CreateProfile(calls[k].user) BY <1>2 DEF GoogleProfile
  <2> QED BY <2>1, <2>2 DEF CreateProfile, Makes, TypeOK
<1>3. CASE SetStripeCustomerID(k)
  <2>1. calls[k].user \in Call /\ calls[k].stage = "created"
    BY <1>3 DEF SetStripeCustomerID, At, Named, Naming
  <2> QED BY <1>3, <2>1 DEF SetStripeCustomerID, Changes
<1>4. CASE AddAddress(k) \/ RemoveAddress(k) \/ UpdateProfile(k)
  <2>1. Owner(k) \in Call BY <1>4, OwnerNamed DEF AddAddress, RemoveAddress, UpdateProfile
  <2>2. CASE AddAddress(k) BY <2>1, <2>2 DEF AddAddress, UpdateForUser, Changes
  <2>3. CASE RemoveAddress(k) BY <2>1, <2>3 DEF RemoveAddress, UpdateForUser, Changes
  <2>4. CASE UpdateProfile(k) BY <2>1, <2>4 DEF UpdateProfile, UpdateForUser, Changes
  <2> QED BY <1>4, <2>2, <2>3, <2>4
<1>5. CASE ~(\/ SignupProfile(k) \/ GoogleProfile(k) \/ SetStripeCustomerID(k)
             \/ AddAddress(k) \/ RemoveAddress(k) \/ UpdateProfile(k))
  <2>1. UNCHANGED profiles
    BY <1>5 DEF CallStep, Signs, Googles, Saves, SignupRead, SignupUser, InsertUser, DeleteUser,
       Login, FindBySub, FindByEmail, AttachGoogleSub, InsertGoogleUser, FindProfile,
       FindCustomer, CreateCustomer, Reads
  <2> QED BY <2>1
<1> QED BY <1>1, <1>2, <1>3, <1>4, <1>5

\* So profiles are never taken away, and only their user's call changes one.
LEMMA ProfileStep ==
    ASSUME TypeOK, Named, Staged, NEW k \in Call, CallStep(k), NEW u \in Call
    PROVE  /\ profiles' \in [Call -> Profile \cup {None}]
           /\ profiles[u] # None => profiles'[u] # None
           /\ profiles'[u] = profiles[u] \/ Makes(u) \/ Changes(k, u)
<1>1. NewProfile \in Profile BY DEF NewProfile, Profile
<1>2. CASE UNCHANGED profiles BY <1>2 DEF TypeOK
<1>3. CASE \E v \in Call : Makes(v)
  <2>1. PICK v \in Call : Makes(v) BY <1>3
  <2>2. profiles' = [profiles EXCEPT ![v] = NewProfile] /\ profiles[v] = None BY <2>1 DEF Makes
  <2>3. CASE u = v BY <1>1, <2>1, <2>2, <2>3 DEF TypeOK
  <2>4. CASE u # v BY <1>1, <2>2, <2>4 DEF TypeOK
  <2> QED BY <2>3, <2>4
<1>4. CASE \E v \in Call : Changes(k, v)
  <2>1. PICK v \in Call : Changes(k, v) BY <1>4
  <2>2. profiles[v] \in Profile BY <2>1 DEF Changes, TypeOK
  <2>3. PICK p \in Profile : profiles' = [profiles EXCEPT ![v] = p]
    <3>1. CASE calls[k].stage = "created" /\ v = calls[k].user
               /\ profiles' = [profiles EXCEPT ![v].customer = calls[k].customer]
      <4>1. calls[k].customer \in Call \cup {None} BY DEF TypeOK
      <4>2. [profiles[v] EXCEPT !.customer = calls[k].customer] \in Profile
        BY <2>2, <4>1 DEF Profile
      <4> QED BY <3>1, <4>2
    <3>2. [profiles[v] EXCEPT !.addresses = @ \cup {k}] \in Profile BY <2>2 DEF Profile
    <3>3. [profiles[v] EXCEPT !.addresses = @ \ {RemovedBy[k]}] \in Profile BY <2>2 DEF Profile
    <3>4. [profiles[v] EXCEPT !.fields = k] \in Profile BY <2>2 DEF Profile
    <3> QED BY <2>1, <3>1, <3>2, <3>3, <3>4 DEF Changes
  <2>4. p # None BY AccountsAssumption
  <2>5. CASE u = v BY <2>1, <2>3, <2>4, <2>5 DEF TypeOK
  <2>6. CASE u # v BY <2>3, <2>6 DEF TypeOK
  <2> QED BY <2>5, <2>6
<1> QED BY <1>2, <1>3, <1>4, ProfilesChange

LEMMA CallTyped ==
    ASSUME TypeOK, Named, Staged, NEW k \in Call, CallStep(k)
    PROVE  TypeOK'
<1>1. calls' \in [Call -> Row] BY CallMoves DEF Stepped
<1>2. users' \in [Call -> User \cup {None}] BY UsersTyped
<1>3. profiles' \in [Call -> Profile \cup {None}] BY ProfileStep
<1>4. NoDBError \/ DBError
  BY DEF CallStep, Signs, Googles, Saves, SignupRead, SignupUser, InsertUser, SignupProfile,
     DeleteUser, Login, FindBySub, FindByEmail, AttachGoogleSub, InsertGoogleUser, FindProfile,
     GoogleProfile, FindCustomer, CreateCustomer, SetStripeCustomerID, AddAddress,
     RemoveAddress, UpdateProfile, UpdateForUser, Reads, NoDBError
<1>5. UNCHANGED <<cards, crashes>> /\ raced' \subseteq Call
  <2>1. CASE FindCustomer(k)
    <3>1. Owner(k) \in Call BY <2>1, OwnerNamed DEF FindCustomer
    <3> QED BY <2>1, <3>1 DEF FindCustomer, TypeOK
  <2>2. CASE ~FindCustomer(k)
    <3>1. UNCHANGED <<cards, crashes, raced>>
      BY <2>2 DEF CallStep, Signs, Googles, Saves, SignupRead, SignupUser, InsertUser,
         SignupProfile, DeleteUser, Login, FindBySub, FindByEmail, AttachGoogleSub,
         InsertGoogleUser, FindProfile, GoogleProfile, CreateCustomer, SetStripeCustomerID,
         AddAddress, RemoveAddress, UpdateProfile, UpdateForUser, Reads
    <3> QED BY <3>1 DEF TypeOK
  <2> QED BY <2>1, <2>2
<1> QED BY <1>1, <1>2, <1>3, <1>4, <1>5, ErrorCounts DEF TypeOK, Row

-----------------------------------------------------------------------------
(* Users and calls                                                          *)

LEMMA CallNamed ==
    ASSUME TypeOK, Named, Staged, NEW k \in Call, CallStep(k)
    PROVE  Named' /\ Staged'
<1>1. Moves(k) /\ NamesAt(k) /\ StagedAt(k)' BY CallMoves DEF Stepped
<1>2. \A q \in Call : calls[q].stage \notin Unspent => calls'[q].stage \notin Unspent
  BY <1>1 DEF Moves
<1>3. ASSUME NEW q \in Call, calls'[q].stage \in Unspent PROVE calls'[q].user = None
  BY <1>1, <1>3 DEF Moves, NamesAt, Named
<1>4. ASSUME NEW u \in Call, users'[u] # None
      PROVE  calls'[u].stage \notin Unspent /\ users'[u].email = EmailOf[u]
  <2>1. CASE UNCHANGED users BY <1>2, <1>4, <2>1 DEF Named
  <2>2. CASE TakesBack(k) BY <1>2, <1>4, <2>2 DEF Named, TakesBack, TypeOK
  <2>3. CASE Links(k)
    <3>1. calls[k].user \in Call BY <2>3 DEF Links, Named, Naming
    <3>2. users[calls[k].user] \in User BY <2>3, <3>1 DEF Links, TypeOK
    <3>3. users[u] # None /\ users'[u].email = users[u].email
      BY <1>4, <2>3, <3>1, <3>2 DEF Links, TypeOK, User
    <3> QED BY <1>2, <3>3 DEF Named
  <2>4. CASE \E rec \in User : Inserts(k, rec)
    BY <1>2, <1>4, <2>4 DEF Inserts, Named, TypeOK
  <2> QED BY <2>1, <2>2, <2>3, <2>4, UsersChange
<1>5. ASSUME NEW q \in Call, calls'[q].stage \in Naming
      PROVE  calls'[q].user \in Call /\ calls'[calls'[q].user].stage \notin Unspent
  <2>1. CASE q = k BY <1>1, <1>2, <1>5, <2>1 DEF NamesAt
  <2>2. CASE q # k BY <1>1, <1>2, <1>5, <2>2 DEF Moves, Named
  <2> QED BY <2>1, <2>2
<1>6. ASSUME NEW q \in Call PROVE StagedAt(q)'
  <2>1. CASE q # k
    <3>1. calls'[q] = calls[q] BY <1>1, <2>1 DEF Moves
    <3> QED BY <3>1 DEF Staged, StagedAt, Answered
  <2> QED BY <1>1, <2>1
<1> QED BY <1>3, <1>4, <1>5, <1>6 DEF Named, Staged

\* A link that was replaced stays so.
LEMMA RelinkedStays ==
    ASSUME TypeOK, Named, NEW k \in Call, Moves(k), NEW q \in Call, calls[q].stage \in Naming,
           calls'[q].user = calls[q].user, Relinked(q)
    PROVE  Relinked(q)'
<1>1. PICK r \in Call : /\ KindOf[r] = "google" /\ SubOf[r] # SubOf[q]
                        /\ calls[r].user = calls[q].user
  BY DEF Relinked
<1>2. calls[r].user \in Call BY <1>1 DEF Named
<1>3. calls[r].stage \notin Unspent BY <1>2, AccountsAssumption DEF Named
<1>4. calls'[r].user = calls[r].user BY <1>3 DEF Moves
<1> QED BY <1>1, <1>4 DEF Relinked


LEMMA UsersUnique ==
    ASSUME TypeOK, Named, Linked, NEW k \in Call, CallStep(k),
           NEW u \in Call, NEW v \in Call, users'[u] # None, users'[v] # None,
           \/ users'[u].email = users'[v].email
           \/ users'[u].sub = users'[v].sub /\ users'[u].sub # None
    PROVE  u = v
<1>1. CASE UNCHANGED users BY <1>1 DEF Linked
<1>2. CASE TakesBack(k) BY <1>2 DEF Linked, TakesBack, TypeOK
<1>3. CASE Links(k)
  <2> DEFINE x == calls[k].user
  <2>1. x \in Call BY <1>3 DEF Links, Named, Naming
  <2>2. users[x] \in User BY <1>3, <2>1 DEF Links, TypeOK
  <2>3. /\ users'[x] # None => users'[x].email = users[x].email /\ users'[x].sub = SubOf[k]
        /\ \A w \in Call \ {x} : users'[w] = users[w]
    BY <1>3, <2>1, <2>2 DEF Links, TypeOK, User
  <2>4. \A w \in Call \ {x} : users[w] # None => users[w].sub # SubOf[k]
    BY <1>3 DEF Links, UsersWithSub
  <2>5. users[x] # None BY <1>3 DEF Links
  <2>6. CASE u = x \/ v = x BY <2>1, <2>3, <2>4, <2>5, <2>6 DEF Linked
  <2>7. CASE u # x /\ v # x BY <2>3, <2>7 DEF Linked
  <2> QED BY <2>6, <2>7
<1>4. ASSUME NEW rec \in User, Inserts(k, rec) PROVE u = v
  <2>1. users'[k] = rec /\ \A w \in Call \ {k} : users'[w] = users[w]
    BY <1>4 DEF Inserts, TypeOK
  <2>2. \A w \in Call : users[w] # None =>
          users[w].email # rec.email /\ ~(rec.sub # None /\ users[w].sub = rec.sub)
    BY <1>4 DEF Inserts, Duplicate, UsersWithEmail, UsersWithSub
  <2>3. CASE u = k \/ v = k BY <2>1, <2>2, <2>3
  <2>4. CASE u # k /\ v # k BY <2>1, <2>4 DEF Linked
  <2> QED BY <2>3, <2>4
<1> QED BY <1>1, <1>2, <1>3, <1>4, UsersChange

LEMMA CallLinked ==
    ASSUME TypeOK, Named, Staged, Linked, NEW k \in Call, CallStep(k)
    PROVE  Linked'
<1>1. Moves(k) /\ StagedAt(k)' BY CallMoves DEF Stepped
<1>2. StagedAt(k) BY DEF Staged
<1>3. ASSUME NEW q \in Call, KindOf[q] \in {"signup", "login"}, Answered(q)'
      PROVE  EmailOf[calls'[q].user] = EmailOf[q]
  <2>1. CASE q # k BY <1>1, <1>3, <2>1 DEF Moves, Linked, Answered
  <2>2. CASE q = k /\ KindOf[k] = "signup" BY <1>1, <1>3, <2>2 DEF StagedAt, Naming, Answered
  <2>3. CASE q = k /\ KindOf[k] = "login"
    <3>1. Login(k)
      BY <1>2, <2>3 DEF CallStep, Signs, Googles, Saves, SignupRead, SignupUser, SignupProfile,
         DeleteUser, FindBySub, FindByEmail, AttachGoogleSub, InsertGoogleUser, FindProfile,
         GoogleProfile, FindCustomer, CreateCustomer, SetStripeCustomerID, AddAddress,
         RemoveAddress, UpdateProfile, At, StagedAt
    <3>2. "answered" \in Stages /\ "refused" \in Stages BY DEF Stages
    <3>3. ~Goto(k, "refused") BY <1>3, <2>3, <3>2, GotoMoves DEF Answered
    <3>4. PICK u \in Call : /\ users[u] # None /\ users[u].email = EmailOf[k]
                            /\ GotoAs(k, "answered", u)
      BY <3>1, <3>3 DEF Login, UsersWithEmail
    <3>5. calls'[k].user = u BY <3>2, <3>4, GotoAsMoves
    <3> QED BY <2>3, <3>4, <3>5 DEF Named
  <2> QED BY <1>3, <2>1, <2>2, <2>3
<1>4. ASSUME NEW q \in Call \ {k}, KindOf[q] = "google", calls'[q].stage \in Linking,
             users'[calls'[q].user] # None
      PROVE  users'[calls'[q].user].sub = SubOf[q] \/ Relinked(q)'
  <2> DEFINE x == calls[q].user
  <2>1. calls'[q] = calls[q] BY <1>1 DEF Moves
  <2>2. x \in Call /\ calls[x].stage \notin Unspent BY <1>4, <2>1 DEF Named, Naming, Linking
  <2>3. users[x] # None => users[x].sub = SubOf[q] \/ Relinked(q)' 
    BY <1>1, <1>4, <2>1, RelinkedStays DEF Linked, Linking, Naming
  <2>4. CASE UNCHANGED users BY <1>4, <2>1, <2>3, <2>4
  <2>5. CASE TakesBack(k) BY <1>4, <2>1, <2>2, <2>3, <2>5 DEF TakesBack, TypeOK
  <2>6. CASE \E rec \in User : Inserts(k, rec)
    <3>1. x # k BY <2>2, <2>6 DEF Inserts
    <3> QED BY <1>4, <2>1, <2>2, <2>3, <2>6, <3>1 DEF Inserts, TypeOK
  <2>7. CASE Links(k) /\ calls[k].user # x
    <3>1. calls[k].user \in Call BY <2>7 DEF Links, Named, Naming
    <3> QED BY <1>4, <2>1, <2>2, <2>3, <2>7, <3>1 DEF Links, TypeOK
  <2>8. CASE Links(k) /\ calls[k].user = x
    <3>1. KindOf[k] = "google" BY <1>2, <2>8 DEF StagedAt, Links
    <3>2. calls'[k].user = x BY <1>1, <2>8 DEF Moves, Links, Unspent
    <3>3. users'[x].sub = SubOf[k]
      BY <2>2, <2>8 DEF Links, TypeOK, User
    <3> QED BY <2>1, <3>1, <3>2, <3>3 DEF Relinked
  <2> QED BY <2>4, <2>5, <2>6, <2>7, <2>8, UsersChange
<1>5. ASSUME KindOf[k] = "google", calls'[k].stage \in Linking, users'[calls'[k].user] # None
      PROVE  users'[calls'[k].user].sub = SubOf[k] \/ Relinked(k)'
  <2> USE DEF Linking
  <2>1. {"stranger", "linking", "unknown", "refused", "known"} \subseteq Stages BY DEF Stages
  <2>2. \A stage \in {"stranger", "linking", "unknown", "refused"} :
          ~Goto(k, stage) /\ \A u \in Call : ~(stage = "linking" /\ GotoAs(k, stage, u))
    BY <1>5, <2>1, GotoMoves, GotoAsMoves
  <2>3. CASE FindBySub(k)
    <3>1. PICK u \in Call : users[u] # None /\ users[u].sub = SubOf[k] /\ GotoAs(k, "known", u)
      BY <2>2, <2>3 DEF FindBySub, UsersWithSub
    <3>2. UNCHANGED users BY <2>3 DEF FindBySub, Reads
    <3> QED BY <2>1, <3>1, <3>2, GotoAsMoves
  <2>4. CASE AttachGoogleSub(k)
    <3>1. calls[k].user \in Call /\ calls'[k].user = calls[k].user
      BY <1>1, <2>4 DEF AttachGoogleSub, At, Named, Naming, Moves, Unspent
    <3>2. users' = IF users[calls[k].user] = None THEN users
                   ELSE [users EXCEPT ![calls[k].user].sub = SubOf[k]]
      BY <2>2, <2>4 DEF AttachGoogleSub
    <3>3. users[calls[k].user] # None BY <1>5, <3>1, <3>2
    <3>4. users[calls[k].user] \in User BY <3>1, <3>3 DEF TypeOK
    <3> QED BY <3>1, <3>2, <3>3, <3>4 DEF TypeOK, User
  <2>5. CASE InsertGoogleUser(k)
    <3> DEFINE rec == [email |-> EmailOf[k], sub |-> SubOf[k], password |-> FALSE]
    <3>1. GotoAs(k, "known", k) /\ users' = [users EXCEPT ![k] = rec]
      BY <2>2, <2>5 DEF InsertGoogleUser, InsertUser
    <3>2. calls'[k].user = k BY <2>1, <3>1, GotoAsMoves
    <3> QED BY <3>1, <3>2 DEF TypeOK
  <2>6. CASE FindProfile(k) \/ GoogleProfile(k)
    <3>1. UNCHANGED users /\ calls[k].stage \in Linking /\ calls[k].stage \in Naming
      BY <2>6 DEF FindProfile, GoogleProfile, At, Naming
    <3>2. calls'[k].user = calls[k].user BY <1>1, <3>1 DEF Moves, Unspent
    <3> QED BY <1>1, <1>5, <3>1, <3>2, RelinkedStays DEF Linked
  <2>7. ~FindByEmail(k) BY <2>2 DEF FindByEmail, UsersWithEmail
  <2> QED BY <1>2, <1>5, <2>3, <2>4, <2>5, <2>6, <2>7 DEF CallStep, Signs, Googles, Saves, SignupRead,
      SignupUser, SignupProfile, DeleteUser, Login, FindCustomer, CreateCustomer,
      SetStripeCustomerID, AddAddress, RemoveAddress, UpdateProfile, At, StagedAt
<1>6. ASSUME NEW q \in Call, KindOf[q] = "google", calls'[q].stage \in Linking,
             users'[calls'[q].user] # None
      PROVE  users'[calls'[q].user].sub = SubOf[q] \/ Relinked(q)'
  BY <1>4, <1>5, <1>6
<1> QED BY <1>3, <1>6, UsersUnique DEF Linked


-----------------------------------------------------------------------------
(* Customers and profiles                                                   *)

\* Which step makes a call one that makes a customer, or keeps it so.
LEMMA MakingStep ==
    ASSUME TypeOK, Named, Staged, NEW k \in Call, CallStep(k), Making(k)'
    PROVE  \/ CreateCustomer(k) /\ Making(k) /\ UNCHANGED <<profiles, raced>>
              /\ calls'[k].user = calls[k].user
           \/ FindCustomer(k) /\ GotoAs(k, "customerless", Owner(k)) /\ UNCHANGED profiles
              /\ calls'[k].user = Owner(k) /\ Customer(Owner(k)) = None
<1>1. StagedAt(k)' /\ Moves(k) BY CallMoves DEF Stepped
<1>2. KindOf[k] = "setup" BY <1>1 DEF StagedAt, Making
<1>3. StagedAt(k) BY DEF Staged
<1>4. CreateCustomer(k) \/ FindCustomer(k) \/ SetStripeCustomerID(k)
  BY <1>2, <1>3 DEF CallStep, Signs, Googles, Saves, SignupRead, SignupUser, SignupProfile,
     DeleteUser, Login, FindBySub, FindByEmail, AttachGoogleSub, InsertGoogleUser, FindProfile,
     GoogleProfile, AddAddress, RemoveAddress, UpdateProfile, At, StagedAt
<1>5. {"customerless", "answered"} \subseteq Stages BY DEF Stages
<1>6. CASE CreateCustomer(k) BY <1>1, <1>6 DEF CreateCustomer, Making, At, Reads, Moves, Unspent
<1>7. CASE FindCustomer(k)
  <2>1. Owner(k) \in Call BY <1>7, OwnerNamed DEF FindCustomer
  <2>2. Customer(Owner(k)) = None
    <3> SUFFICES ASSUME Customer(Owner(k)) # None PROVE FALSE OBVIOUS
    <3>1. calls' = [calls EXCEPT ![k] = [stage |-> "answered", user |-> Owner(k),
                                         customer |-> Customer(Owner(k))]]
      BY <1>7 DEF FindCustomer
    <3> QED BY <3>1 DEF Making, TypeOK
  <2>3. GotoAs(k, "customerless", Owner(k)) /\ UNCHANGED profiles
    BY <1>7, <2>2 DEF FindCustomer
  <2> QED BY <1>5, <1>7, <2>1, <2>2, <2>3, GotoAsMoves
<1>8. ~SetStripeCustomerID(k) BY <1>5, GotoMoves DEF SetStripeCustomerID, Making
<1> QED BY <1>4, <1>6, <1>7, <1>8

LEMMA RacedGrows ==
    ASSUME NEW k \in Call, CallStep(k)
    PROVE  raced \subseteq raced'
<1>1. CASE FindCustomer(k) BY <1>1 DEF FindCustomer
<1>2. CASE ~FindCustomer(k)
  <2>1. UNCHANGED raced
    BY <1>2 DEF CallStep, Signs, Googles, Saves, SignupRead, SignupUser, InsertUser,
       SignupProfile, DeleteUser, Login, FindBySub, FindByEmail, AttachGoogleSub,
       InsertGoogleUser, FindProfile, GoogleProfile, CreateCustomer, SetStripeCustomerID,
       AddAddress, RemoveAddress, UpdateProfile, UpdateForUser, Reads
  <2> QED BY <2>1
<1> QED BY <1>1, <1>2

\* A profile keeps its customer, except where the customer is saved.
LEMMA CustomerKept ==
    ASSUME TypeOK, Named, Staged, NEW k \in Call, CallStep(k), NEW u \in Call
    PROVE  \/ Customer(u)' = Customer(u)
           \/ Making(k) /\ u = calls[k].user
<1>1. CASE profiles'[u] = profiles[u] BY <1>1 DEF Customer
<1>2. CASE Makes(u)
  <2>1. NewProfile \in Profile BY DEF NewProfile, Profile
  <2>2. profiles[u] = None /\ profiles'[u] = NewProfile BY <1>2 DEF Makes, TypeOK
  <2> QED BY <2>2 DEF Customer, NewProfile
<1>3. CASE Changes(k, u)
  <2>1. profiles[u] \in Profile BY <1>3 DEF Changes, TypeOK
  <2>2. CASE calls[k].stage = "created" /\ u = calls[k].user BY <2>2 DEF Making
  <2>3. CASE ~(calls[k].stage = "created" /\ u = calls[k].user)
    <3>1. profiles'[u].customer = profiles[u].customer
      BY <1>3, <2>1, <2>3 DEF Changes, TypeOK, Profile
    <3>2. profiles[u] # None /\ profiles'[u] # None BY <1>3, ProfileStep DEF Changes
    <3> QED BY <3>1, <3>2 DEF Customer
  <2> QED BY <2>2, <2>3
<1> QED BY <1>1, <1>2, <1>3, ProfileStep

LEMMA CallOneMaker ==
    ASSUME TypeOK, Named, Staged, OneMaker, NEW k \in Call, CallStep(k)
    PROVE  OneMaker'
<1>1. Moves(k) BY CallMoves DEF Stepped
<1>2. raced \subseteq raced' BY RacedGrows
<1>3. ASSUME NEW q \in Call, Making(q)', NEW u \in Call, u = calls'[q].user, u \notin raced'
      PROVE  /\ Customer(u)' = None
             /\ \A r \in Call : Making(r)' /\ calls'[r].user = u => r = q
  <2>1. CASE q = k /\ FindCustomer(k) /\ ~CreateCustomer(k)
    <3>1. u = Owner(k) /\ Customer(u) = None /\ UNCHANGED profiles
      BY <1>3, <2>1, MakingStep
    <3>2. ~\E r \in Call \ {k} : Making(r) /\ calls[r].user = u
      BY <1>3, <2>1, <3>1 DEF FindCustomer, Making
    <3>3. Customer(u)' = None BY <3>1 DEF Customer
    <3> QED BY <1>1, <2>1, <3>2, <3>3 DEF Moves, Making
  <2>2. CASE q = k /\ CreateCustomer(k)
    <3>1. ~FindCustomer(k) BY <2>2 DEF FindCustomer, CreateCustomer, At
    <3>2. /\ Making(k) /\ UNCHANGED <<profiles, raced>> /\ u = calls[k].user
      BY <1>3, <2>2, <3>1, MakingStep
    <3>3. Customer(u)' = Customer(u) BY <3>2 DEF Customer
    <3> QED BY <1>1, <1>3, <2>2, <3>2, <3>3 DEF Moves, Making, OneMaker
  <2>3. CASE q # k
    <3>1. calls'[q] = calls[q] /\ Making(q) /\ calls[q].user = u /\ u \notin raced
      BY <1>1, <1>2, <1>3, <2>3 DEF Moves, Making
    <3>2. ~(Making(k) /\ calls[k].user = u) BY <2>3, <3>1 DEF OneMaker
    <3>3. Customer(u)' = None BY <3>1, <3>2, CustomerKept DEF OneMaker
    <3>4. ~(Making(k)' /\ calls'[k].user = u)
      <4> SUFFICES ASSUME Making(k)', calls'[k].user = u PROVE FALSE OBVIOUS
      <4>1. FindCustomer(k) /\ u = Owner(k) /\ Customer(u) = None BY <3>2, MakingStep
      <4>2. u \in raced' BY <2>3, <3>1, <4>1 DEF FindCustomer, Making
      <4> QED BY <1>3, <4>2
    <3>5. ASSUME NEW r \in Call, Making(r)', calls'[r].user = u PROVE r = q
      <4>1. r # k BY <3>4, <3>5
      <4>2. calls'[r] = calls[r] BY <1>1, <4>1 DEF Moves
      <4> QED BY <3>1, <3>5, <4>2 DEF OneMaker, Making
    <3> QED BY <3>3, <3>5
  <2> QED BY <1>3, <2>1, <2>2, <2>3, MakingStep
<1>4. \A q \in Call : Making(q)' => calls'[q].user \in Call
  BY CallNamed DEF Named, Naming, Making
<1> QED BY <1>3, <1>4 DEF OneMaker, Customer


\* The fields of a profile come from an update.
LEMMA FieldsKept ==
    ASSUME TypeOK, Named, Staged, Founded, NEW k \in Call, CallStep(k), NEW u \in Call
    PROVE  /\ profiles'[u] # None /\ profiles'[u].fields # None =>
                KindOf[profiles'[u].fields] = "profile"
           /\ profiles[u] # None /\ profiles[u].fields # None => profiles'[u].fields # None
<1>1. CASE profiles'[u] = profiles[u] BY <1>1 DEF Founded
<1>2. CASE Makes(u)
  <2>1. profiles[u] = None /\ profiles'[u] = NewProfile BY <1>2 DEF Makes, TypeOK
  <2> QED BY <2>1 DEF NewProfile
<1>3. CASE Changes(k, u)
  <2>1. profiles[u] \in Profile /\ profiles[u] # None BY <1>3 DEF Changes, TypeOK
  <2>2. CASE UpdateProfile(k) /\ profiles'[u].fields = k
    BY <2>2, AccountsAssumption DEF UpdateProfile
  <2>3. CASE profiles'[u].fields = profiles[u].fields BY <2>1, <2>3 DEF Founded
  <2>4. (UpdateProfile(k) /\ profiles'[u].fields = k) \/ profiles'[u].fields = profiles[u].fields
    BY <1>3, <2>1 DEF Changes, TypeOK, Profile
  <2> QED BY <2>2, <2>3, <2>4
<1> QED BY <1>1, <1>2, <1>3, ProfileStep

\* What a call has been answered outlives the steps of the others.
LEMMA OthersHold ==
    ASSUME AccountInv, NEW k \in Call, CallStep(k),
           NEW q \in Call \ {k}, Answered(q), NEW u \in Call, u = calls[q].user,
           profiles[u] # None, Holds(q, profiles[u])
    PROVE  Holds(q, profiles[u])'
<1> USE DEF AccountInv
<1>1. Moves(k) BY CallMoves DEF Stepped
<1>2. calls'[q] = calls[q] /\ \A r \in Call : calls[r].stage # "idle" => calls'[r].stage # "idle"
  BY <1>1 DEF Moves
<1>3. profiles[u] \in Profile BY DEF TypeOK
<1>4. \A r \in Call : Removes(r, q) => Removes(r, q)' BY <1>2 DEF Removes
<1>5. CASE profiles'[u] = profiles[u]
  <2>1. KindOf[q] = "remove" => calls'[RemovedBy[q]].stage # "idle"
    BY <1>2, AccountsAssumption DEF Holds
  <2>2. \A r \in Call : Removes(r, q)' \/ ~Removes(r, q) BY <1>4
  <2> QED BY <1>2, <1>5, <2>1, <2>2, RacedGrows DEF Holds
<1>6. CASE Changes(k, u)
  <2>1. KindOf[q] = "address" => q \in profiles'[u].addresses \/ \E r \in Call : Removes(r, q)'
    <3>1. CASE RemoveAddress(k) /\ RemovedBy[k] = q
      <4>1. Removes(k, q)' BY <1>1, <3>1 DEF RemoveAddress, Removes, Moves
      <4> QED BY <4>1
    <3>2. CASE ~(RemoveAddress(k) /\ RemovedBy[k] = q)
      <4>1. q \in profiles[u].addresses => q \in profiles'[u].addresses
        BY <1>3, <1>6, <3>2 DEF Changes, TypeOK, Profile
      <4> QED BY <1>4, <4>1 DEF Holds
    <3> QED BY <3>1, <3>2
  <2>2. KindOf[q] = "remove" =>
          RemovedBy[q] \notin profiles'[u].addresses /\ calls'[RemovedBy[q]].stage # "idle"
    <3> SUFFICES ASSUME KindOf[q] = "remove"
                 PROVE  RemovedBy[q] \notin profiles'[u].addresses
                        /\ calls'[RemovedBy[q]].stage # "idle"
      OBVIOUS
    <3>1. /\ RemovedBy[q] \notin profiles[u].addresses /\ calls[RemovedBy[q]].stage # "idle"
          /\ RemovedBy[q] \in Call
      BY AccountsAssumption DEF Holds
    <3>2. AddAddress(k) => k # RemovedBy[q] BY <3>1 DEF AddAddress, At
    <3>3. RemovedBy[q] \notin profiles'[u].addresses
      BY <1>3, <1>6, <3>1, <3>2 DEF Changes, TypeOK, Profile
    <3> QED BY <1>2, <3>1, <3>3
  <2>3. KindOf[q] = "profile" =>
          profiles'[u].fields # None /\ KindOf[profiles'[u].fields] = "profile"
    BY FieldsKept, ProfileStep DEF Holds
  <2>4. KindOf[q] = "setup" /\ u \notin raced' => calls[q].customer = profiles'[u].customer
    <3> SUFFICES ASSUME KindOf[q] = "setup", u \notin raced'
                 PROVE  calls[q].customer = profiles'[u].customer
      OBVIOUS
    <3>1. u \notin raced /\ calls[q].customer = profiles[u].customer BY RacedGrows DEF Holds
    <3>2. calls[q].customer # None BY AccountsAssumption DEF Staged, StagedAt
    <3>3. Customer(u) # None BY <3>1, <3>2 DEF Customer
    <3>4. ~(Making(k) /\ calls[k].user = u) BY <3>1, <3>3 DEF OneMaker
    <3>5. Customer(u)' = Customer(u) BY <3>4, CustomerKept
    <3>6. profiles'[u] # None BY ProfileStep
    <3> QED BY <3>1, <3>5, <3>6 DEF Customer
  <2> QED BY <1>2, <2>1, <2>2, <2>3, <2>4 DEF Holds
<1>7. ~Makes(u) BY DEF Makes
<1> QED BY <1>5, <1>6, <1>7, ProfileStep


\* The user of a token that is no login's has a profile.
LEMMA OwnerFounded ==
    ASSUME AccountInv, NEW k \in Call, SignedIn(k), Welcome(k), dbErrors = 0
    PROVE  profiles[Owner(k)] # None
<1>1. TokenOf[k] \in Call /\ KindOf[TokenOf[k]] \in {"signup", "google"}
  BY AccountsAssumption DEF Welcome, SignIns
<1> QED BY <1>1 DEF AccountInv, Founded, SignedIn, Owner, Answered

\* A sign-in that answers has found or made the profile.
LEMMA SignInFounded ==
    ASSUME AccountInv, NEW k \in Call, CallStep(k), NEW u \in Call, u = calls'[k].user,
           dbErrors' = 0, KindOf[k] \in {"signup", "google"}, Answered(k)'
    PROVE  profiles'[u] # None
<1> USE DEF AccountInv
<1>1. Moves(k) /\ StagedAt(k)' BY CallMoves DEF Stepped
<1>2. ~DBError BY AccountsAssumption DEF DBError, TypeOK
<1>3. NewProfile \in Profile /\ NewProfile # None
  BY AccountsAssumption DEF NewProfile, Profile
<1>4. {"free", "inserted", "undo", "refused", "profileless", "stranger", "known"} \subseteq Stages
  BY DEF Stages
<1>5. \A stage \in {"free", "undo", "refused", "profileless", "stranger", "known"} :
        ~Goto(k, stage)
  BY <1>4, GotoMoves DEF Answered
<1>6. \A stage \in {"inserted", "known", "linking"}, v \in Call : ~GotoAs(k, stage, v)
  BY GotoAsMoves DEF Answered, Stages
<1>7. CASE SignupProfile(k)
  <2>1. u = k BY <1>1, <1>7 DEF SignupProfile, At, Moves, Unspent, Staged, StagedAt, Naming
  <2>2. profiles' = [profiles EXCEPT ![k] = NewProfile] BY <1>2, <1>5, <1>7 DEF SignupProfile
  <2> QED BY <1>3, <2>1, <2>2 DEF TypeOK
<1>8. CASE FindProfile(k)
  <2>1. u = calls[k].user BY <1>1, <1>8 DEF FindProfile, At, Moves, Unspent
  <2>2. profiles[u] # None /\ UNCHANGED profiles BY <1>2, <1>5, <1>8, <2>1 DEF FindProfile
  <2> QED BY <2>2
<1>9. CASE GoogleProfile(k)
  <2>1. u = calls[k].user BY <1>1, <1>9 DEF GoogleProfile, At, Moves, Unspent
  <2>2. CreateProfile(u) BY <1>2, <1>9, <2>1 DEF GoogleProfile
  <2> QED BY <1>3, <2>2 DEF CreateProfile, TypeOK
<1>10. ~SignupRead(k) /\ ~SignupUser(k) /\ ~DeleteUser(k)
  BY <1>5, <1>6 DEF SignupRead, SignupUser, InsertUser, DeleteUser
<1>11. ~FindBySub(k) /\ ~AttachGoogleSub(k) /\ ~InsertGoogleUser(k)
  BY <1>5, <1>6 DEF FindBySub, UsersWithSub, AttachGoogleSub, InsertGoogleUser, InsertUser
<1>12. ~FindByEmail(k)
  <2>1. "unknown" \in Stages BY DEF Stages
  <2>2. ~Goto(k, "unknown") BY <2>1, GotoMoves DEF Answered
  <2> QED BY <1>6, <2>2 DEF FindByEmail, UsersWithEmail
<1>13. StagedAt(k) BY DEF Staged
<1> QED BY <1>7, <1>8, <1>9, <1>10, <1>11, <1>12, <1>13 DEF CallStep, Signs, Googles, Saves, Login,
    FindCustomer, CreateCustomer, SetStripeCustomerID, AddAddress, RemoveAddress,
    UpdateProfile, At, StagedAt

\* A signed-in call has saved what it answers.
LEMMA SignedFounded ==
    ASSUME AccountInv, NEW k \in Call, CallStep(k), NEW u \in Call, u = calls'[k].user,
           dbErrors' = 0, Welcome(k), Answered(k)' \/ Making(k)'
    PROVE  profiles'[u] # None /\ (Answered(k)' => Holds(k, profiles[u])')
<1> USE DEF AccountInv
<1>1. Moves(k) /\ StagedAt(k)' /\ StagedAt(k) BY CallMoves DEF Stepped, Staged
<1>2. ~DBError /\ dbErrors = 0
  BY CallTyped, AccountsAssumption DEF DBError, TypeOK, NoDBError, CallStep, Signs, Googles, Saves,
     SignupRead, SignupUser, InsertUser, SignupProfile, DeleteUser, Login, FindBySub,
     FindByEmail, AttachGoogleSub, InsertGoogleUser, FindProfile, GoogleProfile, FindCustomer,
     CreateCustomer, SetStripeCustomerID, AddAddress, RemoveAddress, UpdateProfile,
     UpdateForUser, Reads
<1>3. KindOf[k] \in Signed BY DEF Welcome
<1>4. {"answered", "refused", "customerless"} \subseteq Stages BY DEF Stages
<1>5. ~Goto(k, "refused") BY <1>4, GotoMoves DEF Answered, Making
<1>6. CASE FindCustomer(k)
  <2>1. Owner(k) \in Call /\ profiles[Owner(k)] # None
    BY <1>2, <1>6, OwnerNamed, OwnerFounded DEF FindCustomer
  <2>2. CASE Customer(Owner(k)) # None
    <3>1. calls' = [calls EXCEPT ![k] = [stage |-> "answered", user |-> Owner(k),
                                         customer |-> Customer(Owner(k))]]
      BY <1>6, <2>2 DEF FindCustomer
    <3>2. u = Owner(k) /\ calls'[k].customer = Customer(u) /\ UNCHANGED profiles
      BY <1>6, <3>1 DEF TypeOK, FindCustomer
    <3> QED BY <1>6, <2>1, <3>2 DEF Holds, Customer, FindCustomer
  <2>3. CASE Customer(Owner(k)) = None
    <3>1. GotoAs(k, "customerless", Owner(k)) /\ UNCHANGED profiles
      BY <1>6, <2>3 DEF FindCustomer
    <3>2. u = Owner(k) /\ ~Answered(k)' BY <1>4, <2>1, <3>1, GotoAsMoves DEF Answered
    <3> QED BY <2>1, <3>1, <3>2
  <2> QED BY <2>2, <2>3
<1>7. CASE CreateCustomer(k)
  <2>1. u = calls[k].user /\ UNCHANGED profiles /\ profiles[u] # None
    BY <1>1, <1>2, <1>7 DEF CreateCustomer, At, Moves, Unspent, Reads, Founded, Making
  <2>2. calls' = [calls EXCEPT ![k].stage = "created", ![k].customer = k]
    BY <1>5, <1>7 DEF CreateCustomer
  <2>3. ~Answered(k)' BY <2>2 DEF Answered, TypeOK
  <2> QED BY <2>1, <2>3
<1>8. CASE SetStripeCustomerID(k)
  <2>1. u = calls[k].user /\ profiles[u] # None /\ Goto(k, "answered") /\ KindOf[k] = "setup"
    BY <1>1, <1>2, <1>8
       DEF SetStripeCustomerID, At, Moves, Unspent, Founded, Making, StagedAt
  <2>2. profiles' = [profiles EXCEPT ![u].customer = calls[k].customer]
    BY <1>2, <1>8, <2>1 DEF SetStripeCustomerID
  <2>3. calls'[k].customer = calls[k].customer BY <1>4, <2>1, GotoMoves
  <2>4. profiles[u] \in Profile BY <2>1 DEF TypeOK
  <2>5. profiles'[u].customer = calls'[k].customer BY <2>2, <2>3, <2>4 DEF TypeOK, Profile
  <2>6. profiles'[u] # None BY <2>1, ProfileStep
  <2> QED BY <2>1, <2>5, <2>6 DEF Holds
<1>9. CASE AddAddress(k) \/ RemoveAddress(k) \/ UpdateProfile(k)
  <2>1. Owner(k) \in Call /\ profiles[Owner(k)] # None
    BY <1>2, <1>9, OwnerNamed, OwnerFounded DEF AddAddress, RemoveAddress, UpdateProfile
  <2>2. \E found \in {"answered", "refused"} : GotoAs(k, found, Owner(k))
    BY <1>5, <1>9, UpdateMoves DEF AddAddress, RemoveAddress, UpdateProfile
  <2>3. u = Owner(k) BY <1>4, <2>1, <2>2, GotoAsMoves
  <2>4. profiles[u] \in Profile BY <2>1, <2>3 DEF TypeOK
  <2>5. CASE AddAddress(k)
    <3>1. profiles' = [profiles EXCEPT ![u] = [profiles[u] EXCEPT !.addresses = @ \cup {k}]]
      BY <1>2, <1>5, <2>1, <2>3, <2>5 DEF AddAddress, UpdateForUser
    <3>2. k \in profiles'[u].addresses BY <2>4, <3>1 DEF TypeOK, Profile
    <3>3. profiles'[u] # None BY <2>1, <2>3, ProfileStep
    <3> QED BY <2>5, <3>2, <3>3 DEF Holds, AddAddress
  <2>6. CASE RemoveAddress(k)
    <3>1. profiles' = [profiles EXCEPT ![u] =
                         [profiles[u] EXCEPT !.addresses = @ \ {RemovedBy[k]}]]
      BY <1>2, <1>5, <2>1, <2>3, <2>6 DEF RemoveAddress, UpdateForUser
    <3>2. RemovedBy[k] \notin profiles'[u].addresses BY <2>4, <3>1 DEF TypeOK, Profile
    <3>3. RemovedBy[k] \in Call /\ RemovedBy[k] # k
      BY <2>6, AccountsAssumption DEF RemoveAddress, At
    <3>4. calls'[RemovedBy[k]].stage # "idle"
      BY <1>1, <2>6, <3>3 DEF RemoveAddress, Moves
    <3>5. profiles'[u] # None BY <2>1, <2>3, ProfileStep
    <3> QED BY <2>6, <3>2, <3>4, <3>5 DEF Holds, RemoveAddress
  <2>7. CASE UpdateProfile(k)
    <3>1. profiles' = [profiles EXCEPT ![u] = [profiles[u] EXCEPT !.fields = k]]
      BY <1>2, <1>5, <2>1, <2>3, <2>7 DEF UpdateProfile, UpdateForUser
    <3>2. profiles'[u].fields = k BY <2>4, <3>1 DEF TypeOK, Profile
    <3>3. profiles'[u] # None BY <2>1, <2>3, ProfileStep
    <3> QED BY <2>7, <3>2, <3>3, AccountsAssumption DEF Holds, UpdateProfile
  <2> QED BY <1>9, <2>5, <2>6, <2>7
<1> QED BY <1>1, <1>3, <1>6, <1>7, <1>8, <1>9 DEF CallStep, Signs, Googles, Saves, SignupRead,
    SignupUser, SignupProfile, DeleteUser, Login, FindBySub, FindByEmail, AttachGoogleSub,
    InsertGoogleUser, FindProfile, GoogleProfile, At, StagedAt, Signed


LEMMA CallFounded ==
    ASSUME AccountInv, NEW k \in Call, CallStep(k)
    PROVE  Founded'
<1> USE DEF AccountInv
<1>1. Moves(k) BY CallMoves DEF Stepped
<1>2. Named' BY CallNamed
<1>3. dbErrors' = 0 => dbErrors = 0
  <2>1. NoDBError \/ DBError
    BY DEF CallStep, Signs, Googles, Saves, SignupRead, SignupUser, InsertUser, SignupProfile,
       DeleteUser, Login, FindBySub, FindByEmail, AttachGoogleSub, InsertGoogleUser,
       FindProfile, GoogleProfile, FindCustomer, CreateCustomer, SetStripeCustomerID,
       AddAddress, RemoveAddress, UpdateProfile, UpdateForUser, Reads, NoDBError
  <2> QED BY <2>1 DEF NoDBError, DBError, TypeOK
<1>4. ASSUME dbErrors' = 0, NEW q \in Call, NEW u \in Call, u = calls'[q].user
      PROVE  /\ KindOf[q] \in {"signup", "google"} /\ Answered(q)' => profiles'[u] # None
             /\ Welcome(q) /\ (Answered(q)' \/ Making(q)') => profiles'[u] # None
             /\ Welcome(q) /\ Answered(q)' => Holds(q, profiles[u])'
  <2>1. CASE q = k BY <1>4, <2>1, SignInFounded, SignedFounded
  <2>2. CASE q # k
    <3>1. calls'[q] = calls[q] /\ Answered(q)' = Answered(q) /\ Making(q)' = Making(q)
      BY <1>1, <2>2 DEF Moves, Answered, Making
    <3>2. u = calls[q].user BY <1>4, <3>1
    <3>3. profiles[u] # None => profiles'[u] # None BY ProfileStep
    <3>4. Welcome(q) /\ Answered(q) => profiles[u] # None /\ Holds(q, profiles[u])
      BY <1>3, <1>4, <3>2 DEF Founded
    <3>5. Welcome(q) /\ Answered(q) => Holds(q, profiles[u])'
      BY <2>2, <3>2, <3>4, OthersHold
    <3> QED BY <1>3, <1>4, <3>1, <3>2, <3>3, <3>5 DEF Founded
  <2> QED BY <2>1, <2>2
<1>5. \A q \in Call : Answered(q)' \/ Making(q)' => calls'[q].user \in Call
  BY <1>2 DEF Named, Naming, Answered, Making
<1>6. ASSUME dbErrors' = 0, NEW q \in Call
      PROVE  /\ KindOf[q] \in {"signup", "google"} /\ Answered(q)' => profiles'[calls'[q].user] # None
             /\ Welcome(q) /\ (Answered(q)' \/ Making(q)') => profiles'[calls'[q].user] # None
  BY <1>4, <1>5, <1>6
<1>7. ASSUME dbErrors' = 0, NEW q \in Call, Welcome(q), Answered(q)'
      PROVE  Holds(q, profiles[calls[q].user])'
  <2>1. PICK u \in Call : u = calls'[q].user BY <1>5, <1>7
  <2>2. Holds(q, profiles[u])' BY <1>4, <1>7, <2>1
  <2> QED BY <2>1, <2>2 DEF Holds
<1>8. \A u \in Call : profiles'[u] # None /\ profiles'[u].fields # None =>
        KindOf[profiles'[u].fields] = "profile"
  BY FieldsKept
<1> QED BY <1>6, <1>7, <1>8 DEF Founded, Welcome

-----------------------------------------------------------------------------
(* The invariant is inductive                                               *)

LEMMA InitInv == Init => AccountInv
<1> SUFFICES ASSUME Init PROVE AccountInv OBVIOUS
<1>1. TypeOK BY DEF Init, TypeOK, Stages
<1>2. Named /\ Staged BY DEF Init, Named, Staged, StagedAt, Naming, Unspent, Answered
<1>3. Linked BY DEF Init, Linked, Linking, Answered
<1>4. OneMaker BY DEF Init, OneMaker, Making
<1>5. Founded BY DEF Init, Founded, Answered, Making
<1> QED BY <1>1, <1>2, <1>3, <1>4, <1>5 DEF AccountInv

LEMMA CrashInv == AccountInv /\ Crash => AccountInv'
<1> SUFFICES ASSUME AccountInv, Crash PROVE AccountInv' OBVIOUS
<1> USE DEF AccountInv
<1>1. /\ calls' \in [Call -> Row]
      /\ \A k \in Call : /\ calls'[k].user = calls[k].user /\ calls'[k].customer = calls[k].customer
                         /\ calls'[k].stage \in {calls[k].stage, "lost"}
                         /\ calls[k].stage = "idle" => calls'[k].stage = "idle"
                         /\ calls[k].stage \notin {"idle", "answered", "refused"} =>
                              calls'[k].stage = "lost"
  BY DEF Crash, TypeOK, Row, Stages
<1>2. UNCHANGED <<users, profiles, cards, raced, dbErrors>> /\ crashes' \in Nat
  BY AccountsAssumption DEF Crash, TypeOK
<1>3. TypeOK' BY <1>1, <1>2 DEF TypeOK, Row
<1>4. Named' BY <1>1, <1>2 DEF Named, Naming, Unspent
<1>5. Staged' BY <1>1, <1>2 DEF Staged, StagedAt, Naming, Answered
<1>6. \A k \in Call : Relinked(k)' = Relinked(k) BY <1>1 DEF Relinked
<1>7. Linked' BY <1>1, <1>2, <1>6 DEF Linked, Linking, Answered
<1>8. OneMaker' BY <1>1, <1>2 DEF OneMaker, Making, Customer
<1>9. \A k \in Call : \A profile : Holds(k, profile) => Holds(k, profile)'
  <2>1. \A k, q \in Call : Removes(q, k) => Removes(q, k)'
    <3> SUFFICES ASSUME NEW k \in Call, NEW q \in Call, Removes(q, k) PROVE Removes(q, k)' OBVIOUS
    <3>1. calls[q].stage # "idle" BY DEF Removes
    <3>2. calls'[q].stage \in {calls[q].stage, "lost"} BY <1>1
    <3> QED BY <3>1, <3>2 DEF Removes
  <2> QED BY <1>1, <1>2, <2>1, AccountsAssumption DEF Holds
<1>10. \A k \in Call : (Answered(k)' => Answered(k)) /\ (Making(k)' => Making(k))
  BY <1>1 DEF Answered, Making
<1>11. Founded' BY <1>1, <1>2, <1>9, <1>10 DEF Founded
<1> QED BY <1>3, <1>4, <1>5, <1>7, <1>8, <1>11

LEMMA NextInv == AccountInv /\ [Next]_vars => AccountInv'
<1> SUFFICES ASSUME AccountInv, [Next]_vars PROVE AccountInv' OBVIOUS
<1>1. ASSUME NEW k \in Call, CallStep(k) PROVE AccountInv'
  BY <1>1, CallTyped, CallNamed, CallLinked, CallOneMaker, CallFounded DEF AccountInv
<1>2. ASSUME NEW k \in Call, SaveCard(k) PROVE AccountInv'
  <2>1. UNCHANGED <<users, profiles, calls, raced, dbErrors, crashes>> BY <1>2 DEF SaveCard
  <2>2. calls[k].customer \in Call
    BY <1>2 DEF SaveCard, At, AccountInv, Staged, StagedAt, Answered
  <2>3. cards' \subseteq Call BY <1>2, <2>2 DEF SaveCard, AccountInv, TypeOK
  <2> QED BY <2>1, <2>3 DEF AccountInv, TypeOK, Named, Staged, StagedAt, Linked, Relinked,
      OneMaker, Making, Customer, Founded, Holds, Removes, Answered
<1>3. CASE Crash BY <1>3, CrashInv
<1>4. CASE UNCHANGED vars
  BY <1>4 DEF vars, AccountInv, TypeOK, Named, Staged, StagedAt, Linked, Relinked, OneMaker,
     Making, Customer, Founded, Holds, Removes, Answered
<1> QED BY <1>1, <1>2, <1>3, <1>4 DEF Next, HandlerStep, CallStep, Signs, Googles, Saves

LEMMA InvHolds == Spec => []AccountInv
  BY InitInv, NextInv, PTL DEF Spec


-----------------------------------------------------------------------------
(* The theorems                                                             *)

\* Users, profiles and the calls of auth and user services have the shapes the
\* module gives them, however many people sign in and save things at a time.
THEOREM AccountsTypeCorrect == Spec => []TypeOK
<1>1. AccountInv => TypeOK BY DEF AccountInv
<1> QED BY <1>1, InvHolds, PTL

\* Sign-ins with one e-mail and password, or one Google account, end with one
\* user: the unique indexes of users (EnsureIndexes) decide the races that
\* SignupCustomer and GoogleSignIn lose by reading before they write.
THEOREM OneAccountHolds == Spec => []OneAccount
<1>1. ASSUME AccountInv PROVE OneAccount
  <2> SUFFICES ASSUME NEW k \in Call, NEW q \in Call, Answered(k), Answered(q),
                      users[calls[k].user] # None, users[calls[q].user] # None,
                      SameMail(k, q) \/ (SameGoogle(k, q) /\ ~Relinked(k) /\ ~Relinked(q))
               PROVE  calls[k].user = calls[q].user
    BY DEF OneAccount
  <2>1. calls[k].user \in Call /\ calls[q].user \in Call
    BY <1>1 DEF AccountInv, Named, Naming, Answered
  <2>2. CASE SameMail(k, q)
    <3>1. KindOf[k] \in {"signup", "login"} /\ KindOf[q] \in {"signup", "login"}
          /\ EmailOf[k] = EmailOf[q]
      BY <2>2 DEF SameMail
    <3>2. EmailOf[calls[k].user] = EmailOf[calls[q].user]
      BY <1>1, <3>1 DEF AccountInv, Linked
    <3>3. users[calls[k].user].email = users[calls[q].user].email
      BY <1>1, <2>1, <3>2 DEF AccountInv, Named
    <3> QED BY <1>1, <2>1, <3>3 DEF AccountInv, Linked
  <2>3. CASE SameGoogle(k, q) /\ ~Relinked(k) /\ ~Relinked(q)
    <3>1. users[calls[k].user].sub = SubOf[k] /\ users[calls[q].user].sub = SubOf[q]
          /\ SubOf[k] = SubOf[q]
      BY <1>1, <2>3 DEF AccountInv, Linked, Linking, Answered, SameGoogle
    <3>2. SubOf[k] # None BY AccountsAssumption
    <3> QED BY <1>1, <2>1, <3>1, <3>2 DEF AccountInv, Linked
  <2> QED BY <2>2, <2>3
<1> QED BY <1>1, InvHolds, PTL

\* Who signed up or came from Google finds a profile, although it is a second
\* write after the user's (SignupCustomer, GoogleSignIn, the unique user_id of customer_profiles).
THEOREM SignInHasProfileHolds == Spec => []SignInHasProfile
<1>1. AccountInv => SignInHasProfile BY DEF AccountInv, Founded, SignInHasProfile
<1> QED BY <1>1, InvHolds, PTL

\* Addresses, fields and the Stripe customer that signed-in calls answered are
\* those of the profile (AddAddress, RemoveAddress, UpdateProfile,
\* EnsureStripeCustomer), whatever other calls write to it.
THEOREM ProfileKeepsHolds == Spec => []ProfileKeeps
<1>1. ASSUME AccountInv PROVE ProfileKeeps
  <2> SUFFICES ASSUME dbErrors = 0, NEW k \in Call, Answered(k), KindOf[TokenOf[k]] # "login",
                      KindOf[k] \in Signed
               PROVE  Holds(k, profiles[calls[k].user])
    BY DEF ProfileKeeps, Kept, Holds, Signed
  <2> QED BY <1>1 DEF AccountInv, Founded, Welcome
<1> QED BY <1>1, InvHolds, PTL
=============================================================================
