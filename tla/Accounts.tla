------------------------------ MODULE Accounts ------------------------------
(***************************************************************************)
(* Who a person is: users, customer profiles, and what is kept for them.   *)
(*                                                                         *)
(* A sign-in is a chain of reads and single-document writes under three    *)
(* unique indexes: users' e-mails, users' Google accounts, and one profile *)
(* per user.  Signup takes its user back when the profile cannot be        *)
(* inserted; Google sign-in makes or links a user and adds a profile when  *)
(* there is none.  Signed-in calls write to the profile of their token's   *)
(* user and do not ask whether there is one.                               *)
(*                                                                         *)
(* A call inserts at most one user, makes at most one Stripe customer, one *)
(* address and one set of profile fields, and names all of them.  Passwords are right; memberships are *)
(* AdminAccess's.                                                          *)
(***************************************************************************)
EXTENDS Naturals

CONSTANTS
    Call,           \* requests
    KindOf,         \* [Call -> SignIns \cup Signed]
    EmailOf,        \* the e-mail of a sign-in
    SubOf,          \* the Google account of a Google sign-in
    TokenOf,        \* [Call -> Call]: the sign-in whose token a call carries
    RemovedBy,      \* [Call -> Call]: the address that a call removes
    MaxDBErrors,    \* bound on database errors
    MaxCrashes,     \* bound on processes that die
    None            \* no user, no profile, no customer, no Google account

SignIns == {"signup", "login", "google"}
Signed == {"setup", "address", "remove", "profile"}

\* The documents of the two collections.
User == [email : {EmailOf[k] : k \in Call}, sub : {SubOf[k] : k \in Call} \cup {None},
         password : BOOLEAN]
Profile == [customer : Call \cup {None}, addresses : SUBSET Call, fields : Call \cup {None}]

ASSUME AccountsAssumption ==
    /\ KindOf \in [Call -> SignIns \cup Signed]
    /\ TokenOf \in [Call -> Call] /\ RemovedBy \in [Call -> Call]
    /\ \A k \in Call : KindOf[TokenOf[k]] \in SignIns
    /\ DOMAIN EmailOf = Call /\ DOMAIN SubOf = Call
    /\ {MaxDBErrors, MaxCrashes} \subseteq Nat
    /\ None \notin Call /\ \A k \in Call : None # SubOf[k]
    /\ None \notin User /\ None \notin Profile

VARIABLES
    users,      \* collection users, by the call that inserted the user
    profiles,   \* collection customer_profiles, by user
    calls,      \* how far a call has come, its user, and its Stripe customer
    cards,      \* Stripe: the customers with a card
    raced,      \* users with two calls between the read and the save of a customer
    dbErrors, crashes

vars == <<users, profiles, calls, cards, raced, dbErrors, crashes>>

Stages == {"idle", "free", "inserted", "undo", "stranger", "linking", "unknown", "known",
           "profileless", "customerless", "created", "answered", "refused", "lost"}

TypeOK ==
    /\ users \in [Call -> User \cup {None}]
    /\ profiles \in [Call -> Profile \cup {None}]
    /\ calls \in [Call -> [stage : Stages, user : Call \cup {None}, customer : Call \cup {None}]]
    /\ cards \subseteq Call /\ raced \subseteq Call
    /\ dbErrors \in Nat /\ crashes \in Nat

Init ==
    /\ users = [k \in Call |-> None]
    /\ profiles = [k \in Call |-> None]
    /\ calls = [k \in Call |-> [stage |-> "idle", user |-> None, customer |-> None]]
    /\ cards = {} /\ raced = {} /\ dbErrors = 0 /\ crashes = 0

-----------------------------------------------------------------------------
(* Steps of a handler                                                       *)

At(k, stage) == calls[k].stage = stage
Goto(k, stage) == calls' = [calls EXCEPT ![k].stage = stage]
GotoAs(k, stage, u) == calls' = [calls EXCEPT ![k].stage = stage, ![k].user = u]

NoDBError == UNCHANGED dbErrors
DBError == dbErrors < MaxDBErrors /\ dbErrors' = dbErrors + 1

UsersWithEmail(email) == {u \in Call : users[u] # None /\ users[u].email = email}
UsersWithSub(sub) == {u \in Call : users[u] # None /\ users[u].sub = sub}

\* A read that fails ends the call: the same as one that goes no further.
Reads == UNCHANGED <<users, profiles, cards, raced, dbErrors, crashes>>

\* Mutant: users_google_sub_1 was never built.
Unindexed(rec) == UsersWithEmail(rec.email) # {}

\* The unique indexes of users; the one on google_sub is partial.
Duplicate(rec) ==
    UsersWithEmail(rec.email) # {} \/ (rec.sub # None /\ UsersWithSub(rec.sub) # {})

\* An insert succeeds, meets a duplicate, or returns an error before or after
\* it took effect.
InsertUser(k, rec, done) ==
    /\ \/ /\ ~Duplicate(rec)
          /\ users' = [users EXCEPT ![k] = rec]
          /\ (NoDBError /\ GotoAs(k, done, k)) \/ (DBError /\ Goto(k, "refused"))
       \/ /\ (Duplicate(rec) /\ NoDBError) \/ DBError
          /\ Goto(k, "refused") /\ UNCHANGED users
    /\ UNCHANGED <<profiles, cards, raced, crashes>>

\* Mutant: the customer is stored as an empty string, not left out.
EmptyCustomer == [customer |-> "", addresses |-> {}, fields |-> None]

\* Its fields are those of the sign-in.
NewProfile == [customer |-> None, addresses |-> {}, fields |-> None]

-----------------------------------------------------------------------------
(* SignupCustomer                                                           *)

SignupRead(k) ==
    /\ At(k, "idle") /\ KindOf[k] = "signup"
    /\ Goto(k, IF UsersWithEmail(EmailOf[k]) = {} THEN "free" ELSE "refused")
    /\ Reads

SignupUser(k) ==
    /\ At(k, "free")
    /\ InsertUser(k, [email |-> EmailOf[k], sub |-> None, password |-> TRUE], "inserted")

SignupProfile(k) ==
    /\ At(k, "inserted")
    /\ \/ /\ profiles[k] = None
          /\ profiles' = [profiles EXCEPT ![k] = NewProfile]
          /\ (NoDBError /\ Goto(k, "answered")) \/ (DBError /\ Goto(k, "undo"))
       \/ /\ (profiles[k] # None /\ NoDBError) \/ DBError
          /\ Goto(k, "undo") /\ UNCHANGED profiles
    /\ UNCHANGED <<users, cards, raced, crashes>>

\* Mutant: the error goes out without the deletion.
KeepUser(k) ==
    /\ At(k, "undo")
    /\ Goto(k, "refused")
    /\ UNCHANGED <<users, profiles, cards, raced, dbErrors, crashes>>

\* The error of the deletion is ignored.
DeleteUser(k) ==
    /\ At(k, "undo")
    /\ \/ users' = [users EXCEPT ![k] = None] /\ (NoDBError \/ DBError)
       \/ UNCHANGED users /\ DBError
    /\ Goto(k, "refused")
    /\ UNCHANGED <<profiles, cards, raced, crashes>>

-----------------------------------------------------------------------------
(* Login                                                                    *)

\* A user without a password came from Google.
Login(k) ==
    /\ At(k, "idle") /\ KindOf[k] = "login"
    /\ \/ \E u \in UsersWithEmail(EmailOf[k]) : users[u].password /\ GotoAs(k, "answered", u)
       \/ /\ \A u \in UsersWithEmail(EmailOf[k]) : ~users[u].password
          /\ Goto(k, "refused")
    /\ Reads

-----------------------------------------------------------------------------
(* GoogleSignIn                                                             *)

FindBySub(k) ==
    /\ At(k, "idle") /\ KindOf[k] = "google"
    /\ \/ \E u \in UsersWithSub(SubOf[k]) : GotoAs(k, "known", u)
       \/ UsersWithSub(SubOf[k]) = {} /\ Goto(k, "stranger")
    /\ Reads

FindByEmail(k) ==
    /\ At(k, "stranger")
    /\ \/ \E u \in UsersWithEmail(EmailOf[k]) : GotoAs(k, "linking", u)
       \/ UsersWithEmail(EmailOf[k]) = {} /\ Goto(k, "unknown")
    /\ Reads

\* UpdateOne by _id: no error when the user is gone, a duplicate when another
\* user has the Google account; an earlier Google account is replaced.
AttachGoogleSub(k) ==
    LET u == calls[k].user
        linked == IF users[u] = None THEN users ELSE [users EXCEPT ![u].sub = SubOf[k]]
        free == UsersWithSub(SubOf[k]) \ {u} = {}
    IN  /\ At(k, "linking")
        /\ \/ free /\ users' = linked /\ NoDBError /\ Goto(k, "known")
           \/ free /\ users' = linked /\ DBError /\ Goto(k, "refused")
           \/ ((~free /\ NoDBError) \/ DBError) /\ UNCHANGED users /\ Goto(k, "refused")
        /\ UNCHANGED <<profiles, cards, raced, crashes>>

InsertGoogleUser(k) ==
    /\ At(k, "unknown")
    /\ InsertUser(k, [email |-> EmailOf[k], sub |-> SubOf[k], password |-> FALSE], "known")

\* Mutant: only users made by this call get a profile.
FindProfileOfNew(k) ==
    /\ At(k, "known")
    /\ Goto(k, IF calls[k].user = k THEN "profileless" ELSE "answered")
    /\ Reads

\* An error of the read is taken for no profile.
FindProfile(k) ==
    /\ At(k, "known")
    /\ \/ NoDBError /\ Goto(k, IF profiles[calls[k].user] = None THEN "profileless" ELSE "answered")
       \/ DBError /\ Goto(k, "profileless")
    /\ UNCHANGED <<users, profiles, cards, raced, crashes>>

\* Mutant: the profile is saved with upsert, over the one that came between.
SaveProfile(u) == profiles' = [profiles EXCEPT ![u] = NewProfile]

\* The unique index keeps the profile that is there.
CreateProfile(u) ==
    profiles' = [profiles EXCEPT ![u] = IF @ = None THEN NewProfile ELSE @]

\* Whatever the insert says, the answer goes out with the profile that is found.
GoogleProfile(k) ==
    /\ At(k, "profileless")
    /\ \/ CreateProfile(calls[k].user) /\ NoDBError
       \/ DBError /\ (CreateProfile(calls[k].user) \/ UNCHANGED profiles)
    /\ Goto(k, "answered")
    /\ UNCHANGED <<users, cards, raced, crashes>>

-----------------------------------------------------------------------------
(* Signed-in calls                                                          *)

SignedIn(k) == calls[TokenOf[k]].stage = "answered"
Owner(k) == calls[TokenOf[k]].user

Customer(u) == IF profiles[u] = None THEN None ELSE profiles[u].customer

FindCustomer(k) ==
    /\ At(k, "idle") /\ KindOf[k] = "setup" /\ SignedIn(k)
    /\ IF Customer(Owner(k)) # None
       THEN /\ calls' = [calls EXCEPT ![k] = [stage |-> "answered", user |-> Owner(k),
                                              customer |-> Customer(Owner(k))]]
            /\ UNCHANGED raced
       ELSE /\ GotoAs(k, "customerless", Owner(k))
            /\ raced' = IF \E q \in Call \ {k} : /\ calls[q].stage \in {"customerless", "created"}
                                                 /\ calls[q].user = Owner(k)
                        THEN raced \cup {Owner(k)} ELSE raced
    /\ UNCHANGED <<users, profiles, cards, dbErrors, crashes>>

\* Stripe makes a customer, or the call ends with Stripe's error.
CreateCustomer(k) ==
    /\ At(k, "customerless")
    /\ \/ calls' = [calls EXCEPT ![k].stage = "created", ![k].customer = k]
       \/ Goto(k, "refused")
    /\ Reads

\* UpdateForUser sets fields of a profile that is there; its error is logged.
SetStripeCustomerID(k) ==
    LET u == calls[k].user IN
    /\ At(k, "created")
    /\ \/ /\ profiles' = IF profiles[u] = None THEN profiles
                         ELSE [profiles EXCEPT ![u].customer = calls[k].customer]
          /\ NoDBError \/ DBError
       \/ UNCHANGED profiles /\ DBError
    /\ Goto(k, "answered")
    /\ UNCHANGED <<users, cards, raced, crashes>>

\* The client gives the setup intent's secret to Stripe.
SaveCard(k) ==
    /\ At(k, "answered") /\ KindOf[k] = "setup"
    /\ cards' = cards \cup {calls[k].customer}
    /\ UNCHANGED <<users, profiles, calls, raced, dbErrors, crashes>>

\* FindOneAndUpdate by user_id: without a profile nothing is saved, which is no
\* error; an error may come before or after the update.
UpdateForUser(k, u, profile, found) ==
    /\ \/ /\ profiles' = IF profiles[u] = None THEN profiles ELSE [profiles EXCEPT ![u] = profile]
          /\ (NoDBError /\ GotoAs(k, found, u)) \/ (DBError /\ Goto(k, "refused"))
       \/ UNCHANGED profiles /\ DBError /\ Goto(k, "refused")
    /\ UNCHANGED <<users, cards, raced, crashes>>

\* $push; 201 although there may be no profile.
AddAddress(k) ==
    LET u == Owner(k) IN
    /\ At(k, "idle") /\ KindOf[k] = "address" /\ SignedIn(k)
    /\ UpdateForUser(k, u, [profiles[u] EXCEPT !.addresses = @ \cup {k}], "answered")

\* $pull of an address the client has heard of; 204 whether it was there or not.
RemoveAddress(k) ==
    LET u == Owner(k) IN
    /\ At(k, "idle") /\ KindOf[k] = "remove" /\ SignedIn(k)
    /\ calls[RemovedBy[k]].stage \in {"answered", "refused"}
    /\ UpdateForUser(k, u, [profiles[u] EXCEPT !.addresses = @ \ {RemovedBy[k]}], "answered")

\* Name, telephone and address of the request replace those of the profile; 404
\* without one.
UpdateProfile(k) ==
    LET u == Owner(k) IN
    /\ At(k, "idle") /\ KindOf[k] = "profile" /\ SignedIn(k)
    /\ UpdateForUser(k, u, [profiles[u] EXCEPT !.fields = k],
                     IF profiles[u] = None THEN "refused" ELSE "answered")

-----------------------------------------------------------------------------
Crash ==
    /\ crashes < MaxCrashes /\ crashes' = crashes + 1
    /\ calls' = [k \in Call |-> IF calls[k].stage \in {"idle", "answered", "refused"} THEN calls[k]
                                ELSE [calls[k] EXCEPT !.stage = "lost"]]
    /\ UNCHANGED <<users, profiles, cards, raced, dbErrors>>

\* What a handler does after its first step.
HandlerStep(k) ==
    \/ SignupUser(k) \/ SignupProfile(k) \/ DeleteUser(k)
    \/ FindByEmail(k) \/ AttachGoogleSub(k) \/ InsertGoogleUser(k)
    \/ FindProfile(k) \/ GoogleProfile(k)
    \/ CreateCustomer(k) \/ SetStripeCustomerID(k)

Next ==
    \/ \E k \in Call :
         \/ SignupRead(k) \/ Login(k) \/ FindBySub(k) \/ FindCustomer(k)
         \/ AddAddress(k) \/ RemoveAddress(k) \/ UpdateProfile(k)
         \/ HandlerStep(k) \/ SaveCard(k)
    \/ Crash

Spec == Init /\ [][Next]_vars

\* A handler runs on while its process lives; its calls return.  Only signups
\* owe something.
FairSpec == Spec /\ \A k \in {q \in Call : KindOf[q] = "signup"} : WF_vars(HandlerStep(k))

-----------------------------------------------------------------------------
(* Properties                                                               *)

Answered(k) == calls[k].stage = "answered"
SameGoogle(k, q) == KindOf[k] = "google" /\ KindOf[q] = "google" /\ SubOf[k] = SubOf[q]
SameMail(k, q) == {KindOf[k], KindOf[q]} \subseteq {"signup", "login"} /\ EmailOf[k] = EmailOf[q]
Relinked(k) ==
    \E q \in Call : KindOf[q] = "google" /\ SubOf[q] # SubOf[k] /\ calls[q].user = calls[k].user

\* A person is one user: sign-ins with one Google account, or with one e-mail
\* and password, name the same user however they race, unless a signup took
\* that user back or another Google account was linked to it in its place.
OneAccount ==
    \A k, q \in Call :
        /\ Answered(k) /\ Answered(q)
        /\ SameMail(k, q) \/ (SameGoogle(k, q) /\ ~Relinked(k) /\ ~Relinked(q))
        => \/ calls[k].user = calls[q].user
           \/ \E u \in {calls[k].user, calls[q].user} : users[u] = None

\* Whoever signed up or came from Google has a profile, also when the two race
\* for it or one takes the user back, unless the database failed.
SignInHasProfile ==
    \A k \in Call : KindOf[k] \in {"signup", "google"} /\ Answered(k) /\ dbErrors = 0
                        => profiles[calls[k].user] # None

\* What signed-in calls answered is kept: an address stays until it is removed
\* and then stays away, the fields are those of the last update, and a card
\* belongs to the customer of the profile, unless two calls raced for the customer
\* or the database failed.  A login may be as early as its user's own signup.
Kept == {k \in Call : Answered(k) /\ KindOf[TokenOf[k]] # "login"}
Removes(q, k) == KindOf[q] = "remove" /\ RemovedBy[q] = k /\ calls[q].stage # "idle"
ProfileKeeps ==
    dbErrors = 0 => \A k \in Kept :
        LET profile == profiles[calls[k].user]
        IN /\ KindOf[k] = "address" => k \in profile.addresses \/ \E q \in Call : Removes(q, k)
           /\ KindOf[k] = "remove" => RemovedBy[k] \notin profile.addresses
           /\ KindOf[k] = "profile" => profile.fields # None /\ KindOf[profile.fields] = "profile"
           /\ KindOf[k] = "setup" /\ calls[k].customer \in cards /\ calls[k].user \notin raced
                  => calls[k].customer = profile.customer

\* A signup ends with a user and a profile or takes the user back, unless the
\* process dies or the database fails again.
SignupSettles ==
    \A k \in {q \in Call : KindOf[q] = "signup"} :
        At(k, "inserted")
            ~> profiles[k] # None \/ users[k] = None \/ calls[k].stage = "lost" \/ dbErrors > 1
=============================================================================
