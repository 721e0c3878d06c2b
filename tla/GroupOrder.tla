------------------------------ MODULE GroupOrder ------------------------------
(***************************************************************************)
(* Group orders: a host makes a group, hands out its share code, locks the *)
(* group for some minutes and checks out while it is locked; others join   *)
(* with the code until then.                                               *)
(*                                                                         *)
(* Every call reads the group first and writes later: a join may be let in *)
(* by what it read before a lock, and two locks may be stored in any order.*)
(* A code is found free before the group is inserted, under the unique     *)
(* index on share_code.                                                    *)
(*                                                                         *)
(* Time is in minutes.  No operation writes the lines of a member, so a    *)
(* checkout never gets to the order service: it is modelled as it is.      *)
(* Names and avatars are left out.                                         *)
(***************************************************************************)
EXTENDS Integers, Records, Calls

CONSTANTS
    Code,
    CallerOf,       \* [Call -> User]; a call is also the name of the group it creates
    LockMinutes,    \* what hosts ask for
    MaxTries,       \* codes that are tried, 5 in the code
    MaxTime

ASSUME GroupAssumption ==
    /\ CallerOf \in [Call -> User] /\ LockMinutes \subseteq Int
    /\ MaxTries \in Nat \ {0} /\ MaxTime \in Nat
    /\ None \notin [code : Code, host : User, lock : Int]

VARIABLES
    clock,
    groups,     \* collection groups, by the call that created it
    members,    \* collection group_members: group, user, the call that inserted the row
    open        \* groups that have been unlocked since a call began: no part of the program

groupVars == <<clock, groups, members, calls, open>>

\* lock: 0, or the time when it expires.  A lock in the past is none.
Locked(group) == group.lock > clock

\* Mutant: what a lock is for is not asked when someone joins.
NeverRefused(group) == FALSE

RefusesJoin(group) == Locked(group)

FindByShareCode(code) == {g \in Call : groups[g] # None /\ groups[g].code = code}

GroupInit ==
    /\ clock = 0
    /\ groups = [g \in Call |-> None] /\ members = {}
    /\ calls = [k \in Call |-> [stage |-> "idle"]]
    /\ open = [k \in Call |-> {}]

Goes(k, change) == calls' = [calls EXCEPT ![k] = With(@, change)]
Ends(k, reply) == calls' = [calls EXCEPT ![k] = [stage |-> "ended", reply |-> reply]]

Unlocked == {g \in Call : groups[g] # None /\ ~Locked(groups[g])}
Noted == open' = [k \in Call |-> open[k] \cup Unlocked']

\* The row of a member is inserted once; joining again changes it, not its call.
AddMember(g, k) ==
    members' = IF \E m \in members : m.group = g /\ m.user = CallerOf[k] THEN members
               ELSE members \cup {[group |-> g, user |-> CallerOf[k], by |-> k]}

-----------------------------------------------------------------------------
(* Create                                                                   *)

Create(k) ==
    /\ At(k, "idle")
    /\ Goes(k, [stage |-> "pick", tries |-> 0]) \/ Ends(k, "restaurant not found")
    /\ UNCHANGED <<clock, groups, members, open>>

\* A code that is taken is drawn again; so many times.
GenerateShareCode(k) ==
    /\ At(k, "pick")
    /\ \/ \E code \in Code :
            IF FindByShareCode(code) = {} THEN Goes(k, [stage |-> "insert", code |-> code])
            ELSE IF calls[k].tries + 1 = MaxTries THEN Ends(k, "no code")
            ELSE Goes(k, [stage |-> "pick", tries |-> calls[k].tries + 1])
       \/ Ends(k, "error")
    /\ UNCHANGED <<clock, groups, members, open>>

\* The unique index refuses a code that was taken since; an insert that returns
\* an error may have taken effect.
InsertGroup(k) ==
    /\ At(k, "insert")
    /\ LET row == [code |-> calls[k].code, host |-> CallerOf[k], lock |-> 0]
           stored == groups' = [groups EXCEPT ![k] = row]
       IN \/ FindByShareCode(row.code) = {} /\ stored /\ Goes(k, [stage |-> "host"])
          \/ FindByShareCode(row.code) = {} /\ stored /\ Ends(k, "error")
          \/ Ends(k, "error") /\ UNCHANGED groups
    /\ UNCHANGED <<clock, members>> /\ Noted

\* Whether the host becomes a member is not checked.
JoinHost(k) ==
    /\ At(k, "host")
    /\ AddMember(k, k) \/ UNCHANGED members
    /\ Ends(k, "created")
    /\ UNCHANGED <<clock, groups, open>>

-----------------------------------------------------------------------------
(* Calls with a share code                                                  *)

Arrive(k, stage) ==
    /\ At(k, "idle")
    /\ \E code \in Code : Goes(k, [stage |-> stage, code |-> code])
    /\ open' = [open EXCEPT ![k] = Unlocked]
    /\ UNCHANGED <<clock, groups, members>>

\* The first step of each: a code that leads nowhere, or a failing query, ends it.
Reads(k, stage, GoOn(_)) ==
    /\ At(k, stage)
    /\ LET found == FindByShareCode(calls[k].code)
       IN \/ Ends(k, IF found = {} THEN "group not found" ELSE "error")
          \/ \E g \in found : GoOn(g)
    /\ UNCHANGED <<clock, groups, members, open>>

Join(k) ==
    Reads(k, "join", LAMBDA g : IF RefusesJoin(groups[g]) THEN Ends(k, "group is locked")
                                ELSE Goes(k, [stage |-> "add", group |-> g]))

\* The row, or an error of the upsert.
JoinMember(k) ==
    /\ At(k, "add")
    /\ \/ AddMember(calls[k].group, k) /\ Ends(k, "joined")
       \/ Ends(k, "error") /\ (AddMember(calls[k].group, k) \/ UNCHANGED members)
    /\ UNCHANGED <<clock, groups, open>>

\* Anything but 1 to 60 minutes is 5, from when the group was read.
Lock(k) ==
    Reads(k, "lock", LAMBDA g :
        IF groups[g].host # CallerOf[k] THEN Ends(k, "only the host")
        ELSE \E minutes \in LockMinutes :
               Goes(k, [stage |-> "set", group |-> g,
                        until |-> clock + (IF minutes \in 1..60 THEN minutes ELSE 5)]))

\* The later write wins, not the later lock.
SetLockExpiry(k) ==
    /\ At(k, "set")
    /\ \/ groups' = [groups EXCEPT ![calls[k].group].lock = calls[k].until] /\ Ends(k, "locked")
       \/ Ends(k, "error") /\ UNCHANGED groups
    /\ UNCHANGED <<clock, members>> /\ Noted

Checkout(k) ==
    Reads(k, "checkout", LAMBDA g :
        IF groups[g].host # CallerOf[k] THEN Ends(k, "only the host")
        ELSE IF groups[g].lock = 0 \/ groups[g].lock < clock THEN Ends(k, "group is not locked")
        ELSE Goes(k, [stage |-> "members", group |-> g]))

\* Members have no lines.
FlattenMembers(k) ==
    /\ At(k, "members")
    /\ Ends(k, "error") \/ Ends(k, "no items in group order")
    /\ UNCHANGED <<clock, groups, members, open>>

-----------------------------------------------------------------------------

Tick == clock < MaxTime /\ clock' = clock + 1 /\ UNCHANGED <<groups, members, calls>> /\ Noted

\* A process that dies takes its calls along.
GroupCrash ==
    /\ \E k \in Call : calls[k].stage \notin {"idle", "ended"}
    /\ calls' = [k \in Call |->
                   IF At(k, "idle") THEN calls[k] ELSE [stage |-> "ended", reply |-> "none"]]
    /\ UNCHANGED <<clock, groups, members, open>>

GroupNext ==
    \/ \E k \in Call :
         \/ Create(k) \/ GenerateShareCode(k) \/ InsertGroup(k) \/ JoinHost(k)
         \/ Arrive(k, "join") \/ Join(k) \/ JoinMember(k)
         \/ Arrive(k, "lock") \/ Lock(k) \/ SetLockExpiry(k)
         \/ Arrive(k, "checkout") \/ Checkout(k) \/ FlattenMembers(k)
    \/ Tick \/ GroupCrash

GroupSpec == GroupInit /\ [][GroupNext]_groupVars

-----------------------------------------------------------------------------
(* Properties                                                               *)

\* Whoever is in a group without being its host got in by a call during which
\* the group was not locked, however locks, joins and the clock overlap; a code
\* leads to one group, although groups draw theirs before they are stored.
JoinedWhileOpen ==
    /\ \A m \in members :
         groups[m.group] # None /\ (m.user = groups[m.group].host \/ m.group \in open[m.by])
    /\ \A g, h \in Call :
         groups[g] # None /\ groups[h] # None /\ g # h => groups[g].code # groups[h].code
=============================================================================
