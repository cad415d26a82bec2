----------------------------- MODULE StudioMembers -----------------------------
(***************************************************************************)
(* The studio_members table and the requests that create, update, delete   *)
(* and promote members.  No handler locks anything or opens a transaction: *)
(* each is cut at every await, and a request may be overtaken by others    *)
(* between any two of its reads and its write.                             *)
(*                                                                         *)
(* TypeORM's save() selects the row, inserts it when it is gone, and else  *)
(* writes the columns whose values differ from the selected ones.  A target*)
(* is loaded without its user, so a row that save() inserts has no user.   *)
(*                                                                         *)
(* rights stands for the columns an update may change (role,               *)
(* permissionsMask, gameAccessIds): whether they let the member manage     *)
(* members.                                                                *)
(***************************************************************************)
EXTENDS Naturals, FiniteSets

CONSTANTS
    Studio,
    User,
    Member,         \* member ids
    Request,
    Founder,        \* [Studio -> Member], its bootstrap owner
    Operation,      \* what requests may ask for
    None            \* no row, no user, no request

Row ==
    [studio : Studio, user : User \cup {None}, isOwner : BOOLEAN,
     rights : BOOLEAN]

ManageOp ==
    [kind : {"update", "delete"}, actor : User, studio : Studio,
     member : Member, rights : BOOLEAN]

CreateOp ==
    [kind : {"create"}, actor : User, studio : Studio, user : User,
     rights : BOOLEAN]

PromoteOp == [kind : {"promote"}, actor : Member, member : Member]

ASSUME StudioMembersAssumption ==
    /\ Founder \in [Studio -> Member]
    /\ \A s, t \in Studio : Founder[s] = Founder[t] => s = t
    /\ Operation \subseteq ManageOp \cup CreateOp \cup PromoteOp
    /\ None \notin User \cup Row \cup Studio \cup Member

VARIABLES
    row,        \* [Member -> Row \cup {None}], the table
    used,       \* ids that were ever inserted
    pc,         \* [Request -> Step]
    op,         \* [Request -> Operation \cup {None}]
    actor,      \* [Request -> Member \cup {None}], id of the acting member
    scope,      \* [Request -> Studio \cup {None}], where the actor was seen
    target,     \* [Request -> Row \cup {None}], the target in memory
    selected    \* [Request -> Row \cup {None}], what save() has selected

tableVars == <<row, used>>
reqVars == <<pc, op, actor, scope, target, selected>>
vars == <<row, used, pc, op, actor, scope, target, selected>>

Step ==
    {"idle", "sent", "actorFound", "targetFound", "allowed", "checked",
     "counted", "selected"}

TypeOK ==
    /\ row \in [Member -> Row \cup {None}]
    /\ used \subseteq Member
    /\ \A m \in Member : row[m] # None => m \in used
    /\ pc \in [Request -> Step]
    /\ op \in [Request -> Operation \cup {None}]
    /\ actor \in [Request -> Member \cup {None}]
    /\ scope \in [Request -> Studio \cup {None}]
    /\ target \in [Request -> Row \cup {None}]
    /\ selected \in [Request -> Row \cup {None}]

Exists(m) == row[m] # None

MembersOf(s) == {m \in Member : Exists(m) /\ row[m].studio = s}
Memberships(s, u) == {m \in MembersOf(s) : row[m].user = u}

\* Registration creates a studio with a new user and the user's membership in
\* one transaction (createBootstrapOwner).
FounderRow(s, u) == [studio |-> s, user |-> u, isOwner |-> TRUE, rights |-> TRUE]

Init ==
    /\ \E owner \in [Studio -> User] :
        /\ \A s, t \in Studio : owner[s] = owner[t] => s = t
        /\ row \in [Member -> {FounderRow(s, owner[s]) : s \in Studio} \cup {None}]
        /\ \A s \in Studio : row[Founder[s]] = FounderRow(s, owner[s])
    /\ used = {Founder[s] : s \in Studio}
    /\ \A m \in Member \ used : row[m] = None
    /\ pc = [r \in Request |-> "idle"]
    /\ op = [r \in Request |-> None]
    /\ actor = [r \in Request |-> None]
    /\ scope = [r \in Request |-> None]
    /\ target = [r \in Request |-> None]
    /\ selected = [r \in Request |-> None]

Goto(r, step) == pc' = [pc EXCEPT ![r] = step]

\* The handler returns or throws.
End(r) ==
    /\ Goto(r, "idle")
    /\ op' = [op EXCEPT ![r] = None]
    /\ target' = [target EXCEPT ![r] = None]
    /\ selected' = [selected EXCEPT ![r] = None]
    /\ actor' = [actor EXCEPT ![r] = None]
    /\ scope' = [scope EXCEPT ![r] = None]

Refuse(r) == End(r) /\ UNCHANGED tableVars

\* Bound: a member is created only while there are ids for all of them.
IdsLeft ==
    Cardinality({r \in Request : op[r] # None /\ op[r].kind = "create"})
        < Cardinality(Member \ used)

Send(r, o) ==
    /\ pc[r] = "idle"
    /\ o.kind = "create" => IdsLeft
    /\ op' = [op EXCEPT ![r] = o]
    /\ Goto(r, "sent")
    /\ UNCHANGED <<tableVars, actor, scope, target, selected>>

\* Who passes assertCanManageMembers.
Managers == {m \in Member : Exists(m) /\ (row[m].isOwner \/ row[m].rights)}

-----------------------------------------------------------------------------
(* StudiosService: the actor is looked up by user and studio, the target   *)
(* by id, then StudioMemberService loads both again.                       *)

FindActor(r) ==
    /\ pc[r] = "sent"
    /\ op[r].kind # "promote"
    /\ \E m \in Memberships(op[r].studio, op[r].actor) :
        /\ op[r].kind = "create" => m \in Managers
        /\ actor' = [actor EXCEPT ![r] = m]
        /\ scope' = [scope EXCEPT ![r] = op[r].studio]
    /\ Goto(r, "actorFound")
    /\ UNCHANGED <<tableVars, op, target, selected>>

NoActor(r) ==
    /\ pc[r] = "sent"
    /\ op[r].kind # "promote"
    /\ ~\E m \in Memberships(op[r].studio, op[r].actor) :
            op[r].kind = "create" => m \in Managers
    /\ Refuse(r)

FindTarget(r) ==
    /\ pc[r] = "actorFound"
    /\ op[r].kind # "create"
    /\ IF op[r].member \in MembersOf(op[r].studio)
       THEN /\ Goto(r, "targetFound")
            /\ UNCHANGED <<tableVars, op, actor, scope, target, selected>>
       ELSE Refuse(r)

\* StudioMemberService: assertCanManageMembers on a second copy of the actor.
LoadActor(r) ==
    /\ pc[r] = "targetFound"
    /\ IF actor[r] \in Managers
       THEN /\ scope' = [scope EXCEPT ![r] = row[actor[r]].studio]
            /\ Goto(r, "allowed")
            /\ UNCHANGED <<tableVars, op, actor, target, selected>>
       ELSE Refuse(r)

\* promoteToOwner, which no route calls, begins here: assertIsOwner.
LoadOwner(r) ==
    /\ pc[r] = "sent"
    /\ op[r].kind = "promote"
    /\ LET a == op[r].actor IN
       IF Exists(a) /\ row[a].isOwner
       THEN /\ actor' = [actor EXCEPT ![r] = a]
            /\ scope' = [scope EXCEPT ![r] = row[a].studio]
            /\ Goto(r, "allowed")
            /\ UNCHANGED <<tableVars, op, target, selected>>
       ELSE Refuse(r)

\* Mutants of Modifiable: owners are not protected; any studio will do.
ModifiableMutant(s) == MembersOf(s)
OtherStudiosMutant(s) == {m \in Member : Exists(m) /\ ~row[m].isOwner}

\* assertSameStudio and assertTargetNotOwner; promoteToOwner refuses owners
\* as well.
Modifiable(s) == {m \in MembersOf(s) : ~row[m].isOwner}

LoadTarget(r) ==
    /\ pc[r] = "allowed"
    /\ op[r].member \in Modifiable(scope[r])
    /\ target' = [target EXCEPT ![r] = row[op[r].member]]
    /\ Goto(r, "checked")
    /\ UNCHANGED <<tableVars, op, actor, scope, selected>>

NoTarget(r) ==
    /\ pc[r] = "allowed"
    /\ op[r].member \notin Modifiable(scope[r])
    /\ Refuse(r)

-----------------------------------------------------------------------------
(* The writes.                                                             *)

OwnersOf(s) == {m \in MembersOf(s) : row[m].isOwner}

\* assertNotLastOwner.
CountOwners(r) ==
    /\ pc[r] = "checked"
    /\ op[r].kind = "delete"
    /\ IF OwnersOf(target[r].studio) \ {op[r].member} # {}
       THEN /\ Goto(r, "counted")
            /\ UNCHANGED <<tableVars, op, actor, scope, target, selected>>
       ELSE Refuse(r)

Remove(r) ==
    /\ pc[r] = "counted"
    /\ row' = [row EXCEPT ![op[r].member] = None]
    /\ UNCHANGED used
    /\ End(r)

\* What updateMember and promoteToOwner have made of the target.
Edited(r) ==
    IF op[r].kind = "promote"
    THEN [target[r] EXCEPT !.isOwner = TRUE, !.rights = TRUE]
    ELSE [target[r] EXCEPT !.rights = op[r].rights]

SelectRow(r) ==
    /\ pc[r] = "checked"
    /\ op[r].kind \in {"update", "promote"}
    /\ Exists(op[r].member)
    /\ selected' = [selected EXCEPT ![r] = row[op[r].member]]
    /\ Goto(r, "selected")
    /\ UNCHANGED <<tableVars, op, actor, scope, target>>

\* save() of an entity whose row is gone inserts it, without a user.
InsertAgain(r) ==
    /\ pc[r] = "checked"
    /\ op[r].kind \in {"update", "promote"}
    /\ ~Exists(op[r].member)
    /\ row' = [row EXCEPT ![op[r].member] = [Edited(r) EXCEPT !.user = None]]
    /\ UNCHANGED used
    /\ End(r)

\* The value a column has after the UPDATE: written only where it differs.
Written(new, old, now) == IF new # old THEN new ELSE now

UpdateRow(r) ==
    /\ pc[r] = "selected"
    /\ row' =
        LET m == op[r].member
            e == Edited(r)
            s == selected[r]
            now == row[m]
        IN  IF Exists(m)
            THEN [row EXCEPT ![m] =
                    [studio |-> now.studio, user |-> now.user,
                     isOwner |-> Written(e.isOwner, s.isOwner, now.isOwner),
                     rights |-> Written(e.rights, s.rights, now.rights)]]
            ELSE row
    /\ UNCHANGED used
    /\ End(r)

\* createMember: the invited user must not be a member yet.
CheckExisting(r) ==
    /\ pc[r] = "actorFound"
    /\ op[r].kind = "create"
    /\ IF Memberships(op[r].studio, op[r].user) = {}
       THEN /\ Goto(r, "checked")
            /\ UNCHANGED <<tableVars, op, actor, scope, target, selected>>
       ELSE Refuse(r)

\* The unique index on (studio, user) refuses the row.
Duplicate(r) == Memberships(op[r].studio, op[r].user) # {}

InsertMember(r) ==
    /\ pc[r] = "checked"
    /\ op[r].kind = "create"
    /\ \E m \in Member \ used :
        /\ row' = [row EXCEPT ![m] =
                    [studio |-> op[r].studio, user |-> op[r].user,
                     isOwner |-> FALSE, rights |-> op[r].rights]]
        /\ used' = used \cup {m}
    /\ ~Duplicate(r)
    /\ End(r)

DuplicateMember(r) ==
    /\ pc[r] = "checked"
    /\ op[r].kind = "create"
    /\ Duplicate(r)
    /\ Refuse(r)

RequestStep(r) ==
    \/ FindActor(r) \/ NoActor(r) \/ FindTarget(r) \/ LoadActor(r)
    \/ LoadOwner(r) \/ LoadTarget(r) \/ NoTarget(r)
    \/ CountOwners(r) \/ Remove(r)
    \/ SelectRow(r) \/ InsertAgain(r) \/ UpdateRow(r)
    \/ CheckExisting(r) \/ InsertMember(r) \/ DuplicateMember(r)

Next ==
    \E r \in Request :
        \/ \E o \in Operation : Send(r, o)
        \/ RequestStep(r)

Spec == Init /\ [][Next]_vars

-----------------------------------------------------------------------------
(* Properties.                                                             *)

\* A studio always has an owner, whatever updates, deletions and promotions
\* of it overtake each other (invariant 1 of StudioMemberService).
AtLeastOneOwner == \A s \in Studio : OwnersOf(s) # {}

\* A user is a member of a studio once, although the check and the insert of
\* createMember are separate and rows may be inserted again by save().
OneMembershipPerUser ==
    \A m, n \in Member :
        /\ Exists(m) /\ Exists(n) /\ m # n
        /\ row[m].studio = row[n].studio
        => row[m].user # row[n].user \/ row[m].user = None

\* A member is created, changed or deleted only by a request whose actor was
\* seen as a member of that member's studio.
Touches(r, s) == pc'[r] = "idle" /\ pc[r] # "idle" /\ scope[r] = s

StudiosAreSeparate ==
    [][\A m \in Member : row'[m] # row[m] =>
        \E r \in Request :
            /\ Exists(m) => Touches(r, row[m].studio)
            /\ row'[m] # None => Touches(r, row'[m].studio)]_vars
=============================================================================
