-------------------------- MODULE StudioMembersProofs --------------------------
(***************************************************************************)
(* For any number of studios, users, members and concurrent requests: the  *)
(* table keeps its types, every studio keeps an owner, users are members   *)
(* once, and nobody's request reaches another studio's members.  For any   *)
(* visitors, games and life of a token: a token does not outlive its       *)
(* authority by more than that life.                                       *)
(***************************************************************************)
EXTENDS StudioAccess, TLAPS

Writing == {"checked", "counted", "selected"}

\* What a request holds at each point of its handler.
Holding(r) ==
    /\ pc[r] # "idle" => op[r] \in Operation
    /\ pc[r] \in Writing /\ op[r].kind # "create" =>
        /\ op[r].member \in used
        /\ target[r] \in Row
    /\ pc[r] = "counted" => op[r].kind = "delete"
    /\ pc[r] = "selected" =>
        /\ op[r].kind \in {"update", "promote"}
        /\ selected[r] \in Row

\* The founder of a studio was never anything but an owner, so no request can
\* hold a copy of the founder's row that passes for a member's, and none that
\* has got past its checks is about a founder.
FoundersStay ==
    /\ \A s \in Studio :
        /\ row[Founder[s]] \in Row
        /\ row[Founder[s]].studio = s
        /\ row[Founder[s]].isOwner
    /\ \A r \in Request :
        pc[r] \in Writing /\ op[r].kind # "create" =>
            \A s \in Studio : op[r].member # Founder[s]

IInv == TypeOK /\ (\A r \in Request : Holding(r)) /\ FoundersStay

-----------------------------------------------------------------------------
(* Facts about the constants.                                              *)

LEMMA KindsOfOperations ==
    ASSUME NEW o \in Operation
    PROVE  /\ o.kind \in {"update", "delete", "create", "promote"}
           /\ o.kind \in {"update", "delete"} => o \in ManageOp
           /\ o.kind = "create" => o \in CreateOp
           /\ o.kind = "promote" => o \in PromoteOp
  BY StudioMembersAssumption DEF ManageOp, CreateOp, PromoteOp

LEMMA FieldsOfOperations ==
    ASSUME NEW o \in Operation
    PROVE  /\ o.kind \in {"update", "delete"} =>
                o.member \in Member /\ o.studio \in Studio /\ o.rights \in BOOLEAN
           /\ o.kind = "create" =>
                o.studio \in Studio /\ o.user \in User /\ o.rights \in BOOLEAN
           /\ o.kind = "promote" => o.actor \in Member /\ o.member \in Member
  BY KindsOfOperations DEF ManageOp, CreateOp, PromoteOp

LEMMA RowFields ==
    ASSUME NEW w \in Row
    PROVE  /\ w # None
           /\ w.studio \in Studio /\ w.user \in User \cup {None}
           /\ w.isOwner \in BOOLEAN /\ w.rights \in BOOLEAN
           /\ w = [studio |-> w.studio, user |-> w.user,
                   isOwner |-> w.isOwner, rights |-> w.rights]
  BY StudioMembersAssumption DEF Row

\* A row of the table is a row of a member that was inserted.
LEMMA RowsThatExist ==
    ASSUME TypeOK, NEW m \in Member, Exists(m)
    PROVE  row[m] \in Row /\ m \in used
  BY DEF TypeOK, Exists

-----------------------------------------------------------------------------

LEMMA InitIInv == Init => IInv
<1>. SUFFICES ASSUME Init
              PROVE  IInv
  OBVIOUS
<1>. PICK owner \in [Studio -> User] :
        /\ row \in [Member -> {FounderRow(s, owner[s]) : s \in Studio} \cup {None}]
        /\ \A s \in Studio : row[Founder[s]] = FounderRow(s, owner[s])
  BY DEF Init
<1>1. \A s \in Studio : FounderRow(s, owner[s]) \in Row
  BY DEF FounderRow, Row
<1>2. row \in [Member -> Row \cup {None}]
  BY <1>1
<1>3. \A m \in Member : row[m] # None => m \in used
  BY DEF Init
<1>4. TypeOK
  BY <1>2, <1>3, StudioMembersAssumption DEF Init, TypeOK, Step
<1>5. \A r \in Request : Holding(r)
  BY DEF Init, Holding, Writing
<1>6. \A s \in Studio :
        row[Founder[s]] \in Row /\ row[Founder[s]].studio = s /\ row[Founder[s]].isOwner
  <2>. SUFFICES ASSUME NEW s \in Studio
                PROVE  /\ row[Founder[s]] \in Row
                       /\ row[Founder[s]].studio = s
                       /\ row[Founder[s]].isOwner
    OBVIOUS
  <2>1. row[Founder[s]] = FounderRow(s, owner[s]) /\ owner[s] \in User
    OBVIOUS
  <2>2. FounderRow(s, owner[s]).studio = s /\ FounderRow(s, owner[s]).isOwner
    BY DEF FounderRow
  <2>. QED
    BY <1>1, <2>1, <2>2
<1>7. FoundersStay
  BY <1>6 DEF Init, FoundersStay, Writing
<1>. QED
  BY <1>4, <1>5, <1>7 DEF IInv

-----------------------------------------------------------------------------
(* Steps that leave the table alone.                                       *)

LEMMA Pointwise ==
    ASSUME IInv, NEW r \in Request, TypeOK', UNCHANGED tableVars,
           \A q \in Request \ {r} :
                /\ pc'[q] = pc[q] /\ op'[q] = op[q]
                /\ target'[q] = target[q] /\ selected'[q] = selected[q],
           Holding(r)',
           pc'[r] \in Writing /\ op'[r].kind # "create" =>
                \A s \in Studio : op'[r].member # Founder[s]
    PROVE  IInv'
<1>1. \A q \in Request \ {r} : Holding(q)'
  BY DEF IInv, Holding, Writing, tableVars
<1>2. FoundersStay'
  BY DEF IInv, FoundersStay, tableVars
<1>. QED
  BY <1>1, <1>2 DEF IInv

LEMMA RefuseIInv ==
    ASSUME IInv, NEW r \in Request, Refuse(r)
    PROVE  IInv'
<1>1. TypeOK'
  BY DEF IInv, TypeOK, Refuse, End, Goto, Step, tableVars
<1>2. Holding(r)'
  BY DEF IInv, TypeOK, Holding, Refuse, End, Goto, Writing
<1>3. pc'[r] \notin Writing
  BY DEF IInv, TypeOK, Refuse, End, Goto, Writing
<1>. QED
  BY <1>1, <1>2, <1>3, Pointwise DEF IInv, TypeOK, Refuse, End, Goto

LEMMA SendIInv ==
    ASSUME IInv, NEW r \in Request, NEW o \in Operation, Send(r, o)
    PROVE  IInv'
<1>1. TypeOK'
  BY DEF IInv, TypeOK, Send, Goto, Step, tableVars
<1>2. Holding(r)' /\ pc'[r] \notin Writing
  BY DEF IInv, TypeOK, Holding, Send, Goto, Writing
<1>. QED
  BY <1>1, <1>2, Pointwise DEF IInv, TypeOK, Send, Goto

\* Every other step before the write moves one request along.
LEMMA LookupIInv ==
    ASSUME IInv, NEW r \in Request, NEW step \in Step \ Writing,
           pc[r] # "idle", Goto(r, step), step # "idle",
           UNCHANGED <<tableVars, op, target, selected>>,
           actor' \in [Request -> Member \cup {None}],
           scope' \in [Request -> Studio \cup {None}]
    PROVE  IInv'
<1>1. TypeOK'
  BY DEF IInv, TypeOK, Goto, tableVars
<1>2. Holding(r)' /\ pc'[r] \notin Writing
  BY DEF IInv, TypeOK, Holding, Goto, Writing
<1>. QED
  BY <1>1, <1>2, Pointwise DEF IInv, TypeOK, Goto

LEMMA FindActorIInv ==
    ASSUME IInv, NEW r \in Request, FindActor(r)
    PROVE  IInv'
<1>1. op[r] \in Operation /\ op[r].kind # "promote"
  BY DEF IInv, Holding, FindActor
<1>2. op[r].studio \in Studio
  BY <1>1, KindsOfOperations, FieldsOfOperations
<1>3. actor' \in [Request -> Member \cup {None}]
      /\ scope' \in [Request -> Studio \cup {None}]
  BY <1>2 DEF IInv, TypeOK, FindActor, Memberships, MembersOf
<1>. QED
  BY <1>3, LookupIInv DEF FindActor, Step, Writing

LEMMA FindTargetIInv ==
    ASSUME IInv, NEW r \in Request, FindTarget(r)
    PROVE  IInv'
<1>1. CASE Refuse(r)
  BY <1>1, RefuseIInv
<1>2. CASE ~Refuse(r)
  BY <1>2, LookupIInv DEF FindTarget, Step, Writing, IInv, TypeOK
<1>. QED
  BY <1>1, <1>2

LEMMA LoadActorIInv ==
    ASSUME IInv, NEW r \in Request, LoadActor(r)
    PROVE  IInv'
<1>1. CASE actor[r] \in Managers
  <2>1. row[actor[r]].studio \in Studio
    BY <1>1, RowsThatExist, RowFields DEF IInv, Managers
  <2>2. actor' = actor /\ scope' \in [Request -> Studio \cup {None}]
    BY <1>1, <2>1 DEF LoadActor, IInv, TypeOK
  <2>. QED
    BY <1>1, <2>2, LookupIInv DEF LoadActor, Step, Writing, IInv, TypeOK
<1>2. CASE actor[r] \notin Managers
  BY <1>2, RefuseIInv DEF LoadActor
<1>. QED
  BY <1>1, <1>2

LEMMA LoadOwnerIInv ==
    ASSUME IInv, NEW r \in Request, LoadOwner(r)
    PROVE  IInv'
<1>1. op[r].actor \in Member
  BY FieldsOfOperations DEF IInv, Holding, LoadOwner
<1>2. CASE Exists(op[r].actor) /\ row[op[r].actor].isOwner
  <2>1. row[op[r].actor].studio \in Studio
    BY <1>1, <1>2, RowsThatExist, RowFields DEF IInv
  <2>2. actor' \in [Request -> Member \cup {None}]
        /\ scope' \in [Request -> Studio \cup {None}]
    BY <1>1, <1>2, <2>1 DEF LoadOwner, IInv, TypeOK
  <2>. QED
    BY <1>2, <2>2, LookupIInv DEF LoadOwner, Step, Writing
<1>3. CASE ~(Exists(op[r].actor) /\ row[op[r].actor].isOwner)
  BY <1>3, RefuseIInv DEF LoadOwner
<1>. QED
  BY <1>2, <1>3

\* A request gets past its checks only with a row that is not an owner's.
LEMMA LoadTargetIInv ==
    ASSUME IInv, NEW r \in Request, LoadTarget(r)
    PROVE  IInv'
<1>1. /\ op[r] \in Operation
      /\ op[r].member \in Member /\ Exists(op[r].member)
      /\ ~row[op[r].member].isOwner
  BY DEF IInv, Holding, LoadTarget, Modifiable, MembersOf
<1>2. row[op[r].member] \in Row /\ op[r].member \in used
  BY <1>1, RowsThatExist DEF IInv
<1>3. \A s \in Studio : op[r].member # Founder[s]
  BY <1>1 DEF IInv, FoundersStay
<1>4. TypeOK'
  BY <1>2 DEF IInv, TypeOK, LoadTarget, Goto, Step, tableVars
<1>5. Holding(r)'
  BY <1>1, <1>2 DEF IInv, TypeOK, Holding, LoadTarget, Goto, Writing, tableVars
<1>. QED
  BY <1>3, <1>4, <1>5, Pointwise DEF IInv, TypeOK, LoadTarget, Goto

LEMMA CountOwnersIInv ==
    ASSUME IInv, NEW r \in Request, CountOwners(r)
    PROVE  IInv'
<1>1. CASE OwnersOf(target[r].studio) \ {op[r].member} # {}
  <2>1. TypeOK'
    BY <1>1 DEF IInv, TypeOK, CountOwners, Goto, Step, tableVars
  <2>2. Holding(r)'
    BY <1>1 DEF IInv, TypeOK, Holding, CountOwners, Goto, Writing, tableVars
  <2>3. \A s \in Studio : op[r].member # Founder[s]
    BY <1>1 DEF IInv, FoundersStay, CountOwners, Writing
  <2>. QED
    BY <1>1, <2>1, <2>2, <2>3, Pointwise DEF IInv, TypeOK, CountOwners, Goto
<1>2. CASE ~(OwnersOf(target[r].studio) \ {op[r].member} # {})
  BY <1>2, RefuseIInv DEF CountOwners
<1>. QED
  BY <1>1, <1>2

LEMMA SelectRowIInv ==
    ASSUME IInv, NEW r \in Request, SelectRow(r)
    PROVE  IInv'
<1>1. op[r].member \in used /\ op[r].kind # "create" /\ op[r].member \in Member
  BY DEF IInv, TypeOK, Holding, SelectRow, Writing
<1>2. row[op[r].member] \in Row
  BY <1>1, RowsThatExist DEF IInv, SelectRow
<1>3. TypeOK'
  BY <1>2 DEF IInv, TypeOK, SelectRow, Goto, Step, tableVars
<1>4. Holding(r)'
  BY <1>1, <1>2 DEF IInv, TypeOK, Holding, SelectRow, Goto, Writing, tableVars
<1>5. \A s \in Studio : op[r].member # Founder[s]
  BY <1>1 DEF IInv, FoundersStay, SelectRow, Writing
<1>. QED
  BY <1>3, <1>4, <1>5, Pointwise DEF IInv, TypeOK, SelectRow, Goto

LEMMA CheckExistingIInv ==
    ASSUME IInv, NEW r \in Request, CheckExisting(r)
    PROVE  IInv'
<1>1. CASE Memberships(op[r].studio, op[r].user) = {}
  <2>1. TypeOK'
    BY <1>1 DEF IInv, TypeOK, CheckExisting, Goto, Step, tableVars
  <2>2. Holding(r)' /\ op'[r].kind = "create"
    BY <1>1 DEF IInv, TypeOK, Holding, CheckExisting, Goto, Writing, tableVars
  <2>. QED
    BY <1>1, <2>1, <2>2, Pointwise DEF IInv, TypeOK, CheckExisting, Goto
<1>2. CASE Memberships(op[r].studio, op[r].user) # {}
  BY <1>2, RefuseIInv DEF CheckExisting
<1>. QED
  BY <1>1, <1>2

-----------------------------------------------------------------------------
(* Steps that write: each writes one member's row and ends its request.    *)

LEMMA WriteIInv ==
    ASSUME IInv, NEW r \in Request, NEW m \in Member, NEW w \in Row \cup {None},
           row' = [row EXCEPT ![m] = w],
           used' = used \cup {m} \/ (used' = used /\ m \in used),
           \A s \in Studio : m # Founder[s],
           End(r)
    PROVE  IInv'
<1>1. TypeOK'
  BY DEF IInv, TypeOK, End, Goto, Step
<1>2. used \subseteq used'
  OBVIOUS
<1>3. ASSUME NEW q \in Request
      PROVE  Holding(q)'
  <2>1. CASE q = r
    BY <2>1 DEF IInv, TypeOK, Holding, End, Goto, Writing
  <2>2. CASE q # r
    BY <1>2, <2>2 DEF IInv, TypeOK, Holding, End, Goto, Writing
  <2>. QED
    BY <2>1, <2>2
<1>4. \A s \in Studio : row'[Founder[s]] = row[Founder[s]]
  BY StudioMembersAssumption DEF IInv, TypeOK
<1>5. \A q \in Request : pc'[q] \in Writing => q # r
  BY DEF IInv, TypeOK, End, Goto, Writing
<1>6. FoundersStay'
  BY <1>4, <1>5 DEF IInv, TypeOK, FoundersStay, End, Goto
<1>. QED
  BY <1>1, <1>3, <1>6 DEF IInv

\* The member a request is about when it writes is known and no founder.
LEMMA AboutToWrite ==
    ASSUME IInv, NEW r \in Request, pc[r] \in Writing, op[r].kind # "create"
    PROVE  /\ op[r] \in Operation
           /\ op[r].member \in used /\ op[r].member \in Member
           /\ target[r] \in Row
           /\ \A s \in Studio : op[r].member # Founder[s]
  BY DEF IInv, TypeOK, Holding, FoundersStay, Writing

LEMMA EditedIsARow ==
    ASSUME IInv, NEW r \in Request, pc[r] \in Writing,
           op[r].kind \in {"update", "promote"}
    PROVE  Edited(r) \in Row
<1>1. op[r] \in Operation /\ target[r] \in Row
  BY AboutToWrite
<1>2. op[r].kind = "update" => op[r].rights \in BOOLEAN
  BY <1>1, FieldsOfOperations
<1>3. CASE op[r].kind = "promote"
  BY <1>1, <1>3 DEF Edited, Row
<1>4. CASE op[r].kind = "update"
  BY <1>1, <1>2, <1>4 DEF Edited, Row
<1>. QED
  BY <1>3, <1>4

LEMMA RemoveIInv ==
    ASSUME IInv, NEW r \in Request, Remove(r)
    PROVE  IInv'
<1>1. pc[r] \in Writing /\ op[r].kind # "create"
  BY DEF IInv, Holding, Remove, Writing
<1>. QED
  BY <1>1, AboutToWrite, WriteIInv DEF Remove

LEMMA InsertAgainIInv ==
    ASSUME IInv, NEW r \in Request, InsertAgain(r)
    PROVE  IInv'
<1>1. pc[r] \in Writing /\ op[r].kind # "create"
  BY DEF InsertAgain, Writing
<1>2. Edited(r) \in Row
  BY <1>1, EditedIsARow DEF InsertAgain
<1>3. [Edited(r) EXCEPT !.user = None] \in Row
  BY <1>2 DEF Row
<1>. QED
  BY <1>1, <1>3, AboutToWrite, WriteIInv DEF InsertAgain

LEMMA UpdateRowIInv ==
    ASSUME IInv, NEW r \in Request, UpdateRow(r)
    PROVE  IInv'
<1>. DEFINE m == op[r].member
            e == Edited(r)
            w == [studio |-> row[m].studio, user |-> row[m].user,
                  isOwner |-> Written(e.isOwner, selected[r].isOwner, row[m].isOwner),
                  rights |-> Written(e.rights, selected[r].rights, row[m].rights)]
<1>1. pc[r] \in Writing /\ op[r].kind \in {"update", "promote"}
  BY DEF IInv, Holding, UpdateRow, Writing
<1>2. m \in Member /\ m \in used /\ (\A s \in Studio : m # Founder[s])
  BY <1>1, AboutToWrite
<1>3. CASE Exists(m)
  <2>1. e \in Row /\ row[m] \in Row
    BY <1>1, <1>2, <1>3, EditedIsARow, RowsThatExist DEF IInv
  <2>2. w \in Row
    BY <2>1, RowFields DEF Written, Row
  <2>3. row' = [row EXCEPT ![m] = w]
    BY <1>3 DEF UpdateRow
  <2>4. used' = used /\ End(r)
    BY DEF UpdateRow
  <2>. HIDE DEF m, w
  <2>. QED
    BY <1>2, <2>2, <2>3, <2>4, WriteIInv
<1>4. CASE ~Exists(m)
  BY <1>4, RefuseIInv DEF UpdateRow, Refuse, tableVars
<1>. QED
  BY <1>3, <1>4

LEMMA InsertMemberIInv ==
    ASSUME IInv, NEW r \in Request, InsertMember(r)
    PROVE  IInv'
<1>. DEFINE w == [studio |-> op[r].studio, user |-> op[r].user,
                  isOwner |-> FALSE, rights |-> op[r].rights]
<1>1. PICK m \in Member \ used :
        row' = [row EXCEPT ![m] = w] /\ used' = used \cup {m}
  BY DEF InsertMember
<1>2. op[r] \in Operation /\ op[r].kind = "create"
  BY DEF IInv, Holding, InsertMember
<1>3. w \in Row
  BY <1>2, FieldsOfOperations DEF Row
<1>4. \A s \in Studio : m # Founder[s]
  BY <1>1, StudioMembersAssumption, RowFields DEF IInv, TypeOK, FoundersStay
<1>5. End(r)
  BY DEF InsertMember
<1>. HIDE DEF w
<1>. QED
  BY <1>1, <1>3, <1>4, <1>5, WriteIInv

-----------------------------------------------------------------------------

LEMMA NextIInv == IInv /\ [Next]_vars => IInv'
<1>. SUFFICES ASSUME IInv, [Next]_vars
              PROVE  IInv'
  OBVIOUS
<1>1. ASSUME NEW r \in Request, NEW o \in Operation, Send(r, o)
      PROVE  IInv'
  BY <1>1, SendIInv
<1>2. ASSUME NEW r \in Request, RequestStep(r)
      PROVE  IInv'
  <2>1. CASE NoActor(r) \/ NoTarget(r) \/ DuplicateMember(r)
    BY <2>1, RefuseIInv DEF NoActor, NoTarget, DuplicateMember
  <2>2. CASE FindActor(r) \/ FindTarget(r) \/ LoadActor(r) \/ LoadOwner(r) \/ LoadTarget(r)
    BY <2>2, FindActorIInv, FindTargetIInv, LoadActorIInv, LoadOwnerIInv, LoadTargetIInv
  <2>3. CASE CountOwners(r) \/ SelectRow(r) \/ CheckExisting(r)
    BY <2>3, CountOwnersIInv, SelectRowIInv, CheckExistingIInv
  <2>4. CASE Remove(r) \/ InsertAgain(r) \/ UpdateRow(r) \/ InsertMember(r)
    BY <2>4, RemoveIInv, InsertAgainIInv, UpdateRowIInv, InsertMemberIInv
  <2>. QED
    BY <1>2, <2>1, <2>2, <2>3, <2>4 DEF RequestStep
<1>3. CASE UNCHANGED vars
  BY <1>3 DEF IInv, TypeOK, Exists, Holding, FoundersStay, vars
<1>. QED
  BY <1>1, <1>2, <1>3 DEF Next

LEMMA Invariance == Spec => []IInv
  BY InitIInv, NextIInv, PTL DEF Spec

(***************************************************************************)
(* The table, the ids in use and what every handler remembers keep their   *)
(* types.                                                                  *)
(***************************************************************************)
THEOREM TypeCorrect == Spec => []TypeOK
<1>1. IInv => TypeOK
  BY DEF IInv
<1>. QED
  BY <1>1, Invariance, PTL

(***************************************************************************)
(* Every studio has an owner in every state, although no handler locks     *)
(* anything and owners who were promoted can be demoted or deleted by      *)
(* requests that loaded them earlier: the founder cannot.                  *)
(***************************************************************************)
THEOREM StudiosKeepAnOwner == Spec => []AtLeastOneOwner
<1>1. IInv => AtLeastOneOwner
  BY StudioMembersAssumption, RowFields
     DEF IInv, FoundersStay, AtLeastOneOwner, OwnersOf, MembersOf, Exists
<1>. QED
  BY <1>1, Invariance, PTL

-----------------------------------------------------------------------------
(* Memberships are unique.                                                 *)

\* A write keeps them unique if it removes the row, leaves it without a user,
\* keeps whose row it is, or inserts one where the index finds none.
LEMMA WriteKeepsUnique ==
    ASSUME TypeOK, OneMembershipPerUser,
           NEW m \in Member, NEW w \in Row \cup {None},
           row' = [row EXCEPT ![m] = w],
           \/ w = None
           \/ w.user = None
           \/ Exists(m) /\ w.user = row[m].user /\ w.studio = row[m].studio
           \/ Memberships(w.studio, w.user) = {}
    PROVE  OneMembershipPerUser'
<1>. SUFFICES ASSUME NEW a \in Member, NEW b \in Member,
                     row'[a] # None, row'[b] # None, a # b,
                     row'[a].studio = row'[b].studio
              PROVE  row'[a].user # row'[b].user \/ row'[a].user = None
  BY DEF OneMembershipPerUser, Exists
<1>1. CASE a # m /\ b # m
  BY <1>1 DEF TypeOK, OneMembershipPerUser, Exists
<1>2. CASE a = m
  <2>1. row'[a] = w /\ row'[b] = row[b] /\ b # m
    BY <1>2 DEF TypeOK
  <2>. QED
    BY <1>2, <2>1 DEF OneMembershipPerUser, Exists, Memberships, MembersOf
<1>3. CASE b = m
  <2>1. row'[b] = w /\ row'[a] = row[a] /\ a # m
    BY <1>3 DEF TypeOK
  <2>. QED
    BY <1>3, <2>1 DEF OneMembershipPerUser, Exists, Memberships, MembersOf
<1>. QED
  BY <1>1, <1>2, <1>3

LEMMA UniqueStep == IInv /\ OneMembershipPerUser /\ [Next]_vars => OneMembershipPerUser'
<1>. SUFFICES ASSUME IInv, OneMembershipPerUser, [Next]_vars
              PROVE  OneMembershipPerUser'
  OBVIOUS
<1>1. row' = row => OneMembershipPerUser'
  BY DEF OneMembershipPerUser, Exists
<1>2. ASSUME NEW r \in Request, NEW o \in Operation, Send(r, o)
      PROVE  row' = row
  BY <1>2 DEF Send, tableVars
<1>3. ASSUME NEW r \in Request, RequestStep(r)
      PROVE  OneMembershipPerUser'
  <2>1. CASE Remove(r)
    <3>1. op[r].member \in Member
      BY <2>1, AboutToWrite DEF IInv, Holding, Remove, Writing
    <3>. QED
      BY <2>1, <3>1, WriteKeepsUnique DEF IInv, Remove
  <2>2. CASE InsertAgain(r)
    <3>. DEFINE w == [Edited(r) EXCEPT !.user = None]
    <3>1. op[r].member \in Member
      BY <2>2, AboutToWrite DEF InsertAgain, Writing
    <3>2. Edited(r) \in Row
      BY <2>2, EditedIsARow DEF InsertAgain, Writing
    <3>3. w \in Row /\ w.user = None
      BY <3>2 DEF Row
    <3>4. row' = [row EXCEPT ![op[r].member] = w]
      BY <2>2 DEF InsertAgain
    <3>. HIDE DEF w
    <3>. QED
      BY <3>1, <3>3, <3>4, WriteKeepsUnique DEF IInv
  <2>3. CASE UpdateRow(r)
    <3>. DEFINE m == op[r].member
                e == Edited(r)
                w == [studio |-> row[m].studio, user |-> row[m].user,
                      isOwner |-> Written(e.isOwner, selected[r].isOwner, row[m].isOwner),
                      rights |-> Written(e.rights, selected[r].rights, row[m].rights)]
    <3>1. pc[r] \in Writing /\ op[r].kind \in {"update", "promote"}
      BY <2>3 DEF IInv, Holding, UpdateRow, Writing
    <3>2. m \in Member
      BY <3>1, AboutToWrite
    <3>3. CASE Exists(m)
      <4>1. e \in Row /\ row[m] \in Row
        BY <3>1, <3>2, <3>3, EditedIsARow, RowsThatExist DEF IInv
      <4>2. w \in Row
        BY <4>1, RowFields DEF Written, Row
      <4>3. row' = [row EXCEPT ![m] = w]
        BY <2>3, <3>3 DEF UpdateRow
      <4>4. w.user = row[m].user /\ w.studio = row[m].studio
        OBVIOUS
      <4>. HIDE DEF m, w
      <4>. QED
        BY <3>2, <3>3, <4>2, <4>3, <4>4, WriteKeepsUnique DEF IInv
    <3>4. CASE ~Exists(m)
      BY <2>3, <3>4, <1>1 DEF UpdateRow
    <3>. QED
      BY <3>3, <3>4
  <2>4. CASE InsertMember(r)
    <3>. DEFINE w == [studio |-> op[r].studio, user |-> op[r].user,
                      isOwner |-> FALSE, rights |-> op[r].rights]
    <3>1. PICK m \in Member \ used : row' = [row EXCEPT ![m] = w]
      BY <2>4 DEF InsertMember
    <3>2. op[r] \in Operation /\ op[r].kind = "create"
      BY <2>4 DEF IInv, Holding, InsertMember
    <3>3. w \in Row
      BY <3>2, FieldsOfOperations DEF Row
    <3>4. Memberships(w.studio, w.user) = {}
      BY <2>4 DEF InsertMember, Duplicate
    <3>. HIDE DEF w
    <3>. QED
      BY <3>1, <3>3, <3>4, WriteKeepsUnique DEF IInv
  <2>5. CASE ~(Remove(r) \/ InsertAgain(r) \/ UpdateRow(r) \/ InsertMember(r))
    <3>1. row' = row
      BY <1>3, <2>5 DEF RequestStep, FindActor, NoActor, FindTarget, LoadActor,
         LoadOwner, LoadTarget, NoTarget, CountOwners, SelectRow, CheckExisting,
         DuplicateMember, Refuse, tableVars
    <3>. QED
      BY <1>1, <3>1
  <2>. QED
    BY <2>1, <2>2, <2>3, <2>4, <2>5
<1>4. CASE UNCHANGED vars
  BY <1>1, <1>4 DEF vars
<1>. QED
  BY <1>1, <1>2, <1>3, <1>4 DEF Next

LEMMA InitUnique == Init => OneMembershipPerUser
<1>. SUFFICES ASSUME Init, NEW a \in Member, NEW b \in Member,
                     Exists(a), Exists(b), a # b, row[a].studio = row[b].studio
              PROVE  FALSE
  BY DEF OneMembershipPerUser
<1>. PICK owner \in [Studio -> User] :
        \A s \in Studio : row[Founder[s]] = FounderRow(s, owner[s])
  BY DEF Init
<1>1. PICK s \in Studio : a = Founder[s]
  BY DEF Init, Exists
<1>2. PICK t \in Studio : b = Founder[t]
  BY DEF Init, Exists
<1>3. row[a].studio = s /\ row[b].studio = t
  <2>1. row[a] = FounderRow(s, owner[s]) /\ row[b] = FounderRow(t, owner[t])
    BY <1>1, <1>2
  <2>. QED
    BY <2>1 DEF FounderRow
<1>. QED
  BY <1>1, <1>2, <1>3

(***************************************************************************)
(* A user has at most one membership in a studio, in every state: the      *)
(* check of createMember may be overtaken, the unique index is not, and    *)
(* rows that save() inserts again have no user.                            *)
(***************************************************************************)
THEOREM MembershipsAreUnique == Spec => []OneMembershipPerUser
  BY InitUnique, UniqueStep, Invariance, PTL DEF Spec

-----------------------------------------------------------------------------
(***************************************************************************)
(* Studios are separate.  The studio of a member id never changes: its row *)
(* and every copy a request has checked agree on it, also while the row is *)
(* gone and a copy may bring it back, and it is the studio where the       *)
(* request's actor was seen.                                               *)
(***************************************************************************)
About(r) == pc[r] \in Writing /\ op[r].kind # "create"

Homes(r) ==
    /\ About(r) =>
        /\ scope[r] = target[r].studio
        /\ Exists(op[r].member) => row[op[r].member].studio = target[r].studio
        /\ \A q \in Request :
            About(q) /\ op[q].member = op[r].member => target[q].studio = target[r].studio
    /\ pc[r] \in {"actorFound", "checked"} /\ op[r].kind = "create" =>
        scope[r] = op[r].studio
    /\ pc[r] \in {"targetFound", "allowed"} => op[r].kind # "create"

SepInv == \A r \in Request : Homes(r)

\* The step is r's alone.
OthersStay(r) ==
    \A q \in Request \ {r} :
        /\ pc'[q] = pc[q] /\ op'[q] = op[q]
        /\ scope'[q] = scope[q] /\ target'[q] = target[q]

LEMMA InitSep == Init => SepInv
  BY DEF Init, SepInv, Homes, About, Writing

\* A step that leaves the table alone and checks nothing new.
LEMMA QuietSep ==
    ASSUME IInv, SepInv, NEW r \in Request, OthersStay(r), row' = row,
           About(r)' => /\ About(r)
                        /\ UNCHANGED <<op[r], scope[r], target[r]>>,
           pc'[r] \in {"actorFound", "checked"} /\ op'[r].kind = "create" =>
                scope'[r] = op'[r].studio,
           pc'[r] \in {"targetFound", "allowed"} => op'[r].kind # "create"
    PROVE  SepInv'
<1>1. \A q \in Request : About(q)' => /\ About(q)
                                      /\ op'[q] = op[q] /\ scope'[q] = scope[q]
                                      /\ target'[q] = target[q]
  BY DEF OthersStay, About
<1>2. ASSUME NEW q \in Request
      PROVE  Homes(q)'
  <2>1. CASE q = r
    BY <1>1, <2>1 DEF SepInv, Homes, Exists
  <2>2. CASE q # r
    BY <1>1, <2>2 DEF SepInv, Homes, Exists, OthersStay
  <2>. QED  BY <2>1, <2>2
<1>. QED
  BY <1>2 DEF SepInv

\* A write of the member the request is about, in that member's studio, or of
\* an id nobody is about; it ends the request.
LEMMA WriteSep ==
    ASSUME IInv, SepInv, NEW r \in Request, End(r), NEW m \in Member, NEW w \in Row \cup {None},
           row' = [row EXCEPT ![m] = w],
           \A q \in Request : w # None /\ About(q) /\ op[q].member = m =>
                w.studio = target[q].studio
    PROVE  SepInv'
<1>0. /\ OthersStay(r) /\ pc'[r] = "idle"
      /\ row \in [Member -> Row \cup {None}]
  BY DEF End, Goto, OthersStay, IInv, TypeOK
<1>1. \A q \in Request : About(q)' => /\ About(q) /\ q # r
                                      /\ op'[q] = op[q] /\ scope'[q] = scope[q]
                                      /\ target'[q] = target[q]
  BY <1>0 DEF OthersStay, About, Writing
<1>2. ASSUME NEW q \in Request
      PROVE  Homes(q)'
  <2>1. About(q) => op[q].member \in Member
    BY AboutToWrite DEF About
  <2>2. ASSUME About(q)', Exists(op[q].member)'
        PROVE  row'[op[q].member].studio = target[q].studio
    <3>1. About(q) /\ op[q].member \in Member
      BY <1>1, <2>1, <2>2
    <3>2. CASE op[q].member = m
      BY <1>0, <1>1, <2>2, <3>1, <3>2 DEF Exists
    <3>3. CASE op[q].member # m
      BY <1>0, <1>1, <2>2, <3>1, <3>3 DEF Exists, SepInv, Homes
    <3>. QED  BY <3>2, <3>3
  <2>3. CASE q = r
    BY <1>0, <1>1, <2>3 DEF Homes
  <2>4. CASE q # r
    BY <1>0, <1>1, <2>2, <2>4 DEF SepInv, Homes, Exists, OthersStay
  <2>. QED  BY <2>3, <2>4
<1>. QED
  BY <1>2 DEF SepInv

\* A request that writes is about a member of the studio it was seen in.
LEMMA WritersStayHome ==
    ASSUME IInv, SepInv, NEW r \in Request, About(r)
    PROVE  /\ op[r].member \in Member /\ target[r] \in Row
           /\ scope[r] = target[r].studio
           /\ Exists(op[r].member) => row[op[r].member].studio = target[r].studio
           /\ \A q \in Request : About(q) /\ op[q].member = op[r].member =>
                target[q].studio = target[r].studio
           /\ op[r].kind \in {"update", "promote"} =>
                Edited(r) \in Row /\ Edited(r).studio = target[r].studio
<1>1. op[r].member \in Member /\ target[r] \in Row
  BY AboutToWrite DEF About
<1>2. op[r].kind \in {"update", "promote"} => Edited(r) \in Row
  BY EditedIsARow DEF About
<1>3. op[r].kind \in {"update", "promote"} => Edited(r).studio = target[r].studio
  BY <1>1 DEF Edited, Row
<1>. QED
  BY <1>1, <1>2, <1>3 DEF SepInv, Homes

WritesAt(r, m, w) ==
    /\ row' = [row EXCEPT ![m] = w]
    /\ Exists(m) => row[m].studio = scope[r]
    /\ w # None => w.studio = scope[r]
    /\ \A q \in Request : w # None /\ About(q) /\ op[q].member = m =>
          w.studio = target[q].studio

\* What each write puts where.
LEMMA Writes ==
    ASSUME IInv, SepInv, NEW r \in Request,
           Remove(r) \/ InsertAgain(r) \/ UpdateRow(r) \/ InsertMember(r)
    PROVE  /\ End(r) /\ pc[r] # "idle"
           /\ \/ row' = row
              \/ \E m \in Member, w \in Row \cup {None} : WritesAt(r, m, w)
<1>. USE RowFields
<1>1. CASE Remove(r)
  <2>1. About(r)
    BY <1>1 DEF Remove, About, Writing, IInv, Holding
  <2>2. WritesAt(r, op[r].member, None)
    BY <1>1, <2>1, WritersStayHome DEF Remove, WritesAt
  <2>. QED
    BY <1>1, <2>1, <2>2, WritersStayHome DEF Remove
<1>2. CASE InsertAgain(r)
  <2> DEFINE w == [Edited(r) EXCEPT !.user = None]
  <2>1. About(r) /\ op[r].kind \in {"update", "promote"}
    BY <1>2 DEF InsertAgain, About, Writing
  <2>2. Edited(r) \in Row /\ Edited(r).studio = target[r].studio
    BY <2>1, WritersStayHome
  <2>3. w \in Row /\ w.studio = target[r].studio
    BY <2>2 DEF Row
  <2>4. row' = [row EXCEPT ![op[r].member] = w] /\ ~Exists(op[r].member) /\ End(r)
        /\ pc[r] = "checked"
    BY <1>2 DEF InsertAgain
  <2>. HIDE DEF w
  <2>5. /\ op[r].member \in Member /\ scope[r] = target[r].studio
        /\ \A q \in Request : About(q) /\ op[q].member = op[r].member =>
              target[q].studio = target[r].studio
    BY <2>1, WritersStayHome
  <2>6. WritesAt(r, op[r].member, w)
    BY <2>3, <2>4, <2>5 DEF WritesAt
  <2>. QED
    BY <2>3, <2>4, <2>5, <2>6
<1>3. CASE UpdateRow(r)
  <2> DEFINE m == op[r].member
             now == row[m]
             w == [studio |-> now.studio, user |-> now.user,
                   isOwner |-> Written(Edited(r).isOwner, selected[r].isOwner, now.isOwner),
                   rights |-> Written(Edited(r).rights, selected[r].rights, now.rights)]
  <2>1. About(r) /\ op[r].kind \in {"update", "promote"} /\ selected[r] \in Row
    BY <1>3 DEF UpdateRow, About, Writing, IInv, Holding
  <2>2. End(r) /\ pc[r] = "selected"
    BY <1>3 DEF UpdateRow
  <2>3. CASE ~Exists(m)
    BY <1>3, <2>2, <2>3 DEF UpdateRow
  <2>4. CASE Exists(m)
    <3>1. m \in Member /\ now \in Row
      BY <2>1, <2>4, WritersStayHome, RowsThatExist DEF IInv
    <3>2. w \in Row /\ w.studio = now.studio
      BY <2>1, <3>1, WritersStayHome DEF Written, Row
    <3>3. row' = [row EXCEPT ![m] = w]
      BY <1>3, <2>4 DEF UpdateRow
    <3>4. /\ now.studio = target[r].studio /\ scope[r] = target[r].studio
          /\ \A q \in Request : About(q) /\ op[q].member = m =>
                target[q].studio = target[r].studio
      BY <2>1, <2>4, WritersStayHome
    <3>5. w.studio = scope[r]
      BY <3>2, <3>4
    <3>. HIDE DEF w, m, now
    <3>6. WritesAt(r, m, w)
      BY <3>1, <3>2, <3>3, <3>4, <3>5 DEF now, WritesAt
    <3>. QED
      BY <2>2, <3>1, <3>2, <3>6
  <2>. QED  BY <2>3, <2>4
<1>4. CASE InsertMember(r)
  <2> DEFINE w == [studio |-> op[r].studio, user |-> op[r].user,
                   isOwner |-> FALSE, rights |-> op[r].rights]
  <2>1. PICK m \in Member \ used : row' = [row EXCEPT ![m] = w]
    BY <1>4 DEF InsertMember
  <2>2. op[r] \in Operation /\ op[r].kind = "create" /\ scope[r] = op[r].studio
        /\ End(r) /\ pc[r] = "checked"
    BY <1>4 DEF InsertMember, IInv, Holding, SepInv, Homes
  <2>3. w \in Row /\ w.studio = scope[r]
    BY <2>2, FieldsOfOperations DEF Row
  <2>4. ~Exists(m) /\ \A q \in Request : About(q) => op[q].member # m
    BY <2>1, AboutToWrite, RowsThatExist DEF IInv, About
  <2>. HIDE DEF w
  <2>5. WritesAt(r, m, w)
    BY <2>1, <2>3, <2>4 DEF WritesAt
  <2>. QED
    BY <2>1, <2>2, <2>3, <2>5
<1>. QED
  BY <1>1, <1>2, <1>3, <1>4

LEMMA SepStep == IInv /\ SepInv /\ [Next]_vars => SepInv'
<1>. SUFFICES ASSUME IInv, SepInv, [Next]_vars
              PROVE  SepInv'
  OBVIOUS
<1>1. ASSUME NEW r \in Request, NEW o \in Operation, Send(r, o)
      PROVE  SepInv'
  BY <1>1, QuietSep DEF Send, Goto, tableVars, OthersStay, About, Writing, IInv, TypeOK
<1>2. ASSUME NEW r \in Request, NoActor(r) \/ NoTarget(r) \/ DuplicateMember(r)
      PROVE  SepInv'
  BY <1>2, QuietSep DEF NoActor, NoTarget, DuplicateMember, Refuse, End, Goto, tableVars,
     OthersStay, About, Writing, IInv, TypeOK
<1>3. ASSUME NEW r \in Request, FindActor(r)
      PROVE  SepInv'
  BY <1>3, QuietSep DEF FindActor, Goto, tableVars, OthersStay, About, Writing, IInv, TypeOK
<1>4. ASSUME NEW r \in Request, FindTarget(r)
      PROVE  SepInv'
  BY <1>4, QuietSep DEF FindTarget, Refuse, End, Goto, tableVars, OthersStay, About, Writing,
     IInv, TypeOK
<1>5. ASSUME NEW r \in Request, LoadActor(r) \/ LoadOwner(r)
      PROVE  SepInv'
  BY <1>5, QuietSep DEF LoadActor, LoadOwner, Refuse, End, Goto, tableVars, OthersStay, About,
     Writing, IInv, TypeOK, SepInv, Homes
<1>6. ASSUME NEW r \in Request, CountOwners(r) \/ SelectRow(r)
      PROVE  SepInv'
  BY <1>6, QuietSep DEF CountOwners, SelectRow, Refuse, End, Goto, tableVars, OthersStay, About,
     Writing, IInv, TypeOK
<1>7. ASSUME NEW r \in Request, CheckExisting(r)
      PROVE  SepInv'
  BY <1>7, QuietSep DEF CheckExisting, Refuse, End, Goto, tableVars, OthersStay, About,
     Writing, IInv, TypeOK, SepInv, Homes
<1>8. ASSUME NEW r \in Request, LoadTarget(r)
      PROVE  SepInv'
  <2> DEFINE m == op[r].member
  <2>1. /\ m \in Member /\ Exists(m) /\ row[m].studio = scope[r]
        /\ target' = [target EXCEPT ![r] = row[m]] /\ pc' = [pc EXCEPT ![r] = "checked"]
        /\ UNCHANGED <<row, op, scope>> /\ pc[r] = "allowed"
    BY <1>8 DEF LoadTarget, Modifiable, MembersOf, Goto, tableVars
  <2>2. OthersStay(r) /\ target'[r] = row[m]
    BY <2>1 DEF OthersStay, IInv, TypeOK
  <2>3. \A q \in Request \ {r} : About(q)' <=> About(q)
    BY <2>2 DEF OthersStay, About
  <2>4. ASSUME NEW q \in Request, About(q)', op[q].member = m
        PROVE  target'[q].studio = row[m].studio
    BY <2>1, <2>2, <2>3, <2>4 DEF OthersStay, SepInv, Homes
  <2>5. Homes(r)'
    <3>1. op'[r].kind # "create"
      BY <2>1 DEF SepInv, Homes
    <3>. QED  BY <2>1, <2>2, <2>4, <3>1 DEF Homes, Exists
  <2>6. ASSUME NEW q \in Request \ {r}
        PROVE  Homes(q)'
    BY <2>1, <2>2, <2>3, <2>4 DEF OthersStay, SepInv, Homes, Exists
  <2>. QED  BY <2>5, <2>6 DEF SepInv
<1>9. ASSUME NEW r \in Request,
             Remove(r) \/ InsertAgain(r) \/ UpdateRow(r) \/ InsertMember(r)
      PROVE  SepInv'
  <2>1. CASE row' = row
    BY <1>9, <2>1, Writes, QuietSep DEF End, Goto, OthersStay, About, Writing, IInv, TypeOK
  <2>2. CASE row' # row
    BY <1>9, <2>2, Writes, WriteSep DEF WritesAt
  <2>. QED  BY <2>1, <2>2
<1>10. CASE UNCHANGED vars
  BY <1>10 DEF vars, SepInv, Homes, About, Exists
<1>. QED
  BY <1>1, <1>2, <1>3, <1>4, <1>5, <1>6, <1>7, <1>8, <1>9, <1>10 DEF Next, RequestStep

(***************************************************************************)
(* A member is created, changed or deleted only by a request whose actor   *)
(* was seen as a member of that member's studio, whatever overtook it.     *)
(***************************************************************************)
THEOREM MembersStayInTheirStudio == Spec => StudiosAreSeparate
<1>1. IInv /\ SepInv /\ [Next]_vars =>
        [\A m \in Member : row'[m] # row[m] =>
            \E r \in Request :
                /\ Exists(m) => Touches(r, row[m].studio)
                /\ row'[m] # None => Touches(r, row'[m].studio)]_vars
  <2>. SUFFICES ASSUME IInv, SepInv, [Next]_vars, NEW m \in Member, row'[m] # row[m]
                PROVE  \E r \in Request :
                          /\ Exists(m) => Touches(r, row[m].studio)
                          /\ row'[m] # None => Touches(r, row'[m].studio)
    OBVIOUS
  <2>1. PICK r \in Request : Remove(r) \/ InsertAgain(r) \/ UpdateRow(r) \/ InsertMember(r)
    BY DEF Next, RequestStep, Send, FindActor, NoActor, FindTarget, LoadActor,
       LoadOwner, LoadTarget, NoTarget, CountOwners, SelectRow, CheckExisting,
       DuplicateMember, Refuse, tableVars, vars
  <2>2. pc'[r] = "idle" /\ pc[r] # "idle"
    BY <2>1, Writes DEF End, Goto, IInv, TypeOK
  <2>3. PICK n \in Member, w \in Row \cup {None} : WritesAt(r, n, w)
    BY <2>1, Writes
  <2>4. m = n /\ row'[m] = w
    BY <2>3 DEF WritesAt, IInv, TypeOK
  <2>. QED
    BY <2>2, <2>3, <2>4 DEF WritesAt, Touches
<1>. QED
  BY <1>1, InitSep, SepStep, Invariance, PTL DEF Spec, StudiosAreSeparate

-----------------------------------------------------------------------------
(***************************************************************************)
(* With tokens, studios and games beside them, members are managed as      *)
(* above: every theorem about Spec is one about AccessSpec.                *)
(***************************************************************************)
LEMMA AccessKeepsMembers == [AccessNext]_allVars => [Next]_vars
  BY DEF AccessNext, MembersStep, AccessStep, TimePasses, SetStudioStatus, SelectStudio,
     BaseLogin, Logout, CreateGame, StockGame, MintInGame, PlayGame, allVars, vars

THEOREM AccessIsMembers == AccessSpec => Spec
<1>1. AccessInit => Init
  BY DEF AccessInit
<1>. QED
  BY <1>1, AccessKeepsMembers, PTL DEF AccessSpec, Spec

(***************************************************************************)
(* The time since its user held an authority is at most the token's age,   *)
(* in a token of a studio; only such a token has a role.                   *)
(***************************************************************************)
Backed(t) ==
    /\ t \in Token
    /\ t.studio # None => t.since["member"] <= t.age
    /\ IsManager(t.role) => t.studio # None /\ t.since["manager"] <= t.age

TokenInv ==
    /\ token \in [Visitor -> Token \cup {None}]
    /\ \A u \in Visitor : token[u] # None => Backed(token[u])

LEMMA TokenFields ==
    ASSUME NEW t \in Token
    PROVE  /\ t.studio \in Studio \cup {None} /\ t.age \in 0..Life - 1
           /\ t.since \in [Authority -> 0..Life]
           /\ \A a \in Authority : t.since[a] \in 0..Life
  BY DEF Token

LEMMA TokenEdited ==
    ASSUME NEW t \in Token, NEW since \in [Authority -> 0..Life]
    PROVE  /\ [t EXCEPT !.since = since] \in Token
           /\ [t EXCEPT !.since = since].since = since
           /\ [t EXCEPT !.since = since].age = t.age
           /\ [t EXCEPT !.since = since].role = t.role
           /\ [t EXCEPT !.since = since].studio = t.studio
  BY DEF Token

LEMMA TokenOlder ==
    ASSUME NEW t \in Token, t.age + 1 # Life
    PROVE  /\ [t EXCEPT !.age = @ + 1] \in Token
           /\ [t EXCEPT !.age = @ + 1].since = t.since
           /\ [t EXCEPT !.age = @ + 1].age = t.age + 1
           /\ [t EXCEPT !.age = @ + 1].role = t.role
           /\ [t EXCEPT !.age = @ + 1].studio = t.studio
  BY StudioAccessAssumption DEF Token

\* Recording starts no clock over, and moves none by more than the tick.
LEMMA RecordedTokens ==
    ASSUME NEW tokens \in [Visitor -> Token \cup {None}], NEW tick \in BOOLEAN,
           token' = Recorded(tokens, tick)
    PROVE  /\ token' \in [Visitor -> Token \cup {None}]
           /\ \A u \in Visitor : tokens[u] = None => token'[u] = None
           /\ \A u \in Visitor : tokens[u] # None =>
                /\ token'[u] \in Token
                /\ token'[u].age = tokens[u].age
                /\ token'[u].role = tokens[u].role
                /\ token'[u].studio = tokens[u].studio
                /\ \A a \in Authority :
                      token'[u].since[a]
                        <= IF tick THEN tokens[u].since[a] + 1 ELSE tokens[u].since[a]
<1> DEFINE clock(v) == [a \in Authority |->
              IF <<tokens[v].studio, a>> \in Held(v)' THEN 0
              ELSE IF tick /\ tokens[v].since[a] < Life THEN tokens[v].since[a] + 1
              ELSE tokens[v].since[a]]
           after(v) == IF tokens[v] = None THEN None ELSE [tokens[v] EXCEPT !.since = clock(v)]
<1>1. token' = [v \in Visitor |-> after(v)]
  BY DEF Recorded
<1>2. ASSUME NEW v \in Visitor, tokens[v] # None
      PROVE  /\ clock(v) \in [Authority -> 0..Life]
             /\ \A a \in Authority :
                   clock(v)[a] <= IF tick THEN tokens[v].since[a] + 1 ELSE tokens[v].since[a]
  <2>1. \A a \in Authority : tokens[v].since[a] \in 0..Life
    BY <1>2, TokenFields
  <2>. QED
    BY <2>1, StudioAccessAssumption
<1>. HIDE DEF clock
<1>3. ASSUME NEW v \in Visitor, tokens[v] # None
      PROVE  after(v) = [tokens[v] EXCEPT !.since = clock(v)] /\ after(v) \in Token
  BY <1>2, <1>3, TokenEdited
<1>4. \A v \in Visitor : after(v) \in Token \cup {None}
  BY <1>3
<1>5. ASSUME NEW u \in Visitor, tokens[u] # None
      PROVE  /\ after(u).since = clock(u)
             /\ after(u).age = tokens[u].age
             /\ after(u).role = tokens[u].role
             /\ after(u).studio = tokens[u].studio
  BY <1>2, <1>3, <1>5, TokenEdited
<1>6. \A u \in Visitor : tokens[u] = None => after(u) = None
  OBVIOUS
<1>. HIDE DEF after
<1>. QED
  BY <1>1, <1>2, <1>3, <1>4, <1>5, <1>6

LEMMA TokenStep == TokenInv /\ [AccessNext]_allVars => TokenInv'
<1>. SUFFICES ASSUME TokenInv, [AccessNext]_allVars
              PROVE  TokenInv'
  OBVIOUS
<1>. TRUE \in BOOLEAN /\ FALSE \in BOOLEAN
  OBVIOUS
<1>0. \A u \in Visitor : token[u] # None =>
        \A a \in Authority : token[u].since[a] \in Nat /\ token[u].age \in Nat
  BY TokenFields DEF TokenInv
<1>1. CASE token' = Recorded(token, FALSE)
  <2>1. token' \in [Visitor -> Token \cup {None}]
    BY <1>1, RecordedTokens DEF TokenInv
  <2>2. ASSUME NEW u \in Visitor, token'[u] # None
        PROVE  Backed(token'[u])
    <3>1. token[u] # None
      BY <1>1, <2>2, RecordedTokens DEF TokenInv
    <3>2. /\ token'[u] \in Token
          /\ token'[u].age = token[u].age /\ token'[u].role = token[u].role
          /\ token'[u].studio = token[u].studio
          /\ \A a \in Authority : token'[u].since[a] <= token[u].since[a]
      BY <1>1, <3>1, RecordedTokens DEF TokenInv
    <3>3. /\ token[u].since["member"] \in Nat /\ token[u].since["manager"] \in Nat
          /\ token[u].age \in Nat
          /\ token'[u].since["member"] \in Nat /\ token'[u].since["manager"] \in Nat
          /\ token'[u].since["member"] <= token[u].since["member"]
          /\ token'[u].since["manager"] <= token[u].since["manager"]
      BY <1>0, <3>1, <3>2, TokenFields DEF Authority
    <3>. QED
      BY <3>1, <3>2, <3>3 DEF TokenInv, Backed
  <2>. QED  BY <2>1, <2>2 DEF TokenInv
<1>2. CASE TimePasses
  <2> DEFINE older == [u \in Visitor |-> Older(token[u])]
  <2>1. ASSUME NEW u \in Visitor
        PROVE  /\ Older(token[u]) \in Token \cup {None}
               /\ Older(token[u]) # None =>
                    /\ token[u] # None /\ Older(token[u]) \in Token
                    /\ Older(token[u]).age = token[u].age + 1
                    /\ Older(token[u]).role = token[u].role
                    /\ Older(token[u]).studio = token[u].studio
                    /\ Older(token[u]).since = token[u].since
    BY TokenOlder DEF Older, TokenInv
  <2>2. older \in [Visitor -> Token \cup {None}] /\ \A u \in Visitor : older[u] = Older(token[u])
    BY <2>1
  <2>3. token' = Recorded(older, TRUE)
    BY <1>2 DEF TimePasses
  <2>. HIDE DEF older
  <2>4. token' \in [Visitor -> Token \cup {None}]
    BY <2>2, <2>3, RecordedTokens
  <2>5. ASSUME NEW u \in Visitor, token'[u] # None
        PROVE  Backed(token'[u])
    <3>1. older[u] # None
      BY <2>2, <2>3, <2>5, RecordedTokens
    <3>2. /\ token'[u] \in Token
          /\ token'[u].age = older[u].age /\ token'[u].role = older[u].role
          /\ token'[u].studio = older[u].studio
          /\ \A a \in Authority : token'[u].since[a] <= older[u].since[a] + 1
      BY <2>2, <2>3, <3>1, RecordedTokens
    <3>3. /\ token[u] # None /\ older[u].age = token[u].age + 1
          /\ older[u].role = token[u].role /\ older[u].since = token[u].since
          /\ older[u].studio = token[u].studio
      BY <2>1, <2>2, <3>1
    <3>4. /\ token[u].since["member"] \in Nat /\ token[u].since["manager"] \in Nat
          /\ token[u].age \in Nat
          /\ token'[u].since["member"] \in Nat /\ token'[u].since["manager"] \in Nat
          /\ token'[u].since["member"] <= token[u].since["member"] + 1
          /\ token'[u].since["manager"] <= token[u].since["manager"] + 1
      BY <1>0, <3>2, <3>3, TokenFields DEF Authority
    <3>. QED
      BY <3>2, <3>3, <3>4 DEF TokenInv, Backed
  <2>. QED  BY <2>4, <2>5 DEF TokenInv
<1>3. ASSUME NEW u \in Visitor, NEW s \in Studio, SelectStudio(u, s)
      PROVE  TokenInv'
  <2>1. PICK m \in Memberships(s, u) :
          token' = [token EXCEPT ![u] =
            [studio |-> s, role |-> RoleOf(m), age |-> 0,
             since |-> [a \in Authority |-> IF Has(u, s, a) THEN 0 ELSE Life]]]
    BY <1>3 DEF SelectStudio
  <2> DEFINE since == [a \in Authority |-> IF Has(u, s, a) THEN 0 ELSE Life]
             t == [studio |-> s, role |-> RoleOf(m), age |-> 0, since |-> since]
  <2>2. since \in [Authority -> 0..Life]
    BY StudioAccessAssumption
  <2>3. RoleOf(m) \in {"owner", "admin", "member"} /\ 0 \in 0..Life - 1
        /\ s # None
    BY StudioAccessAssumption, StudioMembersAssumption DEF RoleOf
  <2>4. Has(u, s, "member") /\ (IsManager(RoleOf(m)) => Has(u, s, "manager"))
    BY <2>1 DEF Has
  <2>5. since["member"] = 0 /\ (IsManager(RoleOf(m)) => since["manager"] = 0)
    BY <2>4 DEF Authority
  <2>6. Backed(t)
    <3>. HIDE DEF since
    <3>. QED  BY <2>2, <2>3, <2>5 DEF Backed, Token
  <2>7. token' = [token EXCEPT ![u] = t]
    BY <2>1
  <2>. HIDE DEF t
  <2>. QED
    BY <2>6, <2>7 DEF TokenInv, Backed
<1>6. ASSUME NEW u \in Visitor, BaseLogin(u)
      PROVE  TokenInv'
  <2> DEFINE t == [studio |-> None, role |-> "none", age |-> 0,
                   since |-> [a \in Authority |-> Life]]
  <2>1. token' = [token EXCEPT ![u] = t]
    BY <1>6 DEF BaseLogin
  <2>2. Backed(t)
    BY StudioAccessAssumption DEF Backed, Token, IsManager
  <2>. HIDE DEF t
  <2>. QED
    BY <2>1, <2>2 DEF TokenInv, Backed
<1>4. ASSUME NEW u \in Visitor, Logout(u)
      PROVE  TokenInv'
  BY <1>4 DEF Logout, TokenInv
<1>5. CASE UNCHANGED token
  BY <1>5 DEF TokenInv
<1>. QED
  BY <1>1, <1>2, <1>3, <1>4, <1>5, <1>6
     DEF AccessNext, MembersStep, AccessStep, SetStudioStatus, CreateGame, StockGame,
         MintInGame, PlayGame, allVars, accessVars

(***************************************************************************)
(* Games are made and stocked by who managed their studio at most the life *)
(* of a token ago, for any life and whatever happened to members and       *)
(* studios meanwhile; they are played by who was its member as lately, or  *)
(* with a token of no studio.                                              *)
(***************************************************************************)
THEOREM AuthorityLastsALife == AccessSpec => AuthorityWasRecent
<1> DEFINE Recent ==
      LET t == token[change'.by]
      IN  /\ t # None
          /\ \/ t.studio = change'.game.studio /\ t.since[NeedFor(change')] < Life
             \/ t.studio = None /\ change'.what = "played"
<1>1. TokenInv /\ [AccessNext]_allVars => [change' # change => Recent]_allVars
  <2>. SUFFICES ASSUME TokenInv, [AccessNext]_allVars, change' # change
                PROVE  Recent
    OBVIOUS
  <2>1. PICK u \in Visitor :
            \/ \E n \in Name : CreateGame(u, n)
            \/ \E g \in games : StockGame(u, g) \/ MintInGame(u, g) \/ PlayGame(u, g)
    BY DEF AccessNext, MembersStep, AccessStep, TimePasses, SetStudioStatus, SelectStudio,
       BaseLogin, Logout, allVars, accessVars
  <2>2. token[u] # None /\ change'.by = u
    BY <2>1
       DEF CreateGame, StockGame, MintInGame, PlayGame, InStudio, Passes, Changes
  <2>3. /\ token[u].age \in 0..Life - 1
        /\ token[u].since["member"] \in Nat /\ token[u].since["manager"] \in Nat
        /\ token[u].studio # None => token[u].since["member"] < Life
        /\ IsManager(token[u].role) =>
              token[u].studio # None /\ token[u].since["manager"] < Life
    <3>1. Backed(token[u])
      BY <2>2 DEF TokenInv
    <3>2. /\ token[u].age \in 0..Life - 1
          /\ token[u].since["member"] \in Nat /\ token[u].since["manager"] \in Nat
      BY <3>1, TokenFields DEF Backed, Authority
    <3>. QED
      BY <3>1, <3>2, StudioAccessAssumption DEF Backed
  <2>4. ASSUME NEW n \in Name, CreateGame(u, n)
        PROVE  Recent
    <3>1. /\ change'.game.studio = token[u].studio /\ NeedFor(change') = "manager"
          /\ IsManager(token[u].role)
      BY <2>4 DEF CreateGame, Changes, NewGame, NeedFor
    <3>. QED  BY <2>2, <2>3, <3>1
  <2>5. ASSUME NEW g \in games, StockGame(u, g) \/ MintInGame(u, g)
        PROVE  Recent
    <3>1. /\ change'.game = g /\ NeedFor(change') = "manager"
          /\ IsManager(token[u].role) /\ token[u].studio \in {None, g.studio}
      BY <2>5 DEF StockGame, MintInGame, InStudio, Passes, Changes, NeedFor
    <3>. QED  BY <2>2, <2>3, <3>1
  <2>6. ASSUME NEW g \in games, PlayGame(u, g)
        PROVE  Recent
    <3>1. /\ change'.game = g /\ change'.what = "played" /\ NeedFor(change') = "member"
          /\ token[u].studio \in {None, g.studio}
      BY <2>6 DEF PlayGame, Passes, Changes, NeedFor
    <3>. QED  BY <2>2, <2>3, <3>1
  <2>. QED
    BY <2>1, <2>4, <2>5, <2>6
<1>2. AccessInit => TokenInv
  BY DEF AccessInit, TokenInv
<1>. QED
  BY <1>1, <1>2, TokenStep, PTL DEF AccessSpec, AuthorityWasRecent
=============================================================================
