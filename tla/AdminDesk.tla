------------------------------ MODULE AdminDesk ------------------------------
(* The platform's administrators at work: TriolithAdminPage in the browser of *)
(* each and the handlers of admin.service.ts it calls.  The page shows a copy *)
(* of the tables, loaded when it opens and again after some of its own acts;  *)
(* its buttons ask for the opposite of what it shows.  A handler looks, then  *)
(* writes; whether its caller is an administrator is read from a token that   *)
(* was signed up to a day ago, whatever the row says by now.  Beside them the *)
(* two others that write rows of administrators: linkWallet, which saves the  *)
(* row as it has loaded it, and the nightly retention job.                    *)
(*                                                                            *)
(* Left out: the developer tools, which give the flag and never take it; sums,*)
(* logs and tables that are only shown, the e-mail, the audit log, whose      *)
(* failure changes nothing.  A purge, in StudioData statement by statement,   *)
(* is one step here.                                                          *)
EXTENDS WebSession

CONSTANTS
  AtFirst,      \* the administrators at first
  Listed,       \* the studios
  Titles,       \* the games
  HomeOfGame,   \* the studio of a game
  Fee,          \* platform_fee_percent
  Due,          \* the users whom the retention job finds every night
  MaxActs       \* bound on clicks and on requests that fail

ASSUME DeskAssumption ==
  /\ AtFirst \subseteq User /\ Due \subseteq User
  /\ HomeOfGame \in [Titles -> Listed]
  /\ User \cap (Listed \cup Titles \cup {Fee}) = {}
  /\ MaxActs \in Nat

VARIABLES
  table,     \* the rows of users, studios and games, and the fee
  signed,    \* the users with a token that says isAdmin
  desk,      \* [User -> Desk], the page of each
  fetches,   \* GETs of the pages without an answer
  tasks,     \* PATCHes and DELETEs without an answer
  links,     \* calls of linkWallet: the row each has loaded
  been,      \* who was ever in office; of no use to the program
  acts

deskVars == <<table, signed, desk, fetches, tasks, links, been, acts>>

Things == Listed \cup Titles \cup {Fee}
GamesOf(s) == {g \in Titles : HomeOfGame[g] = s}

(* active: a studio or game is not suspended; the one of two fees (bound).    *)
Person == [admin : BOOLEAN, suspended : BOOLEAN, erased : BOOLEAN]
Thing == [there : BOOLEAN, active : BOOLEAN]
Link == [on : User, copy : Person]

(* What is shown of a row, None: nothing; the studios whose details have come *)
(* and the one that is unfolded.                                              *)
Desk == [shown : [User \cup Things -> Person \cup Thing \cup {None}],
         known : SUBSET Listed, unfolded : Listed \cup {None}]
Closed == [shown |-> [x \in User \cup Things |-> None], known |-> {}, unfolded |-> None]

(* heard: the page that asked is still there, where open was unfolded.  saw:  *)
(* the administrators that were counted, of no use to the program.            *)
Ops == {"isAdmin", "isSuspended", "status", "delete"}
Errand == [op : Ops, by : User, on : User \cup Things, want : BOOLEAN,
         heard : BOOLEAN, open : Listed \cup {None},
         step : {"sent", "found", "written"}, saw : SUBSET User]

DeskInit ==
  /\ table = [x \in User \cup Things |->
              IF x \in User THEN [admin |-> x \in AtFirst, suspended |-> FALSE, erased |-> FALSE]
              ELSE [there |-> TRUE, active |-> TRUE]]
  /\ signed = AtFirst
  /\ desk = [u \in User |->
              IF u \in AtFirst
              THEN [Closed EXCEPT !.shown =
                      [x \in User \cup Things |-> IF x \in Titles THEN None ELSE table[x]]]
              ELSE Closed]
  /\ fetches = {} /\ tasks = {} /\ links = {} /\ acts = 0
  /\ been = AtFirst

Act == acts < MaxActs /\ acts' = acts + 1
Quiet == UNCHANGED acts

-------------------------------------------------------------------------------
(* Loading.  "collections" are users and studios, which come together.        *)

ListsOf == {"collections", "fee"} \cup Listed
Entries(l) ==
  CASE l = "collections" -> User \cup Listed [] l = "fee" -> {Fee} [] OTHER -> GamesOf(l)

(* The GET of a list, and the one that looks again a moment later: when the   *)
(* first has its answer (bound).                                              *)
Fetch(a, l, again) == [by |-> a, list |-> l, again |-> again, rows |-> None]
Once(a, l) == {Fetch(a, l, FALSE)}
Twice(a, l) == {Fetch(a, l, TRUE)}
Replied(f) == fetches' = (fetches \ {f}) \cup IF f.again THEN Once(f.by, f.list) ELSE {}

(* loadStudioDetails *)
Details(a, s) == IF s = None THEN {} ELSE Twice(a, s)

(* getUserList, getAllStudios, getPlatformFee, getStudioGames *)
Listing(l) ==
  [x \in Entries(l) |-> IF x \in User THEN table[x] ELSE IF table[x].there THEN table[x] ELSE None]

Serve(f) ==
  /\ f.rows = None /\ f.by \in signed
  /\ fetches' = (fetches \ {f}) \cup {[f EXCEPT !.rows = Listing(f.list)]}
  /\ Quiet /\ UNCHANGED <<table, signed, desk, tasks>>

(* Whatever the page shows by now. *)
Arrive(f) ==
  /\ f.rows # None
  /\ Replied(f)
  /\ desk' = [desk EXCEPT
       ![f.by].shown = [x \in User \cup Things |->
                          IF x \in DOMAIN f.rows THEN f.rows[x] ELSE @[x]],
       ![f.by].known = @ \cup ({f.list} \cap Listed)]
  /\ Quiet /\ UNCHANGED <<table, signed, tasks>>

FetchFails(f) ==
  /\ Act
  /\ Replied(f)
  /\ UNCHANGED <<table, signed, desk, tasks>>

-------------------------------------------------------------------------------
(* Sessions.                                                                  *)

Admins == {u \in User : table[u].admin}
Serves(p) == p.admin /\ ~p.suspended /\ ~p.erased
InOffice == {u \in User : Serves(table[u])}

(* A login of an administrator, whose page opens. *)
SignOn(u) ==
  /\ Act
  /\ u \in InOffice /\ u \notin signed
  /\ signed' = signed \cup {u}
  /\ fetches' = fetches \cup Once(u, "collections") \cup Once(u, "fee")
  /\ UNCHANGED <<table, desk, tasks>>

(* A logout, the end of the token's day, or an answer 401: the page goes.     *)
SignOff(u) ==
  /\ Act
  /\ u \in signed
  /\ signed' = signed \ {u}
  /\ desk' = [desk EXCEPT ![u] = Closed]
  /\ fetches' = {f \in fetches : f.by # u}
  /\ tasks' = {IF t.by = u THEN [t EXCEPT !.heard = FALSE] ELSE t : t \in tasks}
  /\ UNCHANGED table

-------------------------------------------------------------------------------
(* The buttons of the page.                                                   *)

Visible(a, x) == desk[a].shown[x] # None

Ask(a, op, x, want) ==
  /\ Act
  /\ a \in signed /\ Visible(a, x)
  /\ tasks' = tasks \cup {[op |-> op, by |-> a, on |-> x, want |-> want, heard |-> TRUE,
                           open |-> desk[a].unfolded, step |-> "sent", saw |-> {}]}
  /\ UNCHANGED <<table, signed, desk, fetches>>

ToggleUserAdmin(a, u) == Ask(a, "isAdmin", u, ~desk[a].shown[u].admin)
ToggleUserSuspended(a, u) == Ask(a, "isSuspended", u, ~desk[a].shown[u].suspended)

(* toggleStudioStatus; toggleGameStatus; savePlatformFee, with another fee    *)
(* than the one that is shown.                                                *)
ToggleStatus(a, x) == Ask(a, "status", x, ~desk[a].shown[x].active)

(* deleteUser, deleteStudio, deleteGame *)
DeleteRow(a, x) == x # Fee /\ Ask(a, "delete", x, TRUE)

(* toggleStudioGames: details that are there are not loaded again. *)
Unfold(a, s) ==
  /\ Act
  /\ a \in signed /\ Visible(a, s)
  /\ IF desk[a].unfolded = s
     THEN desk' = [desk EXCEPT ![a].unfolded = None] /\ UNCHANGED fetches
     ELSE /\ desk' = [desk EXCEPT ![a].unfolded = s]
          /\ fetches' = fetches \cup
               IF s \in desk[a].known THEN {} ELSE Details(a, s)
  /\ UNCHANGED <<table, signed, tasks>>

-------------------------------------------------------------------------------
(* The handlers.                                                              *)

(* An administrator may not do this to himself. *)
Own(t) ==
  /\ t.on = t.by
  /\ \/ t.op = "isAdmin" /\ ~t.want
     \/ t.op = "isSuspended" /\ t.want
     \/ t.op = "delete"

Revokes(t) == t.op = "isAdmin" /\ ~t.want

LastAdminMutant(t) == FALSE          \* nobody is counted

(* The last administrator stays. *)
LastAdmin(t) == Revokes(t) /\ Cardinality(Admins) <= 1

Missing(t) == t.on \in Listed \cup Titles /\ ~table[t.on].there

Denied(t) == Own(t) \/ LastAdmin(t) \/ Missing(t)

(* A token that is over is refused, and a suspended administrator once the    *)
(* cache of SuspensionCache knows; a logout is not noticed.                   *)
Shut(t) == t.by \notin signed \/ table[t.by].suspended

Proceeds(t, step) == tasks' = (tasks \ {t}) \cup {[t EXCEPT !.step = step,
                       !.saw = IF step = "found" /\ Revokes(t) THEN Admins ELSE @]}

LookUp(t) ==
  /\ t.step = "sent" /\ ~Denied(t)
  /\ Proceeds(t, "found")
  /\ Quiet /\ UNCHANGED <<table, signed, desk, fetches>>

Refuse(t) ==
  /\ t.step = "sent" /\ (Denied(t) \/ Shut(t))
  /\ tasks' = tasks \ {t}
  /\ Quiet /\ UNCHANGED <<table, signed, desk, fetches>>

(* The rows a purge takes along; an update of a row that is gone does nothing.*)
Purged(x) == {x} \cup (IF x \in Listed THEN GamesOf(x) ELSE {})

Write(t) ==
  /\ t.step = "found"
  /\ table' = CASE t.op = "isAdmin" -> [table EXCEPT ![t.on].admin = t.want]
              [] t.op = "isSuspended" -> [table EXCEPT ![t.on].suspended = t.want]
              [] t.op = "status" -> [table EXCEPT ![t.on].active = IF table[t.on].there THEN t.want ELSE @]
              [] t.op = "delete" /\ t.on \in User ->
                    [table EXCEPT ![t.on] = [admin |-> FALSE, suspended |-> TRUE, erased |-> TRUE]]
              [] OTHER -> [x \in User \cup Things |->
                             IF x \in Purged(t.on) THEN [table[x] EXCEPT !.there = FALSE] ELSE table[x]]
  /\ Proceeds(t, "written")
  /\ Quiet /\ UNCHANGED <<signed, desk, fetches>>

(* The database or the connection fails, before the write or after it.        *)
TaskFails(t) ==
  /\ Act
  /\ tasks' = tasks \ {t}
  /\ UNCHANGED <<table, signed, desk, fetches>>

-------------------------------------------------------------------------------
(* What an answer does to the page.                                           *)

(* The row as it was asked for, or without what was deleted. *)
Patched(t, x, old) ==
  CASE x # t.on \/ old = None -> old
    [] t.op = "isAdmin" -> [old EXCEPT !.admin = t.want]
    [] t.op = "isSuspended" -> [old EXCEPT !.suspended = t.want]
    [] t.op = "status" -> [old EXCEPT !.active = t.want]
    [] OTHER -> None

(* refreshAdminCollections: the details go and are loaded again, of the       *)
(* studio that was unfolded at the click, were it the one that was deleted.   *)
Refreshes(t) == t.op = "delete" /\ t.on \in Things
Refreshed(t) == Twice(t.by, "collections") \cup Details(t.by, t.open)
Forgets(t, x) == Refreshes(t) /\ x \in Titles

Done(t) ==
  /\ t.step = "written"
  /\ tasks' = tasks \ {t}
  /\ IF ~t.heard THEN UNCHANGED <<desk, fetches>>
     ELSE /\ desk' = [desk EXCEPT ![t.by] =
               [shown |-> [x \in User \cup Things |->
                             IF Forgets(t, x) THEN None ELSE Patched(t, x, @.shown[x])],
                known |-> IF Refreshes(t) THEN {} ELSE @.known,
                unfolded |-> IF t.op = "delete" /\ t.on = @.unfolded THEN None ELSE @.unfolded]]
          /\ fetches' = fetches \cup IF Refreshes(t) THEN Refreshed(t) ELSE {}
  /\ Quiet /\ UNCHANGED <<table, signed>>

-------------------------------------------------------------------------------
(* Users' rows, written by others.                                            *)

(* linkWallet finds the row by its e-mail. *)
WalletRead(u) ==
  /\ ~table[u].erased
  /\ links' = links \cup {[on |-> u, copy |-> table[u]]}
  /\ Quiet /\ UNCHANGED <<table, signed, desk, fetches, tasks>>

(* It saves the entity: every column that differs from the row as it is by    *)
(* then, isAdmin too, is written.                                             *)
WalletSave(l) ==
  /\ table' = [table EXCEPT ![l.on] = l.copy]
  /\ links' = links \ {l}
  /\ Quiet /\ UNCHANGED <<signed, desk, fetches, tasks>>

(* anonymizeUser of the retention job, which does not look at isAdmin and     *)
(* leaves it.                                                                 *)
AnonymizeUser(u) ==
  /\ table' = [table EXCEPT ![u].suspended = FALSE, ![u].erased = TRUE]
  /\ Quiet /\ UNCHANGED <<signed, desk, fetches, tasks, links>>

-------------------------------------------------------------------------------
Click ==
  \E a \in signed :
    \/ \E u \in User : ToggleUserAdmin(a, u) \/ ToggleUserSuspended(a, u)
    \/ \E x \in Things : ToggleStatus(a, x)
    \/ \E x \in User \cup Things : DeleteRow(a, x)
    \/ \E s \in Listed : Unfold(a, s)

Work ==
  \/ Click
  \/ \E u \in User : SignOn(u) \/ SignOff(u)
  \/ \E f \in fetches : Serve(f) \/ Arrive(f) \/ FetchFails(f)
  \/ \E t \in tasks : LookUp(t) \/ Refuse(t) \/ Write(t) \/ TaskFails(t) \/ Done(t)

DeskNext ==
  /\ \/ Work /\ UNCHANGED links
     \/ \E u \in User : WalletRead(u)
     \/ \E l \in links : WalletSave(l)
     \/ \E u \in Due : AnonymizeUser(u)
  /\ been' = been \cup InOffice'

DeskSpec == DeskInit /\ [][DeskNext]_deskVars

DeskTypeOK ==
  /\ \A u \in User : table[u] \in Person
  /\ \A x \in Things : table[x] \in Thing
  /\ signed \subseteq User /\ tasks \subseteq Errand /\ links \subseteq Link
  /\ \A u \in User : desk[u].known \subseteq Listed /\ desk[u].unfolded \in Listed \cup {None}
  /\ \A f \in fetches : f.by \in User /\ f.list \in ListsOf

(* The task a step writes, and the call of linkWallet it ends. *)
WrittenNow(t) == t \in tasks /\ t.step = "found" /\ t \notin tasks'
SavedNow(l) == l \in links /\ l \notin links'

(* How the platform may lose the last one in office, an administrator neither *)
(* suspended nor erased, whatever old pages show and whatever runs beside:    *)
(* by the request of somebody who has been put out of office before, while    *)
(* his token or that request lived on; by a linkWallet that loaded the row    *)
(* before its user came into office; or by the retention job, if his account  *)
(* is due.  The last isAdmin flag goes in the first two ways only: by the     *)
(* request of somebody who has lost his own, an erasure, or a revocation      *)
(* since whose count another flag has gone, or by a linkWallet.  There is no  *)
(* other way.                                                                 *)
AnAdminIsLeft ==
  [][/\ InOffice # {} /\ InOffice' = {} =>
          \/ \E t \in tasks : WrittenNow(t) /\ t.by \in been \ InOffice
          \/ \E l \in links : SavedNow(l) /\ InOffice = {l.on} /\ ~Serves(l.copy)
          \/ \E u \in Due : InOffice = {u} /\ AnonymizeUser(u)
     /\ Admins # {} /\ Admins' = {} =>
          \/ \E t \in tasks :
               /\ WrittenNow(t) /\ t.by \in been \ Admins
               /\ t.op = "delete" \/ (Revokes(t) /\ t.saw \ Admins # {})
          \/ \E l \in links : SavedNow(l) /\ Admins = {l.on} /\ ~l.copy.admin]_deskVars
===============================================================================
