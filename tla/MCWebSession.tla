----------------------------- MODULE MCWebSession -----------------------------
(* Small instances for TLC.  WebSession: an administrator with a studio, an    *)
(* owner with a studio of two and one of his own, and a member of the larger   *)
(* studio.  AdminDesk: two of the three are administrators at first; a studio  *)
(* with one game.  The desk is looked at twice: without linkWallet and the     *)
(* job, and with both, one call of linkWallet at a time and one request, which *)
(* is a toggle of a user on a first page.                                      *)
EXTENDS AdminDesk

VARIABLE world     \* which is looked at: "tab", "desk" or "rows"

worlds == <<tabVars, deskVars, world>>

CONSTANTS adm, bob, cid, s1, s2, s3, g1
MCStudiosOf == [u \in User |-> CASE u = adm -> {s1} [] u = bob -> {s2} [] OTHER -> {s2, s3}]
MCHomeOfGame == [g \in Titles |-> s2]

(* The user acts while at most two calls are under way, and at most two        *)
(* requests of administrators are (bounds).                                    *)
Tab ==
  /\ world = "tab" /\ UNCHANGED <<deskVars, world>>
  /\ deeds' = deeds \/ Cardinality(calls) <= 2
Desks == UNCHANGED <<tabVars, world>>
FewTasks == Cardinality(tasks') <= 2
AtDesk == world = "desk" /\ Work /\ UNCHANGED links
AtRows == /\ world = "rows" /\ fetches' = {} /\ Cardinality(links') <= 1
          /\ Cardinality(tasks') <= 1
          /\ \A t \in tasks' : t.op \in {"isAdmin", "isSuspended"}

\* The tab of the desk's worlds stays where it is.
MCInit == /\ TabInit /\ DeskInit /\ world \in {"tab", "desk", "rows"}
          /\ world # "tab" => page = "root"

\* Spec and DeskSpec, each in its world.
MCSpec ==
    /\ MCInit
    /\ [][\/ TabNext /\ Tab
          \/ Desks /\ DeskNext /\ FewTasks /\ (AtDesk \/ AtRows)]_worlds
    /\ WF_worlds(Render /\ Tab)
    /\ WF_worlds(Unload /\ Tab)
    /\ WF_worlds(CallAnswers /\ Tab)
===============================================================================
