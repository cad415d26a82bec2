---------------------------- MODULE MCStudioMembers ----------------------------
EXTENDS StudioAccess, TLC

CONSTANTS s1, s2, u1, u2, u3, m1, m2, m3, m4, r1, r2

RequestSymmetry == Permutations({r1, r2})

\* u1 founded s1 as member m1, and u2 founded s2 as m2.
TwoFounders == s1 :> m1 @@ s2 :> m2

\* Either founder invites u3 into s1; both and u3 may then manage m1 and m3,
\* and every member may promote m3.
MixedOps ==
    {o \in ManageOp : o.studio = s1 /\ o.member # m2 /\ o.rights}
        \cup {o \in CreateOp : o.studio = s1 /\ o.actor # u3 /\ o.user = u3}
        \cup {o \in PromoteOp : o.member = m3}

=============================================================================
