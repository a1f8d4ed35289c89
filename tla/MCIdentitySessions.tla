------------------------- MODULE MCIdentitySessions -------------------------
(* Small instances of IdentitySessions for TLC. *)
EXTENDS LifecycleRefinement, TLC

CONSTANTS op, u, s1, s2, s3, w1, w2

\* Three sessions of one person.
ThreeSessions == s1 :> u @@ s2 :> u @@ s3 :> u
PersonalGrants == {<<u, "app">>}

\* Only the operator has a session; the person administered may log in.
OperatorSession == s1 :> op
LifecycleGrants == {<<op, "suspend">>, <<op, "reactivate">>, <<op, "disable">>}
OperatorGrants == LifecycleGrants \cup {<<op, "revoke_sessions">>}
DecisionGrants == LifecycleGrants \cup {<<op, "decide_access">>}
DisablementGrants == {<<op, "disable">>, <<op, "decide_access">>, <<u, "app">>}

SameWorkers == Permutations(Workers)
=============================================================================
