--------------------------- MODULE MCIdentityLinks ---------------------------
(* Small instances of IdentityLinks for TLC. *)
EXTENDS IdentityLinks, TLC

CONSTANTS ann, bob, nsk42, r1, r2, p1, p2, p3

Interchangeable ==
    Permutations(Identities) \cup Permutations(Principals)
        \cup Permutations(Requests) \cup Permutations(Workers)
=============================================================================
