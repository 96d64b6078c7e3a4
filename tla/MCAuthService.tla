---------------------------- MODULE MCAuthService ----------------------------
(* AuthService on small sets of students, addresses, browsers and requests. *)
EXTENDS AuthService, TLC

Symmetry ==
    Permutations(Students) \cup Permutations(Addresses)
        \cup Permutations(Browsers) \cup Permutations(Requests)
=============================================================================
