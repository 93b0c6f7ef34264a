-------------------------- MODULE MCRoleHierarchy --------------------------
(* Two users, three custom roles, two requests at once.                     *)
EXTENDS RoleHierarchy, TLC

CONSTANTS u1, u2, ra, rb, rc, q1, q2

RoleSymmetry == Permutations(Role) \cup Permutations(Req) \cup Permutations(User)
=============================================================================
