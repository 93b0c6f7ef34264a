---------------------------- MODULE MCDashboard ----------------------------
(* Two schools with the same default scope, and a link to a third that is   *)
(* not this user's.                                                         *)
EXTENDS Dashboard

CONSTANTS a, b, x, g, h

MCSchools == <<a, b>>
MCScopeOf == [s \in SchoolIds |-> g]
=============================================================================
