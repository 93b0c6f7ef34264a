---------------------------- MODULE MCUserAdmin ----------------------------
(* Two administrators, one of them the super admin, and two accounts         *)
(* that are still to be invited.                                             *)
EXTENDS UserAdmin

CONSTANTS root, adm, new, late

(* The first request has more targets than there are workers, and one of    *)
(* them twice; the second crosses it on one account.                        *)
MCLists == [i \in Requests |-> IF i = 1 THEN {<<new, adm, late, new>>} ELSE {<<adm>>, <<new>>}]
=============================================================================
