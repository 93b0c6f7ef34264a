---------------------------- MODULE MCLtiLaunch ----------------------------
(* One person launches into two schools, and posts the first launch twice.  *)
EXTENDS LtiLaunch, TLC

CONSTANTS l1, l2, ann, s1, s2, u1, u2, x1, x2, y1, v1, v2, v3

MCPersonOf == (l1 :> ann) @@ (l2 :> ann)
MCSchoolOf == (l1 :> s1) @@ (l2 :> s2)
MCLaunchOf == (x1 :> l1) @@ (x2 :> l1) @@ (y1 :> l2)
MCTicketOf == (v1 :> x1) @@ (v2 :> x1) @@ (v3 :> x2)
=============================================================================
