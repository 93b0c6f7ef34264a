---------------------------- MODULE MCScraperRun ----------------------------
(* Two schools, which may share their account.  One has two assessments, of  *)
(* which the second may be added while the school is discovered.             *)
EXTENDS ScraperRun

CONSTANTS s1, s2, a1, a2, b1, acc, qd, other

MCSchoolOf == [a \in {a1, a2, b1} |-> IF a = b1 THEN s2 ELSE s1]
MCPageOf == [a \in {a1, a2, b1} |-> IF a = a2 THEN 0 ELSE IF a = a1 THEN 2 ELSE 3]
=============================================================================
