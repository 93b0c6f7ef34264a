--------------------------- MODULE MCRequestQueue ---------------------------
(* Two scrapes of one school; the first repeats its POST.                    *)
EXTENDS RequestQueue

CONSTANTS c1, c2, s1

SameSchool == [c \in Scrape |-> s1]
FirstRetries == [c \in Scrape |-> IF c = c1 THEN 2 ELSE 1]
=============================================================================
