------------------------- MODULE MCIngestionWorker -------------------------
(* Small instances of IngestionWorker: which school each run and file has,  *)
(* which assessment each file is about, and what it carries.                *)
EXTENDS IngestionWorker, TLC

CONSTANTS r1, r2, s1, s2, f1, f2, f3, w1, w2

OneSchool == [r \in Run |-> s1]
TwoSchools == [r \in Run |-> IF r = r1 THEN s1 ELSE s2]
FilesOfOne == [f \in File |-> s1]
FilesOfTwo == [f \in File |-> IF f = f1 THEN s1 ELSE s2]
SameSubject == [f \in File |-> "math"]
OwnSubject == [f \in File |-> IF f = f1 THEN "math" ELSE "ela"]
\* f1 and f2 are about the same assessment, f3 about another.
SharedSubject == [f \in File |-> IF f = f3 THEN "ela" ELSE "math"]
AllSubmissions == [f \in File |-> "submission"]
\* f2 is a question-data export.
OneQuestion == [f \in File |-> IF f = f2 THEN "question" ELSE "submission"]

WorkerSymmetry == Permutations(Worker)
=============================================================================
