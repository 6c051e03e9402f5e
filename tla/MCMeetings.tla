------------------------------ MODULE MCMeetings ------------------------------
(* Instances of Meetings: an administrator, a trainer and students.        *)
EXTENDS Meetings, TLC

CONSTANTS admin, trainer, s1, s2, r1, r2

(* Every thread runs anybody's requests.                                   *)
Anybody == [r \in Requests |-> Users]

Lecture == [limit |-> None, waiting |-> FALSE, record |-> TRUE]
Seminar == [limit |-> 1, waiting |-> TRUE, record |-> TRUE]
LectureAndSeminar == {Lecture, Seminar}
NoPlans == {}

Threads == Permutations({r1, r2})
Students == Permutations({s1, s2})
===============================================================================
