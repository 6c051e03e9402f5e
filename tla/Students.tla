------------------------------- MODULE Students -------------------------------
(***************************************************************************)
(* Student and staff accounts and the program catalog                      *)
(* (api/routes_admin_students.py, api/routes_admin_staff.py,               *)
(* api/routes_admin_programs.py, core/approved_programs.py): accounts are  *)
(* created, edited, deactivated, deleted and deleted for good while their  *)
(* people log in.                                                          *)
(*                                                                         *)
(* A request of the staff loads what it needs and commits later; a flush   *)
(* writes the columns that changed since they were loaded.  A password is  *)
(* the number of times it was reset; a student code is its number.         *)
(***************************************************************************)
EXTENDS Naturals, FiniteSets, FiniteSetsExt

CONSTANTS
  Pupils,     \* users.id
  Logins,     \* login names, which are email addresses
  Programs,   \* the approved programs
  Desks,      \* request threads of the staff
  Entrances,  \* logins
  RollPlans,  \* which requests each desk may run, and the first state
  MaxResets,  \* bound on the resets of a password
  MaxCode,    \* bound on student codes
  Keep        \* a field a request does not send

VARIABLES
  rolls,      \* users, student_profiles and staff_profiles
  catalog,    \* the programs that are active
  places,     \* program_enrollments
  records,    \* the kinds of other records that refer to an account
  desks,      \* what each desk's request holds
  entries,    \* auth_sessions, and the logins on their way to one
  rollPlan,   \* the plan of this behaviour
  losses      \* history: the kinds of records deletions took along, by role

rollRows == <<rolls, catalog, places, records>>
rollVars == <<rollRows, desks, entries, rollPlan, losses>>

Roll ==
  [at: {"none", "here", "gone"}, login: Logins, code: 0..MaxCode, active: BOOLEAN,
   key: 0..MaxResets, program: Programs, role: {"student", "staff"}]
Place == {"none", "current", "lapsed"}
(* By the table that refers to the account: it is among the tables         *)
(* delete_student looks at, it is not, it follows the deletion (job        *)
(* reactions, and the three tables of the second factor), or it is a       *)
(* trainer's own (exclusive_links of delete_staff).                        *)
Kinds == {"listed", "unlisted", "reaction", "factor", "own"}
Change == [to: Programs \cup {Keep}, active: BOOLEAN \cup {Keep}, reset: BOOLEAN]
Errand ==
  [pc: {"idle"}]
  \cup [pc: {"create"}, login: Logins, program: Programs, code: 1..MaxCode,
        role: {"student", "staff"}]
  \cup [pc: {"update"}, who: Pupils, saw: Roll, had: [Programs -> Place], change: Change,
        ended: BOOLEAN, found: SUBSET Entrances]
  \cup [pc: {"delete"}, who: Pupils, saw: Roll, related: BOOLEAN,
        ended: BOOLEAN, found: SUBSET Entrances]
  \cup [pc: {"dismiss"}, who: Pupils, related: BOOLEAN]
  \cup [pc: {"enroll"}, program: Programs, who: SUBSET Pupils, status: Place]
Entry ==
  [pc: {"out"}] \cup [pc: {"checked", "in"}, who: Pupils, key: 0..MaxResets, late: BOOLEAN]

ASSUME RollAssumption ==
  /\ MaxResets \in Nat /\ MaxCode \in Nat /\ Programs # {}
  /\ \A x \in RollPlans :
       /\ x.rolls \in [Pupils -> Roll] /\ x.places \in [Pupils -> [Programs -> Place]]
       /\ x.changes \subseteq Change

RollTypeOK ==
  /\ rolls \in [Pupils -> Roll]
  /\ catalog \subseteq Programs
  /\ places \in [Pupils -> [Programs -> Place]]
  /\ records \in [Pupils -> SUBSET Kinds]
  /\ desks \in [Desks -> Errand]
  /\ entries \in [Entrances -> Entry]
  /\ losses \subseteq {"student", "staff"} \X Kinds

Unoccupied == [pc |-> "idle"]
Out == [pc |-> "out"]
RollInit ==
  /\ rollPlan \in RollPlans
  /\ rolls = rollPlan.rolls /\ places = rollPlan.places
  /\ catalog = Programs
  /\ records = [u \in Pupils |-> {}]
  /\ desks = [d \in Desks |-> Unoccupied]
  /\ entries = [l \in Entrances |-> Out]
  /\ losses = {}

-------------------------------------------------------------------------------
Begins(d, op) == desks[d] = Unoccupied /\ op \in rollPlan.runs[d]
Holds(d, q) == desks' = [desks EXCEPT ![d] = q]
AccountsOf(role) == {u \in Pupils : rolls[u].at = "here" /\ rolls[u].role = role}
Enrolled == AccountsOf("student")
Everyone == Enrolled \cup AccountsOf("staff")
(* Mutant: delete_staff reads the row without locking it.                  *)
RowOpen(u) == TRUE
(* delete_staff locks the row it is about to delete; writes of the row and *)
(* new references to it wait.                                              *)
RowUnlocked(u) == \A e \in Desks : desks[e].pc = "dismiss" => desks[e].who # u

EntriesOf(u) == {l \in Entrances : entries[l].pc = "in" /\ entries[l].who = u}
(* revoke_all_sessions has updated the session, and is not committed.      *)
SessionUnlocked(l) ==
  \A e \in Desks : desks[e].pc \in {"update", "delete"} => l \notin desks[e].found

(* The commit: the sessions found are revoked; a login that inserted its   *)
(* session since, or has not yet, is late.                                 *)
RevokedOf(u, found) ==
  [l \in Entrances |->
     IF entries[l] = Out \/ entries[l].who # u THEN entries[l]
     ELSE IF l \in found THEN Out ELSE [entries[l] EXCEPT !.late = TRUE]]

(* Creating: one creation at a time, of students and staff, looks at the   *)
(* logins, scans the codes of its kind and commits.                        *)
NextCode(role) == Max({0} \cup {rolls[u].code : u \in AccountsOf(role)}) + 1
EmailConflict(n) == \E u \in Everyone : rolls[u].login = n
CodesUnlocked == \A e \in Desks : desks[e].pc # "create"
AssignsCode(d, role, programs) ==
  /\ CodesUnlocked /\ NextCode(role) <= MaxCode
  /\ \E n \in Logins, g \in programs :
       /\ ~EmailConflict(n)
       /\ Holds(d, [pc |-> "create", login |-> n, program |-> g, code |-> NextCode(role),
                    role |-> role])
  /\ UNCHANGED <<rollRows, entries, rollPlan, losses>>
AssignCode(d) == Begins(d, "create") /\ AssignsCode(d, "student", catalog)
AssignStaffCode(d) ==
  Begins(d, "hire") /\ AssignsCode(d, "staff", {CHOOSE g \in Programs : TRUE})

(* The unique columns decide; a refused creation leaves nothing.           *)
CreateAccount(d) ==
  LET q == desks[d]
      free == ~EmailConflict(q.login) /\ \A u \in AccountsOf(q.role) : rolls[u].code # q.code
  IN
  /\ q.pc = "create" /\ \E u \in Pupils : rolls[u].at = "none"
  /\ \E u \in Pupils :
       /\ rolls[u].at = "none"
       /\ rolls' = IF ~free THEN rolls ELSE [rolls EXCEPT ![u] =
            [at |-> "here", login |-> q.login, code |-> q.code, active |-> TRUE,
             key |-> 0, program |-> q.program, role |-> q.role]]
       /\ places' = IF ~free \/ q.role = "staff" THEN places ELSE
            [places EXCEPT ![u] = [@ EXCEPT ![q.program] = "current"]]
  /\ Holds(d, Unoccupied)
  /\ UNCHANGED <<catalog, records, entries, rollPlan, losses>>

LoadsAccount(d, who) ==
  /\ \E u \in who, change \in rollPlan.changes :
       /\ change.to \in catalog \cup {Keep, rolls[u].program}
       /\ change.reset => rolls[u].key < MaxResets
       /\ Holds(d, [pc |-> "update", who |-> u, saw |-> rolls[u], had |-> places[u],
                    change |-> change, ended |-> FALSE, found |-> {}])
  /\ UNCHANGED <<rollRows, entries, rollPlan, losses>>

LoadStudent(d) == Begins(d, "update") /\ LoadsAccount(d, Enrolled)
(* A trainer has no program.                                               *)
LoadStaff(d) ==
  /\ Begins(d, "manage")
  /\ LoadsAccount(d, AccountsOf("staff"))
  /\ desks'[d].change.to = Keep

Sets(new, saw, now) == IF new \in {Keep, saw} THEN now ELSE new
(* A new program comes with an enrolment that is current.                  *)
PlaceAfter(had, now) == IF had = "current" THEN now ELSE "current"
(* Mutant: only a reset ends the sessions.                                 *)
EndsOnReset(change) == change.reset
EndsSessions(change) == change.reset \/ change.active = FALSE
EndSessions(d) ==
  LET q == desks[d] IN
  /\ q.pc \in {"update", "delete"} /\ ~q.ended
  /\ IF q.pc = "update" THEN EndsSessions(q.change) ELSE q.related
  /\ \A l \in EntriesOf(q.who) : SessionUnlocked(l)
  /\ Holds(d, [q EXCEPT !.ended = TRUE, !.found = EntriesOf(q.who)])
  /\ UNCHANGED <<rollRows, entries, rollPlan, losses>>

(* The enrolment in the new program is inserted, updated or left alone, by *)
(* what was loaded: it must still be missing, or still be there.           *)
UpdateAccount(d) ==
  LET q == desks[d]
      u == q.who
      to == q.change.to
      moves == to \notin {Keep, q.saw.program}
      now == rolls[u]
  IN
  /\ q.pc = "update" /\ now.at = "here" /\ RowUnlocked(u) /\ (q.change.reset => now.key < MaxResets)
  /\ EndsSessions(q.change) => q.ended
  /\ moves => /\ q.had[to] = "none" => places[u][to] = "none"
              /\ q.had[to] = "lapsed" => places[u][to] # "none"
  /\ rolls' = [rolls EXCEPT ![u] = [@ EXCEPT
       !.program = Sets(to, q.saw.program, now.program),
       !.active = Sets(q.change.active, q.saw.active, now.active),
       !.key = IF q.change.reset THEN now.key + 1 ELSE now.key]]
  /\ places' = IF ~moves THEN places
               ELSE [places EXCEPT ![u] = [@ EXCEPT ![to] = PlaceAfter(q.had[to], places[u][to])]]
  /\ entries' = IF EndsSessions(q.change) THEN RevokedOf(u, q.found) ELSE entries
  /\ Holds(d, Unoccupied)
  /\ UNCHANGED <<catalog, records, rollPlan, losses>>

RevokeStudentSessions(d) ==
  /\ Begins(d, "revoke")
  /\ \E u \in Enrolled :
       /\ \A l \in EntriesOf(u) : SessionUnlocked(l)
       /\ entries' = [l \in Entrances |-> IF l \in EntriesOf(u) THEN Out ELSE entries[l]]
  /\ UNCHANGED <<rollRows, desks, rollPlan, losses>>

-------------------------------------------------------------------------------
(* Deleting: what refers to the student is looked for first.               *)
HasPlace(u) == \E g \in Programs : places[u][g] # "none"
HasRelatedRecords(u) == HasPlace(u) \/ "listed" \in records[u]
CheckRecords(d) ==
  /\ Begins(d, "delete")
  /\ \E u \in Enrolled :
       Holds(d, [pc |-> "delete", who |-> u, saw |-> rolls[u],
                 related |-> HasRelatedRecords(u), ended |-> FALSE, found |-> {}])
  /\ UNCHANGED <<rollRows, entries, rollPlan, losses>>

Deactivate(d) ==
  LET q == desks[d] IN
  /\ q.pc = "delete" /\ q.ended /\ rolls[q.who].at = "here"
  /\ rolls' = [rolls EXCEPT ![q.who] =
       [@ EXCEPT !.active = Sets(FALSE, q.saw.active, rolls[q.who].active)]]
  /\ entries' = RevokedOf(q.who, q.found)
  /\ Holds(d, Unoccupied)
  /\ UNCHANGED <<catalog, places, records, rollPlan, losses>>

Without(u) ==
  /\ \A l \in EntriesOf(u) : SessionUnlocked(l)
  /\ rolls' = [rolls EXCEPT ![u] = [@ EXCEPT !.at = "gone"]]
  /\ records' = [records EXCEPT ![u] = {}]
  /\ entries' = RevokedOf(u, Entrances)

(* A foreign key without ON DELETE refuses; the others' rows go along.     *)
Restricting == {"listed", "unlisted"}
DeleteStudentRow(d) ==
  LET u == desks[d].who IN
  /\ desks[d].pc = "delete" /\ ~desks[d].related /\ rolls[u].at = "here"
  /\ ~HasPlace(u) /\ records[u] \cap Restricting = {}
  /\ losses' = losses \cup ({"student"} \X records[u])
  /\ Without(u)
  /\ Holds(d, Unoccupied)
  /\ UNCHANGED <<catalog, places, rollPlan>>

(* The row is locked throughout: nothing new can refer to it.  Reactions   *)
(* are neither owned nor detached, and refuse it.                          *)
PermanentlyDeleteStudent(d) ==
  /\ Begins(d, "erase")
  /\ \E u \in Enrolled :
       /\ "reaction" \notin records[u]
       /\ places' = [places EXCEPT ![u] = [g \in Programs |-> "none"]]
       /\ Without(u)
  /\ UNCHANGED <<catalog, desks, rollPlan, losses>>

(* The row stays locked from the look at every table that refers to it to  *)
(* the commit; a trainer's own records go along.                           *)
GoingAlong == {"own", "factor"}
CheckStaffRecords(d) ==
  /\ Begins(d, "dismiss")
  /\ \E u \in AccountsOf("staff") :
       /\ RowUnlocked(u)
       /\ Holds(d, [pc |-> "dismiss", who |-> u, related |-> ~(records[u] \subseteq GoingAlong)])
  /\ UNCHANGED <<rollRows, entries, rollPlan, losses>>
DeleteStaff(d) ==
  LET u == desks[d].who IN
  /\ desks[d].pc = "dismiss" /\ ~desks[d].related
  /\ losses' = losses \cup ({"staff"} \X records[u])
  /\ Without(u)
  /\ Holds(d, Unoccupied)
  /\ UNCHANGED <<catalog, places, rollPlan>>

(* Another part of the system stores a record that refers to the account.  *)
StoreRecord(u, k) ==
  /\ u \in Everyone /\ RowUnlocked(u)
  /\ k \in rollPlan.kinds /\ k \notin records[u]
  /\ k \in {"reaction", "own"} => k = IF rolls[u].role = "student" THEN "reaction" ELSE "own"
  /\ records' = [records EXCEPT ![u] = @ \cup {k}]
  /\ UNCHANGED <<rolls, catalog, places, desks, entries, rollPlan, losses>>

-------------------------------------------------------------------------------
(* The catalog and its enrolments.                                         *)
UpdateProgram(d) ==
  /\ Begins(d, "program")
  /\ \E g \in Programs : catalog' \in {catalog \cup {g}, catalog \ {g}}
  /\ UNCHANGED <<rolls, places, records, desks, entries, rollPlan, losses>>

LoadEnrollment(d) ==
  /\ Begins(d, "enroll")
  /\ \E g \in catalog, who \in SUBSET Enrolled, s \in {"current", "lapsed"} :
       Holds(d, [pc |-> "enroll", program |-> g, status |-> s,
                 who |-> {u \in who : places[u][g] = "none"}])
  /\ UNCHANGED <<rollRows, entries, rollPlan, losses>>

EnrollStudents(d) ==
  LET q == desks[d] IN
  /\ q.pc = "enroll"
  /\ \A u \in q.who : u \in Enrolled /\ places[u][q.program] = "none"
  /\ places' = [u \in Pupils |->
       IF u \in q.who THEN [places[u] EXCEPT ![q.program] = q.status] ELSE places[u]]
  /\ Holds(d, Unoccupied)
  /\ UNCHANGED <<rolls, catalog, records, entries, rollPlan, losses>>

ChangesPlace(d, op, statuses) ==
  /\ Begins(d, op)
  /\ \E u \in Pupils, g \in Programs, s \in statuses :
       /\ places[u][g] # "none"
       /\ places' = [places EXCEPT ![u] = [@ EXCEPT ![g] = s]]
  /\ UNCHANGED <<rolls, catalog, records, desks, entries, rollPlan, losses>>
UpdateEnrollment(d) == ChangesPlace(d, "status", {"current", "lapsed"})
RemoveEnrollment(d) == ChangesPlace(d, "remove", {"none"})

-------------------------------------------------------------------------------
(* A login checks the account, then inserts the session.         *)
CheckPassword(l) ==
  /\ entries[l] = Out /\ l \in rollPlan.entrances
  /\ \E u \in Everyone :
       /\ rolls[u].active
       /\ entries' = [entries EXCEPT ![l] =
            [pc |-> "checked", who |-> u, key |-> rolls[u].key, late |-> FALSE]]
  /\ UNCHANGED <<rollRows, desks, rollPlan, losses>>

InsertSession(l) ==
  /\ entries[l].pc = "checked" /\ entries[l].who \in Everyone /\ RowUnlocked(entries[l].who)
  /\ entries' = [entries EXCEPT ![l] = [@ EXCEPT !.pc = "in"]]
  /\ UNCHANGED <<rollRows, desks, rollPlan, losses>>

LeaveEntry(l) ==
  /\ entries[l] # Out /\ SessionUnlocked(l)
  /\ entries' = [entries EXCEPT ![l] = Out]
  /\ UNCHANGED <<rollRows, desks, rollPlan, losses>>

(* A request is refused or fails, and commits nothing.                     *)
GivesUp(d) ==
  /\ desks[d] # Unoccupied
  /\ Holds(d, Unoccupied)
  /\ UNCHANGED <<rollRows, entries, rollPlan, losses>>

RollNext ==
  \/ \E d \in Desks :
       \/ AssignCode(d) \/ AssignStaffCode(d) \/ CreateAccount(d)
       \/ LoadStudent(d) \/ LoadStaff(d) \/ EndSessions(d) \/ UpdateAccount(d)
       \/ RevokeStudentSessions(d)
       \/ CheckRecords(d) \/ Deactivate(d) \/ DeleteStudentRow(d)
       \/ PermanentlyDeleteStudent(d) \/ CheckStaffRecords(d) \/ DeleteStaff(d)
       \/ UpdateProgram(d) \/ LoadEnrollment(d) \/ EnrollStudents(d)
       \/ UpdateEnrollment(d) \/ RemoveEnrollment(d) \/ GivesUp(d)
  \/ \E u \in Pupils, k \in Kinds : StoreRecord(u, k)
  \/ \E l \in Entrances : CheckPassword(l) \/ InsertSession(l) \/ LeaveEntry(l)

RollSpec == RollInit /\ [][RollNext]_rollVars

-------------------------------------------------------------------------------
Cascaded == ({"student"} \X {"reaction", "factor"}) \cup ({"staff"} \X {"own", "factor"})
(* delete_student destroys no record of the student's but reactions to job *)
(* announcements and the rows of the second factor: whatever else is       *)
(* stored between its look at the records and its commit stops it.  Its    *)
(* docstring (routes_admin_students.py:495) promises to delete only who    *)
(* has no related records anywhere, which those two contradict.  Nor does  *)
(* delete_staff destroy more than the trainer's own records: the row lock  *)
(* it takes before the look keeps others from storing any until it commits *)
(* (routes_admin_staff.py:213-260).                                        *)
DeletionKeepsRecords == losses \subseteq Cascaded

(* A session of somebody whose password was reset, or who was deactivated  *)
(* or deleted, belongs to a login that was under way meanwhile             *)
(* (routes_admin_students.py:380-392, :516-520, routes_admin_staff.py:     *)
(* 170-185).                                                               *)
SessionsNeedOverlap ==
  \A l \in Entrances :
    LET e == entries[l] IN
    e.pc = "in" /\ ~e.late =>
      LET u == rolls[e.who] IN u.at = "here" /\ u.active /\ u.key = e.key
================================================================================
