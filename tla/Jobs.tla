--------------------------------- MODULE Jobs ---------------------------------
(***************************************************************************)
(* Job announcements and the students' reactions to them                   *)
(* (api/routes_job_applications.py, crud/student_section_access.py, and    *)
(* the switches in routes_admin_settings.py and routes_admin_batches.py).  *)
(*                                                                         *)
(* A reaction locks a batch that gives its student access, then the        *)
(* settings row, then the job, and keeps the locks until its commit.  The  *)
(* student's enrolment is read and not locked.                             *)
(***************************************************************************)
EXTENDS Naturals

CONSTANTS
  Vacancies,  \* job_applications.id
  Learners,   \* students
  Groups,     \* batches
  Clickers,   \* request threads
  JobPlans,   \* which requests each thread may run, and the first state
  Reactions   \* JobReactionKind

VARIABLES
  jobs,       \* job_applications
  answers,    \* job_application_reactions
  sectionOn,  \* system_settings.job_applications_section_enabled
  gates,      \* for each batch, whether it is there, not cancelled, gives access
  classes,    \* batch_enrollments
  clicks,     \* what each thread's request holds
  jobPlan     \* the plan of this behaviour

jobRows == <<jobs, answers, sectionOn, gates, classes>>
jobVars == <<jobRows, clicks, jobPlan>>

Vacancy ==
  [status: {"none", "draft", "published", "archived"}, enabled: BOOLEAN, due: BOOLEAN]
Gate == [here: BOOLEAN, open: BOOLEAN, access: BOOLEAN]
Answers == Reactions \cup {"none"}
(* left: the enrolment that let the request in has been removed since.     *)
Click ==
  [pc: {"rest"}]
  \cup [pc: {"batch", "section"}, who: Learners, job: Vacancies, to: Answers,
        via: Groups, left: BOOLEAN]

JobTypeOK ==
  /\ jobs \in [Vacancies -> Vacancy]
  /\ \A j \in Vacancies : jobs[j].enabled => jobs[j].status = "published"
  /\ answers \in [Vacancies -> [Learners -> Answers]]
  /\ sectionOn \in BOOLEAN
  /\ gates \in [Groups -> Gate]
  /\ classes \in [Groups -> SUBSET Learners]
  /\ clicks \in [Clickers -> Click]

AtRest == [pc |-> "rest"]
NoVacancy == [status |-> "none", enabled |-> FALSE, due |-> FALSE]
JobInit ==
  /\ jobPlan \in JobPlans
  /\ jobs = [j \in Vacancies |-> NoVacancy]
  /\ answers = [j \in Vacancies |-> [u \in Learners |-> "none"]]
  /\ sectionOn = TRUE
  /\ gates = [g \in Groups |-> [here |-> TRUE, open |-> TRUE, access |-> TRUE]]
  /\ classes = [g \in Groups |-> {}]
  /\ clicks = [p \in Clickers |-> AtRest]

-------------------------------------------------------------------------------
Presses(p, op) == clicks[p] = AtRest /\ op \in jobPlan.runs[p]
Clicked(p, q) == clicks' = [clicks EXCEPT ![p] = q]

Visible(j) == jobs[j].status = "published" /\ jobs[j].enabled /\ ~jobs[j].due
GivesAccess(g) == gates[g].here /\ gates[g].open /\ gates[g].access
(* Mutant: the batch is locked only until the next statement.              *)
UntilSection == {"batch"}
(* When a request keeps the batch and the settings row locked.             *)
LocksBatch == {"batch", "section"}
LocksSection == {"section"}
BatchFree(g) ==
  \A p \in Clickers : clicks[p].pc \in LocksBatch => clicks[p].via # g
CanLock(g) == gates[g].here /\ BatchFree(g)
SectionFree == \A p \in Clickers : clicks[p].pc \notin LocksSection

(* require_student_section(lock=True).                                     *)
EnterThroughBatch(p) ==
  /\ \E u \in Learners, j \in Vacancies, g \in Groups, k \in Answers :
       /\ Presses(p, IF k = "none" THEN "unreact" ELSE "react")
       /\ u \in classes[g] /\ GivesAccess(g) /\ BatchFree(g)
       /\ Clicked(p, [pc |-> "batch", who |-> u, job |-> j, to |-> k, via |-> g,
                      left |-> FALSE])
  /\ UNCHANGED <<jobRows, jobPlan>>

(* _section_enabled(lock=True).                                            *)
EnterSection(p) ==
  /\ clicks[p].pc = "batch" /\ sectionOn /\ SectionFree
  /\ Clicked(p, [clicks[p] EXCEPT !.pc = "section"])
  /\ UNCHANGED <<jobRows, jobPlan>>

Answer(p) ==
  LET q == clicks[p] IN
  /\ q.pc = "section" /\ Visible(q.job)
  /\ answers' = [answers EXCEPT ![q.job] = [@ EXCEPT ![q.who] = q.to]]
  /\ Clicked(p, AtRest)
  /\ UNCHANGED <<jobs, sectionOn, gates, classes, jobPlan>>
SetReaction(p) == Answer(p) /\ clicks[p].to \in Reactions
RemoveReaction(p) == Answer(p) /\ clicks[p].to = "none"

(* A request is refused or fails, and commits nothing.                     *)
TurnedAway(p) ==
  /\ clicks[p] # AtRest
  /\ Clicked(p, AtRest)
  /\ UNCHANGED <<jobRows, jobPlan>>

-------------------------------------------------------------------------------
(* The administrators' requests.                                           *)
EditsJob(p, op, j, row) ==
  /\ Presses(p, op)
  /\ jobs' = [jobs EXCEPT ![j] = row]
  /\ UNCHANGED <<answers, sectionOn, gates, classes, clicks, jobPlan>>

CreateJob(p) ==
  \E j \in Vacancies :
    /\ jobs[j].status = "none"
    /\ EditsJob(p, "create", j, [status |-> "draft", enabled |-> FALSE, due |-> FALSE])

Editable == {j \in Vacancies : jobs[j].status \notin {"none", "archived"}}
UpdateJob(p) ==
  \E j \in Editable, d \in BOOLEAN : EditsJob(p, "edit", j, [jobs[j] EXCEPT !.due = d])

Publish(p) ==
  \E j \in Editable :
    EditsJob(p, "status", j, [jobs[j] EXCEPT !.status = "published", !.enabled = TRUE])
Unpublish(p) ==
  \E j \in Editable :
    EditsJob(p, "status", j, [jobs[j] EXCEPT !.status = "draft", !.enabled = FALSE])
MayEnable(j) == jobs[j].status = "published"
Enable(p) ==
  \E j \in Editable :
    /\ MayEnable(j)
    /\ EditsJob(p, "status", j, [jobs[j] EXCEPT !.enabled = TRUE])
DisableJob(p) ==
  \E j \in Editable : EditsJob(p, "status", j, [jobs[j] EXCEPT !.enabled = FALSE])
Archive(p) ==
  \E j \in Editable :
    EditsJob(p, "status", j, [jobs[j] EXCEPT !.status = "archived", !.enabled = FALSE])
ChangeJobStatus(p) ==
  Publish(p) \/ Unpublish(p) \/ Enable(p) \/ DisableJob(p) \/ Archive(p)

DeadlinePasses(j) ==
  /\ j \in Editable /\ ~jobs[j].due /\ jobPlan.days
  /\ jobs' = [jobs EXCEPT ![j] = [@ EXCEPT !.due = TRUE]]
  /\ UNCHANGED <<answers, sectionOn, gates, classes, clicks, jobPlan>>

EditJobApplicationsSection(p) ==
  /\ Presses(p, "section") /\ SectionFree
  /\ sectionOn' \in BOOLEAN
  /\ UNCHANGED <<jobs, answers, gates, classes, clicks, jobPlan>>

(* The batch's switch, and its status, which update_batch writes.          *)
UpdateStudentSectionAccess(p) ==
  /\ Presses(p, "access")
  /\ \E g \in Groups, on \in BOOLEAN :
       CanLock(g) /\ gates' = [gates EXCEPT ![g] = [@ EXCEPT !.access = on]]
  /\ UNCHANGED <<jobs, answers, sectionOn, classes, clicks, jobPlan>>
UpdateBatchStatus(p) ==
  /\ Presses(p, "access")
  /\ \E g \in Groups, on \in BOOLEAN :
       CanLock(g) /\ gates' = [gates EXCEPT ![g] = [@ EXCEPT !.open = on]]
  /\ UNCHANGED <<jobs, answers, sectionOn, classes, clicks, jobPlan>>
DeleteBatch(p) ==
  /\ Presses(p, "access")
  /\ \E g \in Groups :
       /\ CanLock(g)
       /\ gates' = [gates EXCEPT ![g] = [@ EXCEPT !.here = FALSE]]
       /\ classes' = [classes EXCEPT ![g] = {}]
  /\ UNCHANGED <<jobs, answers, sectionOn, clicks, jobPlan>>

AllocateToBatch(p) ==
  /\ Presses(p, "enrol")
  /\ \E g \in Groups, u \in Learners :
       gates[g].here /\ classes' = [classes EXCEPT ![g] = @ \cup {u}]
  /\ UNCHANGED <<jobs, answers, sectionOn, gates, clicks, jobPlan>>
RemoveFromBatch(p) ==
  /\ Presses(p, "enrol")
  /\ \E g \in Groups, u \in Learners :
       /\ classes' = [classes EXCEPT ![g] = @ \ {u}]
       /\ clicks' = [c \in Clickers |->
            IF clicks[c] # AtRest /\ clicks[c].who = u /\ clicks[c].via = g
            THEN [clicks[c] EXCEPT !.left = TRUE] ELSE clicks[c]]
  /\ UNCHANGED <<jobs, answers, sectionOn, gates, jobPlan>>

JobNext ==
  \/ \E j \in Vacancies : DeadlinePasses(j)
  \/ \E p \in Clickers :
    \/ EnterThroughBatch(p) \/ EnterSection(p)
    \/ SetReaction(p) \/ RemoveReaction(p) \/ TurnedAway(p)
    \/ CreateJob(p) \/ UpdateJob(p) \/ ChangeJobStatus(p)
    \/ EditJobApplicationsSection(p)
    \/ UpdateStudentSectionAccess(p) \/ UpdateBatchStatus(p) \/ DeleteBatch(p)
    \/ AllocateToBatch(p) \/ RemoveFromBatch(p)

JobSpec == JobInit /\ [][JobNext]_jobVars

-------------------------------------------------------------------------------
(* A reaction changes only while its job is open to students, the section  *)
(* is on, and the batch that let the student in still gives access; its    *)
(* enrolment may have been removed meanwhile                               *)
(* (routes_job_applications.py:117-133, student_section_access.py:13-28).  *)
ReactionsNeedAccess ==
  [][\A j \in Vacancies, u \in Learners :
       answers'[j][u] # answers[j][u] =>
         /\ Visible(j) /\ sectionOn
         /\ \E p \in Clickers :
              LET q == clicks[p] IN
              /\ q # AtRest /\ clicks'[p] = AtRest /\ q.who = u /\ q.job = j
              /\ GivesAccess(q.via) /\ (u \in classes[q.via] \/ q.left)]_jobVars
================================================================================
