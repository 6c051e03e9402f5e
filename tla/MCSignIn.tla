------------------------------- MODULE MCSignIn -------------------------------
(***************************************************************************)
(* Instances of SignIn, Registration, AdminRoles, Students and Jobs: who   *)
(* has an account, and what it may do.  They share no row here: in a       *)
(* behaviour one works and the others' plans are empty; registrations work *)
(* when nobody else does.                                                  *)
(***************************************************************************)
EXTENDS SignIn, Registration, Students, Jobs, AdminRoles, TLC

CONSTANTS
  u1, u2, u3, s1, s2, s3, c1, c2, r1, r2,  \* sign-ins
  a1, a2, e1, e2, p1, p2, o1, o2, l1,      \* student and staff accounts
  j1, b1, x1, x2,                          \* jobs
  q1, q2, q3, k1, y1, y2, y3, z1, z2       \* roles

Plan(roles, factor, signed, required, ends, first, second) ==
  [roles |-> roles, factor |-> factor, signed |-> signed, required |-> required,
   ends |-> ends, runs |-> r1 :> first @@ r2 :> second]
Roles(a, b) == u1 :> a @@ u2 :> b @@ u3 :> "new"

(* Two requests at a time, of the kinds that meet.                         *)
NoSignIn == Plan(Roles("new", "new"), {}, <<>>, FALSE, {}, {}, {})
SignInPlans == {
  NoSignIn,
  \* two sign-ins of one account with a factor
  Plan(Roles("student", "new"), {u1}, <<>>, FALSE, {"lock"}, {"login", "mistype", "verify"}, {"verify"}),
  \* one by password and one by Google
  Plan(Roles("student", "new"), {u1}, <<>>, FALSE, {"ticket", "challenge"}, {"google", "verify"}, {"google"}),
  \* an account that must set up a factor at its sign-in, in two tabs
  Plan(Roles("student", "new"), {}, <<>>, TRUE, {"setup"}, {"login", "enroll", "confirm"},
       {"enroll", "confirm"}),
  \* the factor is disabled and set up again while somebody signs in
  Plan(Roles("student", "new"), {u1}, s1 :> u1, FALSE, {}, {"disable", "setup", "enable"},
       {"login", "verify"}),
  \* the codes are made anew while they are used and sessions end
  Plan(Roles("student", "new"), {u1}, s1 :> u1, FALSE, {"session"}, {"login", "regenerate"},
       {"verify", "end"}),
  \* the policy, or maintenance, changes under a sign-in
  Plan(Roles("super", "student"), {u1}, s1 :> u1, FALSE, {}, {"require"},
       {"login", "enroll"}),
  Plan(Roles("super", "student"), {u1}, s1 :> u1, FALSE, {}, {"maintain"}, {"login"}),
  Plan(Roles("super", "new"), {u1}, s1 :> u1, FALSE, {}, {"disable"}, {"require", "login"}),
  Plan(Roles("super", "new"), {u1}, s1 :> u1, FALSE, {}, {"disable", "require"},
       {"login", "enroll", "confirm"}),
  \* a super administrator and one to be manage each other
  Plan(Roles("super", "admin"), {}, s1 :> u1 @@ s2 :> u2, FALSE, {}, {"manage"}, {"manage"}) }

-------------------------------------------------------------------------------
(* Students.                                                               *)
Absent == [at |-> "none", login |-> e1, code |-> 0, active |-> FALSE, key |-> 0,
           program |-> p1, role |-> "student"]
Standing == [Absent EXCEPT !.at = "here", !.code = 1, !.active = TRUE]
Trainer == [Standing EXCEPT !.role = "staff"]
Nowhere == [p \in Programs |-> "none"]
RollPlan(row, place, kinds, doors, changes, a, b) ==
  [rolls |-> a1 :> row @@ a2 :> Absent, places |-> a1 :> place @@ a2 :> Nowhere,
   kinds |-> kinds, entrances |-> doors, changes |-> changes, runs |-> o1 :> a @@ o2 :> b]
NoRolls == RollPlan(Absent, Nowhere, {}, {}, {}, {}, {})
Changes ==
  [to: {p2}, active: {Keep}, reset: {FALSE}]
  \cup [to: {Keep}, active: BOOLEAN, reset: {FALSE}]
  \cup [to: {Keep}, active: {Keep}, reset: {TRUE}]
InFirst == [Nowhere EXCEPT ![p1] = "current"]
TheRollPlans == {
  NoRolls,
  \* two desks create students
  RollPlan(Absent, Nowhere, {}, {}, {}, {"create"}, {"create", "program", "erase"}),
  \* a student logs in while two desks edit the account
  RollPlan(Standing, InFirst, {}, {l1}, Changes, {"update", "revoke"}, {"update", "delete"}),
  \* a student is deleted while records are stored and enrolments change
  RollPlan(Standing, InFirst, Kinds, {}, {}, {"delete"}, {"remove", "enroll", "status", "erase"}),
  \* the same of a trainer, whose login may also be asked for a student
  RollPlan(Absent, Nowhere, {}, {}, {}, {"hire"}, {"create", "hire"}),
  RollPlan(Trainer, Nowhere, {}, {l1}, Changes, {"manage"}, {"manage", "dismiss"}),
  RollPlan(Trainer, Nowhere, {"listed", "unlisted", "factor", "own"}, {l1}, {}, {"dismiss"}, {"dismiss", "hire"}) }

-------------------------------------------------------------------------------
(* Jobs: a student clicks while the switches move.                         *)
JobPlan(days, a, b) == [days |-> days, runs |-> x1 :> a @@ x2 :> b]
NoJobs == JobPlan(FALSE, {}, {})
TheJobPlans == {
  NoJobs,
  JobPlan(TRUE, {"react", "unreact"}, {"create", "status", "enrol", "edit"}),
  JobPlan(FALSE, {"react"}, {"create", "status", "section", "access", "enrol"}),
  JobPlan(FALSE, {"react", "create"}, {"react", "unreact", "status", "enrol"}) }

-------------------------------------------------------------------------------
(* Roles: the first administrator is a Super Admin, the second has the     *)
(* system role y1, the third no account or a role; y2 is restricted.       *)
DutyPlan(roles, third, rows, moved, a, b) ==
  [roles |-> roles, posts |-> q1 :> Super @@ q2 :> y1 @@ q3 :> third, permissions |-> rows,
   moved |-> moved, choices |-> {{Manage}, {k1}, {Manage, k1}}, runs |-> z1 :> a @@ z2 :> b]
NoDuties == DutyPlan(y1 :> {}, NoRole, Keys, {}, {}, {})
SystemGrants == y1 :> {Manage} @@ y2 :> {k1}
DutyPlans == {
  NoDuties,
  \* two save roles, and hand out the one that is neither held nor in scope
  DutyPlan(y1 :> {Manage} @@ y3 :> {k1}, NoRole, Keys, {q3}, {"update"}, {"update", "post"}),
  \* roles come and go while they are handed out, the restricted one too
  DutyPlan(SystemGrants, NoRole, {Manage}, {q3}, {"create", "delete"}, {"post", "dismiss"}),
  DutyPlan(y1 :> {Manage} @@ y3 :> {}, NoRole, Keys, {q3}, {"delete"}, {"update", "post"}),
  \* a Super Admin is replaced
  DutyPlan(y1 :> {Manage}, Super, Keys, {q1, q3}, {"post"}, {"post", "dismiss"}) }

-------------------------------------------------------------------------------
AccountsInit ==
  /\ Init /\ RegInit /\ RollInit /\ JobInit /\ RolesInit
  /\ Cardinality({x \in 1..4 : <<plan # NoSignIn, rollPlan # NoRolls, jobPlan # NoJobs,
                                rolePlan # NoDuties>>[x]}) <= 1
AccountsNext ==
  \/ /\ plan # NoSignIn
     /\ Next /\ UNCHANGED <<regVars, rollVars, jobVars, roleVars>>
  \/ /\ rollPlan # NoRolls
     /\ RollNext /\ UNCHANGED <<vars, regVars, jobVars, roleVars>>
  \/ /\ jobPlan # NoJobs
     /\ JobNext /\ UNCHANGED <<vars, regVars, rollVars, roleVars>>
  \/ /\ rolePlan # NoDuties
     /\ RolesNext /\ UNCHANGED <<vars, regVars, rollVars, jobVars>>
  \/ /\ plan = NoSignIn /\ rollPlan = NoRolls /\ jobPlan = NoJobs /\ rolePlan = NoDuties
     /\ RegNext /\ UNCHANGED <<vars, rollVars, jobVars, roleVars>>
AccountsSpec ==
  AccountsInit /\ [][AccountsNext]_<<vars, regVars, rollVars, jobVars, roleVars>>

(* Every variable holds what it is meant to hold.                          *)
AccountsTypeOK == TypeOK /\ RegTypeOK /\ RollTypeOK /\ JobTypeOK /\ RolesTypeOK

(* The challenges are alike: no plan names one.                            *)
Alike == Permutations({c1, c2})
===============================================================================
