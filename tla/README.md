# Formal verification of the Arckenites portal

TLA+ specifications of the Arckenites academy portal (`src/`), TLC runs that
check them on small instances, and TLAPS proofs of the properties that matter
most for every instance.

The portal is a FastAPI application (`src/backend/app`) on PostgreSQL, used by a
static web front end (`src/arckenites-orange`), with a Windows agent for the lab
machines (`src/windows-lab-agent`) and a separate registration sheet for an
event (`src/inauguration`). A request runs in a thread of its own and one
database transaction (`database.get_db` rolls back what a failing request left),
at READ COMMITTED: every query sees what is committed when it starts, the ORM
session keeps the objects it has loaded, and only rows read FOR UPDATE are
protected between a check and the write that relies on it. Three background
loops run beside the requests: the lab watchdog, the community mail worker and
the clean-up of deleted uploads.

## 1. Inventory

For each part: its state, its operations, what it interacts with, what is hard
about it, and what makes it correct. The parts marked (M) are modelled.

**Trainer scheduling (M)** - `core/scheduling.py`, `core/scheduling_service.py`,
`api/routes_admin_trainer_scheduling.py`, `api/routes_staff_availability.py`.
State: availability rules, leave entries, the assignment history of each batch,
idempotency keys. Operations: recommend, assign with a preview and a confirm
key, add, change and remove availability. Interacts with batches through
`batches.trainer_id` and the class sessions; every check reads the *calendar*
computed from all of them. Hard: checks and writes of concurrent requests,
objects loaded before a lock and used after it, two lock orders, retries.
Correct when a trainer never has two classes at once, never loses the
availability a confirmed class needs, a retry never assigns twice, and the
history of a batch tells who taught it.

**Batches and class sessions (M, the part that books trainers)** -
`api/routes_admin_batches.py`, `api/routes_staff.py`. State: the batch row
(trainer, status, timetable, dates, capacity), its sessions, its enrolments.
Operations: create, edit and delete a batch, create, edit and delete a session
(administrator and trainer), enrol and remove students. Hard: the legacy editor
writes the row it loaded, with the columns it changed; the enrolment count is
read before the insert, and a creation or an edit does not compare the capacity with it.
Correct when edits never book a busy trainer and no allocation by itself takes a
batch past its capacity.

**VM lab access (M)** - `api/routes_lab_vm_agent.py`, `core/lab_vm_watchdog.py`,
`core/student_deletion.py`, `windows-lab-agent/agent_core.py`. State: a row per
machine with the current password of its one Windows account, a row per grant
(active, revoked, expired) with a copy of that password; on the machine, the
membership of the remote-desktop group, the account's password, the open
session, and the agent's memory of whom it let in. Operations: the sweep of
expired grants every 30 seconds, the rotation when a student is deleted, the
agent's heartbeat every 30 seconds and what it does with the answer. The routes
that granted and revoked access (`routes_admin_lab_vm.py`) are still in the
repository but not registered in `main.py` (and `tests/test_lab_access_removed.py`
says so), so the grants there are can only end. Hard: the agent polls, restarts
and forgets, heartbeats get lost, several students share an account. Correct
when nobody keeps access after a grant has ended.

**Community posts and their mail queue (M)** - `core/community_posts.py`,
`api/routes_admin_community_posts.py`. State: posts (draft, published), one
delivery row per post and member (pending, sending, sent, failed, skipped) with
attempts and due time. Operations: publish (enqueues the deliveries in the same
transaction), a worker that claims, sends, retries with a delay and gives up,
and recovers rows left in `sending`. Hard: a crash between sending and
recording, a slow send overtaken by the recovery of stale rows, two workers.
Correct when no member receives a post twice, and every delivery ends.

**Meetings (M)** - `api/routes_meetings.py`, `api/routes_admin_meetings.py`,
`core/meetings.py`. State: a meeting (scheduled, live, completed, cancelled), a
participant row per person (invited, waiting, admitted, joined, left, removed,
rejected), recordings. Operations: join by link, join a batch's class (creates
the meeting), admit, reject, remove, leave, start, end, cancel, delete, record.
None of them takes a lock. Hard: every handler writes what it decided from rows
another handler may have changed. Correct when a removed person stays out, a
batch has one live class, a meeting has one recording at a time, an ended
meeting has nobody in it and the limit on participants holds.

**Authentication and sessions (M)** - `api/routes_auth.py`, `core/deps.py`,
`core/rate_limit.py`, `crud/session.py`, `api/routes_sessions.py`. State: users
with a failed-login counter and a lock time, sessions with expiry and
revocation. Operations: login, logout, change of password, revocation of
sessions. Hard: an account is read before the lock on it and used after. Correct
when a revoked session is never accepted, and what ended a session also ends the
logins that were under way with the same proof.

**Multi-factor authentication (M)** - `core/mfa.py`, `api/routes_mfa.py`. State:
credential with the last used time step, recovery codes, challenges with
attempts, the policy. Hard: a factor is disabled, set up again and renewed while
sign-ins that rest on it are between two of their steps. Correct when a code, a
recovery code and a challenge are each used at most once, and a verified session
has proven the factor the account has.

**Google sign-in (M)** - `api/routes_google_auth.py`, `core/google_auth.py`.
State: linked Google accounts, login tickets with an expiry and the time of use.
Correct when a ticket opens at most one session.

**Community registration (M)** - `api/routes_community_auth.py`, `core/otp.py`.
State: a registration per email (pending, verified), hash and expiry of the
code, attempts, sends in a rolling window, verification token. Starts for one
address are serialised by an advisory lock; resends, checks of a code and the
choice of a password are not. Correct when an address is mailed one code per start and a
verification is not taken back by a request that read the row before it.

**Administrators, roles, settings (M)** - `api/routes_admin_users.py`,
`api/routes_admin_roles.py`, `api/routes_admin_settings.py`. State: users with
a role, roles with permissions, the settings row. Hard: what an administrator
may grant is checked against roles other requests are changing. Correct when one
active super administrator remains, and nobody hands out more than is held.

**Student and staff accounts, programs (M)** - `api/routes_admin_students.py`,
`api/routes_admin_staff.py`, `api/routes_admin_programs.py`. State: accounts
with a login name, a student code and a password, enrolments in programs, and
every record that refers to an account. Hard: a deletion looks for records and
then deletes; logins pass the check of a password that is then reset. Correct
when deletion destroys no record it promised to keep, and a reset or a
deactivation ends every session except of a login it overlapped.

**Support tickets, uploads, photos (M)** - `api/routes_admin_support.py`,
`routes_students.py`, `routes_staff.py`, `routes_profile.py`,
`core/student_deletion.py`, `core/upload_cleanup.py`. State: tickets with
messages and attachments, profile photos, the files on the disk, clean-up jobs.
Hard: files and rows are written in different places and any step can be the
last; workers share the jobs. Correct when a file a row refers to exists, the
files of a deleted student go, and a closed ticket is only opened by reopening it.

**Chat (M)** - `api/routes_chat.py`, `core/ws_manager.py`, the chat routes of
students and trainers, and the enrolments of `routes_admin_batches.py`. State:
messages, marks of what was read, enrolments, the process's registry of
connections. Hard: pushes are spread over time; a reader's mark is a time.
Correct when a message is shown, pushed or counted as unread, goes to its
readers' live connections only, and no allocation by itself takes a batch past its
capacity.

**Job applications (M)** - `api/routes_job_applications.py`. State: announcements
(draft, published, archived, enabled, with a deadline), one reaction per
student, and three switches (section, batch, enrolment). Correct when a reaction is
only stored while everything it needs is on.

**Inauguration tickets** - `inauguration/google-apps-script.gs`. State: one
sheet row per registration with the status of its ticket and email. Operations:
register, and the trigger that sends pending tickets; each under one
script lock.

**Others, not modelled** - single-row handlers (leads, enquiries, interviews,
materials), read-only views, lab slots (whose routes are not registered any
more), mail transport, migrations, deployment and the web pages. Section 21 and
PROJECT.json give the reasons.

## 2. Plan

| Module | What | Composed in | Status |
|--------|------|-------------|--------|
| `TrainerScheduling`, `TrainerSchedulingProofs` | assignments, sessions, availability and the batch editor, with the row locks; their safety proved | `MCCalendar`, `MCTrainerScheduling` | done, proved |
| `Availability`, `AvailabilityProofs` | the calendar those requests check: rules, entries, classes, days that pass | `MCCalendar` | done, proved |
| `CommunityMail`, `MailPromise`, `CommunityMailProofs` | the queue with crashes and workers; the abstract "at most one email" and its refinement | `MCCommunityMail` | done, proved |
| `LabAgent`, `LabAgentProofs` | the end of grants, the watchdog, the agent's poll and fail-safe | `MCLabAgent` | done, proved |
| `Meetings`, `MeetingsProofs` | the life of a meeting and its participants as unlocked read-then-write handlers | `MCMeetings` | done, proved |
| `SignIn`, `SignInProofs` | logins, factors, Google, sessions, administrators' accounts | `MCSignIn` | done, proved |
| `Registration`, `AccountsProofs` | one-time codes of community registrations | `MCSignIn` | done, proved |
| `Students`, `AccountsProofs` | student and staff accounts, programs, deletion against records and logins | `MCSignIn` | done, proved |
| `Jobs`, `AccountsProofs` | announcements, reactions and the switches they depend on | `MCSignIn` | done, proved |
| `AdminRoles`, `AccountsProofs` | roles, grants and who hands them out | `MCSignIn` | done, proved |
| `Support`, `ServicesProofs` | tickets, attachments, photos, the clean-up of files | `MCServices` | done, proved |
| `Chat`, `ServicesProofs` | rooms, direct messages, connections, allocations | `MCServices` | done, proved |

The components of `MCSignIn` share the users' table in the program but no row in
the instances checked, and so do those of `MCServices` and of `MCCalendar`: a behaviour is of one component, the
others keep still. What does cross the components is inside one module:
logins under account changes in `SignIn` and `Students`, files under deletions
in `Support`, enrolments under chat in `Chat` and under reactions in `Jobs`.

The proofs are laid out alike: per component one inductive invariant, a
conjunction of named parts; a lemma per group of actions that says how the step
disturbs it; the theorem. What each of the 40 properties has: a run always; a
theorem, for every value of the constants, unless section 21 says why not.

## 3. Scheduling: the model

`TrainerScheduling` has the committed tables - per batch its `row` (trainer,
status, the slots its weekly pattern meets, the slots of its extra sessions by
session id), per trainer the slots declared available (`avail`) and on `leave`,
per batch the `history` rows - and per request the program counter `pc`, the
parameters `req`, the copy of the batch it loaded (`seen`), whether it goes ahead over
conflicts (`override`) and the `reply`. `batchLock`, `userLock` and `userShare`
are the row locks. `staleWrite`, which no action reads, records that some request has committed
a batch that was not as it had loaded and checked it.

A request is one of the handlers and moves through the points where it reads,
locks and writes:

| request | code | steps |
|---|---|---|
| assign | `assign_trainer` | read and look up the key; lock the batch row; replay, reject or lock the trainers in order of id; check; commit or replay on a lost race for the key |
| session | `create_session`, `update_session`, trainer's `update_my_batch_session` | load the batch; lock its trainer; check; commit |
| cancel | `delete_session` | one step |
| edit | `create_entry`, rule and entry handlers | lock the trainer; note what is uncovered already; write, compare, commit or roll back |
| patch | `create_batch`, `update_batch` | load; flush (row lock, and key share on the new trainer); lock the trainer if one has to be checked; check; commit the changed columns |

`Crash` ends a request at any point and `DeadlockAbort` is PostgreSQL's
detector; both release every lock. `FOR UPDATE` conflicts with `FOR UPDATE` and
with the `FOR KEY SHARE` of a foreign key check.

Abstractions. Time is a set of slots, one class long, in one week and in the
future, so two classes overlap when they have a slot in common and the weekly
load is a count of slots. A session may be moved from slot to slot as a whole.
Sessions without a time, which nothing checks, are left out. `override` stands for
an override request by an actor entitled to it. The two reads of the calendar in
`guard_confirmed_batches` are one step: the second reuses the first's objects.
Availability is edited one slot at a time; sections 6 and 7 have the calendar as
it is computed. Not modelled: deleting a batch, changing its dates, notices, and
a trainer's account becoming inactive.

## 4. Scheduling: properties and runs

- `TypeOK`: the type invariant.
- `NoDoubleBooking`: no trainer has two confirmed classes in one slot, provided
  every class lies between its batch's dates.
- `DoubleBookingNeedsStaleWrite`: a double-booking can only follow the commit of
  a batch that changed after its request had loaded it.
- `HistoryIsChain`: each history row starts at the trainer the one before ended
  at, and the last names the batch's trainer.
- `RetriesAreIdempotent`: all successful requests with one key have one history row and
  one answer.
- `EditsKeepClassesCovered`: a step that takes availability away uncovers no class
  that was covered, unless some request has committed a batch that was no longer the
  one it had loaded and checked. Such a commit adds classes to a trainer whose lock it does
  not hold, also between an edit's check and its commit.
- `NoDeadlock`: assignments never wait on each other in a cycle.
- `SomeRequestProceeds`: while a request is under way, one can go on. Requests of
  other kinds can wait on each other (batch row against trainer row, key share
  against update), and then the database's detector has a victim; nobody waits
  for a lock that an ended request left.

| run | instance | result |
|---|---|---|
| `scheduling_workflow` | 3 assignments, 2 keys, 2 batches, 2 trainers, 2 slots; and the calendar of section 6 | pass |
| `scheduling_mixed` | 2 requests of any kind, three databases | pass |
| `scheduling_race` | 1 assignment against 1 session | violation |

Why the bounds are enough: a double-booking needs two batches, one trainer and
one slot, the second trainer and slot let a request move a class away; two
requests of every pair of kinds meet in every order, and three assignments add
the one that overtakes two others on one key. Databases are chosen so that the interesting checks can go both
ways; they are listed in `MCTrainerScheduling`.

The violation is a disagreement of the code with its own comment:
`enforce_session_slot` checks the calendar of the trainer the request loaded
before any lock. An assignment that commits in between leaves the new trainer
double-booked, against "every assignment / availability mutation takes this
lock first, so concurrent writers ... no double-booking" (`scheduling.py:263`).

Two properties are stated with care for the same reason. `NoDoubleBooking` has
its proviso because `required_occurrences` looks only between the batch's dates,
while a session may be dated outside them and is on the calendar: one assignment
of such a batch can double-book. `HistoryIsChain` is checked for assignments
only, because `update_batch` reads the previous trainer without a lock and writes
it to the history later.

No fairness is assumed: a request has finitely many steps, each nearer to its
answer, so what could keep it from ending is a wait for ever, which
`SomeRequestProceeds` excludes.

## 5. Scheduling: what is proved

`TrainerSchedulingProofs`, checked by TLAPS for all values of the constants that satisfy the
assumptions of `TrainerScheduling` (finite sets are not needed; trainers are
numbers because locks are taken in order of id):

- `TypeCorrect`: `Spec => []TypeOK`.
- `DoubleBookingSafe`: `Spec => []DoubleBookingNeedsStaleWrite`. Any number of requests of
  every kind, with crashes and aborts.
- `WorkflowNeverDoubleBooks`: with assignments and availability edits only,
  `Spec => []NoDoubleBooking`: `staleWrite` is never set in that workflow. The proviso of
  `NoDoubleBooking` stays: classes outside their batch's dates are exempt.

The inductive invariant `IInv` adds to the property: `PcKind` (a request is only
at the points of its kind), `LockInv` (a user lock is exclusive), `RowInv` (a request
past the batch lock holds it and its copy of the row is the committed one),
and `CheckedInv` (a request past its check holds the trainer's lock and, as long as nothing
stale was committed, the slots it will write are free on that trainer's
calendar). The last is the heart of the argument: between check and commit
nobody else can add a class to the trainer's calendar, because every writer that adds one holds
the trainer's lock. It is not true of a session whose batch was
reassigned, which is what `staleWrite` records and what `scheduling_race` shows.

The other theorems rest on parts of it and on invariants of their own:

- `RetriesSafe`: `Spec => []RetriesAreIdempotent`, with all kinds of requests, crashes
  and aborted deadlocks. `OneRowPerKey` and `Answered` (an assignment that was answered has a
  row with its key, batch and trainer) are inductive together with
  `OneAnswer` (no answer before the end).
- `EditsCover`: `Spec => EditsKeepClassesCovered`, with its exemption of stale commits, which
  three overlapping requests need. `EditInv` says, while `staleWrite` is not set, that what an edit that
  has passed its check would newly uncover is still nothing: it holds its trainer, so
  the calendar of that trainer can only shrink, and nobody else writes its availability.
- `HistoryChained`: `Spec => []HistoryIsChain` if the batch editor is not among the
  requests. With it the property is false, for the reason given in section 4.
- `PageNeverDeadlocks`: `Spec => []NoDeadlock` if the requests are assignments, availability
  edits and cancellations - those whose locks are all taken in one order, the batch
  and then trainers by id. `OrderInv` says that whoever holds a trainer holds every smaller
  one it wants; each request of a cycle would then wait for a larger id than the one
  before (`WaitsUpwards`), and no finite cycle rises at every step (`NoRisingCycle`).

Model-checked only: `SomeRequestProceeds`, which is about ENABLED and so beyond the
prover.

## 6. The calendar: the model

`Availability` computes what section 3 takes as given: from a trainer's weekly
rules and dated entries, and from the timetables and sessions of the batches, the
hours that are free, the conflicts an assignment would meet, who is suitable and
in which order they are recommended, which windows are offered when nobody is,
what the pages of a trainer's week show, and which edits are refused. `calendars`,
`courses` and `expertise` are the tables, `clock` is now, `agreed` is history: how
far the assignment of a course looked, and whether it found it free of leave and
inside the declared hours.

| action or operator | code |
|---|---|
| `Merge`, `Subtract`, `Clip`, `IsCovered`, `Touches` | the interval functions of `core/scheduling.py` |
| `Occurrences`, `RequiredWindow`, `StillToTeach` | `class_occurrences`, `required_occurrences` |
| `RuleIntervals`, `Blocked`, `Bookable`, `FreeTime` | the trainer's calendar |
| `ConflictsOf`, `Suitable`, `Alternatives`, `Recommend` | the conflicts, the suitable trainers, `alternative_slots`, `recommend` |
| `CreateRules`, `UpdateRule`, `DeleteRule`, `CreateEntry`, `UpdateEntry`, `DeleteEntry` | the handlers of `routes_staff_availability.py` |
| `PreferredRatio`, `PeakWeek`, `PointsFor`, `Ranked` | `evaluate`, `score_breakdown`, the order of `recommend` |
| `Segments`, `HoursShown`, `SlotStatus`, `Period` | `build_calendar` and the list of trainers |
| `Assign`, `SetExpertise` | an assignment with its override; the programs a trainer teaches |
| `TimePasses` | time |

Every request is one step, since each holds the trainer's lock from its first
read to its commit; sections 3 to 5 are about how they meet. Abstractions: times
are whole units of one time zone, so daylight saving is left out; notices,
reviews and the trainer's account becoming inactive are left out. Points are
whole tenths and ratios whole thousandths, rounded where the code rounds; a half
is rounded up, where the code's fractions decide.

The model keeps what the code does at its edges. A rule that starts today cannot
be deleted or replaced: it would end before it starts, which the table refuses.
A change that starts later extends the old rule up to the day before, whatever
its end was. A rule may be created, or a future rule moved, so that it starts in
the past: only its end is looked at, and so the past can gain hours. Only the
first day's piece of a free interval is offered as an alternative window. In the
first and last week, the load counts a trainer's other classes only between the
first and the last required one. The expertise in a program selects the
recommended, and is not asked for at the assignment.

## 7. The calendar: properties and runs

- `ClassesFit`: as far as its assignment looked, a class that lies ahead meets no
  other such class of its trainer, and lies in declared time without leave unless it was
  assigned with an override, whatever the trainer has edited since. "Looked"
  is `LookedAt`: the window of an assignment starts at the later of today and the batch's
  first date (scheduling.py:177-184), so a session of its own that is dated before
  the first date is never looked at, although the comment of `required_occurrences`
  (scheduling.py:188) speaks of all sessions that still lie in the future.
- `CalendarIsRight`: at every unit of time, the interval computation agrees with
  the meaning of rules, entries and timetables stated unit by unit.
  `AdviceIsRight`: a trainer is recommended exactly when every unit of every
  required class is free, and behind nobody who is no better placed, in the
  fullest week and in preferred hours, and in one of them worse by a tenth of a
  point: what a tenth is in hours and in units the property spells out, since two trainers
  nearer than that may be rounded to a tie, which the name decides. `OffersAreRight`: what is offered instead is free time that starts no
  earlier than now. `PagesAreRight`: a week's segments, its totals and the status
  of every slot in it say what holds at each unit, and no segment crosses midnight.
- `PastHoursKept`: no edit takes hours from a day that has passed, or changes
  their kind.

They are checked by `scheduling_workflow`, with days of four units, weeks of two
days, a horizon of two days, and four plans: classes without an end under edits of
rules, sessions outside the pattern under dated entries, overrides while trainers
gain and lose programs, and two trainers who can take the same classes. Two
trainers and two courses are what an overlap and a choice need; a week of two days has a
day on and a day off, rules that lie side by side, touch midnight or overlap, and
a horizon that ends inside the behaviour. Up to three edits or assignments are
made while three days pass. `ClassesFit` is about what an assignment looked at,
since a batch without an end is checked `HORIZON_DAYS` ahead only, and nothing checks
the days after.

### What is proved

`AvailabilityProofs` rests on `CalendarAssumption` only: days, weeks and the
horizon have some length, what the requests may ask for is typed as the schemas
type it, batches are finitely many, and the list of trainers by name names
each active one. The weekly limit may be none at all, as `score_breakdown` allows. Trainers, courses, rules,
entries and edits are any number.

The computation, from the bottom up:

- `MergeIsRight`, `SubtractIsRight`: from any finite set of intervals comes a list of
  intervals that do not touch (`Apart`), with exactly the units of the set; cutting
  one such list by another leaves one, with exactly the difference. Both are
  folds of the community modules, which are recursive functions: the equations of the fold are derived once
  (`Folds`, with the least position at which they could fail), and then an invariant
  of the list under construction is carried from position to position. In the sorted
  list the fold runs over every interval of the set has its rank as its place.
- `BookableIsRight`: for any rows the tables allow, what is bookable between two
  instants is, unit by unit, what is declared and not blocked. A rule that reaches into the span from
  the day before is among those that are looked at, and no rule lasts longer than its day.
- `FreeTimeIsFree`, `ConflictsAreRight`, `SegmentsShowWhatHolds`, `SlotStatusIsRight`: in
  every state, and for any span, the free time, the conflicts of an assignment, a page's segments and
  the status of a slot say what holds at each unit.
- `PagesShowTheCalendar`: the page of the week, its totals included. A total is a sum of lengths
  over a set, and the fold behind it again a recursive function: the sum of any function over a
  finite set exists and is determined by its equation (`SumExists`, `SumIs`, by the least
  cardinality at which they could fail), and where each term is the size of a set of its own
  it is the size of their union (`SumOfPieces`). The intervals of a list that do not touch have no unit
  in common (`ListLength`), and classes lie within days, so none is cut at the edge of the week.
- `RecommendationIsRight`: who is recommended, in which order, and what is offered when nobody is.
  Sorting is choosing the element of each rank: in a strict order of a finite set every rank from
  zero up is taken, once (`Places`), so the list has each element, once, in order
  (`RankingFacts`). The trainers' order is such an order because no two have one place in the list of names,
  and that of the windows because no two windows of one trainer start together. Points are rounded twice
  (`RoundedFacts`: rounding keeps the order, and a whole more rounds to one more), so that who is ahead by a
  tenth of a point, in hours of the fullest week or in units of preferred time, has more points
  (`BehindHasFewer`). A window offered is the first piece of a free interval, which is free (`OffersFacts`).
- `CalendarStaysRight`: `CalSpec => []CalendarIsRight`, all of it together.

The requests:

- `CalendarStaysInOrder`: the rows keep the check constraints of their tables. All six
  handlers of a trainer's calendar are first reduced to one shape, `Edit`: the rows after it are in
  order, rules that had begun before today are kept until yesterday at least, and either the edit is
  guarded (`KeepsCovered`) or it only adds rules.
- `PastHoursStay`: `CalSpec => PastHoursKept`, from `Edit` and the same types.
- `ClassesStayFit`: `CalSpec => []ClassesFit`. `ClassesFit` speaks of units and is not inductive: an edit
  is guarded for the classes that `StillToTeach` returns, as whole intervals inside
  the window that starts today. `Promises` says it of those intervals, `Ahead`: each lies
  inside the time that is open, unless it was an override, and meets no other of its trainer.
  An assignment establishes it through the conflicts it found empty, a guarded edit
  keeps it because a class that was covered stays covered, and as days pass what lies ahead only
  shrinks. `Promises` was model-checked on the instance of `scheduling_workflow` before it was proved.

## 8. Community mail: the model

`CommunityMail` models a published post from the administrator's request to the
last row of its delivery list. `posts` and `queue` are the tables (a row per
post and member: status, attempts, time since its claim, time until it is due),
`eligible` the members who are active with a verified address, `admins` the open
publish requests, `workers` the memory of each API process's mail worker,
`configured` whether there is a transport that accepts its credentials. `mails`
is history: the emails the transport accepted.

| action | code |
|---|---|
| `CreatePost` | `create_post` |
| `OpenPublish`, `ClosePublish`, `AbortPublish` | `publish_post` between its row lock and its commit, with `enqueue_deliveries_for_post` |
| `Toggle` | a registration, or `update_community_member` |
| `StartClaim`, `CommitClaim` | the first transaction of `deliver_pending_batch_once`: stale claims, the locking select, the commit |
| `NextRow` | `_deliver_one` up to the call: the row, its post and member are read |
| `Send` | `send_email_detailed`, with every outcome Graph and SMTP can have |
| `Record` | the rest of `_deliver_one` |
| `EndPass`, `Crash`, `Tick` | the loop; a stopped process or a database error; time |

A worker keeps the rows it claimed in memory and reads each when it comes to it,
so another worker may have failed its claim (`STALE_CLAIM_AFTER`) before that,
or while the transport is called; `Record` then overwrites the row, as the code
does. An outcome is a pair, what happened and what is reported: the email may
have left although the answer is "refused".

Abstractions. Texts, visibility and error codes are left out; an edit of a post
changes nothing else. Rows of a batch are taken in any order. Time is a
countdown per row in ticks of about a back-off. A pass may start at any time, so
the 20 second sleep is left out. A deployment's two overlapping processes are
two workers.

## 9. Community mail: properties and runs

- `TypeOK`: the type invariant.
- `PromiseKept`: the queue implements `MailPromise` (announced = published posts,
  owed = rows): a post is announced once, to the members of that moment, and
  each gets at most one email, whatever is retried, claimed twice or restarted.
- `StatusIsTruthful`: sent rows were accepted once; absent, pending and skipped
  ones never.
- `QueueDrains`: every pending row ends, once a transport stays configured.

| run | instance | result |
|---|---|---|
| `mail_workers` | 2 workers, 2 administrators, 2 members, 1 post, batches of 1, 2 attempts, 1 crash | pass |
| `mail_single` | 1 worker, 2 members, batches of 2, 3 attempts, Retry-After, 1 crash, fairness | pass |

Why the bounds are enough: a duplicate needs two workers, or one and a restart,
on one row; the second member gives a batch a row that is not being sent. A
claim is stale after one tick, so every step of a pass can be overtaken. Two
attempts contain a retry that is the last, three one that is not.

A remark on what no property says: rows of a batch that a stopped process
had claimed but not come to are marked failed ten minutes later, untried, though
`community_posts.py:302` says that anything not yet sent is picked up on the next
pass.

Fairness: weak fairness of each worker's pass and of time. The loop never ends
(exceptions are caught and the next pass starts), transport calls have timeouts,
and a request that holds a row lock ends or is aborted. Publishing, toggling
members and crashing are never obliged to happen. The queue may not drain while
no transport is configured, hence the hypothesis of `QueueDrains`.

## 10. Community mail: what is proved

`CommunityMailProofs`, for any posts, members, workers, administrators, batch
size, number of attempts, delays and crashes (assumptions: the numbers are natural
and `None` is no post and no pair):

- `MailTypeCorrect`: `Spec => []TypeOK`.
- `DeliveryListTruthful`: `Spec => []StatusIsTruthful`.
- `QueueKeepsPromise`: `Spec => PromiseKept`, the refinement of `MailPromise`.

`StatusIsTruthful` alone is not inductive: that a row recorded as pending was never
emailed depends on what the worker holds in memory. `MailInv` adds `Apart` (locked rows and
held rows belong to one worker each), `RowsAgree` (a row a worker holds is
sending or, when another failed the claim, failed - never pending, so nobody
can claim it again), `MailsAgree` (a row not yet sent by its holder has had no
email, and the report in memory agrees with the transport), `AtMostOnce`,
`Requests` (a publish request sees the post as it is, alone) and
`QueuedWhenPublished`. `QueueKeepsPromise` maps `Send` to `Deliver`,
`ClosePublish` to `Announce`, and every other step to a stutter.

Model-checked only: `QueueDrains`, which is liveness.

## 11. Meetings: the model

`Meetings` has the committed rows - `meetings`, the participants' `rows` (a
person can have several, since nothing prevents it) and the recordings `recs` -
and `reqs`, what each request thread is doing. `cleared` is history: who has been
admitted, or has been host; and so is `overtaken`: the requests whose meeting, or a
row of it, another one has changed since they read it.

No handler locks anything, so a request is a read step that runs the checks and
builds a *unit of work*, and a `Commit` that writes it over whatever has been
committed meanwhile: only the columns whose value the handler changed, the rows
it had found, the people and recordings it adds. The work fails where the
database or the ORM makes it fail: an updated row is gone, the meeting of a new
row is gone, a deleted meeting has a recording that was not loaded. `Abort`
covers every other error.

| action | code |
|---|---|
| `JoinClass`, `StartClass`, `OpenClass` | `join_batch_meeting`: with a live class, and with none (two transactions) |
| `StartByJoining`, `JoinMeeting`, `Enter` | `join_meeting`: the host's start and its commit; the checks up to the password; the count against the limit and the row |
| `Leave`, `Admit`, `Reject`, `HostRemoveParticipant` | the participants' and the host's handlers |
| `RemoveParticipant` | the administrators' removal, which may also be of the host |
| `StartMeeting`, `EndMeeting`, `Gather` | `host_start_meeting`, `host_end_meeting` (the checks, then the rows and recordings it closes), and the administrators' twins |
| `CreateMeeting`, `EditMeeting`, `CancelMeeting`, `DeleteMeeting`, `AddParticipant` | `routes_admin_meetings.py` |
| `StartRecording`, `StopRecording`, `DeleteRecording` | both routers |

Abstractions. The reads of a handler before its first write are one step, except
in `join_meeting` and the end of a meeting, whose second reads other requests
can come before. Batch, trainer and enrolments do not change. Passwords are an
error that may happen. `Settings` and `Edits` say what administrators choose and
change. Not modelled: a meeting's chat messages and notes, the conferencing
service, the files of recordings (a stop records a failure unless a file is
there, and nothing in the code makes one).

## 12. Meetings: properties and runs

- `TypeOK`: the type invariant.
- `RemovedStaysOut`: a removed or rejected person gets into a planned meeting again
  by an admission, or by an overtaken request on their own row, such as a join that had read
  the row before the removal; `RemovedNeverRejoins` says it of classes too, without the exception.
- `AdmittedFirst`: with a waiting room, nobody is inside who was never admitted.
- `LifecycleForward`: scheduled, live, completed, or cancelled before it is
  live, and deleted only when it does not run. Only an overtaken start, end, cancellation or
  deletion may leave this order, and not even that leads back to scheduled or back from a
  deletion; no join, answer or edit moves a meeting, however late it commits.

| run | instance | result |
|---|---|---|
| `meetings_in_turn` | one request at a time; administrator, 2 students; a class, or a planned meeting with limit 1 and waiting room or neither; edits, a recording | pass |
| `meetings_race` | 2 requests at a time of anybody: an administrator (the host) and a student; one planned meeting with limit 1 and waiting room or neither | pass |
| `meetings_removed` | one request at a time, one class | violation |

Which interleavings matter. With no locks, most rules hold only for requests that
do not overlap, and the model has the overlaps that break them: two joins that count the same
people take a meeting over its limit, a join that commits after the end leaves
somebody in a meeting that is over, and two joins of one person each insert a row. No
property is stated of these: a rule that two ordinary requests break
says no more than the missing lock does. What the stale writes cannot do is worth stating.
`LifecycleForward` and `RemovedStaysOut` hold for two requests of anybody, two
administrators' too, and name the one kind of overlap that breaks the plain rule: the
request that wrote was itself overtaken. The code does write such statuses
(`routes_meetings.py:177` sets LIVE over what was committed since it read SCHEDULED).
`AdmittedFirst` holds for these interleavings as long as an administrator does
not switch the waiting room on with people inside; that run edits the limit only. `cleared`
is for ever: that a removal takes the admission away is `RemovedStaysOut`. Two
requests are enough for a race of a pair of handlers, and for one that is overtaken. `MaxMeetings` is 1 where
a second meeting would only multiply states: no handler touches two meetings.

The violation is against the code's own words, with no
race at all: a person removed from a class comes back through the batch's
join, which does not call `require_member` (`routes_meetings.py:292-293`: "they
can't rejoin").

There is no liveness to state: no request is ever obliged to come.

`MeetingsProofs` proves, for any people, meetings, copies of rows, settings and requests
(assumptions: staff and trainer are users, administrators are staff, `None` is a
value of its own):

- `TypeCorrect`: `Spec => []TypeOK`.
- `LobbyHolds`: `Spec => []AdmittedFirst` if no edit switches the waiting room (`"waiting"`
  not in `Edits`). Any number of requests may overlap: a row whose owner may enter keeps
  that (`Lasting`), so a request that lets somebody in still may when it commits.
- `MeetingsMoveForward`: `Spec => LifecycleForward`.
- `RemovedPeopleStayOut`: `Spec => RemovedStaysOut`. Like the one before it, for any
  number of overlapping requests of anybody.

The hypothesis of `LobbyHolds` is one under which the run checks the property, and without it the
property is false. `Base`, the common part, is
`TypeOK`, `HostInv` (only staff and the trainer are hosts), `AbsentEmpty` (a meeting
that is not there has no rows) and `Sound` of each request: what a unit of work keeps of
its form whatever is committed before it. A read step is described once (`Fresh`,
what a handler has found when it builds its work), and each theorem needs only what becomes of
that until the commit (`Admits`, `Due`, `Spares`).

## 13. Lab machines: the model

`LabAgent` is one machine, the Hub's rows about it, the agent and the students.
`grants` and `live` are the rows and whether their `expires_at` is to come;
`known` the passwords each row has held, so that its student may know them;
`current` the password the Hub wants, a number that has never been used before
whenever it is changed; `agent` the agent's memory (where it is in its poll, the
consecutive failures, whether it remembers an account, the answer in flight);
`machine` the group, the password and the session. `late` counts, for the
property, the polls ended since no grant is live.

| action | code |
|---|---|
| `Expire` | time |
| `Sweep` | `sweep_expired_lab_vm_access_once` |
| `DeleteStudent` | `stage_student_deletion`, lines 113-127 and the deletion of the rows |
| `Ask`, `ReadPassword`, `Reply` | `agent_heartbeat`: the query and commit, the rows read again after it, the student |
| `Fails` | the except branch of `run_once`, the fail-safe's condition included; a heartbeat fails before or after the Hub has handled it |
| `SetPassword`, `AddToGroup`, `RemoveFromGroup`, `LogOff` | the rest of `run_once`, a step per Windows command, each of which may fail |
| `Restart` | a new process of the service; what the machine has been told stays |
| `LogOn`, `Disconnect` | students and Windows: a logon needs the group and the password |

Initially some students have live grants, with a password each, of which the
machine has the latest, and the agent has applied it or not. Abstracted: how
long polls take, passwords as text, protected accounts, events and the audit
log, several machines (a machine's rows and its agent touch no other machine's;
a student has one active grant).

## 14. Lab machines: properties, runs and proofs

- `AccessEndsInTime`: when no grant is live, then one poll after the grace
  period at the latest the account is out of the group and nobody is logged on,
  whether the Hub can be reached or not - as long as the agent has not been
  restarted and no Windows command has failed. `AccessEnds` is the same without
  that condition.
- `LockedOut`: if the agent is never disturbed, a student whose grant is gone ends
  up unable to log on for good, though others may share the account.
- `PasswordDies`: whatever disturbs the agent, if the network recovers, the
  account's password at least becomes one the former student does not know.

| run | instance | result |
|---|---|---|
| `lab_machine` | 2 students, grace 2, at most 1 restart and 1 failing command, fairness | pass |
| `lab_restart` | 2 students, grace 2, at most 1 restart | violation |

Two students are what sharing an account needs; a grace of 2 lets a success
reset the count in the middle, and any count behaves alike, as the proof shows.
Fairness: the watchdog's and the service's loops never end (`while True`; a pass
of the watchdog catches every exception, and a Windows command that hangs ends
the agent, which is `Restart`, and its bound says that this does not happen for
ever). `PasswordDies` has the hypothesis `NetworkRecovers`, strong fairness of
the Hub's two reading steps: a network that fails again and again also succeeds
again and again. Without it the password need not change, since the machine is
never told. Grants are never obliged to expire and students never to log off.

The violation: the agent removes and logs off only the account it remembers,
and a restart forgets. If the grant ends while the service is down, neither the Hub's
`none` nor the fail-safe takes the account out of the group, against the agent's
README (step 3 of section 1, and section 6). A failing `net localgroup /delete`
has the same effect. The second line of defence, the rotating password, still
works then, which is `PasswordDies`; an open session stays open.

`LabAgentProofs` proves, for any set of students, grace period and bounds:

- `TypeCorrect`: `Spec => []TypeOK`.
- `AccessEndsSafe`: `Spec => []AccessEndsInTime`.

The inductive invariant, `Undisturbed => InGrace`, relates what the agent believes to the count of
polls: an answer in flight that names a student was given while a grant was live
(so no late poll has ended yet), only an account the agent remembers is in the
group or logged on, and between polls a remembered account has had at most one
late poll more than there are consecutive failures, of which there are fewer
than `Grace`. Liveness is model-checked only.

## 15. Signing in: the model

`SignIn` has the users' rows (role, active, failed logins, lock), their MFA
credentials, linked Google accounts, sessions, challenges, login tickets and the
settings row. `reqs` is what each request thread has read and not yet used; `accepted`
is history: the proofs that were accepted, and those accepted a second time. A
secret, a set of codes and a time step are numbers, and a session carries the number of
the secret it was verified with, for the property.

| action | code |
|---|---|
| `Login`, `CountFailure` | `login`: the checks of the account and the password, the failure counted |
| `Decide`, `OpenSession`, `OpenChallenge` | `begin_or_finish_login`: the credential is read, a session or a challenge opens |
| `Callback`, `Link`, `Exchange`, `Claim` | Google: the account found, the link and the ticket inserted, the ticket claimed by one update |
| `Present`, `VerifyRight`, `VerifyWrong`, `EnrollStart`, `EnrollConfirm`, `EnrollRefused`, `CountRefusal` | the challenge, from its lock to the commit |
| `Act` and `SetupStart`, `SetupConfirm`, `SetupWrong`, `Disable`, `Regenerate`, `UpdatePolicy` | a session's requests about its factor, and the policy |
| `Logout`, `RevokeMySession`, `RevokeOtherSessions`, `ChangePassword` | the ways a user ends sessions |
| `CreateAdmin`, `UpdateAdmin`, `DeleteAdmin`, `RevokeAdminSessions`, `EditSettings` | administrators' accounts and maintenance |
| `Abort`, `Tick`, `Expire` | a failing request; time |

A request keeps what it has read before it waits for a row, and writes back only
the columns it changed. From its last lock to its commit nobody can change what it
decides on, so that is one step. Passwords and codes are right or wrong. Limits on
requests per address are left out (`core/rate_limit.py` keeps them in memory, and
they only refuse), and so are mails, trusted headers and cookies.

## 16. Registrations, accounts, jobs and roles: the models

**`Registration`**: `regs` (a registration per address), `members`, the codes mailed
and lapsed, and per request thread what it has read. A start is `StartRegistration`
(checks under the advisory lock), `ListRegistration` (the row committed),
`IssueForStart` (a code mailed, or not), `StoreOtp` (the code committed); a resend
begins at `ResendOtp`; `VerifyOtp` and `AnswerOtp`, `SetPassword` and `CreateMember`
are the two halves of their handlers. Only starts hold the lock. `doubled` is history for
the property.

**`Students`**: accounts of students and staff (`rolls`), programs (`catalog`),
enrolments in them (`places`), the kinds of other records that refer to an account
(`records`), requests of the staff (`desks`), logins and sessions (`entries`).
Creation is `AssignCode` or `AssignStaffCode` under the advisory lock and
`CreateAccount`; an edit is `LoadStudent` or `LoadStaff` and `UpdateAccount`; a
student's deletion is `CheckRecords` and then `Deactivate` or `DeleteStudentRow`, or
`PermanentlyDeleteStudent` in one; a trainer's is `CheckStaffRecords` and `DeleteStaff`
under the row's lock. A request that ends an account's sessions does so in a statement of
its own, `EndSessions`, before it commits: a session that a login opens in between is
not ended. `losses` is history: what deletions took. `StoreRecord` is any other part of the program storing a record.
The tables are grouped by what a deletion does with them: looked at, not looked at,
cascading, or a trainer's own.

**`Jobs`**: announcements, reactions, the section's switch, the batches' switches
and enrolments. A reaction is `EnterThroughBatch` (the batch locked), `EnterSection` (the settings
row locked) and `SetReaction` or `RemoveReaction` (the job checked, the commit).
Everybody who turns a switch off waits for the locks; removing an enrolment does not.

**`AdminRoles`**: roles with their grants, who has which, and the catalog of this
database. A request is a check (`CreateRole`, `UpdateRole`, `DeleteRole`,
`CreateAdminUser`, `UpdateAdminUser`) and a commit (`InsertRole`, `DeleteGrants` with
`InsertGrants`, `DropRole`, `PostOfficer`); `DeleteAdminUser` is one step. `SeedRbac`
is what a deployment does while the service is stopped. The routes modelled stand behind one
key, `Manage`. Two overlapping saves of a role leave the union of both sets of
grants, unless they share a key; a key that is missing from the catalog refuses the
save; and a deployment gives the system roles back the default grants that an
administrator has removed. The model has all three.

## 17. The run `accounts`

The five modules run side by side in `MCSignIn`, one of them in each behaviour. A *plan* is a
first state with the kinds of requests each thread may send: pairs of kinds that
meet. Names of properties are followed by the module.

- `AccountsTypeOK`: the type invariants.
- `ProofsAreSingleUse` (`SignIn`): a challenge, a ticket, the code of a time step and
  a recovery code are each accepted once.
- `SecondFactorCurrent` (`SignIn`): an open session that counts as verified has proven
  the secret its account has now, through disabling and setting up again.
- `LastSuperNeedsStale` (`SignIn`): the last active super administrator is lost only by an
  administrator's own change of role, authenticated before that administrator was
  made a super administrator.
- `StartsMailOnce` (`Registration`): a plain start mails no code while one that a
  start mailed is valid.
- `VerifiedStays` (`Registration`): only a start makes a verified address unverified.
- `DeletionKeepsRecords` (`Students`): a deletion destroys no record but a student's reactions
  to jobs and second factor (`models/mfa.py:12`, `:24`, `:31`), which cascade and are not looked for,
  and a trainer's own. The exceptions contradict the docstring of `delete_student`
  (`routes_admin_students.py:495`: "ONLY if zero related records anywhere in the schema"): the code
  deletes a student who has them.
- `SessionsNeedOverlap` (`Students`): a session of somebody reset, deactivated or
  deleted belongs to a login that was under way meanwhile.
- `ReactionsNeedAccess` (`Jobs`): a reaction changes only while its job is open, the section
  on, and the batch that let the student in gives access; the enrolment may have gone.
- `DelegationStaysInScope` (`AdminRoles`): what all administrators but super
  administrators may do grows only by a super administrator, by the default grants of
  a deployment, or by a request another one has overtaken since its check.

| module | instance |
|---|---|
| `SignIn` | 10 plans; 2 threads, 3 accounts, 3 sessions, 2 challenges, 1 ticket, 1 recovery code, 2 wrong answers allowed, steps 1 to 3, 2 secrets per account |
| `Registration` | 1 address, 2 threads, 2 sends, 2 wrong codes allowed, 2 codes |
| `Students` | 6 plans; 2 accounts, 2 logins, 2 programs, 2 desks, 1 login under way, 1 reset, codes 1 to 3 |
| `Jobs` | 3 plans; 1 job, 1 student, 1 batch, 2 threads |
| `AdminRoles` | 4 plans; 3 administrators, 3 roles of which 2 are system roles and 1 restricted, 2 keys, 2 threads |

Why this is enough: every hazard here is of two requests, one that has read and one that
commits in between, on one account, address, job or role. Two secrets contain a
factor that replaces another; three steps a code before, at and after the present
one; two wrong answers a last one and one that is not. The system may stop: no
request is obliged to come, hence no check for deadlock.

The exceptions in these properties are the code's: `SessionsNeedOverlap`,
`LastSuperNeedsStale`, `ReactionsNeedAccess` and `DelegationStaysInScope` name the one overlap
that the code leaves open, and say that there is no other.

`SignInProofs` and `AccountsProofs` prove every property of this run, for any users, sessions,
secrets, steps, codes, addresses, programs, records, jobs, batches, roles, keys
and any number of overlapping requests:

- `SignInTypeCorrect`, `ProofsAcceptedOnce`, `FactorsAreCurrent`, `LastSuperStays`;
- `RegTypeCorrect`, `StartsAreSingle`, `VerifiedLasts`;
- `RollTypeCorrect`, `RecordsSurvive`, `SessionsFit`;
- `JobTypeCorrect`, `ReactionsHaveAccess`;
- `RolesTypeCorrect`, `DelegationInScope`;
- `AccountsTypeCorrect`: the type invariants in the composition `AccountsSpec`.

The assumptions on the constants say that bounds are natural numbers (two time steps and
one secret at least), that a plan's first state has the types of the tables, and that the names
for "nobody" and "no role" are no one's. The inductive invariants:

- `SingleInv`: an accepted proof is behind the state it would be accepted in again.
  Secrets and sets of codes are numbered as they are made, so a proof of an old one never fits
  (`CredsSpent`, `GoneSpent`); a challenge being answered is open and locked by one request
  (`ChallengesHeld`, `HeldByOne`).
- `FactorsProven`: an open verified session has proven the present secret, and an
  account without a factor has no such session. The second half is what setting up
  again needs.
- `RegInv`: `StartsTakeTurns` (the advisory lock), `PlainStartsAlone` (until a plain start
  mails its code no start's code is valid), `RequestsKnow`. The proof showed that the model's first
  form of the history was too coarse: a resend may replace a code while a start is
  under way, so `begun` keeps which codes were mailed for a start.
- `RollInv`: `DesksKnow` (what a deletion looked at, under the lock of a trainer's row, is
  still so) and `EntriesCurrent` (a login that is not late has the account as it is).
  `RecordsSurvive` rests on the first for trainers, whose deletion removes whatever it
  finds; for students it rests on the foreign keys, which refuse a row that is still referred to.
- `JobInv`: `LetIn` (who holds the batch keeps its access; the enrolment alone can go).
- `RolesInv`: `StillInScope` (a request not overtaken passes on only what some ordinary
  administrator holds).

## 18. Support tickets and files: the model

`Support` has the requesters with their photos, tickets, messages, the message each
attachment belongs to, the disk (`files`), the clean-up jobs (`queue`: never tried,
then tried, in order), the request of each thread and the batch of each worker.

| action | code |
|---|---|
| `CreateTicket`, `CreateStaffTicket` | the students' and the trainers' handler |
| `LoadTicket` and `ReplyToTicket`, `StudentReply`, `StaffReply`, `AddInternalNote`, `ChangeStatus`, `CloseTicket`, `ReopenTicket`, `StudentReopen`, `StaffReopen` | a handler reads its ticket, then commits the columns it changed |
| `UploadTicketAttachment`, `StudentUpload`, `StaffUpload`, `SaveUpload`, `InsertAttachment` | the checks, the file, the row |
| `LoadPhoto`, `SaveProfilePhoto`, `CommitPhoto`, `DeleteOldPhoto` | `routes_profile.py` |
| `LoadTicketToDelete`, `UnlinkAttachment`, `DropTicket` | `delete_ticket`: files first, one by one, then the rows |
| `StageDeletion`, `DeleteStudent` | `stage_student_deletion` under the row's lock, with the jobs |
| `TakeJobs`, `CleanFile`, `CannotClean`, `CommitJobs`, `StopCleaner` | `upload_cleanup.py` |
| `Fail` | a request stops at any point |

A stored file has a name of its own, used once. Texts, priorities, assignees, mail and
the logged events are left out.

## 19. Chat: the model

`Chat` has the accounts, open sessions, the connections the process's manager
holds, a batch's roster and trainer, a pair's conversation, messages, and marks of what was
read. A message is sent in steps - `SendBatchChat`, `SendMyBatchChat` or
`ReceiveDirect`, then `CommitRoomText` and `ReadRecipients` or `HandleSend`, then
`SendToUser` and `Push` or `PushFails` per connection, and `EndSend` - and is stamped
with the time its transaction began. A reader loads (`GetBatchChat`, `GetMyBatchChat`,
`GetMessages`, `ConversationHistory`) and then marks (`MarkRead`). `LoadAllocation`,
`AllocateStudents` and `RemoveStudent` change the roster, `UpdateBatch` the capacity and
the trainer, `Connect`, `Disconnect`,
`EndSession` and `DeleteAccount` the connections and accounts. A batch starts with
whatever students and capacity it was created with, because `create_batch` does not compare them;
nor does `update_batch`, and a batch may have no capacity (`NoLimit`). A mark is a time in
the code and the set of messages begun by then in the model. `seenBy`, `pushes`, `barred`,
`crossed` are history, and so is `accepted`: how many students the batch was last left with by its
creation, by a cut of its capacity below what it held, or by an allocation that was overtaken.

## 20. The run `services`

- `ServicesTypeOK`: the type invariants.
- `FilesOutliveRows` (`Support`): a photo or attachment that a row refers to is on the disk;
  only the deletion of a ticket, which removes files first, can leave a row without.
- `ClosedNeedsReopen` (`Support`): a closed ticket changes its state by a reopening, or by a
  request that had read it before it was closed.
- `CleanupFinishes` (`Support`): the files of a deleted student go, whatever stops in
  between and though another file can never be removed.
- `MissedNeedsOverlap` (`Chat`): a message the reader's mark covers and the reader was never
  shown was on its way while the reader was loading.
- `PushedToReaders` (`Chat`): no message reaches a login that had ended when it was
  committed, or a user who has not been its reader since.
- `OverfullNeedsCause` (`Chat`): a batch with more students than its capacity was created so,
  had its capacity cut below what it held, or was filled by an allocation that another
  request (an allocation or an edit of the capacity) had overtaken since it counted.

| module | instance |
|---|---|
| `Support` | 8 plans; 1 student, 1 trainer, 1 ticket, 2 messages, 3 files, 2 threads, 2 workers, batches of 1 |
| `Chat` | 10 plans; 2 students, 1 trainer, 3 connections, 1 message of 2, 2 threads, capacities 1, 2 and none |

Batches of one make a job that always fails block the next, which the order of
the queue must prevent; a second file and a second worker are then enough. Two
connections of one user show the gap between two pushes.

Fairness (`SupFairness`) is of the workers only: weak for taking and committing a
batch, because the loop never ends (`upload_cleanup.py` catches what a pass
raises); strong, per file, for the outcome of a job and for its commit, so that a worker
that is stopped is not stopped each time before it is done, and an unlink that fails
succeeds at last unless the file is stuck for good. Requests and deletions are never obliged.

`ServicesProofs` proves every property of this run except `CleanupFinishes`, for any
people, tickets, messages, files, workers, connections, capacities and requests:

- `SupTypeCorrect`, `FilesStay`, `ClosedStays`;
- `MarksMissOnlyCrossed`, `PushesReachReaders`, `AllocationsFit`;
- `ServicesTypeCorrect`, and `ServicesAreBoth`: the composition implements the
  specification of both parts, fairness included, so what is proved of a part holds in it.

Assumptions: there are finitely many files and students; a plan's first rows refer to
rows that are there, and no two of them name one file (stored names are random,
`uploads.py`); connections, people and "nobody" are distinct; the two users of a conversation
are. Nothing relates a plan's roster to its capacity.

`SupInv` follows each file's name through the system. `NewUnknown`: nobody knows a name before its
file is saved. `BroughtOnce`: a saved file on its way to its row is known to one
request only. `PhotosAlone` and `OldPhotosGo`: a photo has one owner and is no attachment,
so a photo about to be replaced is used by nobody else, and by nobody once it has been. With these
the clean-up, which looks for a user of the file before it removes it, can be shown never
to remove one that is on its way to a row. `CleanFile` looks and removes in one step; since a
queued name is on its way to no row, the time between the two loses nothing.

`ChatInv` relates what requests hold to the history: `TalksRight` (no one a message is
still to be pushed to is barred from it; what was committed since a reader loaded is in
`crossed`), `SentByOne`, `MarksCover` (a mark covers begun messages, and those not shown
were crossed), `MembersMay` (open logins and present members are not barred),
`PushedThere`. The capacity is a bound on cardinalities: an allocation that was not overtaken
leaves a roster within the one it had counted and the students it adds.

## 21. Not modelled

Model-checked and not proved:

- liveness, the prover having no rule for fairness: `CleanupFinishes`, `QueueDrains`,
  `LockedOut`, `PasswordDies`; and `SomeRequestProceeds`, which is about ENABLED.

Not modelled:

- *Leads, enquiries, interviews, materials, notifications*: handlers that read and
  write one row each and depend on no other request's.
- *Dashboards, activity logs, exports, health*: read-only, or append-only.
- *Lab slots and the routes that granted lab access*: in the repository and not registered
  in `main.py`.
- *Inauguration tickets*: a script outside the portal, each of whose two operations
  runs under one lock.
- *Batches*: materials, the cascade of a deletion beyond what `Jobs` and `Chat` say, and the
  dates of a batch, which `Availability` takes as given.
- *Meetings*: chat, notes, the conferencing service, video tokens.
- *Mail and transports*: one call with an outcome, in `CommunityMail`; elsewhere mail
  is sent without being remembered.
- *Migrations, maintenance scripts, deployment*: run with the service stopped; what a
  deployment does to roles is `SeedRbac`.
- *The web pages*: they keep no state the server relies on.
- *Notices and availability requests*, wording, layout, limits per address: no property is about them.
