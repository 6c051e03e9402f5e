------------------------------- MODULE Meetings -------------------------------
(***************************************************************************)
(* Meetings and their participants (api/routes_meetings.py,                *)
(* api/routes_admin_meetings.py, core/meetings.py): a meeting is planned   *)
(* by an administrator or opened as the class of a batch, goes live, and   *)
(* ends; each person has a participant row that says whether they wait,    *)
(* are admitted, inside, gone or turned away; recordings start and stop.   *)
(*                                                                         *)
(* No handler takes a lock and no column is unique per meeting and person. *)
(* A handler reads what it decides on, and later commits a unit of work    *)
(* with the columns it changed, whatever has been committed in between.    *)
(* So a request is a read step that builds the work, and a step Commit     *)
(* that writes it; the two handlers that read again after another request  *)
(* may have run (join, end) have a step for that.                          *)
(*                                                                         *)
(* The batch, its trainer and its students do not change here.             *)
(***************************************************************************)
EXTENDS Integers, FiniteSets

CONSTANTS
  Users,
  Admins,      \* users with the administrator role and every permission
  Staff,       \* users who may host a meeting
  Trainer,     \* the trainer of the batch
  Enrolled,    \* the students of the batch
  Ids,         \* ids of meetings
  MaxMeetings, \* bound on the meetings ever created
  ClassIds,    \* the ids that go to meetings of the batch
  Copies,      \* bound on the participant rows of one person in one meeting
  Recordings,  \* bound on the recordings of a meeting
  Settings,    \* what an administrator chooses: limit, waiting room, recording
  Edits,       \* the columns an administrator's edit changes
  Requests,    \* request threads
  Callers,     \* Callers[r]: the users whose requests thread r runs
  None         \* no limit, no row, no meeting

ASSUME Roles ==
  /\ Admins \subseteq Staff /\ Staff \subseteq Users
  /\ Trainer \in Users /\ Enrolled \subseteq Users
  /\ Callers \in [Requests -> SUBSET Users]
ASSUME Bounds ==
  /\ ClassIds \subseteq Ids /\ MaxMeetings \in Nat
  /\ Settings \subseteq [limit: Int \cup {None}, waiting: BOOLEAN, record: BOOLEAN]
  /\ None \notin Int \cup Ids \cup (Ids \X Users \X Copies)

VARIABLES
  meetings,  \* meetings[i]: the meeting's row
  rows,      \* rows[k]: the participant row k = <<meeting, user, copy>>
  recs,      \* recs[x]: the status of recording x = <<meeting, number>>
  reqs,      \* reqs[r]: the request thread r is running
  cleared,   \* history: <<meeting, user>> admitted at some time, or the host
  overtaken  \* history: requests whose meeting, or a participant row of it,
             \* has been changed by another request since they read it

vars == <<meetings, rows, recs, reqs, cleared, overtaken>>

Rows == Ids \X Users \X Copies
Tapes == Ids \X Recordings
MeetingStates ==
  {"absent", "SCHEDULED", "LIVE", "COMPLETED", "CANCELLED", "deleted"}
RowStates ==
  {"none", "INVITED", "WAITING", "ADMITTED", "JOINED", "LEFT", "REMOVED",
   "REJECTED"}
Barred == {"REMOVED", "REJECTED"}
TapeStates == {"none", "RECORDING", "FAILED", "deleted"}

Meeting ==
  [status: MeetingStates, host: Users, limit: Int \cup {None},
   waiting: BOOLEAN, record: BOOLEAN]
Columns == {"status", "host", "limit", "waiting", "record"}
Row == [role: {"HOST", "PARTICIPANT"}, status: RowStates]
NoMeeting ==
  [status |-> "absent", host |-> Trainer, limit |-> None, waiting |-> FALSE,
   record |-> FALSE]
NoRow == [role |-> "PARTICIPANT", status |-> "none"]

(* A unit of work: the columns of the meeting that change and the values   *)
(* they get; the rows updated and the people added, with their status; the *)
(* recordings closed or deleted; and whether a recording is added.         *)
Work ==
  [cols: SUBSET Columns, to: Meeting,
   rows: SUBSET Rows, add: SUBSET Users, role: {"HOST", "PARTICIPANT"},
   status: RowStates,
   tapes: SUBSET Tapes, tapeTo: TapeStates, tape: BOOLEAN]

(* What a thread is doing: "write" has a work to commit, and then a row to *)
(* join with, if the join was also the start; "enter" is a join that has   *)
(* passed the status and membership checks, with the caller's row, its     *)
(* status as loaded, the status the join will set and the limit it has to  *)
(* respect; "gather" is an end that has passed its checks; "open" is the   *)
(* first join of a class.                                                  *)
Request ==
  [pc: {"idle"}] \cup [pc: {"open"}, by: Users] \cup [pc: {"gather"}, id: Ids]
  \cup [pc: {"enter"}, id: Ids, key: Rows, was: RowStates,
        goal: {"JOINED", "WAITING"}, limit: Int \cup {None}]
  \cup [pc: {"write"}, id: Ids, work: Work, then: Rows \cup {None}]

TypeOK ==
  /\ meetings \in [Ids -> Meeting]
  /\ rows \in [Rows -> Row]
  /\ recs \in [Tapes -> TapeStates]
  /\ reqs \in [Requests -> Request]
  /\ cleared \subseteq Ids \X Users
  /\ overtaken \subseteq Requests

Init ==
  /\ meetings = [i \in Ids |-> NoMeeting]
  /\ rows = [k \in Rows |-> NoRow]
  /\ recs = [x \in Tapes |-> "none"]
  /\ reqs = [r \in Requests |-> [pc |-> "idle"]]
  /\ cleared = {}
  /\ overtaken = {}

-------------------------------------------------------------------------------
(* Units of work.                                                          *)

(* Only columns whose value differs from the loaded one are written.       *)
Changed(old, new) == {c \in Columns : old[c] # new[c]}
MeetingWork(cols, new, keys, tapes, tapeTo) ==
  [cols |-> cols, to |-> new, rows |-> keys, add |-> {}, role |-> "PARTICIPANT",
   status |-> "LEFT", tapes |-> tapes, tapeTo |-> tapeTo, tape |-> FALSE]
PeopleWork(id, keys, add, role, status) ==
  [cols |-> {}, to |-> meetings[id], rows |-> keys, add |-> add, role |-> role,
   status |-> status,
   tapes |-> {}, tapeTo |-> "FAILED", tape |-> FALSE]
TapeWork(id, tapes, tapeTo, tape) ==
  [cols |-> {}, to |-> meetings[id], rows |-> {}, add |-> {},
   role |-> "PARTICIPANT", status |-> "LEFT",
   tapes |-> tapes, tapeTo |-> tapeTo, tape |-> tape]

Unlike(k, status) == {j \in {k} : rows[j].status # status}
WithStatus(id, status) == [meetings[id] EXCEPT !.status = status]

-------------------------------------------------------------------------------
(* Who may do what.                                                        *)

Exists(id) == meetings[id].status \notin {"absent", "deleted"}
RowsOf(id, u) == {k \in {id} \X {u} \X Copies : rows[k].status # "none"}

(* require_member lets the host in without a row, and others by any one of *)
(* their rows that is not barred; a row with the host's role moderates.    *)
(* Mutant: a removed person has standing by their row.                   *)
UnbarredStanding(id, u, k) ==
  IF meetings[id].host = u THEN k = None ELSE k # None
Standing(id, u, k) ==
  IF meetings[id].host = u THEN k = None
  ELSE k # None /\ rows[k].status \notin Barred
Moderating(id, u, k) ==
  Standing(id, u, k) /\ (k # None => rows[k].role = "HOST")
Moderates(id, u) ==
  Exists(id) /\ \E k \in RowsOf(id, u) \cup {None} : Moderating(id, u, k)
(* The administrators' routes do the same as the host's.                   *)
Manages(id, u) == Exists(id) /\ (u \in Admins \/ Moderates(id, u))
Administers(id, u) == Exists(id) /\ u \in Admins

-------------------------------------------------------------------------------
(* Read steps of the handlers.                                             *)

Decides(r, id, work) ==
  /\ reqs[r].pc = "idle"
  /\ reqs' = [reqs EXCEPT ![r] =
                [pc |-> "write", id |-> id, work |-> work, then |-> None]]
  /\ UNCHANGED <<meetings, rows, recs, cleared>>

(* The administrator and the trainer open the batch's class; everybody     *)
(* else joins one that is live, whatever their row says.                   *)
HostsClass(u) == u \in Admins \cup {Trainer}
LiveClasses == {i \in ClassIds : meetings[i].status = "LIVE"}
JoinClass(r) ==
  \E u \in Callers[r], id \in LiveClasses :
    /\ HostsClass(u) \/ u \in Enrolled
    /\ \/ /\ RowsOf(id, u) = {}
          /\ Decides(r, id, PeopleWork(id, {}, {u},
               IF HostsClass(u) THEN "HOST" ELSE "PARTICIPANT", "JOINED"))
       \/ \E k \in RowsOf(id, u) :
            Decides(r, id, PeopleWork(id, Unlike(k, "JOINED"), {}, "PARTICIPANT", "JOINED"))
StartClass(r) ==
  \E u \in Callers[r] :
    /\ reqs[r].pc = "idle" /\ HostsClass(u) /\ LiveClasses = {}
    /\ reqs' = [reqs EXCEPT ![r] = [pc |-> "open", by |-> u]]
    /\ UNCHANGED <<meetings, rows, recs, cleared>>

(* A moderator's join of a planned meeting starts it, and commits that     *)
(* before the rest of the join.                                            *)
StartByJoining(r) ==
  \E u \in Callers[r], id \in Ids : \E k \in RowsOf(id, u) \cup {None} :
    /\ meetings[id].status = "SCHEDULED" /\ Moderating(id, u, k)
    /\ reqs[r].pc = "idle"
    /\ \E own \in (IF k # None THEN {k} ELSE IF RowsOf(id, u) = {} THEN {None}
                   ELSE RowsOf(id, u)) :
         reqs' = [reqs EXCEPT ![r] =
           [pc |-> "write", id |-> id, then |-> own,
            work |-> MeetingWork({"status"}, WithStatus(id, "LIVE"), {}, {}, "FAILED")]]
    /\ UNCHANGED <<meetings, rows, recs, cleared>>
(* A person who has left waits in the lobby again.                         *)
(* Mutant: a person who has left comes back without asking.              *)
MustWaitOnce(id, k) ==
  meetings[id].waiting /\ rows[k].status \notin {"ADMITTED", "JOINED", "LEFT"}
MustWait(id, k) ==
  meetings[id].waiting /\ rows[k].status \notin {"ADMITTED", "JOINED"}
JoinMeeting(r) ==
  \E u \in Callers[r], id \in Ids : \E k \in RowsOf(id, u) \cup {None} :
    /\ meetings[id].status = "LIVE" /\ Standing(id, u, k)
    /\ reqs[r].pc = "idle"
    /\ \E own \in (IF k = None THEN RowsOf(id, u) ELSE {k}) :
         LET moderator == Moderating(id, u, k) IN
         reqs' = [reqs EXCEPT ![r] =
           [pc |-> "enter", id |-> id, key |-> own, was |-> rows[own].status,
            goal |-> IF ~moderator /\ MustWait(id, own) THEN "WAITING" ELSE "JOINED",
            limit |-> IF moderator THEN None ELSE meetings[id].limit]]
    /\ UNCHANGED <<meetings, rows, recs, cleared>>
(* The limit is compared with a count made now.                            *)
Inside(id) == {k \in {id} \X Users \X Copies : rows[k].status = "JOINED"}
Enter(r) ==
  LET q == reqs[r] IN
  /\ q.pc = "enter"
  /\ q.limit # None => Cardinality(Inside(q.id)) < q.limit
  /\ reqs' = [reqs EXCEPT ![r] =
       [pc |-> "write", id |-> q.id, then |-> None,
        work |-> PeopleWork(q.id, IF q.was = q.goal THEN {} ELSE {q.key}, {},
                            "PARTICIPANT", q.goal)]]
  /\ UNCHANGED <<meetings, rows, recs, cleared>>

Leave(r) ==
  \E u \in Callers[r], id \in Ids : \E k \in RowsOf(id, u) \cup {None} :
    /\ Exists(id) /\ Standing(id, u, k)
    /\ \E own \in (IF k = None THEN RowsOf(id, u) ELSE {k}) :
         Decides(r, id, PeopleWork(id, Unlike(own, "LEFT"), {}, "PARTICIPANT", "LEFT"))

(* The host answers a person in the lobby; neither looks at the status.    *)
Answer(r, status) ==
  \E u \in Callers[r], k \in Rows :
    /\ Moderates(k[1], u) /\ rows[k].status # "none"
    /\ Decides(r, k[1], PeopleWork(k[1], Unlike(k, status), {}, "PARTICIPANT", status))
Admit(r) == Answer(r, "ADMITTED")
Reject(r) == Answer(r, "REJECTED")
(* An administrator can also remove the host's row.                        *)
Removes(r, k) ==
  /\ rows[k].status # "none"
  /\ Decides(r, k[1], PeopleWork(k[1], Unlike(k, "REMOVED"), {}, "PARTICIPANT", "REMOVED"))
HostRemoveParticipant(r) ==
  \E u \in Callers[r], k \in Rows :
    Moderates(k[1], u) /\ rows[k].role # "HOST" /\ Removes(r, k)
RemoveParticipant(r) ==
  \E u \in Callers[r], k \in Rows : Administers(k[1], u) /\ Removes(r, k)
AddParticipant(r) ==
  \E u \in Callers[r], id \in Ids, new \in Users :
    /\ Administers(id, u) /\ RowsOf(id, new) = {}
    /\ Decides(r, id, PeopleWork(id, {}, {new}, "PARTICIPANT", "INVITED"))

StartMeeting(r) ==
  \E u \in Callers[r], id \in Ids :
    /\ Manages(id, u) /\ meetings[id].status = "SCHEDULED"
    /\ Decides(r, id, MeetingWork({"status"}, WithStatus(id, "LIVE"), {}, {}, "FAILED"))
EndMeeting(r) ==
  \E u \in Callers[r], id \in Ids :
    /\ Manages(id, u) /\ meetings[id].status = "LIVE" /\ reqs[r].pc = "idle"
    /\ reqs' = [reqs EXCEPT ![r] = [pc |-> "gather", id |-> id]]
    /\ UNCHANGED <<meetings, rows, recs, cleared>>
TapesOf(id, states) == {x \in {id} \X Recordings : recs[x] \in states}
Gather(r) ==
  LET q == reqs[r] IN
  /\ q.pc = "gather"
  /\ reqs' = [reqs EXCEPT ![r] =
       [pc |-> "write", id |-> q.id, then |-> None,
        work |-> MeetingWork({"status"}, WithStatus(q.id, "COMPLETED"), Inside(q.id),
                             TapesOf(q.id, {"RECORDING"}), "FAILED")]]
  /\ UNCHANGED <<meetings, rows, recs, cleared>>
CancelMeeting(r) ==
  \E u \in Callers[r], id \in Ids :
    /\ Administers(id, u) /\ meetings[id].status = "SCHEDULED"
    /\ Decides(r, id, MeetingWork({"status"}, WithStatus(id, "CANCELLED"), {}, {}, "FAILED"))
DeleteMeeting(r) ==
  \E u \in Callers[r], id \in Ids :
    /\ Administers(id, u) /\ meetings[id].status # "LIVE"
    /\ Decides(r, id, MeetingWork({"status"}, WithStatus(id, "deleted"), {},
                        TapesOf(id, {"RECORDING", "FAILED"}), "deleted"))
EditMeeting(r) ==
  \E u \in Callers[r], id \in Ids :
    /\ Administers(id, u) /\ meetings[id].status \in {"SCHEDULED", "LIVE"}
    /\ \E host \in Staff, s \in Settings :
         LET new == [status |-> meetings[id].status, host |-> host, limit |-> s.limit,
                     waiting |-> s.waiting, record |-> s.record]
             cols == Changed(meetings[id], new)
         IN /\ cols # {} /\ cols \subseteq Edits
            /\ Decides(r, id, MeetingWork(cols, new, {}, {}, "FAILED"))

StartRecording(r) ==
  \E u \in Callers[r], id \in Ids :
    /\ Manages(id, u) /\ meetings[id].status = "LIVE" /\ meetings[id].record
    /\ TapesOf(id, {"RECORDING"}) = {}
    /\ Decides(r, id, TapeWork(id, {}, "FAILED", TRUE))
(* Mutant: the stop claims a file that nothing has captured.             *)
ClaimRecording(r) ==
  \E u \in Callers[r], x \in Tapes :
    /\ Manages(x[1], u) /\ recs[x] = "RECORDING"
    /\ Decides(r, x[1], TapeWork(x[1], {x}, "AVAILABLE", FALSE))
StopRecording(r) ==
  \E u \in Callers[r], x \in Tapes :
    /\ Manages(x[1], u) /\ recs[x] = "RECORDING"
    /\ Decides(r, x[1], TapeWork(x[1], {x}, "FAILED", FALSE))
DeleteRecording(r) ==
  \E u \in Callers[r], x \in Tapes :
    /\ Administers(x[1], u) /\ recs[x] \in {"RECORDING", "FAILED"}
    /\ Decides(r, x[1], TapeWork(x[1], {x}, "deleted", FALSE))

-------------------------------------------------------------------------------
(* Commits.                                                                *)

Unused == {i \in Ids : meetings[i].status = "absent"}
Absent(ids) ==
  {i \in ids \cap Unused : Cardinality(Ids \ Unused) < MaxMeetings}
FreeCopy(id, u) == CHOOSE c \in Copies : rows[<<id, u, c>>].status = "none"
HasFreeCopy(id, u) == \E c \in Copies : rows[<<id, u, c>>].status = "none"

(* The host and the invited people get rows with the meeting.              *)
CreateMeeting(r) ==
  \E u \in Callers[r] \cap Admins, id \in Absent(Ids \ ClassIds), host \in Staff,
     s \in Settings, invited \in SUBSET Users :
    /\ reqs[r].pc = "idle"
    /\ meetings' = [meetings EXCEPT ![id] =
         [status |-> "SCHEDULED", host |-> host, limit |-> s.limit,
          waiting |-> s.waiting, record |-> s.record]]
    /\ rows' = [k \in Rows |->
         IF k[1] = id /\ k[2] \in invited \cup {host} /\ k[3] = FreeCopy(id, k[2])
         THEN [role |-> IF k[2] = host THEN "HOST" ELSE "PARTICIPANT",
               status |-> "INVITED"]
         ELSE rows[k]]
    /\ cleared' = cleared \cup {<<id, host>>}
    /\ UNCHANGED <<recs, reqs>>
OpenClass(r) ==
  /\ reqs[r].pc = "open"
  /\ \E id \in Absent(ClassIds) :
       /\ meetings' = [meetings EXCEPT ![id] =
            [status |-> "LIVE", host |-> reqs[r].by, limit |-> None,
             waiting |-> FALSE, record |-> FALSE]]
       /\ rows' = [rows EXCEPT ![<<id, reqs[r].by, FreeCopy(id, reqs[r].by)>>] =
            [role |-> "HOST", status |-> "JOINED"]]
       /\ cleared' = cleared \cup {<<id, reqs[r].by>>}
  /\ reqs' = [reqs EXCEPT ![r] = [pc |-> "idle"]]
  /\ UNCHANGED recs

(* Mutant: the row is written back as it was loaded.                     *)
WholeRow(old, w) == w.to
(* Only the changed columns of the row are written.                        *)
Patched(old, w) ==
  [status |-> IF "status" \in w.cols THEN w.to.status ELSE old.status,
   host |-> IF "host" \in w.cols THEN w.to.host ELSE old.host,
   limit |-> IF "limit" \in w.cols THEN w.to.limit ELSE old.limit,
   waiting |-> IF "waiting" \in w.cols THEN w.to.waiting ELSE old.waiting,
   record |-> IF "record" \in w.cols THEN w.to.record ELSE old.record]
Deletes(w) == "status" \in w.cols /\ w.to.status = "deleted"
RowAfter(k, id, w) ==
  IF k[1] = id /\ Deletes(w) THEN NoRow
  ELSE IF k \in w.rows THEN [role |-> rows[k].role, status |-> w.status]
  ELSE IF k[1] = id /\ k[2] \in w.add /\ k[3] = FreeCopy(id, k[2])
  THEN [role |-> w.role, status |-> w.status]
  ELSE rows[k]
TapesAfter(id, w) ==
  {[x \in Tapes |-> IF x \in w.tapes THEN w.tapeTo
                    ELSE IF w.tape /\ x = y THEN "RECORDING" ELSE recs[x]] :
     y \in IF w.tape THEN TapesOf(id, {"none"}) ELSE {None}}

(* The statements of a work fail, and the request with them, if a row they *)
(* update is gone, if the meeting a row is added to is gone, or if a       *)
(* meeting to be deleted still has a recording that was not loaded.        *)
Applies(id, w) ==
  /\ Exists(id)
  /\ \A k \in w.rows : rows[k].status # "none"
  /\ \A u \in w.add : HasFreeCopy(id, u)
  /\ \A x \in w.tapes : w.tapeTo = "deleted" \/ recs[x] # "deleted"
  /\ Deletes(w) => TapesOf(id, {"RECORDING", "FAILED"}) \subseteq w.tapes
Commit(r) ==
  LET q == reqs[r] w == q.work IN
  /\ q.pc = "write"
  /\ Applies(q.id, w)
  /\ meetings' = [meetings EXCEPT ![q.id] = Patched(@, w)]
  /\ rows' = [k \in Rows |-> RowAfter(k, q.id, w)]
  /\ recs' \in TapesAfter(q.id, w)
  /\ reqs' = [reqs EXCEPT ![r] =
       IF q.then = None THEN [pc |-> "idle"]
       ELSE [pc |-> "enter", id |-> q.id, key |-> q.then,
             was |-> rows[q.then].status, goal |-> "JOINED", limit |-> None]]
  /\ cleared' = cleared \cup {<<q.id, Patched(meetings[q.id], w).host>>}
       \cup {<<k[1], k[2]>> : k \in {j \in w.rows : w.status = "ADMITTED"}}

(* A request ends without a commit: a statement failed, the password was   *)
(* wrong, the meeting is full, the connection was lost.                    *)
Abort(r) ==
  /\ reqs[r].pc # "idle"
  /\ reqs' = [reqs EXCEPT ![r] = [pc |-> "idle"]]
  /\ UNCHANGED <<meetings, rows, recs, cleared>>

Handle(r) ==
  \/ JoinClass(r) \/ StartClass(r) \/ OpenClass(r)
  \/ StartByJoining(r) \/ JoinMeeting(r) \/ Enter(r) \/ Leave(r)
  \/ Admit(r) \/ Reject(r) \/ HostRemoveParticipant(r) \/ RemoveParticipant(r)
  \/ AddParticipant(r)
  \/ CreateMeeting(r) \/ StartMeeting(r) \/ EndMeeting(r) \/ Gather(r)
  \/ CancelMeeting(r) \/ DeleteMeeting(r) \/ EditMeeting(r)
  \/ StartRecording(r) \/ StopRecording(r) \/ DeleteRecording(r)
  \/ Commit(r) \/ Abort(r)

(* History: while q has rows of a meeting in hand, another request changes *)
(* the meeting or a participant row of it.                                 *)
Bound(q) == q.pc \in {"gather", "enter", "write"}
Touched(id) ==
  \/ meetings'[id] # meetings[id]
  \/ \E k \in {id} \X Users \X Copies : rows'[k] # rows[k]
Overtakes(r) ==
  overtaken' =
    {q \in Requests :
       /\ reqs'[q].pc # "idle"
       /\ q \in overtaken \/ (q # r /\ Bound(reqs[q]) /\ Touched(reqs[q].id))}

Next == \E r \in Requests : Handle(r) /\ Overtakes(r)
Spec == Init /\ [][Next]_vars

-------------------------------------------------------------------------------
(* Properties.                                                             *)

(* r commits its work at meeting id in this step.                         *)
Writes(r, id) ==
  reqs[r].pc = "write" /\ reqs[r].id = id /\ reqs'[r] # reqs[r]

MayBecome ==
  [absent |-> {"SCHEDULED", "LIVE"}, SCHEDULED |-> {"LIVE", "CANCELLED", "deleted"},
   LIVE |-> {"COMPLETED"}, COMPLETED |-> {"deleted"}, CANCELLED |-> {"deleted"},
   deleted |-> {}]
(* A meeting goes from planned to live to completed, or from planned to    *)
(* cancelled, and is deleted only outside live.  Only a start, an end, a   *)
(* cancellation or a deletion under which another request has changed the  *)
(* meeting may leave this order (routes_meetings.py:177 writes LIVE over   *)
(* whatever was committed since it read SCHEDULED), and not even that      *)
(* brings a meeting back to planned or back from its deletion.  No join,   *)
(* answer or edit moves a meeting, however late it commits.                *)
LifecycleForward ==
  [][\A id \in Ids : meetings'[id].status # meetings[id].status =>
       \/ meetings'[id].status \in MayBecome[meetings[id].status]
       \/ /\ meetings[id].status # "deleted" /\ meetings'[id].status # "SCHEDULED"
          /\ \E r \in overtaken : Writes(r, id) /\ "status" \in reqs[r].work.cols]_vars

(* A participant of a planned meeting with a waiting room is inside only   *)
(* if the host has admitted them at some time (or they were its host).     *)
AdmittedFirst ==
  \A k \in Rows :
    k[1] \notin ClassIds /\ meetings[k[1]].waiting /\ rows[k].status = "JOINED"
      /\ rows[k].role = "PARTICIPANT" => <<k[1], k[2]>> \in cleared

StaysOut(k) ==
  rows[k].status \in Barred /\ rows[k].role = "PARTICIPANT" /\ meetings[k[1]].host # k[2] =>
    rows'[k].status \in Barred \cup {"ADMITTED", "none"}
(* Removed or rejected people do not get back in by themselves ("they      *)
(* can't rejoin", routes_meetings.py:292): only an admission brings a      *)
(* participant of a planned meeting back, or a request on their row under  *)
(* which the meeting or a row of it has been changed, such as a join that  *)
(* read the row before the removal.                                        *)
RemovedStaysOut ==
  [][\A k \in Rows : k[1] \notin ClassIds =>
       StaysOut(k) \/ \E r \in overtaken : Writes(r, k[1]) /\ k \in reqs[r].work.rows]_vars
(* The words of routes_meetings.py:292 for every meeting, also a class.    *)
RemovedNeverRejoins == [][\A k \in Rows : StaysOut(k)]_vars
===============================================================================
