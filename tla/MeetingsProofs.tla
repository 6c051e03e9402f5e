---------------------------- MODULE MeetingsProofs ----------------------------
(***************************************************************************)
(* Theorems about Meetings for any number of people, meetings, participant *)
(* rows, recordings and concurrent requests.                               *)
(***************************************************************************)
EXTENDS Meetings, TLAPS

-----------------------------------------------------------------------------
(* What a step may do: build a work and write nothing, or write at once.   *)

(* The types of the program's state, without the histories of requests. *)
Typed ==
  /\ meetings \in [Ids -> Meeting]
  /\ rows \in [Rows -> Row]
  /\ recs \in [Tapes -> TapeStates]
  /\ reqs \in [Requests -> Request]
  /\ cleared \subseteq Ids \X Users

(* Thread r goes on with v; nothing is committed. *)
Reads(r, v) ==
  reqs' = [reqs EXCEPT ![r] = v] /\ UNCHANGED <<meetings, rows, recs, cleared>>

Deciding(id, w) == [pc |-> "write", id |-> id, work |-> w, then |-> None]

LEMMA DecidesReads ==
  ASSUME NEW r, NEW id, NEW w, Decides(r, id, w)
  PROVE  Reads(r, Deciding(id, w)) /\ reqs[r].pc = "idle"
  BY DEF Decides, Reads, Deciding

(* The four forms of a work. *)
LEMMA WorkTypes ==
  ASSUME Typed, NEW id \in Ids
  PROVE  /\ \A cols \in SUBSET Columns, new \in Meeting, keys \in SUBSET Rows, tapes \in SUBSET Tapes,
               tapeTo \in TapeStates : MeetingWork(cols, new, keys, tapes, tapeTo) \in Work
         /\ \A keys \in SUBSET Rows, add \in SUBSET Users, role \in {"HOST", "PARTICIPANT"},
               status \in RowStates : PeopleWork(id, keys, add, role, status) \in Work
         /\ \A tapes \in SUBSET Tapes, tapeTo \in TapeStates, tape \in BOOLEAN :
               TapeWork(id, tapes, tapeTo, tape) \in Work
         /\ \A status \in MeetingStates : WithStatus(id, status) \in Meeting
  <1>1. meetings[id] \in Meeting
    BY DEF Typed
  <1>2. \A status \in MeetingStates : WithStatus(id, status) \in Meeting
    BY <1>1 DEF WithStatus, Meeting
  <1>3. \A cols \in SUBSET Columns, new \in Meeting, keys \in SUBSET Rows, tapes \in SUBSET Tapes,
          tapeTo \in TapeStates : MeetingWork(cols, new, keys, tapes, tapeTo) \in Work
    BY DEF MeetingWork, Work, RowStates
  <1>4. \A keys \in SUBSET Rows, add \in SUBSET Users, role \in {"HOST", "PARTICIPANT"},
          status \in RowStates : PeopleWork(id, keys, add, role, status) \in Work
    BY <1>1 DEF PeopleWork, Work, TapeStates
  <1>5. \A tapes \in SUBSET Tapes, tapeTo \in TapeStates, tape \in BOOLEAN :
          TapeWork(id, tapes, tapeTo, tape) \in Work
    BY <1>1 DEF TapeWork, Work, RowStates
  <1>6. QED
    BY <1>2, <1>3, <1>4, <1>5

LEMMA RowsOfType ==
  ASSUME NEW id \in Ids, NEW u \in Users
  PROVE  RowsOf(id, u) \subseteq Rows
         /\ \A k \in RowsOf(id, u) : k[1] = id /\ k[2] = u /\ rows[k].status # "none"
  BY DEF RowsOf, Rows

LEMMA DecidingType ==
  ASSUME NEW id \in Ids, NEW w \in Work
  PROVE  Deciding(id, w) \in Request
  BY DEF Deciding, Request

LEMMA CallerType ==
  ASSUME NEW r \in Requests, NEW u \in Callers[r]
  PROVE  u \in Users
  BY Roles
-----------------------------------------------------------------------------
(* What a read step has found.                                             *)

Hosts == Staff \cup {Trainer}
Known(id) == meetings[id].status # "absent"

(* Only those who may host are hosts, in the meeting or by a row. *)
HostInv ==
  /\ \A i \in Ids : meetings[i].host \in Hosts
  /\ \A k \in Rows : rows[k].role = "HOST" => k[2] \in Hosts

(* Not turned away, or the host, or in a class, where rows are not read.   *)
Unbarred(k) ==
  k[1] \in ClassIds \/ rows[k].status \notin Barred \/ meetings[k[1]].host = k[2]

(* The host of the meeting, by its column or by the row's role. *)
Led(k) == meetings[k[1]].host = k[2] \/ rows[k].role = "HOST"

(* A work of meeting id that was built from the present tables. *)
FreshWork(id, w) ==
  /\ Exists(id) /\ w.status # "none"
  /\ \A k \in w.rows : k[1] = id /\ rows[k].status # "none"
  /\ \A k \in w.rows : w.status \in Barred \cup {"ADMITTED"} \/ Unbarred(k)
  /\ w.role = "HOST" => w.add \subseteq Hosts
  /\ w.add # {} => w.status = "INVITED" \/ id \in ClassIds
  /\ w.rows # {} /\ w.status = "JOINED" => id \in ClassIds
  /\ w.cols \subseteq {"status"} \cup Edits
  /\ "status" \in w.cols => w.to.status \in MayBecome[meetings[id].status]
  /\ "host" \in w.cols => w.to.host \in Staff

Fresh(v) ==
  /\ v \in Request
  /\ v.pc = "gather" => meetings[v.id].status = "LIVE"
  /\ v.pc = "open" => v.by \in Hosts
  /\ v.pc = "enter" => /\ Exists(v.id) /\ v.key[1] = v.id
                       /\ rows[v.key].status # "none" /\ Unbarred(v.key)
                       /\ v.goal = "JOINED" => Led(v.key) \/ ~MustWait(v.id, v.key)
  /\ v.pc = "write" =>
       /\ FreshWork(v.id, v.work)
       /\ v.then # None => /\ v.then[1] = v.id /\ rows[v.then].status # "none"
                           /\ Unbarred(v.then) /\ Led(v.then)
                           /\ v.work.rows = {} /\ v.work.add = {} /\ v.work.cols = {"status"}

LEMMA FreshDeciding ==
  ASSUME NEW id \in Ids, NEW w \in Work, FreshWork(id, w)
  PROVE  /\ Fresh(Deciding(id, w)) /\ Deciding(id, w).pc = "write" /\ Deciding(id, w).work = w
         /\ Deciding(id, w).then = None /\ Deciding(id, w).id = id
  BY DecidingType DEF Deciding, Fresh

(* People's rows change. *)
LEMMA FreshPeople ==
  ASSUME Typed, NEW id \in Ids, Exists(id), NEW keys \in SUBSET Rows, NEW add \in SUBSET Users,
         NEW role \in {"HOST", "PARTICIPANT"}, NEW status \in RowStates \ {"none"},
         \A k \in keys : k[1] = id /\ rows[k].status # "none"
                         /\ (status \in Barred \cup {"ADMITTED"} \/ Unbarred(k)),
         role = "HOST" => add \subseteq Hosts,
         add # {} => status = "INVITED" \/ id \in ClassIds,
         keys # {} /\ status = "JOINED" => id \in ClassIds
  PROVE  LET w == PeopleWork(id, keys, add, role, status) IN
         w \in Work /\ FreshWork(id, w) /\ w.cols = {}
  BY WorkTypes DEF PeopleWork, FreshWork

(* The meeting's columns change, or its recordings. *)
LEMMA FreshMeeting ==
  ASSUME Typed, NEW id \in Ids, Exists(id), NEW cols \in SUBSET Columns, NEW new \in Meeting,
         NEW keys \in SUBSET Rows, NEW tapes \in SUBSET Tapes, NEW tapeTo \in TapeStates,
         \A k \in keys : k[1] = id /\ rows[k].status = "JOINED",
         cols \subseteq {"status"} \cup Edits,
         "status" \in cols => new.status \in MayBecome[meetings[id].status],
         "host" \in cols => new.host \in Staff
  PROVE  LET w == MeetingWork(cols, new, keys, tapes, tapeTo) IN
         w \in Work /\ FreshWork(id, w) /\ w.cols = cols
  BY WorkTypes DEF MeetingWork, FreshWork, Unbarred, Barred

LEMMA FreshTape ==
  ASSUME Typed, NEW id \in Ids, Exists(id), NEW tapes \in SUBSET Tapes, NEW tapeTo \in TapeStates,
         NEW tape \in BOOLEAN
  PROVE  LET w == TapeWork(id, tapes, tapeTo, tape) IN
         w \in Work /\ FreshWork(id, w) /\ w.cols = {}
  BY WorkTypes DEF TapeWork, FreshWork

Found(r, v) ==
  /\ Reads(r, v) /\ reqs[r].pc = "idle" /\ Fresh(v)

LEMMA FoundDeciding ==
  ASSUME NEW r \in Requests, NEW id \in Ids, NEW w \in Work, FreshWork(id, w), Decides(r, id, w)
  PROVE  \E v : Found(r, v)
  <1>1. Reads(r, Deciding(id, w)) /\ reqs[r].pc = "idle"
    BY DecidesReads
  <1>2. Found(r, Deciding(id, w))
    BY <1>1, FreshDeciding DEF Found
  <1>3. QED
    BY <1>2

LEMMA FoundPeople ==
  ASSUME Typed, NEW r \in Requests, NEW id \in Ids, Exists(id), NEW keys \in SUBSET Rows,
         NEW add \in SUBSET Users,
         NEW role \in {"HOST", "PARTICIPANT"}, NEW status \in RowStates \ {"none"},
         \A k \in keys : k[1] = id /\ rows[k].status # "none"
                         /\ (status \in Barred \cup {"ADMITTED"} \/ Unbarred(k)),
         role = "HOST" => add \subseteq Hosts,
         add # {} => status = "INVITED" \/ id \in ClassIds,
         keys # {} /\ status = "JOINED" => id \in ClassIds,
         Decides(r, id, PeopleWork(id, keys, add, role, status))
  PROVE  \E v : Found(r, v)
  <1> DEFINE w == PeopleWork(id, keys, add, role, status)
  <1>1. w \in Work /\ FreshWork(id, w) /\ w.cols = {}
    BY FreshPeople
  <1>2. Decides(r, id, w)
    OBVIOUS
  <1> HIDE DEF w
  <1>3. QED
    BY <1>1, <1>2, FoundDeciding

(* People are added and no row is updated. *)
LEMMA FoundAdds ==
  ASSUME Typed, NEW r \in Requests, NEW id \in Ids, Exists(id), NEW new \in Users,
         NEW role \in {"HOST", "PARTICIPANT"}, role = "HOST" => new \in Hosts,
         NEW status \in {"INVITED", "JOINED"}, status = "INVITED" \/ id \in ClassIds,
         Decides(r, id, PeopleWork(id, {}, {new}, role, status))
  PROVE  \E v : Found(r, v)
  <1> DEFINE keys == {}
             add == {new}
  <1>1. /\ keys \in SUBSET Rows /\ keys = {} /\ add \in SUBSET Users
        /\ role = "HOST" => add \subseteq Hosts
        /\ status \in RowStates \ {"none"}
    BY DEF RowStates
  <1>2. Decides(r, id, PeopleWork(id, keys, add, role, status))
    OBVIOUS
  <1> HIDE DEF keys, add
  <1>3. QED
    BY <1>1, <1>2, FoundPeople

(* Rows are updated and nobody is added. *)
LEMMA FoundRows ==
  ASSUME Typed, NEW r \in Requests, NEW id \in Ids, Exists(id), NEW keys \in SUBSET Rows,
         NEW status \in RowStates \ {"none"},
         \A k \in keys : k[1] = id /\ rows[k].status # "none"
                         /\ (status \in Barred \cup {"ADMITTED"} \/ Unbarred(k)),
         status = "JOINED" => id \in ClassIds,
         Decides(r, id, PeopleWork(id, keys, {}, "PARTICIPANT", status))
  PROVE  \E v : Found(r, v)
  <1> DEFINE role == "PARTICIPANT"
             add == {}
  <1>1. role \in {"HOST", "PARTICIPANT"} /\ role # "HOST" /\ add \in SUBSET Users /\ ~(add # {})
    OBVIOUS
  <1>2. Decides(r, id, PeopleWork(id, keys, add, role, status))
    OBVIOUS
  <1> HIDE DEF role, add
  <1>3. /\ role = "HOST" => add \subseteq Hosts
        /\ add # {} => status = "INVITED" \/ id \in ClassIds
        /\ keys # {} /\ status = "JOINED" => id \in ClassIds
    BY <1>1
  <1> DEFINE w == PeopleWork(id, keys, add, role, status)
  <1>4. w \in Work /\ FreshWork(id, w)
    BY <1>1, <1>3, FreshPeople
  <1> HIDE DEF w
  <1>5. Decides(r, id, w)
    BY <1>2 DEF w
  <1>6. QED
    BY <1>4, <1>5, FoundDeciding

LEMMA FoundMeeting ==
  ASSUME Typed, NEW r \in Requests, NEW id \in Ids, Exists(id), NEW cols \in SUBSET Columns,
         NEW new \in Meeting, NEW keys \in SUBSET Rows, NEW tapes \in SUBSET Tapes,
         NEW tapeTo \in TapeStates,
         \A k \in keys : k[1] = id /\ rows[k].status = "JOINED",
         cols \subseteq {"status"} \cup Edits,
         "status" \in cols => new.status \in MayBecome[meetings[id].status],
         "host" \in cols => new.host \in Staff,
         Decides(r, id, MeetingWork(cols, new, keys, tapes, tapeTo))
  PROVE  \E v : Found(r, v)
  <1> DEFINE w == MeetingWork(cols, new, keys, tapes, tapeTo)
  <1>1. w \in Work /\ FreshWork(id, w) /\ w.cols = cols
    BY FreshMeeting
  <1>2. Decides(r, id, w)
    OBVIOUS
  <1> HIDE DEF w
  <1>3. QED
    BY <1>1, <1>2, FoundDeciding

LEMMA FoundTape ==
  ASSUME Typed, NEW r \in Requests, NEW id \in Ids, Exists(id), NEW tapes \in SUBSET Tapes,
         NEW tapeTo \in TapeStates, NEW tape \in BOOLEAN,
         Decides(r, id, TapeWork(id, tapes, tapeTo, tape))
  PROVE  \E v : Found(r, v)
  <1> DEFINE w == TapeWork(id, tapes, tapeTo, tape)
  <1>1. w \in Work /\ FreshWork(id, w) /\ w.cols = {}
    BY FreshTape
  <1>2. Decides(r, id, w)
    OBVIOUS
  <1> HIDE DEF w
  <1>3. QED
    BY <1>1, <1>2, FoundDeciding

(* A step of a person: joining, leaving, answering, adding. *)
LEMMA PeopleRead ==
  ASSUME Typed, HostInv, NEW r \in Requests,
         JoinClass(r) \/ Leave(r) \/ Admit(r) \/ Reject(r) \/ HostRemoveParticipant(r)
           \/ RemoveParticipant(r) \/ AddParticipant(r)
  PROVE  \E v : Found(r, v)
  <1>0. ClassIds \subseteq Ids /\ Callers[r] \subseteq Users
    BY Bounds, Roles
  <1>1. CASE JoinClass(r)
    <2>1. PICK u \in Callers[r], id \in LiveClasses :
            \/ Decides(r, id, PeopleWork(id, {}, {u},
                 IF HostsClass(u) THEN "HOST" ELSE "PARTICIPANT", "JOINED"))
            \/ \E k \in RowsOf(id, u) :
                 Decides(r, id, PeopleWork(id, Unlike(k, "JOINED"), {}, "PARTICIPANT", "JOINED"))
      BY <1>1 DEF JoinClass
    <2>2. id \in ClassIds /\ id \in Ids /\ Exists(id) /\ u \in Users
      BY <1>0, <2>1 DEF LiveClasses, Exists
    <2>3. HostsClass(u) => u \in Hosts
      BY Roles DEF HostsClass, Hosts
    <2>4. CASE Decides(r, id, PeopleWork(id, {}, {u},
                 IF HostsClass(u) THEN "HOST" ELSE "PARTICIPANT", "JOINED"))
      <3> DEFINE role == IF HostsClass(u) THEN "HOST" ELSE "PARTICIPANT"
      <3>1. role \in {"HOST", "PARTICIPANT"} /\ (role = "HOST" => u \in Hosts)
        BY <2>3
      <3>2. Decides(r, id, PeopleWork(id, {}, {u}, role, "JOINED"))
        BY <2>4
      <3> HIDE DEF role
      <3>3. QED
        BY <2>2, <3>1, <3>2, FoundAdds
    <2>5. ASSUME NEW k \in RowsOf(id, u),
                 Decides(r, id, PeopleWork(id, Unlike(k, "JOINED"), {}, "PARTICIPANT", "JOINED"))
          PROVE  \E v : Found(r, v)
      <3>1. k \in Rows /\ k[1] = id /\ rows[k].status # "none" /\ Unbarred(k)
        BY <2>2, <2>5, RowsOfType DEF Unbarred
      <3>2. Unlike(k, "JOINED") \in SUBSET Rows /\ \A j \in Unlike(k, "JOINED") : j = k
        BY <3>1 DEF Unlike
      <3>3. "JOINED" \in RowStates \ {"none"}
        BY DEF RowStates
      <3>4. QED
        BY <2>2, <2>5, <3>1, <3>2, <3>3, FoundRows
    <2>6. QED BY <2>1, <2>4, <2>5
  <1>2. CASE Leave(r)
    <2>0. PICK u \in Callers[r], id \in Ids : \E k \in RowsOf(id, u) \cup {None} :
            Exists(id) /\ Standing(id, u, k)
            /\ \E own \in (IF k = None THEN RowsOf(id, u) ELSE {k}) :
                 Decides(r, id, PeopleWork(id, Unlike(own, "LEFT"), {}, "PARTICIPANT", "LEFT"))
      BY <1>2 DEF Leave
    <2>1. PICK k \in RowsOf(id, u) \cup {None} :
            Exists(id) /\ Standing(id, u, k)
            /\ \E own \in (IF k = None THEN RowsOf(id, u) ELSE {k}) :
                 Decides(r, id, PeopleWork(id, Unlike(own, "LEFT"), {}, "PARTICIPANT", "LEFT"))
      BY <2>0
    <2>2. PICK own \in (IF k = None THEN RowsOf(id, u) ELSE {k}) :
            Decides(r, id, PeopleWork(id, Unlike(own, "LEFT"), {}, "PARTICIPANT", "LEFT"))
      BY <2>1
    <2>3. own \in RowsOf(id, u)
      BY <2>1, <2>2
    <2>4. own \in Rows /\ own[1] = id /\ own[2] = u /\ rows[own].status # "none"
      BY <1>0, <2>3, RowsOfType
    <2>5. Unbarred(own)
      BY <2>1, <2>2, <2>4 DEF Unbarred, Standing
    <2>6. Unlike(own, "LEFT") \in SUBSET Rows /\ \A j \in Unlike(own, "LEFT") : j = own
      BY <2>4 DEF Unlike
    <2>7. "LEFT" \in RowStates \ {"none"} /\ "LEFT" # "JOINED"
      BY DEF RowStates
    <2>8. QED
      BY <2>1, <2>2, <2>4, <2>5, <2>6, <2>7, FoundRows
  <1>3. ASSUME NEW k \in Rows, NEW status \in {"ADMITTED", "REJECTED", "REMOVED"}, Exists(k[1]),
               rows[k].status # "none",
               Decides(r, k[1], PeopleWork(k[1], Unlike(k, status), {}, "PARTICIPANT", status))
        PROVE  \E v : Found(r, v)
    <2>1. k[1] \in Ids /\ Unlike(k, status) \in SUBSET Rows /\ \A j \in Unlike(k, status) : j = k
      BY DEF Rows, Unlike
    <2>2. status \in RowStates \ {"none"} /\ status # "JOINED" /\ status \in Barred \cup {"ADMITTED"}
      BY DEF RowStates, Barred
    <2>3. QED
      BY <1>3, <2>1, <2>2, FoundRows
  <1>4. CASE Admit(r) \/ Reject(r)
    BY <1>3, <1>4 DEF Admit, Reject, Answer, Moderates
  <1>5. CASE HostRemoveParticipant(r) \/ RemoveParticipant(r)
    BY <1>3, <1>5 DEF HostRemoveParticipant, RemoveParticipant, Removes, Moderates, Administers
  <1>6. CASE AddParticipant(r)
    <2>1. PICK id \in Ids, new \in Users :
            Exists(id) /\ Decides(r, id, PeopleWork(id, {}, {new}, "PARTICIPANT", "INVITED"))
      BY <1>6 DEF AddParticipant, Administers
    <2>2. QED
      BY <2>1, FoundAdds
  <1>7. QED
    BY <1>1, <1>2, <1>4, <1>5, <1>6

(* A step on the meeting itself: it starts, ends, is cancelled, deleted, edited. *)
LEMMA MeetingRead ==
  ASSUME Typed, HostInv, NEW r \in Requests,
         StartMeeting(r) \/ CancelMeeting(r) \/ DeleteMeeting(r) \/ EditMeeting(r)
           \/ EndMeeting(r) \/ StartClass(r)
  PROVE  \E v : Found(r, v)
  <1>1. ASSUME NEW u \in Callers[r], NEW id \in Ids, Exists(id),
               NEW status \in MeetingStates, NEW tapes \in SUBSET Tapes, NEW tapeTo \in TapeStates,
               status \in MayBecome[meetings[id].status],
               Decides(r, id, MeetingWork({"status"}, WithStatus(id, status), {}, tapes, tapeTo))
        PROVE  \E v : Found(r, v)
    <2> DEFINE cols == {"status"}
               new == WithStatus(id, status)
               keys == {}
    <2>1. meetings[id] \in Meeting
      BY DEF Typed
    <2>2. /\ new \in Meeting /\ new.status = status
          /\ cols \in SUBSET Columns /\ cols \subseteq {"status"} \cup Edits /\ "host" \notin cols
          /\ keys \in SUBSET Rows /\ keys = {}
      BY <2>1 DEF WithStatus, Meeting, Columns
    <2>3. Decides(r, id, MeetingWork(cols, new, keys, tapes, tapeTo))
      BY <1>1
    <2> HIDE DEF cols, new, keys
    <2>4. QED
      BY <1>1, <2>2, <2>3, FoundMeeting
  <1>2. "FAILED" \in TapeStates /\ "deleted" \in TapeStates /\ {} \in SUBSET Tapes
        /\ "LIVE" \in MeetingStates /\ "CANCELLED" \in MeetingStates /\ "deleted" \in MeetingStates
    BY DEF TapeStates, MeetingStates
  <1>3. CASE StartMeeting(r)
    <2>1. PICK u \in Callers[r], id \in Ids :
            /\ Manages(id, u) /\ meetings[id].status = "SCHEDULED"
            /\ Decides(r, id, MeetingWork({"status"}, WithStatus(id, "LIVE"), {}, {}, "FAILED"))
      BY <1>3 DEF StartMeeting
    <2>2. Exists(id) /\ "LIVE" \in MayBecome[meetings[id].status]
      BY <2>1 DEF Manages, MayBecome
    <2>3. QED
      BY <1>1, <1>2, <2>1, <2>2
  <1>4. CASE CancelMeeting(r)
    <2>1. PICK u \in Callers[r], id \in Ids :
            /\ Administers(id, u) /\ meetings[id].status = "SCHEDULED"
            /\ Decides(r, id, MeetingWork({"status"}, WithStatus(id, "CANCELLED"), {}, {}, "FAILED"))
      BY <1>4 DEF CancelMeeting
    <2>2. Exists(id) /\ "CANCELLED" \in MayBecome[meetings[id].status]
      BY <2>1 DEF Administers, MayBecome
    <2>3. QED
      BY <1>1, <1>2, <2>1, <2>2
  <1>5. CASE DeleteMeeting(r)
    <2>1. PICK u \in Callers[r], id \in Ids :
            /\ Administers(id, u) /\ meetings[id].status # "LIVE"
            /\ Decides(r, id, MeetingWork({"status"}, WithStatus(id, "deleted"), {},
                        TapesOf(id, {"RECORDING", "FAILED"}), "deleted"))
      BY <1>5 DEF DeleteMeeting
    <2>2. Exists(id)
      BY <2>1 DEF Administers
    <2>3. meetings[id].status \in MeetingStates
      BY DEF Typed, Meeting
    <2>4. "deleted" \in MayBecome[meetings[id].status]
      BY <2>1, <2>2, <2>3 DEF MayBecome, MeetingStates, Exists
    <2>5. TapesOf(id, {"RECORDING", "FAILED"}) \in SUBSET Tapes
      BY DEF TapesOf, Tapes
    <2>6. QED
      BY <1>1, <1>2, <2>1, <2>2, <2>4, <2>5
  <1>6. CASE EditMeeting(r)
    <2>0. PICK u \in Callers[r], id \in Ids :
            /\ Administers(id, u) /\ meetings[id].status \in {"SCHEDULED", "LIVE"}
            /\ \E host \in Staff, s \in Settings :
                 LET new == [status |-> meetings[id].status, host |-> host, limit |-> s.limit,
                             waiting |-> s.waiting, record |-> s.record]
                     cols == Changed(meetings[id], new)
                 IN /\ cols # {} /\ cols \subseteq Edits
                    /\ Decides(r, id, MeetingWork(cols, new, {}, {}, "FAILED"))
      BY <1>6, Zenon DEF EditMeeting
    <2>1. PICK host \in Staff, s \in Settings :
            /\ Administers(id, u)
            /\ LET new == [status |-> meetings[id].status, host |-> host, limit |-> s.limit,
                           waiting |-> s.waiting, record |-> s.record]
                   cols == Changed(meetings[id], new)
               IN /\ cols # {} /\ cols \subseteq Edits
                  /\ Decides(r, id, MeetingWork(cols, new, {}, {}, "FAILED"))
      BY <2>0, Zenon
    <2> DEFINE new == [status |-> meetings[id].status, host |-> host, limit |-> s.limit,
                       waiting |-> s.waiting, record |-> s.record]
               cols == Changed(meetings[id], new)
               keys == {}
    <2>2. Exists(id)
      BY <2>1 DEF Administers
    <2>3. meetings[id] \in Meeting /\ host \in Users
          /\ s \in [limit: Int \cup {None}, waiting: BOOLEAN, record: BOOLEAN]
      BY Roles, Bounds DEF Typed
    <2>4. new \in Meeting
      BY <2>3 DEF Meeting
    <2>5. cols \in SUBSET Columns /\ "status" \notin cols
      BY DEF Changed
    <2>6. cols \subseteq {"status"} \cup Edits /\ new.host \in Staff
          /\ keys \in SUBSET Rows /\ keys = {}
          /\ Decides(r, id, MeetingWork(cols, new, keys, {}, "FAILED"))
      BY <2>1
    <2> HIDE DEF new, cols, keys
    <2> DEFINE w == MeetingWork(cols, new, keys, {}, "FAILED")
    <2>7. w \in Work /\ FreshWork(id, w)
      BY <1>2, <2>2, <2>4, <2>5, <2>6, FreshMeeting
    <2> HIDE DEF w
    <2>8. Decides(r, id, w)
      BY <2>6 DEF w
    <2>9. QED
      BY <2>7, <2>8, FoundDeciding
  <1>7. CASE EndMeeting(r)
    <2>1. PICK u \in Callers[r], id \in Ids :
            /\ Manages(id, u) /\ meetings[id].status = "LIVE" /\ reqs[r].pc = "idle"
            /\ reqs' = [reqs EXCEPT ![r] = [pc |-> "gather", id |-> id]]
            /\ UNCHANGED <<meetings, rows, recs, cleared>>
      BY <1>7 DEF EndMeeting
    <2> DEFINE v == [pc |-> "gather", id |-> id]
    <2>2. v \in Request /\ v.pc = "gather" /\ v.id = id
      BY DEF Request
    <2>3. Fresh(v)
      BY <2>1, <2>2 DEF Fresh
    <2>4. QED
      BY <2>1, <2>3 DEF Found, Reads
  <1>8. CASE StartClass(r)
    <2>1. PICK u \in Callers[r] :
            /\ reqs[r].pc = "idle" /\ HostsClass(u)
            /\ reqs' = [reqs EXCEPT ![r] = [pc |-> "open", by |-> u]]
            /\ UNCHANGED <<meetings, rows, recs, cleared>>
      BY <1>8 DEF StartClass
    <2> DEFINE v == [pc |-> "open", by |-> u]
    <2>2. u \in Users /\ u \in Hosts
      BY <2>1, CallerType, Roles DEF HostsClass, Hosts
    <2>3. v \in Request /\ v.pc = "open" /\ v.by = u
      BY <2>2 DEF Request
    <2>4. Fresh(v)
      BY <2>2, <2>3 DEF Fresh
    <2>5. QED
      BY <2>1, <2>2, <2>4 DEF Found, Reads
  <1>9. QED
    BY <1>3, <1>4, <1>5, <1>6, <1>7, <1>8

(* A step on the recordings. *)
LEMMA RecordingRead ==
  ASSUME Typed, HostInv, NEW r \in Requests,
         StartRecording(r) \/ StopRecording(r) \/ DeleteRecording(r)
  PROVE  \E v : Found(r, v)
  <1>1. "FAILED" \in TapeStates /\ "deleted" \in TapeStates /\ {} \in SUBSET Tapes
        /\ TRUE \in BOOLEAN /\ FALSE \in BOOLEAN
    BY DEF TapeStates
  <1>2. \A x \in Tapes : x[1] \in Ids /\ {x} \in SUBSET Tapes
    BY DEF Tapes
  <1>3. CASE StartRecording(r)
    <2>1. PICK id \in Ids : Exists(id) /\ Decides(r, id, TapeWork(id, {}, "FAILED", TRUE))
      BY <1>3 DEF StartRecording, Manages
    <2>2. QED
      BY <1>1, <2>1, FoundTape
  <1>4. CASE StopRecording(r)
    <2>1. PICK x \in Tapes : Exists(x[1]) /\ Decides(r, x[1], TapeWork(x[1], {x}, "FAILED", FALSE))
      BY <1>4 DEF StopRecording, Manages
    <2>2. QED
      BY <1>1, <1>2, <2>1, FoundTape
  <1>5. CASE DeleteRecording(r)
    <2>1. PICK x \in Tapes : Exists(x[1]) /\ Decides(r, x[1], TapeWork(x[1], {x}, "deleted", FALSE))
      BY <1>5 DEF DeleteRecording, Administers
    <2>2. QED
      BY <1>1, <1>2, <2>1, FoundTape
  <1>6. QED
    BY <1>3, <1>4, <1>5

(* A join of a planned meeting; a moderator's starts it. *)
LEMMA JoinRead ==
  ASSUME Typed, HostInv, NEW r \in Requests, StartByJoining(r) \/ JoinMeeting(r)
  PROVE  \E v : Found(r, v)
  <1>1. Callers[r] \subseteq Users
    BY Roles
  <1>2. CASE StartByJoining(r)
    <2>1. PICK u \in Callers[r], id \in Ids : \E k \in RowsOf(id, u) \cup {None} :
            /\ meetings[id].status = "SCHEDULED" /\ Moderating(id, u, k)
            /\ reqs[r].pc = "idle"
            /\ \E own \in (IF k # None THEN {k} ELSE IF RowsOf(id, u) = {} THEN {None}
                           ELSE RowsOf(id, u)) :
                 reqs' = [reqs EXCEPT ![r] =
                   [pc |-> "write", id |-> id, then |-> own,
                    work |-> MeetingWork({"status"}, WithStatus(id, "LIVE"), {}, {}, "FAILED")]]
            /\ UNCHANGED <<meetings, rows, recs, cleared>>
      BY <1>2 DEF StartByJoining
    <2>2. PICK k \in RowsOf(id, u) \cup {None} :
            /\ meetings[id].status = "SCHEDULED" /\ Moderating(id, u, k)
            /\ reqs[r].pc = "idle"
            /\ \E own \in (IF k # None THEN {k} ELSE IF RowsOf(id, u) = {} THEN {None}
                           ELSE RowsOf(id, u)) :
                 reqs' = [reqs EXCEPT ![r] =
                   [pc |-> "write", id |-> id, then |-> own,
                    work |-> MeetingWork({"status"}, WithStatus(id, "LIVE"), {}, {}, "FAILED")]]
            /\ UNCHANGED <<meetings, rows, recs, cleared>>
      BY <2>1
    <2> DEFINE w == MeetingWork({"status"}, WithStatus(id, "LIVE"), {}, {}, "FAILED")
    <2>3. PICK own \in (IF k # None THEN {k} ELSE IF RowsOf(id, u) = {} THEN {None}
                        ELSE RowsOf(id, u)) :
            reqs' = [reqs EXCEPT ![r] = [pc |-> "write", id |-> id, then |-> own, work |-> w]]
      BY <2>2
    <2>4. own \in RowsOf(id, u) \/ own = None
      BY <2>2, <2>3
    <2>5. own # None => own \in Rows /\ own[1] = id /\ own[2] = u /\ rows[own].status # "none"
      BY <1>1, <2>4, RowsOfType
    <2>6. own # None => Unbarred(own) /\ Led(own)
      BY <2>2, <2>3, <2>4, <2>5 DEF Unbarred, Standing, Moderating, Led
    <2>7. Exists(id) /\ "LIVE" \in MayBecome[meetings[id].status]
      BY <2>2 DEF Exists, MayBecome
    <2>9. w \in Work /\ FreshWork(id, w)
      <3> DEFINE cols == {"status"}
                 new == WithStatus(id, "LIVE")
                 keys == {}
                 tapes == {}
                 tapeTo == "FAILED"
      <3>1. meetings[id] \in Meeting
        BY DEF Typed
      <3>2. /\ new \in Meeting /\ new.status = "LIVE"
            /\ cols \in SUBSET Columns /\ cols \subseteq {"status"} \cup Edits /\ "host" \notin cols
            /\ keys \in SUBSET Rows /\ keys = {} /\ tapes \in SUBSET Tapes /\ tapeTo \in TapeStates
        BY <3>1 DEF WithStatus, Meeting, Columns, MeetingStates, TapeStates
      <3>3. w = MeetingWork(cols, new, keys, tapes, tapeTo)
        OBVIOUS
      <3> HIDE DEF w, cols, new, keys, tapes, tapeTo
      <3>4. QED
        BY <2>7, <3>2, <3>3, FreshMeeting
    <2>10. w.rows = {} /\ w.add = {} /\ w.cols = {"status"}
      BY DEF MeetingWork
    <2> HIDE DEF w
    <2> DEFINE v == [pc |-> "write", id |-> id, then |-> own, work |-> w]
    <2>11. /\ v.pc = "write" /\ v.id = id /\ v.then = own /\ v.work = w
           /\ v \in Request
      BY <2>4, <2>5, <2>9 DEF Request
    <2>12. reqs' = [reqs EXCEPT ![r] = v]
      BY <2>3
    <2> HIDE DEF v
    <2>13. Fresh(v)
      BY <2>5, <2>6, <2>9, <2>10, <2>11 DEF Fresh
    <2>14. QED
      BY <2>2, <2>12, <2>13 DEF Found, Reads
  <1>3. CASE JoinMeeting(r)
    <2>1. PICK u \in Callers[r], id \in Ids : \E k \in RowsOf(id, u) \cup {None} :
            /\ meetings[id].status = "LIVE" /\ Standing(id, u, k)
            /\ reqs[r].pc = "idle"
            /\ \E own \in (IF k = None THEN RowsOf(id, u) ELSE {k}) :
                 LET moderator == Moderating(id, u, k) IN
                 reqs' = [reqs EXCEPT ![r] =
                   [pc |-> "enter", id |-> id, key |-> own, was |-> rows[own].status,
                    goal |-> IF ~moderator /\ MustWait(id, own) THEN "WAITING" ELSE "JOINED",
                    limit |-> IF moderator THEN None ELSE meetings[id].limit]]
            /\ UNCHANGED <<meetings, rows, recs, cleared>>
      BY <1>3 DEF JoinMeeting
    <2>2. PICK k \in RowsOf(id, u) \cup {None} :
            /\ meetings[id].status = "LIVE" /\ Standing(id, u, k)
            /\ reqs[r].pc = "idle"
            /\ \E own \in (IF k = None THEN RowsOf(id, u) ELSE {k}) :
                 LET moderator == Moderating(id, u, k) IN
                 reqs' = [reqs EXCEPT ![r] =
                   [pc |-> "enter", id |-> id, key |-> own, was |-> rows[own].status,
                    goal |-> IF ~moderator /\ MustWait(id, own) THEN "WAITING" ELSE "JOINED",
                    limit |-> IF moderator THEN None ELSE meetings[id].limit]]
            /\ UNCHANGED <<meetings, rows, recs, cleared>>
      BY <2>1
    <2> DEFINE moderator == Moderating(id, u, k)
    <2>3. PICK own \in (IF k = None THEN RowsOf(id, u) ELSE {k}) :
            reqs' = [reqs EXCEPT ![r] =
                   [pc |-> "enter", id |-> id, key |-> own, was |-> rows[own].status,
                    goal |-> IF ~moderator /\ MustWait(id, own) THEN "WAITING" ELSE "JOINED",
                    limit |-> IF moderator THEN None ELSE meetings[id].limit]]
      BY <2>2
    <2> DEFINE v == [pc |-> "enter", id |-> id, key |-> own, was |-> rows[own].status,
                     goal |-> IF ~moderator /\ MustWait(id, own) THEN "WAITING" ELSE "JOINED",
                     limit |-> IF moderator THEN None ELSE meetings[id].limit]
    <2>4. own \in RowsOf(id, u)
      BY <2>2, <2>3
    <2>5. own \in Rows /\ own[1] = id /\ own[2] = u /\ rows[own].status # "none"
      BY <1>1, <2>4, RowsOfType
    <2>6. Unbarred(own)
      BY <2>2, <2>3, <2>5 DEF Unbarred, Standing
    <2>7. rows[own].status \in RowStates /\ meetings[id].limit \in Int \cup {None}
      BY <2>5 DEF Typed, Row, Meeting
    <2>8. v \in Request /\ v.pc = "enter" /\ v.id = id /\ v.key = own
      BY <2>5, <2>7 DEF Request
    <2>9. v.goal = "JOINED" => moderator \/ ~MustWait(id, own)
      OBVIOUS
    <2>10. moderator => Led(own)
      BY <2>2, <2>3, <2>5 DEF Led, Moderating, Standing
    <2>11. reqs' = [reqs EXCEPT ![r] = v]
      BY <2>3
    <2> HIDE DEF v
    <2>12. Fresh(v)
      BY <2>2, <2>5, <2>6, <2>8, <2>9, <2>10 DEF Fresh, Exists
    <2>13. QED
      BY <2>2, <2>11, <2>12 DEF Found, Reads
  <1>4. QED
    BY <1>2, <1>3
-----------------------------------------------------------------------------
(* The invariant every theorem rests on.                                   *)

(* The rows of a meeting that is not there are not there either. *)
AbsentEmpty == \A k \in Rows : ~Exists(k[1]) => rows[k].status = "none"

(* What a work keeps of its form whatever has been committed since. *)
SoundWork(id, w) ==
  /\ Known(id) /\ w.status # "none"
  /\ \A k \in w.rows : k[1] = id
  /\ w.role = "HOST" => w.add \subseteq Hosts
  /\ w.add # {} => w.status = "INVITED" \/ id \in ClassIds
  /\ w.cols \subseteq {"status"} \cup Edits
  /\ "status" \in w.cols => w.to.status \notin {"absent", "SCHEDULED"}
  /\ "host" \in w.cols => w.to.host \in Staff
Sound(v) ==
  /\ v.pc = "gather" => Known(v.id)
  /\ v.pc = "open" => v.by \in Hosts
  /\ v.pc = "enter" => Known(v.id) /\ v.key[1] = v.id
  /\ v.pc = "write" =>
       /\ SoundWork(v.id, v.work)
       /\ v.then # None => /\ v.then[1] = v.id
                           /\ v.work.rows = {} /\ v.work.add = {} /\ v.work.cols = {"status"}
Base == Typed /\ HostInv /\ AbsentEmpty /\ \A r \in Requests : Sound(reqs[r])

LEMMA FreshSound ==
  ASSUME Typed, NEW v, Fresh(v)
  PROVE  v \in Request /\ Sound(v)
  <1>1. \A id : Exists(id) => Known(id)
    BY DEF Exists, Known
  <1>2. CASE v.pc = "write"
    <2>1. FreshWork(v.id, v.work) /\ v.id \in Ids
      BY <1>2 DEF Fresh, Request
    <2>2. "status" \in v.work.cols => v.work.to.status \notin {"absent", "SCHEDULED"}
      BY <2>1 DEF Typed, Meeting, MeetingStates, FreshWork, MayBecome, Exists
    <2>3. QED
      BY <1>1, <1>2, <2>1, <2>2 DEF Fresh, FreshWork, Sound, SoundWork
  <1>3. CASE v.pc = "gather"
    BY <1>3 DEF Fresh, Sound, Known
  <1>4. CASE v.pc \in {"open", "enter", "idle"}
    BY <1>1, <1>4 DEF Fresh, Sound
  <1>5. QED
    BY <1>2, <1>3, <1>4 DEF Fresh, Request

LEMMA BaseInit == Init => Base
  <1> SUFFICES ASSUME Init PROVE Base
    OBVIOUS
  <1>1. NoMeeting \in Meeting /\ NoRow \in Row
    BY Roles DEF NoMeeting, NoRow, Meeting, Row, MeetingStates, RowStates
  <1>2. Typed
    BY <1>1 DEF Init, Typed, TapeStates, Request
  <1>3. HostInv /\ AbsentEmpty
    BY DEF Init, HostInv, AbsentEmpty, NoMeeting, NoRow, Hosts, Rows
  <1>4. \A r \in Requests : Sound(reqs[r])
    BY DEF Init, Sound
  <1>5. QED
    BY <1>2, <1>3, <1>4 DEF Base

(* Meetings only become known. *)
LEMMA SoundStays ==
  ASSUME NEW v \in Request, Sound(v), \A id \in Ids : Known(id) => Known(id)'
  PROVE  Sound(v)'
  <1>1. CASE v.pc \in {"idle", "open"}
    BY <1>1 DEF Sound
  <1>2. CASE v.pc \in {"gather", "enter"}
    <2>1. v.id \in Ids
      BY <1>2 DEF Request
    <2>2. QED
      BY <1>2, <2>1 DEF Sound
  <1>3. CASE v.pc = "write"
    <2>1. v.id \in Ids
      BY <1>3 DEF Request
    <2>2. QED
      BY <1>3, <2>1 DEF Sound, SoundWork
  <1>4. QED
    BY <1>1, <1>2, <1>3 DEF Request

(* A step that commits nothing keeps the invariant. *)
LEMMA BaseReads ==
  ASSUME Base, NEW r \in Requests, NEW v \in Request, Sound(v), Reads(r, v)
  PROVE  Base'
  <1>1. Typed'
    BY DEF Base, Typed, Reads
  <1>2. HostInv' /\ AbsentEmpty'
    BY DEF Base, HostInv, AbsentEmpty, Exists, Reads
  <1>3. \A s \in Requests : reqs'[s] = IF s = r THEN v ELSE reqs[s]
    BY DEF Base, Typed, Reads
  <1>4. \A id \in Ids : Known(id) => Known(id)'
    BY DEF Known, Reads
  <1>5. \A s \in Requests : Sound(reqs[s])'
    <2> SUFFICES ASSUME NEW s \in Requests PROVE Sound(reqs[s])'
      OBVIOUS
    <2> DEFINE x == reqs'[s]
    <2>1. x \in Request /\ Sound(x)
      BY <1>3 DEF Base, Typed
    <2>2. QED
      BY <1>4, <2>1, SoundStays
  <1>6. QED
    BY <1>1, <1>2, <1>3, <1>5 DEF Base

(* Going on with a join or an end, and giving up, read too. *)
Entering(q) ==
  [pc |-> "write", id |-> q.id, then |-> None,
   work |-> PeopleWork(q.id, IF q.was = q.goal THEN {} ELSE {q.key}, {}, "PARTICIPANT", q.goal)]
Ending(q) ==
  [pc |-> "write", id |-> q.id, then |-> None,
   work |-> MeetingWork({"status"}, WithStatus(q.id, "COMPLETED"), Inside(q.id),
                        TapesOf(q.id, {"RECORDING"}), "FAILED")]

LEMMA EnterReads ==
  ASSUME Base, NEW r \in Requests, Enter(r)
  PROVE  /\ reqs[r].pc = "enter" /\ Reads(r, Entering(reqs[r]))
         /\ Entering(reqs[r]) \in Request /\ Sound(Entering(reqs[r]))
  <1> DEFINE q == reqs[r]
             keys == IF q.was = q.goal THEN {} ELSE {q.key}
             add == {}
             role == "PARTICIPANT"
             w == PeopleWork(q.id, keys, add, role, q.goal)
  <1>1. q.pc = "enter" /\ Reads(r, Entering(q))
    BY DEF Enter, Reads, Entering
  <1>2. q.id \in Ids /\ q.key \in Rows /\ q.goal \in {"JOINED", "WAITING"}
        /\ Known(q.id) /\ q.key[1] = q.id
    BY <1>1 DEF Base, Typed, Request, Sound
  <1>3. keys \in SUBSET Rows /\ add \in SUBSET Users /\ add = {}
        /\ role \in {"HOST", "PARTICIPANT"} /\ q.goal \in RowStates
    BY <1>2 DEF RowStates
  <1>4. w \in Work
    <2> HIDE DEF w, keys, add, role, q
    <2>1. Typed
      BY DEF Base
    <2>2. PeopleWork(q.id, keys, add, role, q.goal) \in Work
      BY <1>2, <1>3, <2>1, WorkTypes
    <2>3. QED
      BY <2>2 DEF w
  <1>5. SoundWork(q.id, w)
    BY <1>2 DEF PeopleWork, SoundWork
  <1>6. Entering(q) = [pc |-> "write", id |-> q.id, then |-> None, work |-> w]
    BY DEF Entering
  <1> HIDE DEF w, keys, add, role, q
  <1>7. Entering(q) \in Request
    BY <1>2, <1>4, <1>6 DEF Request
  <1>8. Sound(Entering(q))
    BY <1>5, <1>6 DEF Sound
  <1>9. QED
    BY <1>1, <1>7, <1>8 DEF q

LEMMA GatherReads ==
  ASSUME Base, NEW r \in Requests, Gather(r)
  PROVE  /\ reqs[r].pc = "gather" /\ Reads(r, Ending(reqs[r]))
         /\ Ending(reqs[r]) \in Request /\ Sound(Ending(reqs[r]))
  <1> DEFINE q == reqs[r]
             cols == {"status"}
             new == WithStatus(q.id, "COMPLETED")
             keys == Inside(q.id)
             tapes == TapesOf(q.id, {"RECORDING"})
             w == MeetingWork(cols, new, keys, tapes, "FAILED")
  <1>1. q.pc = "gather" /\ Reads(r, Ending(q))
    BY DEF Gather, Reads, Ending
  <1>2. q.id \in Ids /\ Known(q.id)
    BY <1>1 DEF Base, Typed, Request, Sound
  <1>3. meetings[q.id] \in Meeting
    BY <1>2 DEF Base, Typed
  <1>4. /\ new \in Meeting /\ new.status = "COMPLETED" /\ cols \in SUBSET Columns /\ cols = {"status"}
        /\ keys \in SUBSET Rows /\ (\A k \in keys : k[1] = q.id) /\ tapes \in SUBSET Tapes
        /\ "FAILED" \in TapeStates
    BY <1>2, <1>3 DEF WithStatus, Meeting, MeetingStates, Columns, Inside, Rows, TapesOf, Tapes, TapeStates
  <1> HIDE DEF q, cols, new, keys, tapes
  <1>5. w \in Work
    BY <1>2, <1>4, WorkTypes DEF Base
  <1>6. SoundWork(q.id, w)
    BY <1>2, <1>4 DEF MeetingWork, SoundWork
  <1>7. Ending(q) = [pc |-> "write", id |-> q.id, then |-> None, work |-> w]
    BY DEF Ending, cols, new, keys, tapes
  <1> HIDE DEF w
  <1>8. Ending(q) \in Request
    BY <1>2, <1>5, <1>7 DEF Request
  <1>9. Sound(Ending(q))
    BY <1>6, <1>7 DEF Sound
  <1>10. QED
    BY <1>1, <1>8, <1>9 DEF q

Idle == [pc |-> "idle"]

LEMMA IdleSound == Idle \in Request /\ Sound(Idle)
  BY DEF Idle, Request, Sound

(* Every step is one of these. *)
LEMMA Steps ==
  ASSUME Base, NEW r \in Requests, Handle(r)
  PROVE  \/ \E v : Found(r, v)
         \/ Enter(r) \/ Gather(r) \/ Reads(r, Idle)
         \/ CreateMeeting(r) \/ OpenClass(r) \/ Commit(r)
  <1>1. Typed /\ HostInv
    BY DEF Base
  <1>2. Abort(r) => Reads(r, Idle)
    BY DEF Abort, Reads, Idle
  <1>3. QED
    BY <1>1, <1>2, PeopleRead, MeetingRead, RecordingRead, JoinRead DEF Handle

-----------------------------------------------------------------------------
(* The steps that write.                                                   *)

LEMMA BaseCreate ==
  ASSUME Base, NEW r \in Requests, CreateMeeting(r)
  PROVE  Base'
  <1>1. PICK u \in Callers[r] \cap Admins, id \in Absent(Ids \ ClassIds), host \in Staff,
             s \in Settings, invited \in SUBSET Users :
          /\ reqs[r].pc = "idle"
          /\ meetings' = [meetings EXCEPT ![id] =
               [status |-> "SCHEDULED", host |-> host, limit |-> s.limit,
                waiting |-> s.waiting, record |-> s.record]]
          /\ rows' = [k \in Rows |->
               IF k[1] = id /\ k[2] \in invited \cup {host} /\ k[3] = FreeCopy(id, k[2])
               THEN [role |-> IF k[2] = host THEN "HOST" ELSE "PARTICIPANT",
                     status |-> "INVITED"]
               ELSE rows[k]]
          /\ cleared' = cleared \cup {<<id, host>>}
          /\ UNCHANGED <<recs, reqs>>
    BY DEF CreateMeeting
  <1>2. id \in Ids /\ meetings[id].status = "absent" /\ host \in Users /\ host \in Hosts
        /\ s \in [limit: Int \cup {None}, waiting: BOOLEAN, record: BOOLEAN]
    BY Roles, Bounds DEF Absent, Unused, Hosts
  <1>3. meetings' \in [Ids -> Meeting]
    BY <1>1, <1>2 DEF Base, Typed, Meeting, MeetingStates
  <1>4. \A k \in Rows : k[1] \in Ids
          /\ rows'[k] = IF k[1] = id /\ k[2] \in invited \cup {host} /\ k[3] = FreeCopy(id, k[2])
                        THEN [role |-> IF k[2] = host THEN "HOST" ELSE "PARTICIPANT",
                              status |-> "INVITED"]
                        ELSE rows[k]
    BY <1>1 DEF Rows
  <1>5. rows' \in [Rows -> Row]
    BY <1>1 DEF Base, Typed, Row, RowStates
  <1>6. Typed'
    BY <1>1, <1>2, <1>3, <1>5 DEF Base, Typed
  <1>7. \A i \in Ids : (i # id => meetings'[i] = meetings[i])
                       /\ meetings'[id].status = "SCHEDULED" /\ meetings'[id].host = host
    BY <1>1, <1>2 DEF Base, Typed
  <1>8. HostInv'
    <2>1. \A i \in Ids : meetings'[i].host \in Hosts
      BY <1>2, <1>7 DEF Base, HostInv
    <2>2. ASSUME NEW k \in Rows, rows'[k].role = "HOST" PROVE k[2] \in Hosts
      <3>1. CASE rows'[k] = rows[k]
        BY <2>2, <3>1 DEF Base, HostInv
      <3>2. CASE rows'[k] = [role |-> IF k[2] = host THEN "HOST" ELSE "PARTICIPANT",
                             status |-> "INVITED"]
        BY <1>2, <2>2, <3>2
      <3>3. QED
        BY <1>4, <3>1, <3>2
    <2>3. QED
      BY <2>1, <2>2 DEF HostInv
  <1>9. AbsentEmpty'
    BY <1>4, <1>7 DEF Base, AbsentEmpty, Exists
  <1>10. \A i \in Ids : Known(i) => Known(i)'
    BY <1>7 DEF Known
  <1>11. \A t \in Requests : Sound(reqs[t])'
    BY <1>1, <1>10, SoundStays DEF Base, Typed
  <1>12. QED
    BY <1>6, <1>8, <1>9, <1>11 DEF Base

LEMMA BaseOpen ==
  ASSUME Base, NEW r \in Requests, OpenClass(r)
  PROVE  Base'
  <1> DEFINE u == reqs[r].by
  <1>1. PICK id \in Absent(ClassIds) :
          /\ meetings' = [meetings EXCEPT ![id] =
               [status |-> "LIVE", host |-> u, limit |-> None,
                waiting |-> FALSE, record |-> FALSE]]
          /\ rows' = [rows EXCEPT ![<<id, u, FreeCopy(id, u)>>] =
               [role |-> "HOST", status |-> "JOINED"]]
          /\ cleared' = cleared \cup {<<id, u>>}
    BY DEF OpenClass
  <1>2. reqs' = [reqs EXCEPT ![r] = Idle] /\ UNCHANGED recs /\ reqs[r].pc = "open"
    BY DEF OpenClass, Idle
  <1>3. id \in Ids /\ meetings[id].status = "absent" /\ u \in Users /\ u \in Hosts
    BY <1>2, Bounds DEF Absent, Unused, Base, Typed, Request, Sound
  <1> HIDE DEF u
  <1>4. meetings' \in [Ids -> Meeting]
    BY <1>1, <1>3 DEF Base, Typed, Meeting, MeetingStates
  <1>5. \A k \in Rows : k[1] \in Ids
          /\ rows'[k] = IF k = <<id, u, FreeCopy(id, u)>> THEN [role |-> "HOST", status |-> "JOINED"]
                        ELSE rows[k]
    BY <1>1 DEF Rows, Base, Typed
  <1>6. rows' \in [Rows -> Row]
    BY <1>1 DEF Base, Typed, Row, RowStates
  <1>7. reqs' \in [Requests -> Request]
    BY <1>2, IdleSound DEF Base, Typed
  <1>8. Typed'
    BY <1>1, <1>2, <1>3, <1>4, <1>6, <1>7 DEF Base, Typed
  <1>9. \A i \in Ids : (i # id => meetings'[i] = meetings[i])
                       /\ meetings'[id].status = "LIVE" /\ meetings'[id].host = u
    BY <1>1, <1>3 DEF Base, Typed
  <1>10. HostInv'
    BY <1>3, <1>5, <1>9 DEF Base, HostInv
  <1>11. AbsentEmpty'
    BY <1>5, <1>9 DEF Base, AbsentEmpty, Exists
  <1>12. \A i \in Ids : Known(i) => Known(i)'
    BY <1>9 DEF Known
  <1>13. \A t \in Requests : reqs'[t] \in Request /\ Sound(reqs'[t])
    BY <1>2, IdleSound DEF Base, Typed
  <1>14. \A t \in Requests : Sound(reqs[t])'
    BY <1>12, <1>13, SoundStays
  <1>15. QED
    BY <1>8, <1>10, <1>11, <1>14 DEF Base

(* What a commit of q does. *)
Committed(r, q, w) ==
  /\ q.pc = "write" /\ q.id \in Ids /\ w \in Work /\ q.then \in Rows \cup {None}
  /\ Exists(q.id) /\ Known(q.id) /\ SoundWork(q.id, w)
  /\ meetings' \in [Ids -> Meeting] /\ rows' \in [Rows -> Row]
  /\ \A i \in Ids : meetings'[i] = IF i = q.id THEN Patched(meetings[i], w) ELSE meetings[i]
  /\ \A k \in Rows : rows'[k] = RowAfter(k, q.id, w)
  /\ cleared' = cleared \cup {<<q.id, Patched(meetings[q.id], w).host>>}
       \cup {<<k[1], k[2]>> : k \in {j \in w.rows : w.status = "ADMITTED"}}

Onward(q) ==
  IF q.then = None THEN Idle
  ELSE [pc |-> "enter", id |-> q.id, key |-> q.then,
        was |-> rows[q.then].status, goal |-> "JOINED", limit |-> None]

LEMMA CommitWrites ==
  ASSUME Base, NEW r \in Requests, Commit(r)
  PROVE  /\ Committed(r, reqs[r], reqs[r].work) /\ Typed'
         /\ reqs' = [reqs EXCEPT ![r] = Onward(reqs[r])]
         /\ Onward(reqs[r]) \in Request /\ Sound(Onward(reqs[r]))
  <1> DEFINE q == reqs[r]
             w == q.work
  <1>1. /\ q.pc = "write"
        /\ Applies(q.id, w)
        /\ meetings' = [meetings EXCEPT ![q.id] = Patched(@, w)]
        /\ rows' = [k \in Rows |-> RowAfter(k, q.id, w)]
        /\ recs' \in TapesAfter(q.id, w)
        /\ reqs' = [reqs EXCEPT ![r] = Onward(q)]
        /\ cleared' = cleared \cup {<<q.id, Patched(meetings[q.id], w).host>>}
             \cup {<<k[1], k[2]>> : k \in {j \in w.rows : w.status = "ADMITTED"}}
    BY DEF Commit, Onward, Idle
  <1>2. q.id \in Ids /\ w \in Work /\ q.then \in Rows \cup {None} /\ Sound(q)
    BY <1>1 DEF Base, Typed, Request
  <1>3. SoundWork(q.id, w) /\ Known(q.id) /\ Exists(q.id)
    BY <1>1, <1>2 DEF Sound, SoundWork, Applies
  <1>4. q.then # None => q.then \in Rows /\ q.then[1] = q.id
    BY <1>1, <1>2 DEF Sound
  <1>5. Onward(q) \in Request
    <2>1. q.then # None => rows[q.then].status \in RowStates
      BY <1>4 DEF Base, Typed, Row
    <2>2. CASE q.then = None
      BY <2>2, IdleSound DEF Onward
    <2>3. CASE q.then # None
      BY <1>2, <1>4, <2>1, <2>3 DEF Onward, Request
    <2>4. QED
      BY <2>2, <2>3
  <1>6. Sound(Onward(q))
    BY <1>3, <1>4, IdleSound DEF Onward, Sound
  <1> HIDE DEF q, w
  <1>7. Patched(meetings[q.id], w) \in Meeting
    <2>1. meetings[q.id] \in Meeting /\ w.to \in Meeting
      BY <1>2 DEF Base, Typed, Work
    <2>2. QED
      BY <2>1 DEF Patched, Meeting
  <1>8. meetings' \in [Ids -> Meeting]
    BY <1>1, <1>2, <1>7 DEF Base, Typed
  <1>9. rows' \in [Rows -> Row]
    <2> SUFFICES ASSUME NEW k \in Rows PROVE RowAfter(k, q.id, w) \in Row
      BY <1>1
    <2>1. rows[k] \in Row /\ NoRow \in Row
      BY DEF Base, Typed, NoRow, Row, RowStates
    <2>2. w.status \in RowStates /\ w.role \in {"HOST", "PARTICIPANT"}
      BY <1>2 DEF Work
    <2>3. QED
      BY <2>1, <2>2 DEF RowAfter, Row
  <1>10. recs' \in [Tapes -> TapeStates]
    <2>1. PICK y : recs' = [x \in Tapes |-> IF x \in w.tapes THEN w.tapeTo
                              ELSE IF w.tape /\ x = y THEN "RECORDING" ELSE recs[x]]
      BY <1>1 DEF TapesAfter
    <2>2. w.tapeTo \in TapeStates /\ recs \in [Tapes -> TapeStates] /\ "RECORDING" \in TapeStates
      BY <1>2 DEF Work, Base, Typed, TapeStates
    <2>3. QED
      BY <2>1, <2>2
  <1>11. reqs' \in [Requests -> Request]
    BY <1>1, <1>5 DEF Base, Typed
  <1>12. cleared' \subseteq Ids \X Users
    <2>1. Patched(meetings[q.id], w).host \in Users
      BY <1>7 DEF Meeting
    <2>2. \A k \in w.rows : k[1] \in Ids /\ k[2] \in Users
      BY <1>2 DEF Work, Rows
    <2>3. QED
      BY <1>1, <1>2, <2>1, <2>2 DEF Base, Typed
  <1>13. Typed'
    BY <1>8, <1>9, <1>10, <1>11, <1>12 DEF Typed
  <1>14. \A i \in Ids : meetings'[i] = IF i = q.id THEN Patched(meetings[i], w) ELSE meetings[i]
    BY <1>1, <1>2 DEF Base, Typed
  <1>15. \A k \in Rows : rows'[k] = RowAfter(k, q.id, w)
    BY <1>1
  <1>16. Committed(r, q, w)
    BY <1>1, <1>2, <1>3, <1>8, <1>9, <1>14, <1>15 DEF Committed
  <1>17. QED
    BY <1>1, <1>5, <1>6, <1>13, <1>16 DEF q, w

LEMMA BaseCommit ==
  ASSUME Base, NEW r \in Requests, Commit(r)
  PROVE  Base'
  <1> DEFINE q == reqs[r]
             w == q.work
  <1>1. /\ Committed(r, q, w) /\ Typed' /\ reqs' = [reqs EXCEPT ![r] = Onward(q)]
        /\ Onward(q) \in Request /\ Sound(Onward(q))
    BY CommitWrites
  <1> HIDE DEF q, w
  <1>2. \A i \in Ids : Known(i) => Known(i)'
    BY <1>1 DEF Committed, Known, Patched, SoundWork
  <1>4. HostInv'
    <2>1. \A i \in Ids : meetings'[i].host \in Hosts
      BY <1>1 DEF Committed, Patched, SoundWork, Base, HostInv, Hosts
    <2>2. \A k \in Rows : rows'[k].role = "HOST" => k[2] \in Hosts
      BY <1>1 DEF Committed, RowAfter, NoRow, SoundWork, Base, HostInv
    <2>3. QED
      BY <2>1, <2>2 DEF HostInv
  <1>5. AbsentEmpty'
    <2> SUFFICES ASSUME NEW k \in Rows, ~Exists(k[1])' PROVE rows'[k].status = "none"
      BY DEF AbsentEmpty
    <2>1. k[1] \in Ids /\ rows'[k] = RowAfter(k, q.id, w)
      BY <1>1 DEF Rows, Committed
    <2>2. CASE k[1] = q.id
      <3>1. Deletes(w)
        BY <1>1, <2>1, <2>2 DEF Committed, Exists, Patched, Deletes, SoundWork
      <3>2. QED
        BY <2>1, <2>2, <3>1 DEF RowAfter, NoRow
    <2>3. CASE k[1] # q.id
      <3>1. ~Exists(k[1])
        BY <1>1, <2>1, <2>3 DEF Committed, Exists
      <3>2. RowAfter(k, q.id, w) = rows[k]
        BY <1>1, <2>3 DEF RowAfter, Committed, SoundWork
      <3>3. QED
        BY <2>1, <3>1, <3>2 DEF Base, AbsentEmpty
    <2>4. QED
      BY <2>2, <2>3
  <1>6. \A t \in Requests : reqs'[t] \in Request /\ Sound(reqs'[t])
    BY <1>1 DEF Base, Typed
  <1>7. \A t \in Requests : Sound(reqs[t])'
    BY <1>2, <1>6, SoundStays
  <1>8. QED
    BY <1>1, <1>4, <1>5, <1>7 DEF Base

LEMMA BaseNext == Base /\ [Next]_vars => Base'
  <1> SUFFICES ASSUME Base, [Next]_vars PROVE Base'
    OBVIOUS
  <1>1. CASE UNCHANGED vars
    BY <1>1 DEF vars, Base, Typed, HostInv, AbsentEmpty, Exists, Known, Sound, SoundWork
  <1>2. ASSUME NEW r \in Requests, Handle(r) PROVE Base'
    <2>1. ASSUME NEW v, Found(r, v) PROVE Base'
      BY <2>1, FreshSound, BaseReads DEF Found, Base
    <2>2. CASE Enter(r)
      BY <2>2, EnterReads, BaseReads
    <2>3. CASE Gather(r)
      BY <2>3, GatherReads, BaseReads
    <2>4. CASE Reads(r, Idle)
      BY <2>4, IdleSound, BaseReads
    <2>5. QED
      BY <1>2, <2>1, <2>2, <2>3, <2>4, Steps, BaseCreate, BaseOpen, BaseCommit
  <1>3. QED
    BY <1>1, <1>2 DEF Next

LEMMA BaseAlways == Spec => []Base
  BY BaseInit, BaseNext, PTL DEF Spec

(* The variables keep their types: meetings, participant rows, recordings  *)
(* and pending requests.                                                   *)
THEOREM TypeCorrect == Spec => []TypeOK
  <1>1. Init => overtaken \subseteq Requests
    BY DEF Init
  <1>2. overtaken \subseteq Requests /\ [Next]_vars => (overtaken \subseteq Requests)'
    BY DEF Next, Overtakes, vars
  <1>3. Base /\ overtaken \subseteq Requests => TypeOK
    BY DEF Base, Typed, TypeOK
  <1>4. QED
    BY <1>1, <1>2, <1>3, BaseAlways, PTL DEF Spec

-----------------------------------------------------------------------------
(* The lobby.                                                              *)

(* The person of row k may be inside: no lobby, they lead the meeting, or  *)
(* they have been admitted at some time.                                   *)
MayEnter(k) ==
  \/ k[1] \in ClassIds \/ ~meetings[k[1]].waiting \/ ~Exists(k[1])
  \/ rows[k].role = "HOST" /\ rows[k].status # "none"
  \/ <<k[1], k[2]>> \in cleared

(* A request lets nobody in but those who may enter, however late it       *)
(* commits.                                                                *)
Admits(v) ==
  /\ v.pc = "enter" /\ v.goal = "JOINED" => MayEnter(v.key)
  /\ v.pc = "write" =>
       /\ v.work.status = "JOINED" => \A k \in v.work.rows : MayEnter(k)
       /\ v.then # None => MayEnter(v.then)

Lobby ==
  /\ Base
  /\ \A k \in Rows : rows[k].status \in {"ADMITTED", "JOINED"} => MayEnter(k)
  /\ \A i \in Ids : Exists(i) => <<i, meetings[i].host>> \in cleared
  /\ \A r \in Requests : Admits(reqs[r])

(* Once in, always: what lets a person in is not undone. *)
Lasting == \A k \in Rows : Known(k[1]) /\ MayEnter(k) => MayEnter(k)'

LEMMA AdmitsStays ==
  ASSUME Lasting, NEW v \in Request, Sound(v), Admits(v)
  PROVE  Admits(v)'
  <1>1. CASE v.pc = "enter"
    <2>1. v.key \in Rows /\ Known(v.key[1])
      BY <1>1 DEF Request, Sound
    <2>2. QED
      BY <1>1, <2>1 DEF Admits, Lasting
  <1>2. CASE v.pc = "write"
    <2>1. v.work \in Work /\ v.then \in Rows \cup {None}
      BY <1>2 DEF Request
    <2>2. /\ \A k \in v.work.rows : k \in Rows /\ Known(k[1])
          /\ v.then # None => Known(v.then[1])
      BY <1>2, <2>1 DEF Sound, SoundWork, Work
    <2>3. QED
      BY <1>2, <2>1, <2>2 DEF Admits, Lasting
  <1>3. QED
    BY <1>1, <1>2 DEF Admits

(* A meeting is planned: by an administrator, with rows of its own. *)
LEMMA CreateWrites ==
  ASSUME Base, NEW r \in Requests, CreateMeeting(r)
  PROVE  \E u \in Callers[r], id \in Ids, host \in Staff :
           /\ u \in Admins /\ reqs[r].pc = "idle" /\ meetings[id].status = "absent"
           /\ \A i \in Ids : i # id => meetings'[i] = meetings[i]
           /\ meetings'[id].status = "SCHEDULED" /\ meetings'[id].host = host
           /\ \A k \in Rows : rows'[k] = rows[k] \/ (k[1] = id /\ rows'[k].status = "INVITED")
           /\ cleared' = cleared \cup {<<id, host>>}
           /\ UNCHANGED reqs
  <1>1. PICK u \in Callers[r] \cap Admins, id \in Absent(Ids \ ClassIds), host \in Staff,
             s \in Settings, invited \in SUBSET Users :
          /\ reqs[r].pc = "idle"
          /\ meetings' = [meetings EXCEPT ![id] =
               [status |-> "SCHEDULED", host |-> host, limit |-> s.limit,
                waiting |-> s.waiting, record |-> s.record]]
          /\ rows' = [k \in Rows |->
               IF k[1] = id /\ k[2] \in invited \cup {host} /\ k[3] = FreeCopy(id, k[2])
               THEN [role |-> IF k[2] = host THEN "HOST" ELSE "PARTICIPANT",
                     status |-> "INVITED"]
               ELSE rows[k]]
          /\ cleared' = cleared \cup {<<id, host>>}
          /\ UNCHANGED <<recs, reqs>>
    BY DEF CreateMeeting
  <1>2. id \in Ids /\ meetings[id].status = "absent"
    BY DEF Absent, Unused
  <1>3. \A i \in Ids : (i # id => meetings'[i] = meetings[i])
                       /\ meetings'[id].status = "SCHEDULED" /\ meetings'[id].host = host
    BY <1>1, <1>2 DEF Base, Typed
  <1>4. \A k \in Rows : rows'[k] = rows[k] \/ (k[1] = id /\ rows'[k].status = "INVITED")
    BY <1>1
  <1>5. QED
    BY <1>1, <1>2, <1>3, <1>4

(* A class is opened, by one who may host. *)
LEMMA OpenWrites ==
  ASSUME Base, NEW r \in Requests, OpenClass(r)
  PROVE  /\ reqs[r].pc = "open" /\ reqs' = [reqs EXCEPT ![r] = Idle]
         /\ \E id \in ClassIds :
              /\ id \in Ids /\ meetings[id].status = "absent"
              /\ \A i \in Ids : i # id => meetings'[i] = meetings[i]
              /\ meetings'[id].status = "LIVE" /\ meetings'[id].host = reqs[r].by
              /\ \A k \in Rows : k[1] # id => rows'[k] = rows[k]
              /\ cleared' = cleared \cup {<<id, reqs[r].by>>}
  <1> DEFINE u == reqs[r].by
  <1>1. PICK id \in Absent(ClassIds) :
          /\ meetings' = [meetings EXCEPT ![id] =
               [status |-> "LIVE", host |-> u, limit |-> None,
                waiting |-> FALSE, record |-> FALSE]]
          /\ rows' = [rows EXCEPT ![<<id, u, FreeCopy(id, u)>>] =
               [role |-> "HOST", status |-> "JOINED"]]
          /\ cleared' = cleared \cup {<<id, u>>}
    BY DEF OpenClass
  <1>2. reqs[r].pc = "open" /\ reqs' = [reqs EXCEPT ![r] = Idle]
    BY DEF OpenClass, Idle
  <1> HIDE DEF u
  <1>3. id \in Ids /\ id \in ClassIds /\ meetings[id].status = "absent"
    BY Bounds DEF Absent, Unused
  <1>4. \A i \in Ids : (i # id => meetings'[i] = meetings[i])
                       /\ meetings'[id].status = "LIVE" /\ meetings'[id].host = u
    BY <1>1, <1>3 DEF Base, Typed
  <1>5. \A k \in Rows : k[1] # id => rows'[k] = rows[k]
    BY <1>1 DEF Base, Typed
  <1>6. QED
    BY <1>1, <1>2, <1>3, <1>4, <1>5 DEF u

LEMMA LastingSteps ==
  ASSUME Base, "waiting" \notin Edits, NEW r \in Requests
  PROVE  /\ \A v : Reads(r, v) => Lasting
         /\ CreateMeeting(r) \/ OpenClass(r) \/ Commit(r) => Lasting
  <1>1. ASSUME NEW v, Reads(r, v) PROVE Lasting
    BY <1>1 DEF Reads, Lasting, MayEnter, Exists
  <1>2. ASSUME NEW id \in Ids, ~Known(id),
               \A i \in Ids : i # id => meetings'[i] = meetings[i],
               \A k \in Rows : k[1] # id => rows'[k] = rows[k],
               cleared \subseteq cleared'
        PROVE  Lasting
    <2> SUFFICES ASSUME NEW k \in Rows, Known(k[1]), MayEnter(k) PROVE MayEnter(k)'
      BY DEF Lasting
    <2>1. k[1] \in Ids /\ k[1] # id
      BY <1>2 DEF Rows
    <2>2. QED
      BY <1>2, <2>1 DEF MayEnter, Exists
  <1>3. CASE CreateMeeting(r)
    BY <1>2, <1>3, CreateWrites DEF Known
  <1>4. CASE OpenClass(r)
    BY <1>2, <1>4, OpenWrites DEF Known
  <1>5. CASE Commit(r)
    <2> DEFINE q == reqs[r]
               w == q.work
    <2>1. Committed(r, q, w)
      BY <1>5, CommitWrites
    <2> HIDE DEF q, w
    <2> SUFFICES ASSUME NEW k \in Rows, Known(k[1]), MayEnter(k) PROVE MayEnter(k)'
      BY DEF Lasting
    <2>2. k[1] \in Ids /\ rows'[k] = RowAfter(k, q.id, w) /\ cleared \subseteq cleared'
      BY <2>1 DEF Rows, Committed
    <2>3. meetings'[k[1]].waiting = meetings[k[1]].waiting
      BY <2>1, <2>2 DEF Committed, Patched, SoundWork
    <2>4. CASE ~Exists(k[1])
      BY <2>1, <2>2, <2>4 DEF Committed, MayEnter, Exists
    <2>5. CASE Exists(k[1])' /\ rows[k].role = "HOST" /\ rows[k].status # "none"
      <3>1. ~(k[1] = q.id /\ Deletes(w))
        BY <2>1, <2>2, <2>5 DEF Committed, Deletes, Exists, Patched
      <3>2. HasFreeCopy(q.id, k[2]) => k # <<q.id, k[2], FreeCopy(q.id, k[2])>>
        BY <2>5 DEF HasFreeCopy, FreeCopy
      <3>3. k[1] = q.id /\ k[2] \in w.add => k[3] # FreeCopy(q.id, k[2])
        BY <1>5, <3>2 DEF Commit, Applies, Rows, q, w
      <3>4. rows'[k].role = "HOST" /\ rows'[k].status # "none"
        BY <2>1, <2>2, <2>5, <3>1, <3>3 DEF RowAfter, Committed, SoundWork
      <3>5. QED
        BY <3>4 DEF MayEnter
    <2>6. CASE ~Exists(k[1])'
      BY <2>6 DEF MayEnter
    <2>7. QED
      BY <2>2, <2>3, <2>4, <2>5, <2>6 DEF MayEnter
  <1>6. QED
    BY <1>1, <1>3, <1>4, <1>5

LEMMA LobbyReads ==
  ASSUME Lobby, NEW r \in Requests, NEW v \in Request, Sound(v), Admits(v), Reads(r, v)
  PROVE  Lobby'
  <1>1. Base'
    BY BaseReads DEF Lobby
  <1>2. Lasting
    BY DEF Reads, Lasting, MayEnter, Exists
  <1>3. \A t \in Requests : reqs'[t] \in Request /\ Sound(reqs'[t]) /\ Admits(reqs'[t])
    BY DEF Reads, Lobby, Base, Typed
  <1>4. \A t \in Requests : Admits(reqs[t])'
    BY <1>2, <1>3, AdmitsStays
  <1>5. \A k \in Rows : rows'[k].status \in {"ADMITTED", "JOINED"} => MayEnter(k)'
    BY DEF Reads, Lobby, MayEnter, Exists
  <1>6. \A i \in Ids : Exists(i)' => <<i, meetings'[i].host>> \in cleared'
    BY DEF Reads, Lobby, Exists
  <1>7. QED
    BY <1>1, <1>4, <1>5, <1>6 DEF Lobby

(* What is read in the present tables admits only those who may enter.     *)
LEMMA FreshAdmits ==
  ASSUME Lobby, NEW v, Fresh(v)
  PROVE  Admits(v)
  <1>1. v \in Request /\ Sound(v)
    BY FreshSound DEF Lobby, Base
  <1>2. ASSUME NEW k \in Rows, Led(k), rows[k].status # "none" PROVE MayEnter(k)
    <2>1. k[1] \in Ids
      BY DEF Rows
    <2>2. meetings[k[1]].host = k[2] /\ Exists(k[1]) => <<k[1], k[2]>> \in cleared
      BY <2>1 DEF Lobby
    <2>3. QED
      BY <1>2, <2>2 DEF Led, MayEnter
  <1>3. CASE v.pc = "enter"
    <2>1. /\ v.key \in Rows /\ v.key[1] = v.id /\ rows[v.key].status # "none"
          /\ v.goal = "JOINED" => Led(v.key) \/ ~MustWait(v.id, v.key)
      BY <1>1, <1>3 DEF Fresh, Request
    <2>2. ~MustWait(v.id, v.key) => MayEnter(v.key)
      BY <2>1 DEF MustWait, MayEnter, Lobby
    <2>3. QED
      BY <1>2, <1>3, <2>1, <2>2 DEF Admits
  <1>4. CASE v.pc = "write"
    <2>1. v.then \in Rows \cup {None} /\ FreshWork(v.id, v.work)
          /\ (v.then # None => Led(v.then) /\ rows[v.then].status # "none")
      BY <1>1, <1>4 DEF Fresh, Request
    <2>2. v.work.status = "JOINED" => \A k \in v.work.rows : MayEnter(k)
      BY <2>1 DEF FreshWork, MayEnter
    <2>3. QED
      BY <1>2, <1>4, <2>1, <2>2 DEF Admits
  <1>5. QED
    BY <1>3, <1>4 DEF Admits

LEMMA LobbyGoesOn ==
  ASSUME Lobby, NEW r \in Requests, Enter(r) \/ Gather(r) \/ Reads(r, Idle)
  PROVE  Lobby'
  <1>1. Base /\ Admits(reqs[r])
    BY DEF Lobby
  <1>2. CASE Enter(r)
    <2> DEFINE q == reqs[r]
               v == Entering(q)
    <2>1. q.pc = "enter" /\ Reads(r, v) /\ v \in Request /\ Sound(v)
      BY <1>1, <1>2, EnterReads
    <2>2. /\ v.pc = "write" /\ v.then = None /\ v.work.status = q.goal
          /\ \A k \in v.work.rows : k = q.key
      BY DEF Entering, PeopleWork
    <2> HIDE DEF v
    <2>3. Admits(v)
      BY <1>1, <2>1, <2>2 DEF Admits
    <2>4. QED
      BY <2>1, <2>3, LobbyReads
  <1>3. CASE Gather(r)
    <2> DEFINE v == Ending(reqs[r])
    <2>1. Reads(r, v) /\ v \in Request /\ Sound(v)
      BY <1>1, <1>3, GatherReads
    <2>2. v.pc = "write" /\ v.then = None /\ v.work.status = "LEFT"
      BY DEF Ending, MeetingWork
    <2> HIDE DEF v
    <2>3. Admits(v)
      BY <2>2 DEF Admits
    <2>4. QED
      BY <2>1, <2>3, LobbyReads
  <1>4. CASE Reads(r, Idle)
    <2>1. Admits(Idle)
      BY DEF Admits, Idle
    <2>2. QED
      BY <1>4, <2>1, IdleSound, LobbyReads
  <1>5. QED
    BY <1>2, <1>3, <1>4

LEMMA LobbyCreate ==
  ASSUME Lobby, "waiting" \notin Edits, NEW r \in Requests, CreateMeeting(r)
  PROVE  Lobby'
  <1>1. Base /\ Base' /\ Lasting
    BY BaseCreate, LastingSteps DEF Lobby
  <1>2. PICK id \in Ids, host \in Staff :
          /\ meetings[id].status = "absent"
          /\ \A i \in Ids : i # id => meetings'[i] = meetings[i]
          /\ meetings'[id].status = "SCHEDULED" /\ meetings'[id].host = host
          /\ \A k \in Rows : rows'[k] = rows[k] \/ (k[1] = id /\ rows'[k].status = "INVITED")
          /\ cleared' = cleared \cup {<<id, host>>}
          /\ UNCHANGED reqs
    BY <1>1, CreateWrites
  <1>5. ASSUME NEW k \in Rows, rows'[k].status \in {"ADMITTED", "JOINED"} PROVE MayEnter(k)'
    <2>1. rows'[k] = rows[k] /\ k[1] \in Ids
      BY <1>2, <1>5 DEF Rows
    <2>2. Exists(k[1]) /\ MayEnter(k)
      BY <1>1, <1>5, <2>1 DEF Base, AbsentEmpty, Lobby
    <2>3. Known(k[1])
      BY <2>2 DEF Exists, Known
    <2>4. QED
      BY <1>1, <2>2, <2>3 DEF Lasting
  <1>6. \A i \in Ids : Exists(i)' => <<i, meetings'[i].host>> \in cleared'
    BY <1>2 DEF Lobby, Exists
  <1>7. \A t \in Requests : Admits(reqs[t])'
    BY <1>1, <1>2, AdmitsStays DEF Lobby, Base, Typed
  <1>8. QED
    BY <1>1, <1>5, <1>6, <1>7 DEF Lobby

LEMMA LobbyOpen ==
  ASSUME Lobby, "waiting" \notin Edits, NEW r \in Requests, OpenClass(r)
  PROVE  Lobby'
  <1>1. Base /\ Base' /\ Lasting
    BY BaseOpen, LastingSteps DEF Lobby
  <1>2. /\ reqs' = [reqs EXCEPT ![r] = Idle]
        /\ \E id \in ClassIds :
              /\ id \in Ids /\ meetings[id].status = "absent"
              /\ \A i \in Ids : i # id => meetings'[i] = meetings[i]
              /\ meetings'[id].host = reqs[r].by
              /\ \A k \in Rows : k[1] # id => rows'[k] = rows[k]
              /\ cleared' = cleared \cup {<<id, reqs[r].by>>}
    BY <1>1, OpenWrites
  <1>3. PICK id \in ClassIds :
              /\ id \in Ids /\ meetings[id].status = "absent"
              /\ \A i \in Ids : i # id => meetings'[i] = meetings[i]
              /\ meetings'[id].host = reqs[r].by
              /\ \A k \in Rows : k[1] # id => rows'[k] = rows[k]
              /\ cleared' = cleared \cup {<<id, reqs[r].by>>}
    BY <1>2
  <1>5. ASSUME NEW k \in Rows, rows'[k].status \in {"ADMITTED", "JOINED"} PROVE MayEnter(k)'
    <2>1. CASE k[1] = id
      BY <1>3, <2>1 DEF MayEnter
    <2>2. CASE k[1] # id
      <3>1. rows'[k] = rows[k]
        BY <1>3, <2>2
      <3>2. Exists(k[1]) /\ MayEnter(k)
        BY <1>1, <1>5, <3>1 DEF Base, AbsentEmpty, Lobby
      <3>3. Known(k[1])
        BY <3>2 DEF Exists, Known
      <3>4. QED
        BY <1>1, <3>2, <3>3 DEF Lasting
    <2>3. QED
      BY <2>1, <2>2
  <1>6. \A i \in Ids : Exists(i)' => <<i, meetings'[i].host>> \in cleared'
    BY <1>3 DEF Lobby, Exists
  <1>7. \A t \in Requests : reqs'[t] \in Request /\ Sound(reqs'[t]) /\ Admits(reqs'[t])
    <2>1. Admits(Idle)
      BY DEF Admits, Idle
    <2>2. QED
      BY <1>1, <1>2, <2>1, IdleSound DEF Lobby, Base, Typed
  <1>8. \A t \in Requests : Admits(reqs[t])'
    BY <1>1, <1>7, AdmitsStays
  <1>9. QED
    BY <1>1, <1>5, <1>6, <1>8 DEF Lobby

LEMMA LobbyCommit ==
  ASSUME Lobby, "waiting" \notin Edits, NEW r \in Requests, Commit(r)
  PROVE  Lobby'
  <1> DEFINE q == reqs[r]
             w == q.work
  <1>1. Base /\ Base' /\ Lasting /\ Admits(q)
    BY BaseCommit, LastingSteps DEF Lobby
  <1>2. /\ Committed(r, q, w) /\ reqs' = [reqs EXCEPT ![r] = Onward(q)]
        /\ Onward(q) \in Request /\ Sound(Onward(q))
    BY <1>1, CommitWrites
  <1>3. w.status = "JOINED" => \A k \in w.rows : MayEnter(k)
    BY <1>1, <1>2 DEF Committed, Admits
  <1>4. Admits(Onward(q))
    <2>1. q.then # None => MayEnter(q.then)
      BY <1>1, <1>2 DEF Committed, Admits
    <2>2. QED
      BY <2>1 DEF Onward, Idle, Admits
  <1> HIDE DEF q, w
  <1>5. ASSUME NEW k \in Rows, rows'[k].status \in {"ADMITTED", "JOINED"} PROVE MayEnter(k)'
    <2>1. rows'[k] = RowAfter(k, q.id, w) /\ k[1] \in Ids
      BY <1>2 DEF Committed, Rows
    <2>2. CASE rows'[k] = rows[k]
      <3>1. Exists(k[1]) /\ MayEnter(k)
        BY <1>1, <1>5, <2>2 DEF Base, AbsentEmpty, Lobby
      <3>2. Known(k[1])
        BY <3>1 DEF Exists, Known
      <3>3. QED
        BY <1>1, <3>1, <3>2 DEF Lasting
    <2>3. CASE k \in w.rows /\ w.status = "ADMITTED"
      <3>1. <<k[1], k[2]>> \in cleared'
        BY <1>2, <2>3 DEF Committed
      <3>2. QED
        BY <3>1 DEF MayEnter
    <2>4. CASE k \in w.rows /\ w.status = "JOINED"
      <3>1. MayEnter(k) /\ Known(k[1])
        BY <1>2, <1>3, <2>4 DEF Committed, SoundWork
      <3>2. QED
        BY <1>1, <3>1 DEF Lasting
    <2>5. CASE k[1] = q.id /\ k[2] \in w.add /\ rows'[k] = [role |-> w.role, status |-> w.status]
      <3>1. k[1] \in ClassIds
        BY <1>2, <1>5, <2>5 DEF Committed, SoundWork
      <3>2. QED
        BY <3>1 DEF MayEnter
    <2>6. QED
      BY <1>5, <2>1, <2>2, <2>3, <2>4, <2>5 DEF RowAfter, NoRow
  <1>6. \A i \in Ids : Exists(i)' => <<i, meetings'[i].host>> \in cleared'
    <2> SUFFICES ASSUME NEW i \in Ids, Exists(i)' PROVE <<i, meetings'[i].host>> \in cleared'
      OBVIOUS
    <2>1. CASE i = q.id
      BY <1>2, <2>1 DEF Committed
    <2>2. CASE i # q.id
      BY <1>2, <2>2 DEF Committed, Lobby, Exists
    <2>3. QED
      BY <2>1, <2>2
  <1>7. \A t \in Requests : reqs'[t] \in Request /\ Sound(reqs'[t]) /\ Admits(reqs'[t])
    BY <1>1, <1>2, <1>4 DEF Lobby, Base, Typed
  <1>8. \A t \in Requests : Admits(reqs[t])'
    BY <1>1, <1>7, AdmitsStays
  <1>9. QED
    BY <1>1, <1>5, <1>6, <1>8 DEF Lobby

(* With the lobby's switch left alone while a meeting exists, nobody is    *)
(* inside a planned meeting whom its host has not let in, whichever        *)
(* requests were building their work when the rows changed.                *)
THEOREM LobbyHolds ==
  ASSUME "waiting" \notin Edits
  PROVE  Spec => []AdmittedFirst
  <1>1. Init => Lobby
    <2>1. Init => Base
      BY BaseInit
    <2>2. Init => \A k \in Rows : rows[k].status = "none"
      BY DEF Init, NoRow
    <2>3. Init => \A i \in Ids : ~Exists(i)
      BY DEF Init, NoMeeting, Exists
    <2>4. Init => \A r \in Requests : Admits(reqs[r])
      BY DEF Init, Admits
    <2>5. QED
      BY <2>1, <2>2, <2>3, <2>4 DEF Lobby
  <1>2. Lobby /\ [Next]_vars => Lobby'
    <2> SUFFICES ASSUME Lobby, [Next]_vars PROVE Lobby'
      OBVIOUS
    <2>1. CASE UNCHANGED vars
      <3>1. Base' /\ Lasting
        BY <2>1, BaseNext DEF Lobby, vars, Lasting, MayEnter, Exists
      <3>2. \A t \in Requests : Admits(reqs[t])'
        BY <2>1, <3>1, AdmitsStays DEF vars, Lobby, Base, Typed
      <3>3. QED
        BY <2>1, <3>1, <3>2 DEF vars, Lobby, MayEnter, Exists
    <2>2. ASSUME NEW r \in Requests, Handle(r) PROVE Lobby'
      <3>1. Base
        BY DEF Lobby
      <3>2. ASSUME NEW v, Found(r, v) PROVE Lobby'
        <4>1. v \in Request /\ Sound(v) /\ Admits(v) /\ Reads(r, v)
          BY <3>1, <3>2, FreshSound, FreshAdmits DEF Found, Base
        <4>2. QED
          BY <4>1, LobbyReads
      <3>3. QED
        BY <2>2, <3>1, <3>2, Steps, LobbyGoesOn, LobbyCreate, LobbyOpen, LobbyCommit
    <2>3. QED
      BY <2>1, <2>2 DEF Next
  <1>3. Lobby => AdmittedFirst
    <2> SUFFICES ASSUME Lobby, NEW k \in Rows, k[1] \notin ClassIds, meetings[k[1]].waiting,
                        rows[k].status = "JOINED", rows[k].role = "PARTICIPANT"
                 PROVE  <<k[1], k[2]>> \in cleared
      BY DEF AdmittedFirst
    <2>1. MayEnter(k) /\ Exists(k[1])
      BY DEF Lobby, Base, AbsentEmpty
    <2>2. QED
      BY <2>1 DEF MayEnter
  <1>4. QED
    BY <1>1, <1>2, <1>3, PTL DEF Spec

-----------------------------------------------------------------------------
(* Requests that nobody has overtaken.                                     *)

(* The request is still due: the meeting is as it found it. *)
Due(v) ==
  /\ v.pc = "gather" => meetings[v.id].status = "LIVE"
  /\ v.pc = "write" /\ "status" \in v.work.cols =>
       v.work.to.status \in MayBecome[meetings[v.id].status]

(* The rows the request writes are still those of people not turned away.  *)
Spares(v) ==
  /\ v.pc = "enter" => Unbarred(v.key)
  /\ v.pc = "write" =>
       /\ \A k \in v.work.rows : v.work.status \in Barred \cup {"ADMITTED"} \/ Unbarred(k)
       /\ v.then # None => Unbarred(v.then)

(* A request that is not overtaken decides on what it has read. *)
Timely == Base /\ \A r \in Requests \ overtaken : Due(reqs[r]) /\ Spares(reqs[r])

LEMMA IdleTimely == Due(Idle) /\ Spares(Idle)
  BY DEF Due, Spares, Idle

(* The rows of its meeting are all that a request decides on. *)
LEMMA Unseen ==
  ASSUME NEW v \in Request, Sound(v), Due(v), Spares(v), Bound(v) => ~Touched(v.id)
  PROVE  Due(v)' /\ Spares(v)'
  <1>1. CASE v.pc \in {"idle", "open"}
    BY <1>1 DEF Due, Spares
  <1>2. CASE v.pc \in {"gather", "enter", "write"}
    <2>1. v.id \in Ids /\ meetings'[v.id] = meetings[v.id]
          /\ \A k \in Rows : k[1] = v.id => rows'[k] = rows[k]
      BY <1>2 DEF Request, Bound, Touched, Rows
    <2>2. \A k \in Rows : k[1] = v.id /\ Unbarred(k) => Unbarred(k)'
      BY <2>1 DEF Unbarred
    <2>3. Due(v)'
      BY <1>2, <2>1 DEF Due
    <2>4. v.pc = "enter" => v.key \in Rows /\ v.key[1] = v.id
      BY <1>2 DEF Request, Sound
    <2>5. v.pc = "write" =>
            /\ v.work.rows \subseteq Rows /\ \A k \in v.work.rows : k[1] = v.id
            /\ v.then # None => v.then \in Rows /\ v.then[1] = v.id
      BY <1>2 DEF Request, Sound, SoundWork, Work
    <2>6. Spares(v)'
      <3>1. v.pc = "enter" => Unbarred(v.key)'
        BY <2>2, <2>4 DEF Spares
      <3>2. v.pc = "write" /\ v.then # None => Unbarred(v.then)'
        BY <2>2, <2>5 DEF Spares
      <3>3. v.pc = "write" => \A k \in v.work.rows :
              v.work.status \in Barred \cup {"ADMITTED"} \/ Unbarred(k)'
        BY <2>2, <2>5 DEF Spares
      <3>4. QED
        BY <3>1, <3>2, <3>3 DEF Spares
    <2>7. QED
      BY <2>3, <2>6
  <1>3. QED
    BY <1>1, <1>2 DEF Request

(* The other requests stay timely or are overtaken, so only the request    *)
(* that takes the step remains to be looked at.                            *)
LEMMA TimelyRest ==
  ASSUME Timely, Base', NEW r \in Requests, Overtakes(r),
         \A s \in Requests : s # r => reqs'[s] = reqs[s],
         reqs'[r].pc # "idle" /\ r \notin overtaken => Due(reqs[r])' /\ Spares(reqs[r])'
  PROVE  Timely'
  <1> SUFFICES ASSUME NEW s \in Requests, s \notin overtaken'
               PROVE  Due(reqs[s])' /\ Spares(reqs[s])'
    BY DEF Timely
  <1>1. CASE reqs'[s].pc = "idle"
    BY <1>1 DEF Due, Spares
  <1>2. CASE reqs'[s].pc # "idle" /\ s = r
    BY <1>2 DEF Overtakes
  <1>3. CASE reqs'[s].pc # "idle" /\ s # r
    <2>1. PICK v \in Request : v = reqs[s] /\ v = reqs'[s] /\ Sound(v)
      BY <1>3 DEF Timely, Base, Typed
    <2>2. s \notin overtaken /\ (Bound(v) => ~Touched(v.id))
      BY <1>3, <2>1 DEF Overtakes
    <2>3. Due(v) /\ Spares(v)
      BY <2>1, <2>2 DEF Timely
    <2>4. Due(v)' /\ Spares(v)'
      BY <2>1, <2>2, <2>3, Unseen
    <2>5. QED
      BY <2>1, <2>4 DEF Due, Spares
  <1>4. QED
    BY <1>1, <1>2, <1>3

(* A step that commits nothing leaves what was timely timely. *)
LEMMA TimelyReads ==
  ASSUME Timely, NEW r \in Requests, Overtakes(r), NEW v \in Request, Sound(v), Reads(r, v),
         r \notin overtaken => Due(v) /\ Spares(v)
  PROVE  Timely'
  <1>1. Base'
    BY BaseReads DEF Timely
  <1>2. \A s \in Requests : reqs'[s] = IF s = r THEN v ELSE reqs[s]
    BY DEF Reads, Timely, Base, Typed
  <1>3. r \notin overtaken => Due(reqs'[r]) /\ Spares(reqs'[r])
    BY <1>2
  <1>4. r \notin overtaken => Due(reqs[r])' /\ Spares(reqs[r])'
    BY <1>3 DEF Due, Spares, Unbarred, Reads
  <1>5. QED
    BY <1>1, <1>2, <1>4, TimelyRest

LEMMA TimelyCommit ==
  ASSUME Timely, NEW r \in Requests, Overtakes(r), Commit(r)
  PROVE  Timely'
  <1> DEFINE q == reqs[r]
             w == q.work
             n == Onward(q)
  <1>1. /\ Base /\ Base' /\ Committed(r, q, w) /\ reqs' = [reqs EXCEPT ![r] = n] /\ q \in Request
        /\ Sound(q)
    BY BaseCommit, CommitWrites DEF Timely, Base, Typed
  <1>2. \A s \in Requests : reqs'[s] = IF s = r THEN n ELSE reqs[s]
    BY <1>1 DEF Base, Typed
  <1>3. CASE q.then = None
    <2>1. reqs'[r].pc = "idle"
      BY <1>2, <1>3 DEF Onward, Idle
    <2>2. QED
      BY <1>1, <1>2, <2>1, TimelyRest
  <1>4. CASE q.then # None
    <2>1. n.pc = "enter" /\ n.key = q.then
      BY <1>4 DEF Onward
    <2>2. q.then \in Rows /\ q.then[1] \in Ids /\ q.then[1] = q.id
          /\ w.rows = {} /\ w.add = {} /\ w.cols = {"status"}
      BY <1>1, <1>4 DEF Committed, Rows, Sound
    <2>3. r \notin overtaken => Unbarred(q.then)
      BY <1>1, <1>4 DEF Timely, Spares, Committed
    <2> HIDE DEF n, q, w
    <2>4. rows'[q.then] = NoRow \/ rows'[q.then] = rows[q.then]
      BY <1>1, <2>2 DEF Committed, RowAfter
    <2>5. meetings'[q.then[1]].host = meetings[q.then[1]].host
      BY <1>1, <2>2 DEF Committed, Patched
    <2>6. r \notin overtaken =>
            \/ q.then[1] \in ClassIds \/ rows'[q.then].status \notin Barred
            \/ meetings'[q.then[1]].host = q.then[2]
      BY <2>3, <2>4, <2>5 DEF Unbarred, NoRow, Barred
    <2>7. r \notin overtaken => Due(reqs[r])' /\ Spares(reqs[r])'
      BY <1>2, <2>1, <2>6 DEF Due, Spares, Unbarred
    <2>8. QED
      BY <1>1, <1>2, <2>7, TimelyRest
  <1>5. QED
    BY <1>3, <1>4

LEMMA TimelyStep ==
  ASSUME Timely, NEW r \in Requests, Handle(r), Overtakes(r)
  PROVE  Timely'
  <1>1. Base /\ (r \notin overtaken => Due(reqs[r]) /\ Spares(reqs[r]))
    BY DEF Timely
  <1>2. ASSUME NEW v, Found(r, v) PROVE Timely'
    <2>1. v \in Request /\ Sound(v) /\ Reads(r, v) /\ Fresh(v)
      BY <1>1, <1>2, FreshSound DEF Found, Base
    <2>2. Due(v) /\ Spares(v)
      BY <2>1 DEF Fresh, FreshWork, Due, Spares
    <2>3. QED
      BY <2>1, <2>2, TimelyReads
  <1>3. CASE Enter(r)
    <2> DEFINE q == reqs[r]
               v == Entering(q)
    <2>1. q.pc = "enter" /\ Reads(r, v) /\ v \in Request /\ Sound(v)
      BY <1>1, <1>3, EnterReads
    <2>2. v.pc = "write" /\ v.then = None /\ v.work.cols = {} /\ \A k \in v.work.rows : k = q.key
      BY DEF Entering, PeopleWork
    <2> HIDE DEF v
    <2>3. r \notin overtaken => Due(v) /\ Spares(v)
      BY <1>1, <2>1, <2>2 DEF Due, Spares
    <2>4. QED
      BY <2>1, <2>3, TimelyReads
  <1>4. CASE Gather(r)
    <2> DEFINE q == reqs[r]
               v == Ending(q)
    <2>1. q.pc = "gather" /\ Reads(r, v) /\ v \in Request /\ Sound(v)
      BY <1>1, <1>4, GatherReads
    <2>2. q.id \in Ids /\ meetings[q.id] \in Meeting
          /\ (r \notin overtaken => meetings[q.id].status = "LIVE")
      BY <1>1, <2>1 DEF Due, Base, Typed, Request
    <2>3. /\ v.pc = "write" /\ v.id = q.id /\ v.then = None
          /\ v.work.to = WithStatus(q.id, "COMPLETED")
          /\ \A k \in v.work.rows : rows[k].status = "JOINED"
      BY DEF Ending, MeetingWork, Inside
    <2>4. v.work.to.status = "COMPLETED"
      BY <2>2, <2>3 DEF WithStatus, Meeting
    <2> HIDE DEF v
    <2>5. Spares(v) /\ (r \notin overtaken => Due(v))
      BY <2>2, <2>3, <2>4 DEF Due, MayBecome, Spares, Unbarred, Barred
    <2>6. QED
      BY <2>1, <2>5, TimelyReads
  <1>5. CASE Reads(r, Idle)
    BY <1>5, IdleSound, IdleTimely, TimelyReads
  <1>6. CASE CreateMeeting(r)
    <2>1. Base' /\ reqs[r].pc = "idle" /\ UNCHANGED reqs
      BY <1>1, <1>6, BaseCreate, CreateWrites
    <2>2. QED
      BY <2>1, TimelyRest
  <1>7. CASE OpenClass(r)
    <2>1. Base' /\ reqs' = [reqs EXCEPT ![r] = Idle]
      BY <1>1, <1>7, BaseOpen, OpenWrites
    <2>2. reqs'[r].pc = "idle" /\ \A s \in Requests : s # r => reqs'[s] = reqs[s]
      BY <1>1, <2>1 DEF Idle, Base, Typed
    <2>3. QED
      BY <2>1, <2>2, TimelyRest
  <1>8. QED
    BY <1>1, <1>2, <1>3, <1>4, <1>5, <1>6, <1>7, Steps, TimelyCommit

LEMMA TimelyNext == Timely /\ [Next]_vars => Timely'
  <1> SUFFICES ASSUME Timely, [Next]_vars PROVE Timely'
    OBVIOUS
  <1>1. CASE UNCHANGED vars
    <2>1. Base'
      BY <1>1, BaseNext DEF Timely
    <2>2. QED
      BY <1>1, <2>1 DEF vars, Timely, Due, Spares, Unbarred
  <1>2. ASSUME NEW r \in Requests, Handle(r), Overtakes(r) PROVE Timely'
    BY <1>2, TimelyStep
  <1>3. QED
    BY <1>1, <1>2 DEF Next

LEMMA TimelyInit == Init => Timely
  <1> SUFFICES ASSUME Init PROVE Timely
    OBVIOUS
  <1>1. \A s \in Requests : reqs[s].pc = "idle"
    BY DEF Init
  <1>2. QED
    BY <1>1, BaseInit DEF Timely, Due, Spares

-----------------------------------------------------------------------------
(* The life of a meeting.                                                  *)

Forward(id) ==
  meetings'[id].status # meetings[id].status =>
    \/ meetings'[id].status \in MayBecome[meetings[id].status]
    \/ /\ meetings[id].status # "deleted" /\ meetings'[id].status # "SCHEDULED"
       /\ \E r \in overtaken : Writes(r, id) /\ "status" \in reqs[r].work.cols

(* Committing changes what the thread is doing. *)
LEMMA CommitEnds ==
  ASSUME NEW r \in Requests, Base, Commit(r)
  PROVE  Writes(r, reqs[r].id)
  <1>1. reqs[r].pc = "write" /\ reqs' = [reqs EXCEPT ![r] = Onward(reqs[r])]
    BY CommitWrites DEF Committed
  <1>2. Onward(reqs[r]).pc # "write"
    BY DEF Onward, Idle
  <1>3. reqs'[r] # reqs[r]
    BY <1>1, <1>2 DEF Base, Typed
  <1>4. QED
    BY <1>1, <1>3 DEF Writes

LEMMA ForwardStep ==
  ASSUME Timely, NEW r \in Requests, Handle(r), NEW id \in Ids
  PROVE  Forward(id)
  <1>1. Base
    BY DEF Timely
  <1>2. ASSUME NEW v, Reads(r, v) PROVE Forward(id)
    BY <1>2 DEF Forward, Reads
  <1>3. CASE Enter(r) \/ Gather(r)
    BY <1>1, <1>2, <1>3, EnterReads, GatherReads
  <1>4. CASE CreateMeeting(r)
    <2>1. PICK i \in Ids :
            /\ meetings[i].status = "absent" /\ meetings'[i].status = "SCHEDULED"
            /\ \A j \in Ids : j # i => meetings'[j] = meetings[j]
      BY <1>1, <1>4, CreateWrites
    <2>2. QED
      BY <2>1 DEF Forward, MayBecome
  <1>5. CASE OpenClass(r)
    <2>1. PICK i \in ClassIds :
            /\ i \in Ids /\ meetings[i].status = "absent" /\ meetings'[i].status = "LIVE"
            /\ \A j \in Ids : j # i => meetings'[j] = meetings[j]
      BY <1>1, <1>5, OpenWrites
    <2>2. QED
      BY <2>1 DEF Forward, MayBecome
  <1>6. CASE Commit(r)
    <2> DEFINE q == reqs[r]
               w == q.work
    <2>1. Committed(r, q, w) /\ Writes(r, q.id)
      BY <1>1, <1>6, CommitWrites, CommitEnds
    <2>2. r \notin overtaken /\ "status" \in w.cols =>
            w.to.status \in MayBecome[meetings[q.id].status]
      BY <2>1 DEF Timely, Due, Committed
    <2>3. /\ meetings'[id] = IF id = q.id THEN Patched(meetings[id], w) ELSE meetings[id]
          /\ meetings[q.id].status # "deleted"
          /\ "status" \in w.cols => w.to.status # "SCHEDULED"
      BY <2>1 DEF Committed, SoundWork, Exists
    <2>4. meetings'[id].status # meetings[id].status =>
            id = q.id /\ "status" \in w.cols /\ meetings'[id].status = w.to.status
      BY <2>3 DEF Patched
    <2>5. CASE r \in overtaken
      BY <2>1, <2>3, <2>4, <2>5 DEF Forward
    <2>6. CASE r \notin overtaken
      BY <2>2, <2>4, <2>6 DEF Forward
    <2>7. QED
      BY <2>5, <2>6
  <1>7. QED
    BY <1>1, <1>2, <1>3, <1>4, <1>5, <1>6, Steps DEF Found

(* Whatever requests overlap, a meeting's status moves forward, except by  *)
(* a start, an end, a cancellation or a deletion under which the meeting   *)
(* was changed; and it never goes back to planned, nor back from deletion. *)
THEOREM MeetingsMoveForward == Spec => LifecycleForward
  <1> DEFINE Step == \A id \in Ids : Forward(id)
  <1>1. Timely /\ [Next]_vars => [Step]_vars
    <2>1. ASSUME Timely, NEW r \in Requests, Handle(r) PROVE Step
      BY <2>1, ForwardStep
    <2> HIDE DEF Step
    <2>2. QED
      BY <2>1 DEF Next
  <1>2. Spec => [][Step]_vars
    <2> HIDE DEF Step
    <2>1. QED
      BY <1>1, TimelyInit, TimelyNext, PTL DEF Spec
  <1>3. QED
    BY <1>2, PTL DEF LifecycleForward, Forward

-----------------------------------------------------------------------------
(* Staying out.                                                            *)

KeptOut(k) ==
  k[1] \notin ClassIds =>
    StaysOut(k) \/ \E r \in overtaken : Writes(r, k[1]) /\ k \in reqs[r].work.rows

LEMMA KeptOutStep ==
  ASSUME Timely, NEW r \in Requests, Handle(r), NEW k \in Rows
  PROVE  KeptOut(k)
  <1>1. Base /\ k[1] \in Ids
    BY DEF Timely, Rows
  <1>2. ASSUME NEW v, Reads(r, v) PROVE KeptOut(k)
    BY <1>2 DEF KeptOut, StaysOut, Reads
  <1>3. CASE Enter(r) \/ Gather(r)
    BY <1>1, <1>2, <1>3, EnterReads, GatherReads
  <1>4. ASSUME NEW i \in Ids, meetings[i].status = "absent",
               \A j \in Rows : rows'[j] = rows[j] \/ j[1] = i
        PROVE  KeptOut(k)
    BY <1>1, <1>4 DEF KeptOut, StaysOut, Base, AbsentEmpty, Barred, Exists
  <1>5. CASE CreateMeeting(r)
    <2>1. PICK i \in Ids : meetings[i].status = "absent"
                           /\ \A j \in Rows : rows'[j] = rows[j] \/ j[1] = i
      BY <1>1, <1>5, CreateWrites
    <2>2. QED
      BY <1>4, <2>1
  <1>6. CASE OpenClass(r)
    <2>1. PICK i \in ClassIds : i \in Ids /\ meetings[i].status = "absent"
                                /\ \A j \in Rows : j[1] # i => rows'[j] = rows[j]
      BY <1>1, <1>6, OpenWrites
    <2>2. QED
      BY <1>4, <2>1
  <1>7. CASE Commit(r)
    <2> DEFINE q == reqs[r]
               w == q.work
    <2>1. Committed(r, q, w) /\ Writes(r, q.id)
      BY <1>1, <1>7, CommitWrites, CommitEnds
    <2>2. r \notin overtaken =>
            \A j \in w.rows : w.status \in Barred \cup {"ADMITTED"} \/ Unbarred(j)
      BY <2>1 DEF Timely, Spares, Committed
    <2>3. \A u \in w.add : HasFreeCopy(q.id, u)
      BY <1>7 DEF Commit, Applies
    <2>4. rows'[k] = RowAfter(k, q.id, w) /\ (k \in w.rows => k[1] = q.id)
      BY <2>1 DEF Committed, SoundWork
    <2>5. CASE k \in w.rows /\ r \in overtaken
      BY <2>1, <2>4, <2>5 DEF KeptOut
    <2>6. CASE ~(k \in w.rows /\ r \in overtaken)
      <3> HIDE DEF q, w
      <3> SUFFICES ASSUME k[1] \notin ClassIds, rows[k].status \in Barred,
                          meetings[k[1]].host # k[2]
                   PROVE  rows'[k].status \in Barred \cup {"ADMITTED", "none"}
        BY DEF KeptOut, StaysOut
      <3>1. k \in w.rows => w.status \in Barred \cup {"ADMITTED"}
        BY <2>2, <2>6 DEF Unbarred
      <3>2. k[1] = q.id /\ k[2] \in w.add => k[3] # FreeCopy(q.id, k[2])
        BY <2>3 DEF HasFreeCopy, FreeCopy, Barred, Rows
      <3>3. QED
        BY <2>4, <3>1, <3>2 DEF RowAfter, NoRow
    <2>7. QED
      BY <2>5, <2>6
  <1>8. QED
    BY <1>1, <1>2, <1>3, <1>5, <1>6, <1>7, Steps DEF Found

(* Whatever requests overlap, people removed from a planned meeting or     *)
(* rejected at its door get back in only by an admission, or by a request  *)
(* on their own row under which the meeting or a row of it was changed.    *)
THEOREM RemovedPeopleStayOut == Spec => RemovedStaysOut
  <1> DEFINE Step == \A k \in Rows : KeptOut(k)
  <1>1. Timely /\ [Next]_vars => [Step]_vars
    <2>1. ASSUME Timely, NEW r \in Requests, Handle(r) PROVE Step
      BY <2>1, KeptOutStep
    <2> HIDE DEF Step
    <2>2. QED
      BY <2>1 DEF Next
  <1>2. Spec => [][Step]_vars
    <2> HIDE DEF Step
    <2>1. QED
      BY <1>1, TimelyInit, TimelyNext, PTL DEF Spec
  <1>3. QED
    BY <1>2, PTL DEF RemovedStaysOut, KeptOut
=============================================================================
