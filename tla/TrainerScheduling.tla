-------------------------- MODULE TrainerScheduling --------------------------
(***************************************************************************)
(* Concurrent HTTP requests that book trainers (backend/app/core/          *)
(* scheduling.py, scheduling_service.py and the batch, session and         *)
(* availability routes).  Every request is one database transaction in     *)
(* PostgreSQL's READ COMMITTED isolation: a plain read sees what is        *)
(* committed at that moment, SELECT ... FOR UPDATE and UPDATE wait for the *)
(* row lock, INSERT and UPDATE of a foreign key wait for a FOR UPDATE lock *)
(* on the row they reference, and all locks are held to the end.  The      *)
(* session factory has autoflush off and never re-reads a loaded row, so a *)
(* request works on the snapshot it took first: `seen`.                    *)
(*                                                                         *)
(* Time is a finite set of slots, all in the future: an occurrence of a    *)
(* class is a slot, and two occurrences overlap when they are the same     *)
(* slot (the interval arithmetic itself is outside this module).           *)
(***************************************************************************)
EXTENDS Integers, Sequences, FiniteSets

CONSTANTS
  Batches,   \* batch ids
  Trainers,  \* ids of active staff users; ids are ordered
  Slots,     \* class times, ordered
  Sessions,  \* ids of the class_sessions of one batch
  Keys,      \* idempotency keys sent by the scheduling page
  Requests,  \* HTTP requests; each is served once, a retry is another request
  Kinds,     \* the kinds of request the environment sends
  Window,    \* Window[b]: the slots between batch b's start and end dates
  Databases, \* the initial contents of the tables that are considered
  MaxLoad,   \* settings.scheduling_max_weekly_hours, in slots
  None,      \* SQL NULL, and "nobody" for locks
  Keep       \* a field absent from a PATCH body

(* upcoming and active are "confirmed", completed and cancelled "closed";  *)
(* "absent" is an id whose batch has not been created yet.                 *)
Statuses == {"absent", "confirmed", "paused", "closed"}
MaybeTrainer == Trainers \cup {None}

AssignParams ==
  [kind: {"assign"}, batch: Batches, to: MaybeTrainer, key: Keys, override: BOOLEAN]
SessionParams ==
  [kind: {"session", "move"}, batch: Batches, session: Sessions, add: Slots]
CancelParams == [kind: {"cancel"}, batch: Batches, session: Sessions]
EditParams ==
  [kind: {"edit"}, to: Trainers, slot: Slots,
   what: {"leave", "return", "offer", "withdraw"}]
BatchParams ==
  [kind: {"patch"}, batch: Batches, to: MaybeTrainer \cup {Keep},
   status: (Statuses \ {"absent"}) \cup {Keep}, pattern: (SUBSET Slots) \cup {Keep}]
    \cup [kind: {"create"}, batch: Batches, to: MaybeTrainer,
          status: Statuses \ {"absent"}, pattern: SUBSET Slots]
Params == AssignParams \cup SessionParams \cup CancelParams \cup EditParams \cup BatchParams

Extras == [Sessions -> Slots \cup {None}]
BatchRow == [trainer: MaybeTrainer, status: Statuses, pattern: SUBSET Slots, extra: Extras]
HistoryRow == [from: MaybeTrainer, to: MaybeTrainer, key: Keys \cup {None}, override: BOOLEAN]
Database == [batch: [Batches -> BatchRow],
             avail: [Trainers -> SUBSET Slots], leave: [Trainers -> SUBSET Slots]]

NoSessions == [s \in Sessions |-> None]
NoRow == [trainer |-> None, status |-> "absent", pattern |-> {}, extra |-> NoSessions]

(* When sessions are held: extra[s] is session s's slot, None if there is  *)
(* no session s.                                                           *)
Taught(extra) == {extra[s] : s \in Sessions} \ {None}

(* Two batches of one trainer that meet.  `within` restricts the slots.    *)
Clash(row, b, c, within) ==
  /\ b # c
  /\ row[b].status = "confirmed" /\ row[c].status = "confirmed"
  /\ row[b].trainer # None /\ row[b].trainer = row[c].trainer
  /\ (row[b].pattern \cup Taught(row[b].extra)) \cap (row[c].pattern \cup Taught(row[c].extra))
       \cap within # {}

ASSUME ConstantsAssumption ==
  /\ Trainers \subseteq Nat /\ Slots \subseteq Nat /\ MaxLoad \in Nat
  /\ None \notin Trainers \cup Requests \cup Keys \cup Slots
  /\ Keep \notin MaybeTrainer
  /\ Window \in [Batches -> SUBSET Slots]

ASSUME DatabasesAssumption ==
  /\ Databases \subseteq Database
  /\ \A d \in Databases : \A b, c \in Batches : ~Clash(d.batch, b, c, Slots)

VARIABLES
  row,        \* row[b]: the committed batches row; extra = its class_sessions
  avail,      \* avail[t]: slots declared available or preferred
  leave,      \* leave[t]: slots marked leave or unavailable
  history,    \* history[b]: batch_trainer_assignments rows of b, oldest first
  batchLock,  \* batchLock[b]: the request that holds the row lock of batch b
  userLock,   \* userLock[t]: the request that holds users row t FOR UPDATE
  userShare,  \* userShare[t]: requests holding users row t FOR KEY SHARE
  pc, req, seen,
  override,   \* override[r]: r goes ahead over soft conflicts
  reply,      \* what the client is told
  staleWrite  \* history variable: some request wrote what it had not checked

tables == <<row, avail, leave, history>>
locks == <<batchLock, userLock, userShare>>
local == <<pc, req, seen, override, reply>>
vars == <<tables, locks, local, staleWrite>>

-----------------------------------------------------------------------------
(* The scheduling engine, on the committed tables.                         *)

Booked(b) == row[b].pattern \cup Taught(row[b].extra)
Confirmed(b) == row[b].status = "confirmed"

(* The confirmed batches on t's calendar, without batch b. *)
Calendar(t, b) == {c \in Batches \ {b} : Confirmed(c) /\ row[c].trainer = t}

Overlap(t, b, S) == \E c \in Calendar(t, b) : Booked(c) \cap S # {}
OnLeave(t, S) == S \cap leave[t] # {}
Outside(t, S) == (S \ leave[t]) \ avail[t] # {}

(* The other batches count only between the first and the last required    *)
(* slot, as evaluate() reads the calendar of [lo, hi) only.                *)
Overloaded(t, b, S) ==
  LET others == {x \in Calendar(t, b) \X Slots :
                   x[2] \in Booked(x[1]) /\ \E lo, hi \in S : lo <= x[2] /\ x[2] <= hi}
  IN S # {} /\ Cardinality(S) + Cardinality(others) > MaxLoad

SoftConflict(t, b, S) == OnLeave(t, S) \/ Outside(t, S) \/ Overloaded(t, b, S)

(* Sessions inside the batch's dates: all that an evaluation looks at.     *)
Required(b, r) == (seen[r].pattern \cup Taught(seen[r].extra)) \cap Window[b]

Uncovered(t, av, lv) ==
  {x \in Batches \X Slots : /\ Confirmed(x[1]) /\ row[x[1]].trainer = t
                            /\ x[2] \in Booked(x[1]) \cap Window[x[1]]
                            /\ x[2] \notin av \ lv}

-----------------------------------------------------------------------------
(* Rows, keys and locks.                                                   *)

Kind(r) == req[r].kind
Active(r) == pc[r] \notin {"idle", "done"}

KeyUsed(k) == \E b \in Batches : \E i \in DOMAIN history[b] : history[b][i].key = k
KeyOf(k, b, t) == \E i \in DOMAIN history[b] : history[b][i].key = k /\ history[b][i].to = t

(* The batch as a PATCH or POST request holds it in memory.                *)
Target(r) ==
  LET field(given, loaded) == IF given = Keep THEN loaded ELSE given
  IN [trainer |-> field(req[r].to, seen[r].trainer),
      status  |-> field(req[r].status, seen[r].status),
      pattern |-> field(req[r].pattern, seen[r].pattern),
      extra   |-> seen[r].extra]

Dirty(r) == \E f \in {"trainer", "status", "pattern"} : Target(r)[f] # seen[r][f]
TrainerChanged(r) == Target(r).trainer # seen[r].trainer

(* The users rows a request locks FOR UPDATE.                              *)
Wanted(r) ==
  CASE Kind(r) = "assign" -> {seen[r].trainer, req[r].to} \ {None}
    [] Kind(r) = "edit" -> {req[r].to}
    [] Kind(r) \in {"session", "move"} -> {seen[r].trainer}
    [] OTHER -> {Target(r).trainer}

Held(r) == {t \in Trainers : userLock[t] = r}

(* Mutant: rows locked in any order. *)
NextUserUnordered(r, t) == t \in Wanted(r) \ Held(r)

(* ORDER BY users.id: the next row to lock is the smallest one missing.    *)
NextUser(r, t) ==
  t \in Wanted(r) \ Held(r) /\ \A u \in Wanted(r) \ Held(r) : t <= u

(* Mutants: plain SELECTs instead of FOR UPDATE. *)
RowFreeUnlocked(r, b) == TRUE
UserFreeUnlocked(r, t) == TRUE

RowFree(r, b) == batchLock[b] \in {None, r}
UserFree(r, t) == userLock[t] \in {None, r} /\ userShare[t] \subseteq {r}
(* A foreign key check (FOR KEY SHARE) waits only for a FOR UPDATE lock.   *)
UserReferable(r, t) == t # None => userLock[t] \in {None, r}
RowReferable(r, b) == \A q \in Requests \ {r} : batchLock[b] = q => Kind(q) # "assign"

(* Mutant: the session is not closed, the trainers stay locked. *)
FinishLeaky(r, answer) ==
  /\ pc' = [pc EXCEPT ![r] = "done"]
  /\ reply' = [reply EXCEPT ![r] = answer]
  /\ batchLock' = [b \in Batches |-> IF batchLock[b] = r THEN None ELSE batchLock[b]]
  /\ seen' = [seen EXCEPT ![r] = NoRow]
  /\ override' = [override EXCEPT ![r] = FALSE]
  /\ UNCHANGED <<userLock, userShare, req>>

(* End of the transaction: every lock is released, the session forgotten.  *)
Finish(r, answer) ==
  /\ pc' = [pc EXCEPT ![r] = "done"]
  /\ reply' = [reply EXCEPT ![r] = answer]
  /\ batchLock' = [b \in Batches |-> IF batchLock[b] = r THEN None ELSE batchLock[b]]
  /\ userLock' = [t \in Trainers |-> IF userLock[t] = r THEN None ELSE userLock[t]]
  /\ userShare' = [t \in Trainers |-> userShare[t] \ {r}]
  /\ seen' = [seen EXCEPT ![r] = NoRow]
  /\ override' = [override EXCEPT ![r] = FALSE]
  /\ UNCHANGED req

Rollback(r, answer) == Finish(r, answer) /\ UNCHANGED <<tables, staleWrite>>

GoTo(r, label) ==
  pc' = [pc EXCEPT ![r] = label] /\ UNCHANGED <<req, reply, tables, staleWrite>>

-----------------------------------------------------------------------------
(* assign_trainer: POST /admin/scheduling/batches/{id}/assign.             *)

(* Mutant: the key alone decides, whatever was asked. *)
ReplayAnything(r) == Rollback(r, "replayed")

Replay(r) ==
  Rollback(r, IF KeyOf(req[r].key, req[r].batch, req[r].to) THEN "replayed" ELSE "rejected")

AssignReceive(r) ==
  /\ \E p \in AssignParams :
       /\ req' = [req EXCEPT ![r] = p]
       /\ IF KeyUsed(p.key)
            THEN /\ pc' = [pc EXCEPT ![r] = "done"]
                 /\ reply' = [reply EXCEPT ![r] =
                      IF KeyOf(p.key, p.batch, p.to) THEN "replayed" ELSE "rejected"]
            ELSE pc' = [pc EXCEPT ![r] = "lockBatch"] /\ UNCHANGED reply
  /\ UNCHANGED <<tables, locks, seen, override, staleWrite>>

(* The batch and its sessions are read here, before the trainers are       *)
(* locked, and not again.                                                  *)
AssignLockBatch(r) ==
  LET b == req[r].batch IN
  /\ pc[r] = "lockBatch" /\ RowFree(r, b)
  /\ IF row[b].status \in {"absent", "closed"}
       THEN Rollback(r, "rejected")
       ELSE /\ batchLock' = [batchLock EXCEPT ![b] = r]
            /\ seen' = [seen EXCEPT ![r] = row[b]]
            /\ GoTo(r, IF {row[b].trainer, req[r].to} = {None} THEN "check" ELSE "lockUsers")
            /\ UNCHANGED <<userLock, userShare, override>>

AssignReplay(r) ==
  pc[r] = "check" /\ Kind(r) = "assign" /\ KeyUsed(req[r].key) /\ Replay(r)

(* assert_assignable: an overlap is final, the other conflicts need an     *)
(* override (sent with the permission and a reason, or not at all).        *)
Assignable(r) ==
  LET b == req[r].batch  t == req[r].to IN
  /\ t # seen[r].trainer
  /\ t # None =>
       /\ ~Overlap(t, b, Required(b, r))
       /\ SoftConflict(t, b, Required(b, r)) => req[r].override

AssignReject(r) ==
  /\ pc[r] = "check" /\ Kind(r) = "assign" /\ ~KeyUsed(req[r].key) /\ ~Assignable(r)
  /\ Rollback(r, "rejected")

AssignAccept(r) ==
  LET b == req[r].batch  t == req[r].to IN
  /\ pc[r] = "check" /\ Kind(r) = "assign" /\ ~KeyUsed(req[r].key) /\ Assignable(r)
  /\ override' = [override EXCEPT ![r] = t # None /\ SoftConflict(t, b, Required(b, r))]
  /\ GoTo(r, "commit")
  /\ UNCHANGED <<locks, seen>>

(* The unique index on idempotency_key turns a lost race into a replay.    *)
AssignCommit(r) ==
  LET b == req[r].batch  t == req[r].to IN
  /\ pc[r] = "commit" /\ Kind(r) = "assign"
  /\ IF KeyUsed(req[r].key)
       THEN Replay(r)
       ELSE /\ row' = [row EXCEPT ![b].trainer = t]
            /\ history' = [history EXCEPT ![b] = Append(@,
                 [from |-> seen[r].trainer, to |-> t, key |-> req[r].key, override |-> override[r]])]
            /\ staleWrite' = (staleWrite \/ (t # None /\ Confirmed(b) /\ row[b].extra # seen[r].extra))
            /\ Finish(r, "ok")
            /\ UNCHANGED <<avail, leave>>

-----------------------------------------------------------------------------
(* Class sessions: create, move (PATCH) and cancel (DELETE), from the      *)
(* admin and the trainer routes.                                           *)

(* enforce_session_slot looks only at batches that are confirmed and have  *)
(* a trainer, as they were when the request loaded the batch.              *)
SlotChecked(loaded) == loaded.trainer # None /\ loaded.status = "confirmed"

(* A deleted session's id is not given to another one.                     *)
IdTaken(b, s) ==
  \E q \in Requests :
    Active(q) /\ Kind(q) \in {"session", "move"} /\ req[q].batch = b /\ req[q].session = s

SessionReceive(r) ==
  /\ \E p \in SessionParams :
       /\ row[p.batch].status # "absent"
       /\ p.kind = "move" <=> row[p.batch].extra[p.session] # None
       /\ p.kind = "session" => ~IdTaken(p.batch, p.session)
       /\ req' = [req EXCEPT ![r] = p]
       /\ seen' = [seen EXCEPT ![r] = row[p.batch]]
       /\ pc' = [pc EXCEPT ![r] = IF SlotChecked(row[p.batch]) THEN "lockUsers" ELSE "commit"]
  /\ UNCHANGED <<tables, locks, override, reply, staleWrite>>

(* Mutant: only leave is looked at. *)
SlotFreeOfLeave(r) == ~OnLeave(seen[r].trainer, {req[r].add})

SlotFree(r) ==
  LET t == seen[r].trainer IN
  ~Overlap(t, req[r].batch, {req[r].add}) /\ ~OnLeave(t, {req[r].add})

SessionCheck(r) ==
  /\ pc[r] = "check" /\ Kind(r) \in {"session", "move"}
  /\ IF SlotFree(r) THEN GoTo(r, "commit") /\ UNCHANGED <<locks, seen, override>>
                    ELSE Rollback(r, "rejected")

(* An INSERT waits while an assignment holds the batch row.  An UPDATE of  *)
(* a session does not touch that row; it is sent only if the time differs  *)
(* from the one loaded, and fails if the session has been deleted.         *)
SessionWrites(r) == req[r].add # seen[r].extra[req[r].session]

SessionCommit(r) ==
  LET b == req[r].batch  s == req[r].session IN
  /\ pc[r] = "commit" /\ Kind(r) \in {"session", "move"}
  /\ Kind(r) = "session" => RowReferable(r, b)
  /\ IF Kind(r) = "move" /\ SessionWrites(r) /\ row[b].extra[s] = None
       THEN Rollback(r, "aborted")
       ELSE /\ row' = IF SessionWrites(r) THEN [row EXCEPT ![b].extra[s] = req[r].add] ELSE row
            /\ staleWrite' = (staleWrite \/
                 (/\ SessionWrites(r) /\ Confirmed(b)
                  /\ row[b].trainer # None /\ row[b].trainer \notin Held(r)))
            /\ Finish(r, "ok")
            /\ UNCHANGED <<avail, leave, history>>

SessionCancel(r) ==
  /\ \E p \in CancelParams :
       /\ row[p.batch].extra[p.session] # None
       /\ req' = [req EXCEPT ![r] = p]
       /\ row' = [row EXCEPT ![p.batch].extra[p.session] = None]
  /\ pc' = [pc EXCEPT ![r] = "done"]
  /\ reply' = [reply EXCEPT ![r] = "ok"]
  /\ UNCHANGED <<avail, leave, history, locks, seen, override, staleWrite>>

-----------------------------------------------------------------------------
(* Availability edits by the trainer (routes_staff_availability.py).       *)

EditReceive(r) ==
  /\ \E p \in EditParams : req' = [req EXCEPT ![r] = p]
  /\ pc' = [pc EXCEPT ![r] = "lockUsers"]
  /\ UNCHANGED <<tables, locks, seen, override, reply, staleWrite>>

EditedAvail(r) ==
  LET t == req[r].to IN
  CASE req[r].what = "offer" -> avail[t] \cup {req[r].slot}
    [] req[r].what = "withdraw" -> avail[t] \ {req[r].slot}
    [] OTHER -> avail[t]

EditedLeave(r) ==
  LET t == req[r].to IN
  CASE req[r].what = "leave" -> leave[t] \cup {req[r].slot}
    [] req[r].what = "return" -> leave[t] \ {req[r].slot}
    [] OTHER -> leave[t]

NewlyUncovered(r) ==
  LET t == req[r].to IN
  Uncovered(t, EditedAvail(r), EditedLeave(r)) \ Uncovered(t, avail[t], leave[t])

(* guard_confirmed_batches: the change is rolled back (and, if the trainer *)
(* wishes, a notice asks an administrator to review it).                   *)
EditCheck(r) ==
  /\ pc[r] = "check" /\ Kind(r) = "edit"
  /\ IF NewlyUncovered(r) = {}
       THEN GoTo(r, "commit") /\ UNCHANGED <<locks, seen, override>>
       ELSE Rollback(r, "rejected")

EditCommit(r) ==
  LET t == req[r].to IN
  /\ pc[r] = "commit" /\ Kind(r) = "edit"
  /\ avail' = [avail EXCEPT ![t] = EditedAvail(r)]
  /\ leave' = [leave EXCEPT ![t] = EditedLeave(r)]
  /\ Finish(r, "ok")
  /\ UNCHANGED <<row, history, staleWrite>>

-----------------------------------------------------------------------------
(* The batch editor: POST and PATCH /admin/batches.                        *)

(* A PATCH is checked when the trainer changes or a timetable or status    *)
(* field is sent, and the batch ends up confirmed; a POST whenever it      *)
(* names a trainer.                                                        *)
PatchChecked(p, loaded) ==
  LET trainer == IF p.to = Keep THEN loaded.trainer ELSE p.to
      status  == IF p.status = Keep THEN loaded.status ELSE p.status
  IN /\ trainer # None
     /\ p.kind = "patch" =>
          /\ trainer # loaded.trainer \/ p.status # Keep \/ p.pattern # Keep
          /\ status = "confirmed"

PatchReceive(r) ==
  /\ \E p \in BatchParams :
       /\ p.pattern \in (SUBSET Window[p.batch]) \cup {Keep}
       /\ IF p.kind = "create"
            THEN /\ row[p.batch].status = "absent"
                 /\ \A q \in Requests : Active(q) /\ Kind(q) = "create" => req[q].batch # p.batch
            ELSE row[p.batch].status # "absent"
       /\ req' = [req EXCEPT ![r] = p]
       /\ seen' = [seen EXCEPT ![r] = [row[p.batch] EXCEPT !.extra = NoSessions]]
       /\ pc' = [pc EXCEPT ![r] = IF PatchChecked(p, row[p.batch]) THEN "flush" ELSE "commit"]
  /\ UNCHANGED <<tables, locks, override, reply, staleWrite>>

(* db.flush(): the UPDATE takes the batch row, then the foreign key check  *)
(* of a new trainer takes FOR KEY SHARE on the users row.                  *)
PatchFlush(r) ==
  LET b == req[r].batch IN
  /\ pc[r] = "flush"
  /\ Dirty(r) => RowFree(r, b)
  /\ batchLock' = IF Dirty(r) THEN [batchLock EXCEPT ![b] = r] ELSE batchLock
  /\ GoTo(r, IF TrainerChanged(r) THEN "reference" ELSE "lockUsers")
  /\ UNCHANGED <<userLock, userShare, seen, override>>

PatchReference(r) ==
  LET t == Target(r).trainer IN
  /\ pc[r] = "reference" /\ UserReferable(r, t)
  /\ userShare' = [userShare EXCEPT ![t] = @ \cup {r}]
  /\ GoTo(r, "lockUsers")
  /\ UNCHANGED <<batchLock, userLock, seen, override>>

(* enforce_legacy_assignment; the sessions of the batch are loaded now.    *)
PatchAllowed(r) ==
  LET b == req[r].batch
      t == Target(r).trainer
      S == (Target(r).pattern \cup Taught(row[b].extra)) \cap Window[b]
  IN ~Overlap(t, b, S) /\ ~OnLeave(t, S)

PatchCheck(r) ==
  /\ pc[r] = "check" /\ Kind(r) \in {"patch", "create"}
  /\ IF PatchAllowed(r)
       THEN /\ seen' = [seen EXCEPT ![r].extra = row[req[r].batch].extra]
            /\ GoTo(r, "commit") /\ UNCHANGED <<locks, override>>
       ELSE Rollback(r, "rejected")

(* Mutant: fields absent from the body are written too. *)
MergedRaw(r) ==
  [row[req[r].batch] EXCEPT !.trainer = req[r].to, !.status = req[r].status, !.pattern = req[r].pattern]

(* The row after the UPDATE: only the columns that differ from what was    *)
(* loaded are written.                                                     *)
Merged(r) ==
  LET b == req[r].batch
      column(f) == IF Target(r)[f] # seen[r][f] THEN Target(r)[f] ELSE row[b][f]
  IN [trainer |-> column("trainer"), status |-> column("status"),
      pattern |-> column("pattern"), extra |-> row[b].extra]

(* record_legacy_assignment adds a history row, whose foreign keys refer   *)
(* to the old and the new trainer; then the COMMIT.                        *)
PatchCommit(r) ==
  LET b == req[r].batch IN
  /\ pc[r] = "commit" /\ Kind(r) \in {"patch", "create"}
  /\ Dirty(r) => RowFree(r, b)
  /\ TrainerChanged(r) => UserReferable(r, seen[r].trainer) /\ UserReferable(r, Target(r).trainer)
  /\ row' = [row EXCEPT ![b] = Merged(r)]
  /\ history' = IF TrainerChanged(r)
                  THEN [history EXCEPT ![b] = Append(@,
                         [from |-> seen[r].trainer, to |-> Target(r).trainer,
                          key |-> None, override |-> FALSE])]
                  ELSE history
  /\ staleWrite' = (staleWrite \/
       /\ Dirty(r) /\ Merged(r).status = "confirmed" /\ Merged(r).trainer # None
       /\ \/ Merged(r).trainer \notin Held(r)
          \/ Merged(r).pattern # Target(r).pattern
          \/ Merged(r).extra # seen[r].extra)
  /\ Finish(r, "ok")
  /\ UNCHANGED <<avail, leave>>

-----------------------------------------------------------------------------
(* lock_trainers, and the ends a transaction can meet at any time.         *)

LockUser(r) ==
  \E t \in Trainers :
    /\ pc[r] = "lockUsers" /\ NextUser(r, t) /\ UserFree(r, t)
    /\ userLock' = [userLock EXCEPT ![t] = r]
    /\ GoTo(r, IF Wanted(r) \subseteq Held(r) \cup {t} THEN "check" ELSE "lockUsers")
    /\ UNCHANGED <<batchLock, userShare, seen, override>>

(* r waits for a lock q holds. *)
Waits(r, q) ==
  /\ q # r
  /\ \/ pc[r] = "lockUsers" /\ \E t \in Trainers :
          NextUser(r, t) /\ (userLock[t] = q \/ q \in userShare[t])
     \/ pc[r] = "lockBatch" /\ batchLock[req[r].batch] = q
     \/ pc[r] = "flush" /\ Dirty(r) /\ batchLock[req[r].batch] = q
     \/ pc[r] = "reference" /\ userLock[Target(r).trainer] = q
     \/ /\ pc[r] = "commit" /\ Kind(r) = "session"
        /\ batchLock[req[r].batch] = q /\ Kind(q) = "assign"
     \/ /\ pc[r] = "commit" /\ Kind(r) \in {"patch", "create"}
        /\ \/ Dirty(r) /\ batchLock[req[r].batch] = q
           \/ TrainerChanged(r) /\ \E t \in {seen[r].trainer, Target(r).trainer} \ {None} : userLock[t] = q

InWaitCycle(r) ==
  /\ \E q \in Requests : Waits(r, q)
  /\ \E n \in 2 .. Cardinality(Requests) : \E path \in [1 .. n -> Requests] :
       path[1] = r /\ \A i \in 1 .. n : Waits(path[i], path[(i % n) + 1])

(* PostgreSQL's deadlock detector aborts a transaction of the cycle.       *)
DeadlockAbort(r) == Active(r) /\ InWaitCycle(r) /\ Rollback(r, "aborted")

(* The worker dies or loses its database connection.                       *)
Crash(r) == Active(r) /\ Rollback(r, "aborted")

Receive(r) ==
  /\ pc[r] = "idle"
  /\ \/ "assign" \in Kinds /\ AssignReceive(r)
     \/ "session" \in Kinds /\ SessionReceive(r)
     \/ "cancel" \in Kinds /\ SessionCancel(r)
     \/ "edit" \in Kinds /\ EditReceive(r)
     \/ "patch" \in Kinds /\ PatchReceive(r)

Proceed(r) ==
  \/ LockUser(r)
  \/ AssignLockBatch(r) \/ AssignReplay(r) \/ AssignReject(r) \/ AssignAccept(r) \/ AssignCommit(r)
  \/ SessionCheck(r) \/ SessionCommit(r)
  \/ EditCheck(r) \/ EditCommit(r)
  \/ PatchFlush(r) \/ PatchReference(r) \/ PatchCheck(r) \/ PatchCommit(r)
  \/ DeadlockAbort(r)

(* Every request has been served: the system rests.                        *)
Rest == (\A r \in Requests : pc[r] = "done") /\ UNCHANGED vars

Next == Rest \/ \E r \in Requests : Receive(r) \/ Proceed(r) \/ Crash(r)

Init ==
  /\ \E d \in Databases : row = d.batch /\ avail = d.avail /\ leave = d.leave
  /\ history = [b \in Batches |-> <<>>]
  /\ batchLock = [b \in Batches |-> None]
  /\ userLock = [t \in Trainers |-> None]
  /\ userShare = [t \in Trainers |-> {}]
  /\ pc = [r \in Requests |-> "idle"]
  /\ req = [r \in Requests |-> [kind |-> "none"]]
  /\ seen = [r \in Requests |-> NoRow]
  /\ override = [r \in Requests |-> FALSE]
  /\ reply = [r \in Requests |-> "none"]
  /\ staleWrite = FALSE

Spec == Init /\ [][Next]_vars

-----------------------------------------------------------------------------
(* Properties.                                                             *)

(* Every table, lock and request-local value has its type. *)
TypeOK ==
  /\ row \in [Batches -> BatchRow]
  /\ avail \in [Trainers -> SUBSET Slots] /\ leave \in [Trainers -> SUBSET Slots]
  /\ history \in [Batches -> Seq(HistoryRow)]
  /\ batchLock \in [Batches -> Requests \cup {None}]
  /\ userLock \in [Trainers -> Requests \cup {None}]
  /\ userShare \in [Trainers -> SUBSET Requests]
  /\ pc \in [Requests -> {"idle", "lockBatch", "flush", "reference", "lockUsers", "check", "commit", "done"}]
  /\ req \in [Requests -> Params \cup {[kind |-> "none"]}]
  /\ seen \in [Requests -> BatchRow]
  /\ override \in [Requests -> BOOLEAN]
  /\ reply \in [Requests -> {"none", "ok", "replayed", "rejected", "aborted"}]
  /\ staleWrite \in BOOLEAN

(* "concurrent writers for one trainer are serialised and each re-reads    *)
(* committed state (no double-booking)" (scheduling.py:263-265), for       *)
(* classes inside the dates of both batches.                               *)
NoDoubleBooking == \A b, c \in Batches : ~Clash(row, b, c, Window[b] \cap Window[c])

(* Whatever requests run together, a trainer is double-booked only after   *)
(* some request committed a batch that was no longer the one it had loaded *)
(* and checked: the locks protect everything else.                         *)
DoubleBookingNeedsStaleWrite == ~staleWrite => NoDoubleBooking

(* The assignment history is a chain that ends at the current trainer:     *)
(* each row's from_trainer is the row before's to_trainer.                 *)
HistoryIsChain ==
  \A b \in Batches : history[b] # <<>> =>
    /\ history[b][Len(history[b])].to = row[b].trainer
    /\ \A i \in 2 .. Len(history[b]) : history[b][i].from = history[b][i - 1].to

(* "idempotency_key makes a retried confirm request return the original    *)
(* result instead of re-assigning" (models/trainer_scheduling.py:81): one  *)
(* row per key, and a client told "done" asked for exactly that row.       *)
RetriesAreIdempotent ==
  /\ \A b, c \in Batches : \A i \in DOMAIN history[b], j \in DOMAIN history[c] :
       history[b][i].key = history[c][j].key /\ history[b][i].key # None => b = c /\ i = j
  /\ \A r \in Requests : Kind(r) = "assign" /\ reply[r] \in {"ok", "replayed"} =>
       KeyOf(req[r].key, req[r].batch, req[r].to)

(* r commits in this step. *)
Commits(r, kind) == Kind(r) = kind /\ reply[r] = "none" /\ reply'[r] = "ok"

(* A committed availability edit leaves no confirmed class without         *)
(* availability that had it before, also one assigned a moment ago -       *)
(* unless a request has committed a batch that was no longer the one it    *)
(* had loaded and checked (staleWrite): the trainer's lock does not keep   *)
(* such a write from adding classes between the edit's check and commit    *)
(* (scheduling_service.py:136, :321).                                      *)
EditsKeepClassesCovered ==
  [][\A r \in Requests : Commits(r, "edit") /\ ~staleWrite' =>
       LET t == req[r].to IN
       Uncovered(t, avail'[t], leave'[t]) \subseteq Uncovered(t, avail[t], leave[t])]_vars

(* The order batch row, then trainers ascending, excludes deadlock.        *)
NoDeadlock == \A r \in Requests : ~InWaitCycle(r)

(* While a request is under way, one can go on: whoever failed has left no *)
(* lock behind, and who waits for each other is told apart.  Every step    *)
(* brings a request nearer to its answer (scheduling.py:262-288,           *)
(* database.py:14-24).                                                     *)
SomeRequestProceeds ==
  (\E r \in Requests : pc[r] \notin {"idle", "done"}) => \E r \in Requests : ENABLED Proceed(r)

=============================================================================
