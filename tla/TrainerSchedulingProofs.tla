----------------------- MODULE TrainerSchedulingProofs -----------------------
(***************************************************************************)
(* Theorems about TrainerScheduling for any number of batches, trainers,   *)
(* slots, keys and concurrent requests.                                    *)
(*                                                                         *)
(* The argument: whoever holds the lock of trainer t knows that t's        *)
(* calendar can only shrink until the lock is released, unless a request   *)
(* writes a batch through a stale snapshot.  So what a request found free  *)
(* when it checked is still free when it commits.                          *)
(***************************************************************************)
EXTENDS TrainerScheduling, TLAPS, WellFoundedInduction

(* Which kind of request can be at which step. *)
PcKind ==
  \A r \in Requests :
    /\ pc[r] = "lockBatch" => Kind(r) = "assign"
    /\ pc[r] \in {"flush", "reference"} => Kind(r) \in {"patch", "create"}
    /\ pc[r] \in {"lockUsers", "check", "commit"} =>
         Kind(r) \in {"assign", "session", "move", "edit", "patch", "create"}

(* Only the users rows a running request wants are locked by it, and an    *)
(* assignment or an availability edit has all of them before it checks.    *)
LockInv ==
  \A r \in Requests :
    /\ \A t \in Trainers : userLock[t] = r =>
         pc[r] \in {"lockUsers", "check", "commit"} /\ t \in Wanted(r)
    /\ Kind(r) \in {"assign", "edit"} /\ pc[r] \in {"check", "commit"} => Wanted(r) \subseteq Held(r)

(* An assignment's snapshot of the batch row is the committed row, because *)
(* it holds the row lock; only the sessions can be stale.                  *)
RowInv ==
  \A r \in Requests : Kind(r) = "assign" /\ pc[r] \in {"lockUsers", "check", "commit"} =>
    LET b == req[r].batch IN
    /\ batchLock[b] = r
    /\ row[b].trainer = seen[r].trainer /\ row[b].pattern = seen[r].pattern

(* What a request has checked for the trainer it has locked.               *)
Claimed(r) ==
  LET b == req[r].batch IN
  CASE Kind(r) = "assign" -> Required(b, r)
    [] Kind(r) \in {"session", "move"} -> {req[r].add}
    [] OTHER -> (Target(r).pattern \cup Taught(seen[r].extra)) \cap Window[b]

Claimant(r) ==
  CASE Kind(r) = "assign" -> req[r].to
    [] Kind(r) \in {"session", "move"} -> seen[r].trainer
    [] OTHER -> Target(r).trainer

CheckedInv ==
  ~staleWrite => \A r \in Requests :
    /\ pc[r] = "commit" /\ Kind(r) # "edit"
    /\ Claimant(r) \in Trainers /\ userLock[Claimant(r)] = r
    => ~Overlap(Claimant(r), req[r].batch, Claimed(r))

IInv ==
  /\ TypeOK /\ PcKind /\ LockInv /\ RowInv /\ CheckedInv
  /\ DoubleBookingNeedsStaleWrite

-----------------------------------------------------------------------------
(* Type correctness.                                                       *)

LocalTypes ==
  /\ batchLock \in [Batches -> Requests \cup {None}]
  /\ userLock \in [Trainers -> Requests \cup {None}]
  /\ userShare \in [Trainers -> SUBSET Requests]
  /\ pc \in [Requests -> {"idle", "lockBatch", "flush", "reference", "lockUsers", "check", "commit", "done"}]
  /\ req \in [Requests -> Params \cup {[kind |-> "none"]}]
  /\ seen \in [Requests -> BatchRow]
  /\ override \in [Requests -> BOOLEAN]
  /\ reply \in [Requests -> {"none", "ok", "replayed", "rejected", "aborted"}]

TableTypes ==
  /\ row \in [Batches -> BatchRow]
  /\ avail \in [Trainers -> SUBSET Slots] /\ leave \in [Trainers -> SUBSET Slots]
  /\ history \in [Batches -> Seq(HistoryRow)]
  /\ staleWrite \in BOOLEAN

LEMMA TypeSplit == TypeOK <=> LocalTypes /\ TableTypes
  BY DEF TypeOK, LocalTypes, TableTypes

(* The parameters of a request have the shape of its kind. *)
LEMMA ParamTypes ==
  ASSUME TypeOK, NEW r \in Requests
  PROVE  /\ Kind(r) = "assign" => req[r] \in AssignParams
         /\ Kind(r) \in {"session", "move"} => req[r] \in SessionParams
         /\ Kind(r) = "cancel" => req[r] \in CancelParams
         /\ Kind(r) = "edit" => req[r] \in EditParams
         /\ Kind(r) \in {"patch", "create"} => req[r] \in BatchParams
  <1>1. req[r] \in Params \cup {[kind |-> "none"]}
    BY DEF TypeOK
  <1>2. QED
    BY <1>1 DEF Kind, Params, AssignParams, SessionParams, CancelParams, EditParams, BatchParams

LEMMA NoRowType == NoRow \in BatchRow /\ NoSessions \in Extras
  BY DEF NoRow, NoSessions, Extras, BatchRow, Statuses, MaybeTrainer

LEMMA FinishTypes ==
  ASSUME TypeOK, NEW r \in Requests, NEW a \in {"none", "ok", "replayed", "rejected", "aborted"},
         Finish(r, a)
  PROVE  LocalTypes'
  BY NoRowType DEF TypeOK, LocalTypes, Finish

LEMMA RollbackTypes ==
  ASSUME TypeOK, NEW r \in Requests, NEW a \in {"none", "ok", "replayed", "rejected", "aborted"},
         Rollback(r, a)
  PROVE  TypeOK'
  <1>1. LocalTypes'
    BY FinishTypes DEF Rollback
  <1>2. TableTypes'
    BY DEF TypeOK, TableTypes, Rollback, tables
  <1>3. QED
    BY <1>1, <1>2 DEF TypeOK, LocalTypes, TableTypes

(* Target and Merged are rows. *)
LEMMA TargetType ==
  ASSUME TypeOK, NEW r \in Requests, Kind(r) \in {"patch", "create"}
  PROVE  Target(r) \in BatchRow /\ Merged(r) \in BatchRow /\ req[r].batch \in Batches
  <1>1. req[r] \in BatchParams
    BY ParamTypes
  <1>2. seen[r] \in BatchRow /\ req[r].batch \in Batches /\ row[req[r].batch] \in BatchRow
    BY <1>1 DEF TypeOK, BatchParams
  <1>3. /\ req[r].to # Keep => req[r].to \in MaybeTrainer
        /\ req[r].status # Keep => req[r].status \in Statuses
        /\ req[r].pattern # Keep => req[r].pattern \in SUBSET Slots
    BY <1>1 DEF BatchParams
  <1>4. Target(r) \in BatchRow
    BY <1>2, <1>3 DEF Target, BatchRow
  <1>5. Merged(r) \in BatchRow
    BY <1>2, <1>4 DEF Merged, BatchRow
  <1>6. QED
    BY <1>2, <1>4, <1>5

(* Changing one column of a row leaves a row. *)
LEMMA RowExcept ==
  ASSUME NEW x \in BatchRow, NEW b \in Batches, NEW rows \in [Batches -> BatchRow]
  PROVE  /\ \A e \in Extras : [x EXCEPT !.extra = e] \in BatchRow
         /\ \A t \in MaybeTrainer : [x EXCEPT !.trainer = t] \in BatchRow
         /\ [rows EXCEPT ![b] = x] \in [Batches -> BatchRow]
  BY DEF BatchRow

(* Session s of batch b moved to v, or deleted when v is None. *)
With(b, s, v) == [row[b] EXCEPT !.extra = [row[b].extra EXCEPT ![s] = v]]

LEMMA WithRow ==
  ASSUME TypeOK, NEW b \in Batches, NEW s \in Sessions, NEW v \in Slots \cup {None}
  PROVE  /\ With(b, s, v) \in BatchRow
         /\ With(b, s, v).trainer = row[b].trainer /\ With(b, s, v).status = row[b].status
         /\ With(b, s, v).pattern = row[b].pattern
         /\ Taught(With(b, s, v).extra) \subseteq Taught(row[b].extra) \cup ({v} \ {None})
  <1>1. row[b] \in BatchRow /\ row[b].extra \in Extras
    BY DEF TypeOK, BatchRow
  <1>2. [row[b].extra EXCEPT ![s] = v] \in Extras
    BY <1>1 DEF Extras
  <1>3. Taught([row[b].extra EXCEPT ![s] = v]) \subseteq Taught(row[b].extra) \cup ({v} \ {None})
    BY <1>1 DEF Taught, Extras
  <1> DEFINE e == [row[b].extra EXCEPT ![s] = v]
  <1>4. With(b, s, v) = [row[b] EXCEPT !.extra = e]
    BY DEF With
  <1> HIDE DEF e
  <1>5. QED
    BY <1>1, <1>2, <1>3, <1>4 DEF BatchRow, e

LEMMA CancelWrites ==
  ASSUME TypeOK, NEW r \in Requests, SessionCancel(r)
  PROVE  \E b \in Batches, s \in Sessions : row' = [row EXCEPT ![b] = With(b, s, None)]
  <1>1. PICK p \in CancelParams : row' = [row EXCEPT ![p.batch].extra[p.session] = None]
    BY DEF SessionCancel
  <1>2. p.batch \in Batches /\ p.session \in Sessions
    BY DEF CancelParams
  <1>3. row' = [row EXCEPT ![p.batch] = With(p.batch, p.session, None)]
    BY <1>1 DEF With
  <1>4. QED
    BY <1>2, <1>3

LEMMA SessionWritten ==
  ASSUME TypeOK, NEW r \in Requests, SessionCommit(r), ~UNCHANGED row
  PROVE  /\ req[r].batch \in Batches /\ req[r].session \in Sessions /\ req[r].add \in Slots
         /\ row' = [row EXCEPT ![req[r].batch] = With(req[r].batch, req[r].session, req[r].add)]
         /\ pc[r] = "commit" /\ Kind(r) \in {"session", "move"}
         /\ ~staleWrite' /\ Confirmed(req[r].batch) /\ row[req[r].batch].trainer # None =>
              row[req[r].batch].trainer \in Held(r)
  <1>1. req[r] \in SessionParams
    BY ParamTypes DEF SessionCommit
  <1>2. row' = [row EXCEPT ![req[r].batch].extra[req[r].session] = req[r].add]
        /\ SessionWrites(r)
    BY DEF SessionCommit, Rollback, tables
  <1>3. row' = [row EXCEPT ![req[r].batch] = With(req[r].batch, req[r].session, req[r].add)]
    BY <1>2 DEF With
  <1>4. ~staleWrite' /\ Confirmed(req[r].batch) /\ row[req[r].batch].trainer # None =>
              row[req[r].batch].trainer \in Held(r)
    BY <1>2 DEF SessionCommit, Rollback, tables
  <1>5. QED
    BY <1>1, <1>3, <1>4 DEF SessionParams, SessionCommit

LEMMA AppendType ==
  ASSUME NEW h \in [Batches -> Seq(HistoryRow)], NEW b \in Batches, NEW e \in HistoryRow
  PROVE  [h EXCEPT ![b] = Append(h[b], e)] \in [Batches -> Seq(HistoryRow)]
  <1>1. Append(h[b], e) \in Seq(HistoryRow)
    BY SMT
  <1>2. QED
    BY <1>1

LEMMA PcTypes ==
  ASSUME TypeOK, PcKind, NEW r \in Requests
  PROVE  /\ pc[r] = "lockBatch" => req[r] \in AssignParams /\ req[r].batch \in Batches
         /\ Kind(r) = "assign" => req[r] \in AssignParams /\ req[r].batch \in Batches
         /\ Kind(r) \in {"session", "move"} => req[r].batch \in Batches
         /\ Kind(r) = "edit" => req[r].to \in Trainers
  <1>1. /\ \A p \in AssignParams : p.batch \in Batches
        /\ \A p \in SessionParams : p.batch \in Batches
        /\ \A p \in EditParams : p.to \in Trainers
    BY DEF AssignParams, SessionParams, EditParams
  <1>2. pc[r] = "lockBatch" => Kind(r) = "assign"
    BY DEF PcKind
  <1>3. Kind(r) = "assign" => req[r] \in AssignParams /\ req[r].batch \in Batches
    <2>1. Kind(r) = "assign" => req[r] \in AssignParams
      BY ParamTypes
    <2>2. QED BY <1>1, <2>1
  <1>4. Kind(r) \in {"session", "move"} => req[r].batch \in Batches
    <2>1. Kind(r) \in {"session", "move"} => req[r] \in SessionParams
      BY ParamTypes
    <2>2. QED BY <1>1, <2>1
  <1>5. Kind(r) = "edit" => req[r].to \in Trainers
    <2>1. Kind(r) = "edit" => req[r] \in EditParams
      BY ParamTypes
    <2>2. QED BY <1>1, <2>1
  <1>6. QED
    BY <1>2, <1>3, <1>4, <1>5

(* What a request asks for is of its kind, and only an assignment locks its batch. *)
LEMMA Received ==
  ASSUME TypeOK, NEW r \in Requests, Receive(r)
  PROVE  \/ AssignReceive(r) /\ req'[r].kind = "assign" /\ pc'[r] \in {"done", "lockBatch"}
         \/ SessionReceive(r) /\ req'[r].kind \in {"session", "move"}
         \/ SessionCancel(r) /\ req'[r].kind = "cancel"
         \/ EditReceive(r) /\ req'[r].kind = "edit"
         \/ PatchReceive(r) /\ req'[r].kind \in {"patch", "create"}
  <1>0. r \in DOMAIN req /\ r \in DOMAIN pc
    BY DEF TypeOK
  <1>1. CASE AssignReceive(r)
    <2>1. PICK p \in AssignParams : req' = [req EXCEPT ![r] = p]
      BY <1>1 DEF AssignReceive
    <2>2. req'[r].kind = "assign"
      BY <1>0, <2>1 DEF AssignParams
    <2>3. pc'[r] \in {"done", "lockBatch"}
      BY <1>0, <1>1 DEF AssignReceive
    <2>4. QED BY <1>1, <2>2, <2>3
  <1>2. CASE SessionReceive(r)
    <2>1. PICK p \in SessionParams : req' = [req EXCEPT ![r] = p]
      BY <1>2 DEF SessionReceive
    <2>2. req'[r].kind \in {"session", "move"}
      BY <1>0, <2>1 DEF SessionParams
    <2>3. QED BY <1>2, <2>2
  <1>3. CASE SessionCancel(r)
    <2>1. PICK p \in CancelParams : req' = [req EXCEPT ![r] = p]
      BY <1>3 DEF SessionCancel
    <2>2. req'[r].kind = "cancel"
      BY <1>0, <2>1 DEF CancelParams
    <2>3. QED BY <1>3, <2>2
  <1>4. CASE EditReceive(r)
    <2>1. PICK p \in EditParams : req' = [req EXCEPT ![r] = p]
      BY <1>4 DEF EditReceive
    <2>2. req'[r].kind = "edit"
      BY <1>0, <2>1 DEF EditParams
    <2>3. QED BY <1>4, <2>2
  <1>5. CASE PatchReceive(r)
    <2>1. PICK p \in BatchParams : req' = [req EXCEPT ![r] = p]
      BY <1>5 DEF PatchReceive
    <2>2. req'[r].kind \in {"patch", "create"}
      BY <1>0, <2>1 DEF BatchParams
    <2>3. QED BY <1>5, <2>2
  <1>6. QED
    BY <1>1, <1>2, <1>3, <1>4, <1>5 DEF Receive

LEMMA TypeReceive ==
  ASSUME TypeOK, NEW r \in Requests, Receive(r)
  PROVE  TypeOK'
  <1>1. CASE AssignReceive(r)
    <2>1. req' \in [Requests -> Params \cup {[kind |-> "none"]}]
      BY <1>1 DEF TypeOK, AssignReceive, Params
    <2>2. /\ pc' \in [Requests -> {"idle", "lockBatch", "flush", "reference", "lockUsers", "check",
                                   "commit", "done"}]
          /\ reply' \in [Requests -> {"none", "ok", "replayed", "rejected", "aborted"}]
      BY <1>1 DEF TypeOK, AssignReceive
    <2>3. QED
      BY <1>1, <2>1, <2>2 DEF TypeOK, AssignReceive, tables, locks
  <1>2. CASE SessionReceive(r)
    <2>1. PICK p \in SessionParams : /\ req' = [req EXCEPT ![r] = p]
                                     /\ seen' = [seen EXCEPT ![r] = row[p.batch]]
      BY <1>2 DEF SessionReceive
    <2>2. row[p.batch] \in BatchRow
      BY DEF TypeOK, SessionParams
    <2>3. QED
      BY <1>2, <2>1, <2>2 DEF TypeOK, SessionReceive, Params, tables, locks
  <1>3. CASE SessionCancel(r)
    <2>1. PICK p \in CancelParams : req' = [req EXCEPT ![r] = p]
      BY <1>3 DEF SessionCancel
    <2>2. row' \in [Batches -> BatchRow]
      <3>1. PICK b \in Batches, s \in Sessions : row' = [row EXCEPT ![b] = With(b, s, None)]
        BY <1>3, CancelWrites
      <3>2. With(b, s, None) \in BatchRow
        BY WithRow
      <3>3. QED
        BY <3>1, <3>2 DEF TypeOK
    <2>3. QED
      BY <1>3, <2>1, <2>2 DEF TypeOK, SessionCancel, Params, locks
  <1>4. CASE EditReceive(r)
    BY <1>4 DEF TypeOK, EditReceive, Params, tables, locks
  <1>5. CASE PatchReceive(r)
    <2>1. PICK p \in BatchParams : /\ req' = [req EXCEPT ![r] = p]
                                   /\ seen' = [seen EXCEPT ![r] = [row[p.batch] EXCEPT !.extra = NoSessions]]
      BY <1>5 DEF PatchReceive
    <2>2. [row[p.batch] EXCEPT !.extra = NoSessions] \in BatchRow
      <3>1. p.batch \in Batches /\ row[p.batch] \in BatchRow /\ NoSessions \in Extras
            /\ row \in [Batches -> BatchRow]
        BY NoRowType DEF TypeOK, BatchParams
      <3>2. QED
        BY <3>1, RowExcept
    <2>3. QED
      BY <1>5, <2>1, <2>2 DEF TypeOK, PatchReceive, Params, tables, locks
  <1>6. QED
    BY <1>1, <1>2, <1>3, <1>4, <1>5 DEF Receive

LEMMA TypeProceed ==
  ASSUME TypeOK, PcKind, NEW r \in Requests, Proceed(r)
  PROVE  TypeOK'
  <1>0. ASSUME NEW a \in {"ok", "replayed", "rejected", "aborted"}, Rollback(r, a) PROVE TypeOK'
    BY <1>0, RollbackTypes
  <1>1. CASE LockUser(r)
    BY <1>1 DEF TypeOK, LockUser, GoTo, tables
  <1>2. CASE AssignLockBatch(r)
    <2>1. CASE Rollback(r, "rejected")
      BY <2>1, <1>0
    <2>2. CASE ~Rollback(r, "rejected")
      <3>1. row[req[r].batch] \in BatchRow
        BY <1>2, PcTypes DEF TypeOK, AssignLockBatch
      <3>2. QED
        BY <1>2, <2>2, <3>1 DEF TypeOK, AssignLockBatch, GoTo, tables
    <2>3. QED BY <2>1, <2>2
  <1>3. CASE AssignReplay(r)
    BY <1>3, <1>0 DEF AssignReplay, Replay
  <1>4. CASE AssignReject(r)
    BY <1>4, <1>0 DEF AssignReject
  <1>5. CASE AssignAccept(r)
    <2>1. override' \in [Requests -> BOOLEAN]
      BY <1>5 DEF TypeOK, AssignAccept
    <2>2. QED
      BY <1>5, <2>1 DEF TypeOK, AssignAccept, GoTo, locks, tables
  <1>6. CASE AssignCommit(r)
    <2>1. CASE Replay(r)
      BY <2>1, <1>0 DEF Replay
    <2>2. CASE ~Replay(r)
      <3>1. req[r] \in AssignParams /\ req[r].batch \in Batches /\ req[r].to \in MaybeTrainer
            /\ seen[r].trainer \in MaybeTrainer /\ override[r] \in BOOLEAN
        BY <1>6, ParamTypes DEF TypeOK, AssignCommit, AssignParams, BatchRow
      <3>2. LocalTypes'
        BY <1>6, <2>2, FinishTypes DEF AssignCommit
      <3>3. row' \in [Batches -> BatchRow]
        <4>1. row' = [row EXCEPT ![req[r].batch] = [row[req[r].batch] EXCEPT !.trainer = req[r].to]]
          BY <1>6, <2>2 DEF AssignCommit
        <4>2. row \in [Batches -> BatchRow] /\ row[req[r].batch] \in BatchRow
          BY <3>1 DEF TypeOK
        <4>3. [row[req[r].batch] EXCEPT !.trainer = req[r].to] \in BatchRow
          BY <3>1, <4>2, RowExcept
        <4>4. QED
          BY <3>1, <4>1, <4>2, <4>3, RowExcept
      <3>4. [from |-> seen[r].trainer, to |-> req[r].to, key |-> req[r].key,
             override |-> override[r]] \in HistoryRow
        BY <3>1 DEF HistoryRow, AssignParams
      <3>5. history' \in [Batches -> Seq(HistoryRow)]
        <4> DEFINE e == [from |-> seen[r].trainer, to |-> req[r].to, key |-> req[r].key,
                         override |-> override[r]]
        <4>1. history' = [history EXCEPT ![req[r].batch] = Append(history[req[r].batch], e)]
          BY <1>6, <2>2 DEF AssignCommit
        <4>2. e \in HistoryRow /\ history \in [Batches -> Seq(HistoryRow)]
          BY <3>4 DEF TypeOK
        <4> HIDE DEF e
        <4>3. QED
          BY <3>1, <4>1, <4>2, AppendType
      <3>6. staleWrite' \in BOOLEAN /\ UNCHANGED <<avail, leave>>
        BY <1>6, <2>2 DEF TypeOK, AssignCommit
      <3>7. QED
        BY <3>2, <3>3, <3>5, <3>6 DEF TypeOK, LocalTypes
    <2>3. QED BY <2>1, <2>2
  <1>7. CASE SessionCheck(r)
    <2>1. CASE Rollback(r, "rejected")
      BY <2>1, <1>0
    <2>2. CASE ~Rollback(r, "rejected")
      BY <1>7, <2>2 DEF TypeOK, SessionCheck, GoTo, locks, tables
    <2>3. QED BY <2>1, <2>2
  <1>8. CASE SessionCommit(r)
    <2>1. CASE Rollback(r, "aborted")
      BY <2>1, <1>0
    <2>2. CASE ~Rollback(r, "aborted")
      <3>2. LocalTypes'
        BY <1>8, <2>2, FinishTypes DEF SessionCommit
      <3>3. row' \in [Batches -> BatchRow]
        <4>1. CASE UNCHANGED row
          BY <4>1 DEF TypeOK
        <4>2. CASE ~UNCHANGED row
          <5> DEFINE n == With(req[r].batch, req[r].session, req[r].add)
          <5>1. row' = [row EXCEPT ![req[r].batch] = n] /\ n \in BatchRow
            BY <1>8, <4>2, SessionWritten, WithRow
          <5> HIDE DEF n
          <5>2. QED
            BY <5>1 DEF TypeOK
        <4>3. QED BY <4>1, <4>2
      <3>4. staleWrite' \in BOOLEAN /\ UNCHANGED <<avail, leave, history>>
        BY <1>8, <2>2 DEF TypeOK, SessionCommit
      <3>5. QED
        BY <3>2, <3>3, <3>4 DEF TypeOK, LocalTypes
    <2>3. QED BY <2>1, <2>2
  <1>9. CASE EditCheck(r)
    <2>1. CASE Rollback(r, "rejected")
      BY <2>1, <1>0
    <2>2. CASE ~Rollback(r, "rejected")
      BY <1>9, <2>2 DEF TypeOK, EditCheck, GoTo, locks, tables
    <2>3. QED BY <2>1, <2>2
  <1>10. CASE EditCommit(r)
    <2>1. req[r].to \in Trainers /\ req[r].slot \in Slots
      BY <1>10, ParamTypes DEF EditCommit, EditParams
    <2>2. EditedAvail(r) \in SUBSET Slots /\ EditedLeave(r) \in SUBSET Slots
      BY <2>1 DEF TypeOK, EditedAvail, EditedLeave
    <2>3. avail' \in [Trainers -> SUBSET Slots] /\ leave' \in [Trainers -> SUBSET Slots]
      BY <1>10, <2>2 DEF TypeOK, EditCommit
    <2>4. LocalTypes'
      BY <1>10, FinishTypes DEF EditCommit
    <2>5. QED
      BY <1>10, <2>3, <2>4 DEF TypeOK, LocalTypes, EditCommit
  <1>11. CASE PatchFlush(r)
    BY <1>11 DEF TypeOK, PatchFlush, GoTo, tables
  <1>12. CASE PatchReference(r)
    BY <1>12 DEF TypeOK, PatchReference, GoTo, tables
  <1>13. CASE PatchCheck(r)
    <2>1. CASE Rollback(r, "rejected")
      BY <2>1, <1>0
    <2>2. CASE ~Rollback(r, "rejected")
      <3>1. row[req[r].batch].extra \in Extras
        BY <1>13, TargetType DEF TypeOK, PatchCheck, BatchRow
      <3>2. seen' \in [Requests -> BatchRow]
        <4> DEFINE e == row[req[r].batch].extra
        <4>1. seen' = [seen EXCEPT ![r] = [seen[r] EXCEPT !.extra = e]]
          BY <1>13, <2>2 DEF PatchCheck
        <4>2. seen \in [Requests -> BatchRow] /\ seen[r] \in BatchRow
          BY DEF TypeOK
        <4>3. [seen[r] EXCEPT !.extra = e] \in BatchRow
          BY <3>1, <4>2 DEF BatchRow
        <4> HIDE DEF e
        <4>4. QED
          BY <4>1, <4>2, <4>3
      <3>3. QED
        BY <1>13, <2>2, <3>2 DEF TypeOK, PatchCheck, GoTo, locks, tables
    <2>3. QED BY <2>1, <2>2
  <1>14. CASE PatchCommit(r)
    <2>1. Target(r) \in BatchRow /\ Merged(r) \in BatchRow /\ seen[r] \in BatchRow
      BY <1>14, TargetType DEF PatchCommit, TypeOK
    <2>2. LocalTypes'
      BY <1>14, FinishTypes DEF PatchCommit
    <2>3. row' \in [Batches -> BatchRow]
      BY <1>14, <2>1 DEF TypeOK, PatchCommit
    <2>4. [from |-> seen[r].trainer, to |-> Target(r).trainer, key |-> None,
           override |-> FALSE] \in HistoryRow
      BY <2>1 DEF HistoryRow, BatchRow
    <2>5. history' \in [Batches -> Seq(HistoryRow)]
      BY <1>14, <2>4, TargetType, AppendType DEF TypeOK, PatchCommit
    <2>6. staleWrite' \in BOOLEAN
      BY <1>14 DEF TypeOK, PatchCommit
    <2>7. QED
      BY <1>14, <2>2, <2>3, <2>5, <2>6 DEF TypeOK, LocalTypes, PatchCommit
  <1>15. CASE DeadlockAbort(r)
    BY <1>15, <1>0 DEF DeadlockAbort
  <1>16. QED
    BY <1>1, <1>2, <1>3, <1>4, <1>5, <1>6, <1>7, <1>8, <1>9, <1>10, <1>11, <1>12, <1>13, <1>14,
       <1>15 DEF Proceed

LEMMA PcKindStep ==
  ASSUME TypeOK, PcKind, [Next]_vars
  PROVE  PcKind'
  <1>1. CASE UNCHANGED vars
    BY <1>1 DEF PcKind, vars, local, Kind
  <1>2. CASE Rest
    BY <1>2 DEF PcKind, Rest, vars, local, Kind
  <1>3. ASSUME NEW r \in Requests, Receive(r) PROVE PcKind'
    <2>1. CASE AssignReceive(r)
      BY <2>1 DEF TypeOK, PcKind, Kind, AssignReceive, AssignParams
    <2>2. CASE SessionReceive(r)
      BY <2>2 DEF TypeOK, PcKind, Kind, SessionReceive, SessionParams
    <2>3. CASE SessionCancel(r)
      BY <2>3 DEF TypeOK, PcKind, Kind, SessionCancel, CancelParams
    <2>4. CASE EditReceive(r)
      BY <2>4 DEF TypeOK, PcKind, Kind, EditReceive, EditParams
    <2>5. CASE PatchReceive(r)
      BY <2>5 DEF TypeOK, PcKind, Kind, PatchReceive, BatchParams
    <2>6. QED
      BY <1>3, <2>1, <2>2, <2>3, <2>4, <2>5 DEF Receive
  <1>4. ASSUME NEW r \in Requests, Proceed(r) \/ Crash(r) PROVE PcKind'
    <2>1. ASSUME NEW a, Finish(r, a) PROVE PcKind'
      BY <2>1 DEF TypeOK, PcKind, Kind, Finish
    <2>2. ASSUME NEW a, Rollback(r, a) PROVE PcKind'
      BY <2>1, <2>2 DEF Rollback
    <2>3. CASE LockUser(r)
      BY <2>3 DEF TypeOK, PcKind, Kind, LockUser, GoTo
    <2>4. CASE AssignLockBatch(r)
      BY <2>4, <2>2 DEF TypeOK, PcKind, Kind, AssignLockBatch, GoTo
    <2>5. CASE AssignReplay(r) \/ AssignReject(r) \/ DeadlockAbort(r) \/ Crash(r)
      BY <2>5, <2>2 DEF AssignReplay, AssignReject, DeadlockAbort, Crash, Replay
    <2>6. CASE AssignAccept(r)
      BY <2>6 DEF TypeOK, PcKind, Kind, AssignAccept, GoTo
    <2>7. CASE AssignCommit(r) \/ SessionCommit(r) \/ EditCommit(r) \/ PatchCommit(r)
      BY <2>7, <2>1, <2>2 DEF AssignCommit, SessionCommit, EditCommit, PatchCommit, Replay
    <2>8. CASE SessionCheck(r) \/ EditCheck(r) \/ PatchCheck(r)
      BY <2>8, <2>2 DEF TypeOK, PcKind, Kind, SessionCheck, EditCheck, PatchCheck, GoTo
    <2>9. CASE PatchFlush(r) \/ PatchReference(r)
      BY <2>9 DEF TypeOK, PcKind, Kind, PatchFlush, PatchReference, GoTo
    <2>10. QED
      BY <1>4, <2>3, <2>4, <2>5, <2>6, <2>7, <2>8, <2>9 DEF Proceed
  <1>5. QED
    BY <1>1, <1>2, <1>3, <1>4 DEF Next

LEMMA TypeStep ==
  ASSUME TypeOK, PcKind, [Next]_vars
  PROVE  TypeOK'
  <1>1. CASE UNCHANGED vars
    BY <1>1 DEF TypeOK, vars, tables, locks, local
  <1>2. CASE Rest
    BY <1>2 DEF TypeOK, Rest, vars, tables, locks, local
  <1>3. ASSUME NEW r \in Requests, Crash(r) PROVE TypeOK'
    BY <1>3, RollbackTypes DEF Crash
  <1>4. QED
    BY <1>1, <1>2, <1>3, TypeReceive, TypeProceed DEF Next

LEMMA InitTypes == Init => TypeOK /\ PcKind
  <1> SUFFICES ASSUME Init PROVE TypeOK /\ PcKind
    OBVIOUS
  <1>1. row \in [Batches -> BatchRow] /\ avail \in [Trainers -> SUBSET Slots]
        /\ leave \in [Trainers -> SUBSET Slots]
    BY DatabasesAssumption DEF Init, Database
  <1>2. NoRow \in BatchRow
    BY NoRowType
  <1>3. history \in [Batches -> Seq(HistoryRow)]
    BY DEF Init
  <1>4. QED
    BY <1>1, <1>2, <1>3 DEF Init, TypeOK, PcKind

(* Every table, lock and local value keeps its type, for any number of     *)
(* batches, trainers, slots and concurrent requests.                       *)
THEOREM TypeCorrect == Spec => []TypeOK
  <1>1. TypeOK /\ PcKind /\ [Next]_vars => (TypeOK /\ PcKind)'
    BY TypeStep, PcKindStep
  <1>2. QED
    BY InitTypes, <1>1, PTL DEF Spec

-----------------------------------------------------------------------------
(* What a step of q leaves alone.                                          *)

Step(q) == Receive(q) \/ Proceed(q) \/ Crash(q)

(* Another request's local state and locks. *)
LEMMA Frame ==
  ASSUME TypeOK, NEW q \in Requests, Step(q), NEW r \in Requests \ {q}
  PROVE  /\ pc'[r] = pc[r] /\ req'[r] = req[r] /\ seen'[r] = seen[r]
         /\ \A t \in Trainers : userLock'[t] = r <=> userLock[t] = r
         /\ \A b \in Batches : batchLock'[b] = r <=> batchLock[b] = r
  <1> DEFINE Goal == /\ pc'[r] = pc[r] /\ req'[r] = req[r] /\ seen'[r] = seen[r]
                     /\ \A t \in Trainers : userLock'[t] = r <=> userLock[t] = r
                     /\ \A b \in Batches : batchLock'[b] = r <=> batchLock[b] = r
  <1>0. None \notin Requests
    BY ConstantsAssumption
  <1>1. ASSUME NEW a, Finish(q, a) PROVE Goal
    BY <1>0, <1>1 DEF TypeOK, Finish
  <1>2. ASSUME NEW a, Rollback(q, a) PROVE Goal
    BY <1>1, <1>2 DEF Rollback
  <1>3. CASE Receive(q)
    BY <1>3 DEF TypeOK, Receive, AssignReceive, SessionReceive, SessionCancel, EditReceive,
                PatchReceive, locks
  <1>4. CASE LockUser(q)
    BY <1>0, <1>4 DEF TypeOK, LockUser, UserFree, GoTo
  <1>5. CASE AssignLockBatch(q)
    BY <1>0, <1>2, <1>5 DEF TypeOK, AssignLockBatch, RowFree, GoTo
  <1>6. CASE AssignReplay(q) \/ AssignReject(q) \/ DeadlockAbort(q) \/ Crash(q)
    BY <1>2, <1>6 DEF AssignReplay, AssignReject, DeadlockAbort, Crash, Replay
  <1>7. CASE AssignCommit(q) \/ SessionCommit(q) \/ EditCommit(q) \/ PatchCommit(q)
    BY <1>1, <1>2, <1>7 DEF AssignCommit, SessionCommit, EditCommit, PatchCommit, Replay
  <1>8. CASE AssignAccept(q) \/ SessionCheck(q) \/ EditCheck(q) \/ PatchCheck(q)
    BY <1>2, <1>8 DEF TypeOK, AssignAccept, SessionCheck, EditCheck, PatchCheck, GoTo, locks
  <1>9. CASE PatchFlush(q) \/ PatchReference(q)
    BY <1>0, <1>9 DEF TypeOK, PatchFlush, PatchReference, RowFree, GoTo
  <1>10. QED
    BY <1>3, <1>4, <1>5, <1>6, <1>7, <1>8, <1>9 DEF Step, Proceed

(* Only four actions write batches. *)
Writes(q) == SessionCancel(q) \/ AssignCommit(q) \/ SessionCommit(q) \/ PatchCommit(q)

LEMMA ReadOnly ==
  ASSUME TypeOK, NEW q \in Requests, Step(q), ~Writes(q)
  PROVE  row' = row /\ staleWrite' = staleWrite
  BY DEF Step, Writes, Receive, Proceed, Crash, Rollback, Replay, GoTo, tables, AssignReceive,
         SessionReceive, EditReceive, PatchReceive, LockUser, AssignLockBatch, AssignReplay,
         AssignReject, AssignAccept, SessionCheck, EditCheck, EditCommit, PatchFlush,
         PatchReference, PatchCheck, DeadlockAbort

LEMMA StaleForever ==
  ASSUME TypeOK, NEW q \in Requests, Step(q), staleWrite
  PROVE  staleWrite'
  <1>1. CASE ~Writes(q)
    BY <1>1, ReadOnly
  <1>2. CASE Writes(q)
    BY <1>2 DEF Writes, SessionCancel, AssignCommit, SessionCommit, PatchCommit, Replay, Rollback
  <1>3. QED BY <1>1, <1>2

-----------------------------------------------------------------------------
(* Locks.                                                                  *)

LEMMA LockStep ==
  ASSUME TypeOK, PcKind, LockInv, NEW q \in Requests, Step(q)
  PROVE  LockInv'
  <1>0. None \notin Requests
    BY ConstantsAssumption
  <1>1. ASSUME NEW r \in Requests \ {q}
        PROVE  /\ \A t \in Trainers : userLock'[t] = r =>
                    pc'[r] \in {"lockUsers", "check", "commit"} /\ t \in Wanted(r)'
               /\ Kind(r)' \in {"assign", "edit"} /\ pc'[r] \in {"check", "commit"} =>
                    Wanted(r)' \subseteq Held(r)'
    <2>1. Wanted(r)' = Wanted(r) /\ Kind(r)' = Kind(r) /\ Held(r)' = Held(r)
      <3>1. Kind(r)' = Kind(r)
        BY Frame DEF Kind
      <3>2. Target(r)' = Target(r)
        BY Frame DEF Target
      <3>3. Wanted(r)' = Wanted(r)
        <4>1. req'[r] = req[r] /\ seen'[r] = seen[r]
          BY Frame
        <4>2. QED
          BY <3>1, <3>2, <4>1 DEF Wanted
      <3>4. Held(r)' = Held(r)
        BY Frame DEF Held
      <3>5. QED
        BY <3>1, <3>3, <3>4
    <2>2. QED
      BY <2>1, Frame DEF LockInv
  <1> DEFINE Own == /\ \A t \in Trainers : userLock'[t] = q =>
                         pc'[q] \in {"lockUsers", "check", "commit"} /\ t \in Wanted(q)'
                    /\ Kind(q)' \in {"assign", "edit"} /\ pc'[q] \in {"check", "commit"} =>
                         Wanted(q)' \subseteq Held(q)'
  <1>2. ASSUME NEW a, Finish(q, a) PROVE Own
    BY <1>0, <1>2 DEF TypeOK, Finish
  <1>3. ASSUME NEW a, Rollback(q, a) PROVE Own
    BY <1>2, <1>3 DEF Rollback
  <1>4. Own
    <2>1. CASE Receive(q)
      <3>1. \A t \in Trainers : userLock[t] # q
        BY <2>1 DEF Receive, LockInv
      <3>2. UNCHANGED userLock
        BY <2>1 DEF Receive, AssignReceive, SessionReceive, SessionCancel, EditReceive,
                    PatchReceive, locks
      <3>3. Kind(q)' \in {"assign", "edit"} => pc'[q] \notin {"check", "commit"}
        <4>1. ASSUME EditReceive(q) PROVE pc'[q] = "lockUsers"
          BY <4>1 DEF TypeOK, EditReceive
        <4>2. QED
          BY <2>1, <4>1, Received DEF Kind
      <3>4. QED
        BY <3>1, <3>2, <3>3
    <2>2. CASE LockUser(q)
      <3>1. PICK t \in Trainers :
              /\ pc[q] = "lockUsers" /\ NextUser(q, t)
              /\ userLock' = [userLock EXCEPT ![t] = q]
              /\ pc' = [pc EXCEPT ![q] =
                   IF Wanted(q) \subseteq Held(q) \cup {t} THEN "check" ELSE "lockUsers"]
              /\ UNCHANGED <<req, seen>>
        BY <2>2 DEF LockUser, GoTo
      <3>2. Wanted(q)' = Wanted(q) /\ Held(q)' = Held(q) \cup {t}
        BY <3>1 DEF TypeOK, Wanted, Kind, Target, Held
      <3>3. QED
        BY <3>1, <3>2 DEF TypeOK, LockInv, NextUser
    <2>3. CASE AssignLockBatch(q)
      <3>1. CASE Rollback(q, "rejected")
        BY <3>1, <1>3
      <3>2. CASE ~Rollback(q, "rejected")
        <4>1. UNCHANGED <<userLock, req>> /\ pc[q] = "lockBatch" /\ seen'[q] = row[req[q].batch]
              /\ pc'[q] = (IF {row[req[q].batch].trainer, req[q].to} = {None}
                             THEN "check" ELSE "lockUsers")
          BY <2>3, <3>2 DEF TypeOK, AssignLockBatch, GoTo
        <4>2. \A t \in Trainers : userLock'[t] # q
          BY <4>1 DEF LockInv
        <4>3. Kind(q)' = "assign"
          BY <4>1 DEF PcKind, Kind
        <4>4. pc'[q] = "check" => Wanted(q)' = {}
          BY <4>1, <4>3 DEF Wanted
        <4>5. QED
          BY <4>1, <4>2, <4>4
      <3>3. QED BY <3>1, <3>2
    <2>4. CASE AssignReplay(q) \/ AssignReject(q) \/ DeadlockAbort(q) \/ Crash(q)
      BY <1>3, <2>4 DEF AssignReplay, AssignReject, DeadlockAbort, Crash, Replay
    <2>5. CASE AssignCommit(q) \/ SessionCommit(q) \/ EditCommit(q) \/ PatchCommit(q)
      BY <1>2, <1>3, <2>5 DEF AssignCommit, SessionCommit, EditCommit, PatchCommit, Replay
    <2>6. CASE AssignAccept(q) \/ SessionCheck(q) \/ EditCheck(q)
      <3>1. CASE Rollback(q, "rejected")
        BY <3>1, <1>3
      <3>2. CASE ~Rollback(q, "rejected")
        <4>1. UNCHANGED <<userLock, req, seen>> /\ pc[q] = "check" /\ pc'[q] = "commit"
          BY <2>6, <3>2 DEF TypeOK, AssignAccept, SessionCheck, EditCheck, GoTo, locks
        <4>2. Wanted(q)' = Wanted(q) /\ Held(q)' = Held(q) /\ Kind(q)' = Kind(q)
          BY <4>1 DEF Wanted, Kind, Target, Held
        <4>3. QED
          BY <4>1, <4>2 DEF LockInv
      <3>3. QED BY <3>1, <3>2
    <2>7. CASE PatchCheck(q)
      <3>1. CASE Rollback(q, "rejected")
        BY <3>1, <1>3
      <3>2. CASE ~Rollback(q, "rejected")
        <4>1. /\ UNCHANGED <<userLock, req>> /\ pc[q] = "check" /\ pc'[q] = "commit"
              /\ seen' = [seen EXCEPT ![q] = [seen[q] EXCEPT !.extra = row[req[q].batch].extra]]
              /\ Kind(q) \in {"patch", "create"}
          BY <2>7, <3>2 DEF TypeOK, PatchCheck, GoTo, locks
        <4>2. seen'[q].trainer = seen[q].trainer
          BY <4>1 DEF TypeOK, BatchRow
        <4>3. Wanted(q)' = Wanted(q) /\ Kind(q)' = Kind(q)
          BY <4>1, <4>2 DEF Wanted, Kind, Target
        <4>4. QED
          BY <4>1, <4>3 DEF LockInv
      <3>3. QED BY <3>1, <3>2
    <2>8. CASE PatchFlush(q) \/ PatchReference(q)
      <3>1. UNCHANGED <<userLock, req, seen>> /\ pc'[q] \in {"reference", "lockUsers"}
            /\ pc[q] \in {"flush", "reference"}
        BY <2>8 DEF TypeOK, PatchFlush, PatchReference, GoTo
      <3>2. QED
        BY <3>1 DEF LockInv
    <2>9. QED
      BY <2>1, <2>2, <2>3, <2>4, <2>5, <2>6, <2>7, <2>8 DEF Step, Proceed
  <1>5. QED
    BY <1>1, <1>4 DEF LockInv
-----------------------------------------------------------------------------
(* The batch row under an assignment's row lock.                           *)

(* What is not sent and not changed in the session is written as it was. *)
LEMMA CleanPatch ==
  ASSUME TypeOK, NEW q \in Requests, Kind(q) \in {"patch", "create"}, ~Dirty(q)
  PROVE  Merged(q) = row[req[q].batch]
  <1>1. row[req[q].batch] \in BatchRow
    BY TargetType DEF TypeOK
  <1>2. QED
    BY <1>1 DEF Dirty, Merged, BatchRow

(* Only the holder of a batch's row lock changes its trainer or pattern. *)
LEMMA RowLocked ==
  ASSUME TypeOK, PcKind, RowInv, NEW q \in Requests, Step(q),
         NEW b \in Batches, batchLock[b] \in Requests \ {q}
  PROVE  row'[b].trainer = row[b].trainer /\ row'[b].pattern = row[b].pattern
  <1>0. row \in [Batches -> BatchRow] /\ None \notin Requests
    BY ConstantsAssumption DEF TypeOK
  <1>1. CASE ~Writes(q)
    BY <1>1, ReadOnly
  <1>2. CASE SessionCancel(q)
    <2>1. PICK w \in Batches, s \in Sessions : row' = [row EXCEPT ![w] = With(w, s, None)]
      BY <1>2, CancelWrites
    <2>2. QED
      BY <1>0, <2>1, WithRow
  <1>3. CASE AssignCommit(q)
    <2>1. CASE UNCHANGED row
      BY <2>1
    <2>2. CASE ~UNCHANGED row
      <3>1. row' = [row EXCEPT ![req[q].batch].trainer = req[q].to]
        BY <1>3, <2>2 DEF AssignCommit, Replay, Rollback, tables
      <3>2. batchLock[req[q].batch] = q
        BY <1>3 DEF AssignCommit, RowInv
      <3>3. QED
        BY <1>0, <3>1, <3>2 DEF BatchRow
    <2>3. QED BY <2>1, <2>2
  <1>4. CASE SessionCommit(q)
    <2>1. CASE UNCHANGED row
      BY <2>1
    <2>2. CASE ~UNCHANGED row
      BY <1>0, <1>4, <2>2, SessionWritten, WithRow
    <2>3. QED BY <2>1, <2>2
  <1>5. CASE PatchCommit(q)
    <2>1. row' = [row EXCEPT ![req[q].batch] = Merged(q)] /\ Kind(q) \in {"patch", "create"}
          /\ (Dirty(q) => RowFree(q, req[q].batch))
      BY <1>5 DEF PatchCommit
    <2>2. CASE Dirty(q)
      BY <1>0, <2>1, <2>2 DEF RowFree
    <2>3. CASE ~Dirty(q)
      BY <1>0, <2>1, <2>3, CleanPatch
    <2>4. QED BY <2>2, <2>3
  <1>6. QED
    BY <1>1, <1>2, <1>3, <1>4, <1>5 DEF Writes

LEMMA RowStep ==
  ASSUME TypeOK, PcKind, RowInv, NEW q \in Requests, Step(q)
  PROVE  RowInv'
  <1> SUFFICES ASSUME NEW r \in Requests, Kind(r)' = "assign",
                      pc'[r] \in {"lockUsers", "check", "commit"}
               PROVE  /\ batchLock'[req'[r].batch] = r
                      /\ row'[req'[r].batch].trainer = seen'[r].trainer
                      /\ row'[req'[r].batch].pattern = seen'[r].pattern
    BY DEF RowInv
  <1>1. CASE r # q
    <2>1. Kind(r) = "assign" /\ pc[r] \in {"lockUsers", "check", "commit"}
          /\ req'[r] = req[r] /\ seen'[r] = seen[r]
      BY <1>1, Frame DEF Kind
    <2>2. req[r].batch \in Batches
      BY <2>1, PcTypes
    <2>3. batchLock[req[r].batch] = r /\ row[req[r].batch].trainer = seen[r].trainer
          /\ row[req[r].batch].pattern = seen[r].pattern
      BY <2>1 DEF RowInv
    <2>4. batchLock'[req[r].batch] = r
      BY <1>1, <2>2, <2>3, Frame
    <2>5. QED
      BY <1>1, <2>1, <2>2, <2>3, <2>4, RowLocked
  <1>2. CASE r = q
    <2>1. ASSUME NEW a, Finish(q, a) PROVE FALSE
      BY <1>2, <2>1 DEF TypeOK, Finish
    <2>2. ASSUME NEW a, Rollback(q, a) PROVE FALSE
      BY <2>1, <2>2 DEF Rollback
    <2>3. CASE Receive(q)
      BY <1>2, <2>3, Received DEF Kind
    <2>4. CASE LockUser(q)
      BY <1>2, <2>4 DEF TypeOK, LockUser, GoTo, RowInv, Kind, tables
    <2>5. CASE AssignLockBatch(q)
      <3>1. req[q] \in AssignParams /\ req[q].batch \in Batches
        BY <2>5, PcTypes DEF AssignLockBatch
      <3>2. QED
        BY <1>2, <2>2, <2>5, <3>1 DEF TypeOK, AssignLockBatch, GoTo, tables
    <2>6. CASE AssignAccept(q)
      BY <1>2, <2>6 DEF TypeOK, AssignAccept, GoTo, RowInv, Kind, tables, locks
    <2>7. CASE AssignReplay(q) \/ AssignReject(q) \/ DeadlockAbort(q) \/ Crash(q)
      BY <2>2, <2>7 DEF AssignReplay, AssignReject, DeadlockAbort, Crash, Replay
    <2>8. CASE AssignCommit(q) \/ SessionCommit(q) \/ EditCommit(q) \/ PatchCommit(q)
      BY <2>1, <2>2, <2>8 DEF AssignCommit, SessionCommit, EditCommit, PatchCommit, Replay
    <2>9. CASE SessionCheck(q) \/ EditCheck(q) \/ PatchCheck(q)
      BY <1>2, <2>2, <2>9 DEF SessionCheck, EditCheck, PatchCheck, GoTo, Kind
    <2>10. CASE PatchFlush(q) \/ PatchReference(q)
      BY <1>2, <2>10 DEF PatchFlush, PatchReference, GoTo, Kind, PcKind
    <2>11. QED
      BY <2>3, <2>4, <2>5, <2>6, <2>7, <2>8, <2>9, <2>10 DEF Step, Proceed
  <1>3. QED BY <1>1, <1>2

-----------------------------------------------------------------------------
(* A locked trainer's calendar only shrinks.                               *)

LEMMA Shrink ==
  ASSUME TypeOK, PcKind, LockInv, NEW q \in Requests, Step(q), ~staleWrite',
         NEW T \in Trainers, userLock[T] \in Requests \ {q},
         NEW c \in Batches, row'[c].status = "confirmed", row'[c].trainer = T
  PROVE  /\ row[c].status = "confirmed" /\ row[c].trainer = T
         /\ row'[c].pattern \cup Taught(row'[c].extra) \subseteq row[c].pattern \cup Taught(row[c].extra)
  <1>0. row \in [Batches -> BatchRow] /\ row[c] \in BatchRow /\ T # None
    BY ConstantsAssumption DEF TypeOK
  <1>1. CASE ~Writes(q)
    BY <1>1, ReadOnly
  <1>2. CASE SessionCancel(q)
    <2>1. PICK w \in Batches, s \in Sessions : row' = [row EXCEPT ![w] = With(w, s, None)]
      BY <1>2, CancelWrites
    <2>2. QED
      BY <1>0, <2>1, WithRow
  <1>3. CASE AssignCommit(q)
    <2>1. CASE UNCHANGED row
      BY <2>1
    <2>2. CASE ~UNCHANGED row
      <3>1. row' = [row EXCEPT ![req[q].batch].trainer = req[q].to]
        BY <1>3, <2>2 DEF AssignCommit, Replay, Rollback, tables
      <3>2. req[q].to # T
        <4>1. Kind(q) = "assign" /\ Wanted(q) \subseteq Held(q)
          BY <1>3 DEF AssignCommit, LockInv
        <4>2. req[q].to \in Wanted(q) \/ req[q].to = None
          BY <4>1 DEF Wanted
        <4>3. QED
          BY <1>0, <4>1, <4>2 DEF Held
      <3>3. QED
        BY <1>0, <3>1, <3>2 DEF BatchRow
    <2>3. QED BY <2>1, <2>2
  <1>4. CASE SessionCommit(q)
    <2>1. CASE UNCHANGED row
      BY <2>1
    <2>2. CASE ~UNCHANGED row
      <3> DEFINE w == req[q].batch
      <3>1. /\ w \in Batches /\ req[q].session \in Sessions /\ req[q].add \in Slots
            /\ row' = [row EXCEPT ![w] = With(w, req[q].session, req[q].add)]
            /\ Confirmed(w) /\ row[w].trainer # None => row[w].trainer \in Held(q)
        BY <1>4, <2>2, SessionWritten
      <3>2. CASE c = w
        <4>1. row'[c].status = row[c].status /\ row'[c].trainer = row[c].trainer
          BY <1>0, <3>1, <3>2, WithRow
        <4>2. QED
          BY <1>0, <3>1, <3>2, <4>1 DEF Confirmed, Held
      <3>3. CASE c # w
        BY <1>0, <3>1, <3>3
      <3>4. QED BY <3>2, <3>3
    <2>3. QED BY <2>1, <2>2
  <1>5. CASE PatchCommit(q)
    <2>1. /\ row' = [row EXCEPT ![req[q].batch] = Merged(q)] /\ Kind(q) \in {"patch", "create"}
          /\ Dirty(q) /\ Merged(q).status = "confirmed" /\ Merged(q).trainer # None
               => Merged(q).trainer \in Held(q)
      BY <1>5 DEF PatchCommit
    <2>2. CASE c # req[q].batch
      BY <1>0, <2>1, <2>2
    <2>3. CASE c = req[q].batch /\ Dirty(q)
      <3>1. row'[c] = Merged(q)
        BY <1>0, <2>1, <2>3
      <3>2. QED
        BY <1>0, <2>1, <2>3, <3>1 DEF Held
    <2>4. CASE c = req[q].batch /\ ~Dirty(q)
      BY <1>0, <2>1, <2>4, CleanPatch
    <2>5. QED BY <2>2, <2>3, <2>4
  <1>6. QED
    BY <1>1, <1>2, <1>3, <1>4, <1>5 DEF Writes
-----------------------------------------------------------------------------
(* A check holds until the commit.                                         *)

LEMMA CheckedOther ==
  ASSUME TypeOK, PcKind, LockInv, CheckedInv, NEW q \in Requests, Step(q), ~staleWrite',
         NEW r \in Requests \ {q}, pc'[r] = "commit", Kind(r)' # "edit",
         Claimant(r)' \in Trainers, userLock'[Claimant(r)'] = r
  PROVE  ~Overlap(Claimant(r), req[r].batch, Claimed(r))'
  <1>1. pc[r] = "commit" /\ req'[r] = req[r] /\ seen'[r] = seen[r] /\ Kind(r)' = Kind(r)
    BY Frame DEF Kind
  <1>2. Target(r)' = Target(r)
    BY <1>1 DEF Target
  <1>3. Claimant(r)' = Claimant(r)
    BY <1>1, <1>2 DEF Claimant
  <1>4. Claimed(r)' = Claimed(r)
    BY <1>1, <1>2 DEF Claimed, Required
  <1>5. userLock[Claimant(r)] = r
    BY <1>3, Frame
  <1>6. ~staleWrite
    BY StaleForever
  <1>7. ~Overlap(Claimant(r), req[r].batch, Claimed(r))
    BY <1>1, <1>3, <1>5, <1>6 DEF CheckedInv
  <1> DEFINE T == Claimant(r)
             S == Claimed(r)
             b == req[r].batch
  <1>8. \A c \in Batches \ {b} : row[c].status = "confirmed" /\ row[c].trainer = T =>
          (row[c].pattern \cup Taught(row[c].extra)) \cap S = {}
    BY <1>7 DEF Overlap, Calendar, Confirmed, Booked
  <1>9. ASSUME NEW c \in Batches \ {b}, row'[c].status = "confirmed", row'[c].trainer = T
        PROVE  (row'[c].pattern \cup Taught(row'[c].extra)) \cap S = {}
    <2>1. T \in Trainers /\ userLock[T] \in Requests \ {q}
      BY <1>3, <1>5
    <2> HIDE DEF T, S, b
    <2>2. /\ row[c].status = "confirmed" /\ row[c].trainer = T
          /\ row'[c].pattern \cup Taught(row'[c].extra) \subseteq row[c].pattern \cup Taught(row[c].extra)
      BY <1>9, <2>1, Shrink
    <2>3. QED
      BY <1>8, <2>2
  <1>10. ~(\E c \in {x \in Batches \ {b} : row'[x].status = "confirmed" /\ row'[x].trainer = T} :
            (row'[c].pattern \cup Taught(row'[c].extra)) \cap S # {})
    BY <1>9
  <1>11. Overlap(Claimant(r), req[r].batch, Claimed(r))' =
         (\E c \in {x \in Batches \ {b} : row'[x].status = "confirmed" /\ row'[x].trainer = T} :
            (row'[c].pattern \cup Taught(row'[c].extra)) \cap S # {})
    BY <1>1, <1>3, <1>4 DEF Overlap, Calendar, Confirmed, Booked
  <1>12. QED
    BY <1>10, <1>11

(* The moment a request passes its check, or skips it. *)
LEMMA CheckedOwn ==
  ASSUME TypeOK, PcKind, LockInv, NEW q \in Requests, Step(q),
         pc'[q] = "commit", Kind(q)' # "edit",
         Claimant(q)' \in Trainers, userLock'[Claimant(q)'] = q
  PROVE  ~Overlap(Claimant(q), req[q].batch, Claimed(q))'
  <1> DEFINE Goal == ~Overlap(Claimant(q), req[q].batch, Claimed(q))'
  <1>0. None \notin Requests
    BY ConstantsAssumption
  <1>1. ASSUME NEW a, Finish(q, a) PROVE FALSE
    BY <1>1 DEF TypeOK, Finish
  <1>2. ASSUME NEW a, Rollback(q, a) PROVE FALSE
    BY <1>1, <1>2 DEF Rollback
  <1>3. CASE Receive(q)
    <2>1. \A t \in Trainers : userLock[t] # q
      BY <1>3 DEF Receive, LockInv
    <2>2. UNCHANGED userLock
      BY <1>3 DEF Receive, AssignReceive, SessionReceive, SessionCancel, EditReceive,
                  PatchReceive, locks
    <2>3. QED
      BY <2>1, <2>2
  <1>4. CASE AssignAccept(q)
    <2>1. req[q] \in AssignParams /\ req[q].to \in MaybeTrainer /\ Kind(q) = "assign"
      BY <1>4, PcTypes DEF AssignAccept, AssignParams
    <2>2. UNCHANGED <<req, seen, row>>
      BY <1>4 DEF AssignAccept, GoTo, tables
    <2>3. Claimant(q)' = req[q].to /\ Claimed(q)' = Required(req[q].batch, q)
      BY <2>1, <2>2 DEF Claimant, Claimed, Required, Kind
    <2>4. req[q].to # None
      BY <2>3, ConstantsAssumption
    <2>5. ~Overlap(req[q].to, req[q].batch, Required(req[q].batch, q))
      BY <1>4, <2>4 DEF AssignAccept, Assignable
    <2>6. QED
      BY <2>2, <2>3, <2>5 DEF Overlap, Calendar, Confirmed, Booked
  <1>5. CASE SessionCheck(q)
    <2>1. UNCHANGED <<req, seen, row>> /\ SlotFree(q) /\ Kind(q) \in {"session", "move"}
      BY <1>2, <1>5 DEF SessionCheck, GoTo, tables
    <2>2. Claimant(q)' = seen[q].trainer /\ Claimed(q)' = {req[q].add}
      BY <2>1 DEF Claimant, Claimed, Kind
    <2>3. ~Overlap(seen[q].trainer, req[q].batch, {req[q].add})
      BY <2>1 DEF SlotFree
    <2>4. QED
      BY <2>1, <2>2, <2>3 DEF Overlap, Calendar, Confirmed, Booked
  <1>6. CASE PatchCheck(q)
    <2>1. /\ UNCHANGED <<req, row>> /\ PatchAllowed(q) /\ Kind(q) \in {"patch", "create"}
          /\ seen' = [seen EXCEPT ![q] = [seen[q] EXCEPT !.extra = row[req[q].batch].extra]]
      BY <1>2, <1>6 DEF PatchCheck, GoTo, tables
    <2>2. /\ seen'[q].trainer = seen[q].trainer /\ seen'[q].pattern = seen[q].pattern
          /\ seen'[q].extra = row[req[q].batch].extra
      BY <2>1 DEF TypeOK, BatchRow
    <2>3. Target(q)'.trainer = Target(q).trainer /\ Target(q)'.pattern = Target(q).pattern
      BY <2>1, <2>2 DEF Target
    <2>4. Claimant(q)' = Target(q).trainer
      BY <2>1, <2>3 DEF Claimant, Kind
    <2>5. Claimed(q)' = (Target(q).pattern \cup Taught(row[req[q].batch].extra)) \cap Window[req[q].batch]
      BY <2>1, <2>2, <2>3 DEF Claimed, Kind
    <2>6. ~Overlap(Target(q).trainer, req[q].batch,
                   (Target(q).pattern \cup Taught(row[req[q].batch].extra)) \cap Window[req[q].batch])
      BY <2>1 DEF PatchAllowed
    <2>7. QED
      BY <2>1, <2>4, <2>5, <2>6 DEF Overlap, Calendar, Confirmed, Booked
  <1>7. CASE EditCheck(q)
    BY <1>2, <1>7 DEF EditCheck, GoTo, Kind
  <1>8. CASE LockUser(q) \/ PatchFlush(q) \/ PatchReference(q)
    BY <1>8 DEF TypeOK, LockUser, PatchFlush, PatchReference, GoTo
  <1>9. CASE AssignLockBatch(q)
    BY <1>2, <1>9 DEF TypeOK, AssignLockBatch, GoTo
  <1>10. CASE AssignReplay(q) \/ AssignReject(q) \/ DeadlockAbort(q) \/ Crash(q)
    BY <1>2, <1>10 DEF AssignReplay, AssignReject, DeadlockAbort, Crash, Replay
  <1>11. CASE AssignCommit(q) \/ SessionCommit(q) \/ EditCommit(q) \/ PatchCommit(q)
    BY <1>1, <1>2, <1>11 DEF AssignCommit, SessionCommit, EditCommit, PatchCommit, Replay
  <1>12. QED
    BY <1>3, <1>4, <1>5, <1>6, <1>7, <1>8, <1>9, <1>10, <1>11 DEF Step, Proceed

LEMMA CheckedStep ==
  ASSUME TypeOK, PcKind, LockInv, CheckedInv, NEW q \in Requests, Step(q)
  PROVE  CheckedInv'
  <1> SUFFICES ASSUME ~staleWrite', NEW r \in Requests, pc'[r] = "commit", Kind(r)' # "edit",
                      Claimant(r)' \in Trainers, userLock'[Claimant(r)'] = r
               PROVE  ~Overlap(Claimant(r), req[r].batch, Claimed(r))'
    BY DEF CheckedInv
  <1>1. CASE r # q
    BY <1>1, CheckedOther
  <1>2. CASE r = q
    BY <1>2, CheckedOwn
  <1>3. QED BY <1>1, <1>2
-----------------------------------------------------------------------------
(* Writing a row that meets no other batch of its trainer.                 *)

LEMMA WriteSafe ==
  ASSUME NEW w \in Batches, NEW n, row' = [row EXCEPT ![w] = n], row \in [Batches -> BatchRow],
         NoDoubleBooking,
         n.status = "confirmed" /\ n.trainer # None =>
           \A c \in Batches \ {w} : row[c].status = "confirmed" /\ row[c].trainer = n.trainer =>
             (n.pattern \cup Taught(n.extra)) \cap (row[c].pattern \cup Taught(row[c].extra))
               \cap (Window[w] \cap Window[c]) = {}
  PROVE  NoDoubleBooking'
  <1> SUFFICES ASSUME NEW b \in Batches, NEW c \in Batches,
                      Clash(row', b, c, Window[b] \cap Window[c])
               PROVE  FALSE
    BY DEF NoDoubleBooking
  <1>1. row'[w] = n /\ \A x \in Batches \ {w} : row'[x] = row[x]
    OBVIOUS
  <1>2. CASE b # w /\ c # w
    <2>1. Clash(row, b, c, Window[b] \cap Window[c])
      BY <1>1, <1>2 DEF Clash
    <2>2. QED BY <2>1 DEF NoDoubleBooking
  <1>3. CASE b = w
    BY <1>1, <1>3 DEF Clash
  <1>4. CASE c = w
    BY <1>1, <1>4 DEF Clash
  <1>5. QED BY <1>2, <1>3, <1>4

LEMMA DoubleBookingStep ==
  ASSUME IInv, NEW q \in Requests, Step(q)
  PROVE  DoubleBookingNeedsStaleWrite'
  <1> SUFFICES ASSUME ~staleWrite' PROVE NoDoubleBooking'
    BY DEF DoubleBookingNeedsStaleWrite
  <1>0. /\ TypeOK /\ PcKind /\ LockInv /\ RowInv /\ CheckedInv
        /\ row \in [Batches -> BatchRow] /\ ~staleWrite /\ NoDoubleBooking
        /\ None \notin Requests \cup Trainers
    BY StaleForever, ConstantsAssumption DEF IInv, TypeOK, DoubleBookingNeedsStaleWrite
  <1> DEFINE w == req[q].batch
  <1>1. CASE UNCHANGED row
    BY <1>0, <1>1 DEF NoDoubleBooking, Clash
  <1>2. CASE SessionCancel(q)
    <2>1. PICK x \in Batches, s \in Sessions : row' = [row EXCEPT ![x] = With(x, s, None)]
      BY <1>0, <1>2, CancelWrites
    <2>2. \A c \in Batches : /\ row'[c].status = row[c].status /\ row'[c].trainer = row[c].trainer
                             /\ row'[c].pattern = row[c].pattern
                             /\ Taught(row'[c].extra) \subseteq Taught(row[c].extra)
      BY <1>0, <2>1, WithRow
    <2>3. ASSUME NEW b \in Batches, NEW c \in Batches,
                 Clash(row', b, c, Window[b] \cap Window[c])
          PROVE  Clash(row, b, c, Window[b] \cap Window[c])
      BY <2>2, <2>3 DEF Clash
    <2>4. QED
      BY <1>0, <2>3 DEF NoDoubleBooking
  <1>3. CASE AssignCommit(q) /\ ~UNCHANGED row
    <2> DEFINE t == req[q].to
               n == [row[w] EXCEPT !.trainer = t]
    <2>1. /\ row' = [row EXCEPT ![w] = n] /\ pc[q] = "commit" /\ Kind(q) = "assign"
          /\ t # None /\ Confirmed(w) => row[w].extra = seen[q].extra
      BY <1>3 DEF AssignCommit, Replay, Rollback, tables
    <2>2. req[q] \in AssignParams /\ w \in Batches /\ t \in MaybeTrainer /\ row[w] \in BatchRow
      BY <1>0, <2>1, PcTypes DEF AssignParams
    <2>3. row[w].pattern = seen[q].pattern
      BY <1>0, <2>1 DEF RowInv
    <2>4. n.trainer = t /\ n.status = row[w].status /\ n.pattern = row[w].pattern
          /\ n.extra = row[w].extra
      BY <2>2 DEF BatchRow
    <2>5. ASSUME n.status = "confirmed", n.trainer # None,
                 NEW c \in Batches \ {w}, row[c].status = "confirmed", row[c].trainer = n.trainer
          PROVE  (n.pattern \cup Taught(n.extra)) \cap (row[c].pattern \cup Taught(row[c].extra))
                   \cap (Window[w] \cap Window[c]) = {}
      <3>1. t \in Trainers
        BY <2>2, <2>4, <2>5 DEF MaybeTrainer
      <3>2. userLock[t] = q
        <4>1. t \in Wanted(q)
          BY <1>0, <2>1, <3>1 DEF Wanted
        <4>2. QED
          BY <1>0, <2>1, <4>1 DEF LockInv, Held
      <3>3. ~Overlap(t, w, Required(w, q))
        BY <1>0, <2>1, <3>1, <3>2 DEF CheckedInv, Claimant, Claimed
      <3>4. (row[c].pattern \cup Taught(row[c].extra)) \cap Required(w, q) = {}
        BY <2>4, <2>5, <3>3 DEF Overlap, Calendar, Confirmed, Booked
      <3>5. (n.pattern \cup Taught(n.extra)) \cap Window[w] = Required(w, q)
        BY <2>1, <2>3, <2>4, <2>5 DEF Required, Confirmed
      <3>6. QED
        BY <3>4, <3>5
    <2>6. QED
      <3> HIDE DEF n, w
      <3>1. QED
        BY <1>0, <2>1, <2>2, <2>5, WriteSafe
  <1>4. CASE SessionCommit(q) /\ ~UNCHANGED row
    <2> DEFINE n == With(w, req[q].session, req[q].add)
    <2>1. /\ w \in Batches /\ req[q].session \in Sessions /\ req[q].add \in Slots
          /\ row' = [row EXCEPT ![w] = n] /\ pc[q] = "commit" /\ Kind(q) \in {"session", "move"}
          /\ Confirmed(w) /\ row[w].trainer # None => row[w].trainer \in Held(q)
      BY <1>0, <1>4, SessionWritten
    <2>2. w \in Batches /\ row[w] \in BatchRow
      BY <1>0, <2>1
    <2>3. n.trainer = row[w].trainer /\ n.status = row[w].status /\ n.pattern = row[w].pattern
          /\ Taught(n.extra) \subseteq Taught(row[w].extra) \cup {req[q].add}
      <3> DEFINE s == req[q].session
                 v == req[q].add
      <3>1. w \in Batches /\ s \in Sessions /\ v \in Slots \cup {None} /\ n = With(w, s, v)
        BY <2>1
      <3> HIDE DEF n, w, s, v
      <3>2. n.trainer = row[w].trainer /\ n.status = row[w].status /\ n.pattern = row[w].pattern
            /\ Taught(n.extra) \subseteq Taught(row[w].extra) \cup ({v} \ {None})
        BY <1>0, <3>1, WithRow
      <3>3. QED
        BY <3>2 DEF v
    <2>4. ASSUME n.status = "confirmed", n.trainer # None,
                 NEW c \in Batches \ {w}, row[c].status = "confirmed", row[c].trainer = n.trainer
          PROVE  (n.pattern \cup Taught(n.extra)) \cap (row[c].pattern \cup Taught(row[c].extra))
                   \cap (Window[w] \cap Window[c]) = {}
      <3> DEFINE t == row[w].trainer
      <3>1. userLock[t] = q /\ t \in Trainers
        BY <2>1, <2>3, <2>4 DEF Held, Confirmed
      <3>2. seen[q].trainer = t
        <4>1. t \in Wanted(q)
          BY <1>0, <3>1 DEF LockInv
        <4>2. QED
          BY <2>1, <4>1 DEF Wanted
      <3>3. ~Overlap(t, w, {req[q].add})
        BY <1>0, <2>1, <3>1, <3>2 DEF CheckedInv, Claimant, Claimed
      <3>4. req[q].add \notin row[c].pattern \cup Taught(row[c].extra)
        BY <2>3, <2>4, <3>3 DEF Overlap, Calendar, Confirmed, Booked
      <3>5. (row[w].pattern \cup Taught(row[w].extra)) \cap (row[c].pattern \cup Taught(row[c].extra))
              \cap (Window[w] \cap Window[c]) = {}
        BY <1>0, <2>2, <2>3, <2>4 DEF NoDoubleBooking, Clash
      <3>6. QED
        BY <2>3, <3>4, <3>5
    <2>5. QED
      <3> HIDE DEF n, w
      <3>1. QED
        BY <1>0, <2>1, <2>2, <2>4, WriteSafe
  <1>5. CASE PatchCommit(q) /\ ~UNCHANGED row
    <2> DEFINE n == Merged(q)
    <2>1. /\ row' = [row EXCEPT ![w] = n] /\ pc[q] = "commit" /\ Kind(q) \in {"patch", "create"}
          /\ Dirty(q) /\ n.status = "confirmed" /\ n.trainer # None =>
               n.trainer \in Held(q) /\ n.pattern = Target(q).pattern /\ n.extra = seen[q].extra
      BY <1>5 DEF PatchCommit
    <2>2. w \in Batches /\ row[w] \in BatchRow
      BY <1>0, <2>1, TargetType
    <2>3. Dirty(q)
      BY <1>0, <1>5, <2>1, <2>2, CleanPatch
    <2>4. ASSUME n.status = "confirmed", n.trainer # None,
                 NEW c \in Batches \ {w}, row[c].status = "confirmed", row[c].trainer = n.trainer
          PROVE  (n.pattern \cup Taught(n.extra)) \cap (row[c].pattern \cup Taught(row[c].extra))
                   \cap (Window[w] \cap Window[c]) = {}
      <3> DEFINE t == n.trainer
      <3>1. userLock[t] = q /\ t \in Trainers /\ n.pattern = Target(q).pattern /\ n.extra = seen[q].extra
        BY <2>1, <2>3, <2>4 DEF Held
      <3>2. Target(q).trainer = t
        <4>1. t \in Wanted(q)
          BY <1>0, <3>1 DEF LockInv
        <4>2. QED
          BY <2>1, <4>1 DEF Wanted
      <3>3. Claimant(q) = t /\ Claimed(q) = (n.pattern \cup Taught(n.extra)) \cap Window[w]
        BY <2>1, <3>1, <3>2 DEF Claimant, Claimed
      <3>4. ~Overlap(t, w, (n.pattern \cup Taught(n.extra)) \cap Window[w])
        BY <1>0, <2>1, <3>1, <3>3 DEF CheckedInv
      <3>5. (row[c].pattern \cup Taught(row[c].extra)) \cap ((n.pattern \cup Taught(n.extra)) \cap Window[w]) = {}
        BY <2>4, <3>4 DEF Overlap, Calendar, Confirmed, Booked
      <3>6. QED
        BY <3>5
    <2>5. QED
      <3> HIDE DEF n, w
      <3>1. QED
        BY <1>0, <2>1, <2>2, <2>4, WriteSafe
  <1>6. QED
    BY <1>0, <1>1, <1>2, <1>3, <1>4, <1>5, ReadOnly DEF Writes

LEMMA IInvStep ==
  ASSUME IInv, [Next]_vars
  PROVE  IInv'
  <1>1. CASE UNCHANGED vars
    <2>1. UNCHANGED <<row, pc, req, seen, userLock, batchLock, staleWrite>>
      BY <1>1 DEF vars, tables, locks, local
    <2>2. TypeOK' /\ PcKind'
      BY <1>1, TypeStep, PcKindStep DEF IInv
    <2>3. /\ \A r : Kind(r)' = Kind(r)
          /\ \A r : Target(r)' = Target(r)
          /\ \A r : Held(r)' = Held(r)
      BY <2>1 DEF Kind, Target, Held
    <2>4. \A r : Wanted(r)' = Wanted(r)
      BY <2>1, <2>3 DEF Wanted
    <2>5. LockInv' /\ RowInv'
      BY <2>1, <2>3, <2>4 DEF IInv, LockInv, RowInv
    <2>6. /\ \A r : Claimant(r)' = Claimant(r)
          /\ \A r : Claimed(r)' = Claimed(r)
          /\ \A t, b, S : Overlap(t, b, S)' = Overlap(t, b, S)
      BY <2>1, <2>3 DEF Claimant, Claimed, Required, Overlap, Calendar, Confirmed, Booked
    <2>7. CheckedInv'
      BY <2>1, <2>3, <2>6 DEF IInv, CheckedInv
    <2>8. DoubleBookingNeedsStaleWrite'
      BY <2>1 DEF IInv, DoubleBookingNeedsStaleWrite, NoDoubleBooking, Clash
    <2>9. QED
      BY <2>2, <2>5, <2>7, <2>8 DEF IInv
  <1>2. ASSUME NEW q \in Requests, Step(q) PROVE IInv'
    BY <1>2, TypeStep, PcKindStep, LockStep, RowStep, CheckedStep, DoubleBookingStep
       DEF IInv, Next, Step
  <1>3. QED
    BY <1>1, <1>2 DEF Next, Rest, Step

LEMMA IInvInit == Init => IInv
  <1> SUFFICES ASSUME Init PROVE IInv
    OBVIOUS
  <1>1. None \notin Requests
    BY ConstantsAssumption
  <1>2. TypeOK /\ PcKind
    BY InitTypes
  <1>3. LockInv /\ RowInv /\ CheckedInv
    BY <1>1 DEF Init, LockInv, RowInv, CheckedInv
  <1>4. NoDoubleBooking
    BY DatabasesAssumption, ConstantsAssumption DEF Init, NoDoubleBooking, Clash
  <1>5. QED
    BY <1>2, <1>3, <1>4 DEF IInv, DoubleBookingNeedsStaleWrite

(* Whatever requests run together, in whatever order, with crashes and     *)
(* aborted deadlocks: a trainer is double-booked only after some request   *)
(* committed a batch that was not as it had loaded and checked it.         *)
THEOREM DoubleBookingSafe == Spec => []DoubleBookingNeedsStaleWrite
  <1>1. IInv => DoubleBookingNeedsStaleWrite
    BY DEF IInv
  <1>2. QED
    BY IInvInit, IInvStep, <1>1, PTL DEF Spec
-----------------------------------------------------------------------------
(* The scheduling page and the availability page alone.                    *)

Quiet ==
  /\ ~staleWrite
  /\ \A r \in Requests :
       /\ Kind(r) \in {"none", "assign", "edit"}
       /\ Kind(r) = "assign" /\ pc[r] \in {"lockUsers", "check", "commit"} =>
            row[req[r].batch].extra = seen[r].extra

LEMMA QuietStep ==
  ASSUME Kinds \subseteq {"assign", "edit"}, IInv, Quiet, NEW q \in Requests, Step(q)
  PROVE  Quiet'
  <1>0. TypeOK /\ PcKind /\ row \in [Batches -> BatchRow] /\ Kind(q) \in {"none", "assign", "edit"}
    BY DEF IInv, TypeOK, Quiet
  <1>1. Receive(q) => AssignReceive(q) \/ EditReceive(q)
    BY DEF Receive
  <1>2. Kind(q)' \in {"none", "assign", "edit"}
    <2>1. CASE Receive(q)
      BY <1>0, <1>1, <2>1 DEF TypeOK, Kind, AssignReceive, EditReceive, AssignParams, EditParams
    <2>2. CASE ~Receive(q)
      <3>1. req' = req
        BY <2>2 DEF Step, Proceed, Crash, Rollback, Finish, GoTo, Replay, LockUser, AssignLockBatch,
             AssignReplay, AssignReject, AssignAccept, AssignCommit, SessionCheck, SessionCommit,
             EditCheck, EditCommit, PatchFlush, PatchReference, PatchCheck, PatchCommit, DeadlockAbort
      <3>2. QED
        BY <1>0, <3>1 DEF Kind
    <2>3. QED BY <2>1, <2>2
  <1>3. ~SessionCancel(q) /\ ~SessionCommit(q) /\ ~PatchCommit(q)
    <2>1. SessionCancel(q) => Kind(q)' = "cancel"
      BY <1>0 DEF TypeOK, SessionCancel, CancelParams, Kind
    <2>2. QED
      BY <1>0, <1>2, <2>1 DEF SessionCommit, PatchCommit
  <1>4. \A b \in Batches : row'[b].extra = row[b].extra /\ row'[b].extra \in Extras
    <2>1. CASE UNCHANGED row
      BY <1>0, <2>1 DEF BatchRow
    <2>2. CASE ~UNCHANGED row
      <3>1. AssignCommit(q)
        BY <1>0, <1>3, <2>2, ReadOnly DEF Writes
      <3>2. row' = [row EXCEPT ![req[q].batch].trainer = req[q].to]
        BY <2>2, <3>1 DEF AssignCommit, Replay, Rollback, tables
      <3>3. QED
        BY <1>0, <3>2 DEF BatchRow
    <2>3. QED BY <2>1, <2>2
  <1>5. ~staleWrite'
    <2>1. CASE AssignCommit(q)
      BY <1>0, <2>1 DEF Quiet, AssignCommit, Replay, Rollback
    <2>2. CASE ~AssignCommit(q)
      BY <1>0, <1>3, <2>2, ReadOnly DEF Quiet, Writes
    <2>3. QED BY <2>1, <2>2
  <1>6. ASSUME NEW r \in Requests \ {q}
        PROVE  /\ Kind(r)' \in {"none", "assign", "edit"}
               /\ Kind(r)' = "assign" /\ pc'[r] \in {"lockUsers", "check", "commit"} =>
                    row'[req'[r].batch].extra = seen'[r].extra
    <2>1. Kind(r)' = Kind(r) /\ req'[r] = req[r] /\ seen'[r] = seen[r] /\ pc'[r] = pc[r]
      BY <1>0, Frame DEF Kind
    <2>2. Kind(r) = "assign" => req[r].batch \in Batches
      BY <1>0, PcTypes
    <2>3. QED
      BY <1>4, <2>1, <2>2 DEF Quiet
  <1>7. ASSUME Kind(q)' = "assign", pc'[q] \in {"lockUsers", "check", "commit"}
        PROVE  row'[req'[q].batch].extra = seen'[q].extra
    <2>1. ASSUME NEW a, Finish(q, a) PROVE FALSE
      BY <1>0, <1>7, <2>1 DEF TypeOK, Finish
    <2>2. ASSUME NEW a, Rollback(q, a) PROVE FALSE
      BY <2>1, <2>2 DEF Rollback
    <2>3. CASE Receive(q)
      BY <1>0, <1>1, <1>7, <2>3 DEF TypeOK, Kind, AssignReceive, EditReceive, EditParams
    <2>4. CASE LockUser(q) \/ AssignAccept(q)
      <3>1. UNCHANGED <<req, seen, row>> /\ pc[q] \in {"lockUsers", "check"} /\ Kind(q) = "assign"
        BY <1>0, <1>7, <2>4 DEF LockUser, AssignAccept, GoTo, tables, Kind
      <3>2. QED
        BY <3>1 DEF Quiet
    <2>5. CASE AssignLockBatch(q)
      <3>1. req'[q] = req[q] /\ seen'[q] = row[req[q].batch] /\ req[q].batch \in Batches
        BY <1>0, <2>2, <2>5, PcTypes DEF TypeOK, AssignLockBatch, GoTo
      <3>2. QED
        BY <1>4, <3>1
    <2>6. CASE AssignReplay(q) \/ AssignReject(q) \/ DeadlockAbort(q) \/ Crash(q)
      BY <2>2, <2>6 DEF AssignReplay, AssignReject, DeadlockAbort, Crash, Replay
    <2>7. CASE AssignCommit(q) \/ SessionCommit(q) \/ EditCommit(q) \/ PatchCommit(q)
      BY <2>1, <2>2, <2>7 DEF AssignCommit, SessionCommit, EditCommit, PatchCommit, Replay
    <2>8. CASE SessionCheck(q) \/ EditCheck(q) \/ PatchCheck(q)
      BY <1>7, <2>2, <2>8 DEF SessionCheck, EditCheck, PatchCheck, GoTo, Kind
    <2>9. CASE PatchFlush(q) \/ PatchReference(q)
      BY <1>0, <1>7, <2>9 DEF PatchFlush, PatchReference, GoTo, Kind, PcKind
    <2>10. QED
      BY <2>3, <2>4, <2>5, <2>6, <2>7, <2>8, <2>9 DEF Step, Proceed
  <1>8. QED
    BY <1>5, <1>2, <1>6, <1>7 DEF Quiet

(* Assignments from the scheduling page and availability edits alone never *)
(* double-book a trainer for classes inside the dates of both batches (a   *)
(* session dated after its batch's end is not among the required classes). *)
(* In this workflow no request writes a batch that it has not checked.     *)
THEOREM WorkflowNeverDoubleBooks ==
  ASSUME Kinds \subseteq {"assign", "edit"}
  PROVE  Spec => []NoDoubleBooking
  <1>1. Init => IInv /\ Quiet
    <2> SUFFICES ASSUME Init PROVE Quiet
      BY IInvInit
    <2>1. QED
      BY DEF Init, Quiet, Kind
  <1>2. IInv /\ Quiet /\ [Next]_vars => (IInv /\ Quiet)'
    <2> SUFFICES ASSUME IInv, Quiet, [Next]_vars PROVE Quiet'
      BY IInvStep
    <2>1. CASE UNCHANGED vars
      BY <2>1 DEF Quiet, Kind, vars, tables, local
    <2>2. QED
      BY <2>1, QuietStep DEF Next, Rest, Step
  <1>3. IInv /\ Quiet => NoDoubleBooking
    BY DEF IInv, Quiet, DoubleBookingNeedsStaleWrite
  <1>4. QED
    BY <1>1, <1>2, <1>3, PTL DEF Spec

-----------------------------------------------------------------------------
(* The assignment history only grows, by rows whose key is new.            *)

(* The row an assignment or a changed batch adds. *)
NewEntry(q) ==
  IF Kind(q) = "assign"
    THEN [from |-> seen[q].trainer, to |-> req[q].to, key |-> req[q].key, override |-> override[q]]
    ELSE [from |-> seen[q].trainer, to |-> Target(q).trainer, key |-> None, override |-> FALSE]

LEMMA HistoryWrites ==
  ASSUME TypeOK, PcKind, NEW q \in Requests, Step(q), ~UNCHANGED history
  PROVE  /\ AssignCommit(q) \/ PatchCommit(q)
         /\ req[q].batch \in Batches /\ NewEntry(q) \in HistoryRow
         /\ history' = [history EXCEPT ![req[q].batch] = Append(history[req[q].batch], NewEntry(q))]
         /\ Kind(q) = "assign" => ~KeyUsed(req[q].key) /\ req[q].key \in Keys
         /\ Kind(q) # "assign" => NewEntry(q).key = None
  <1>1. AssignCommit(q) \/ PatchCommit(q)
    BY DEF Step, Receive, Proceed, Crash, Rollback, Replay, GoTo, tables, AssignReceive,
         SessionReceive, EditReceive, PatchReceive, LockUser, AssignLockBatch, AssignReplay,
         AssignReject, AssignAccept, SessionCheck, EditCheck, EditCommit, PatchFlush,
         PatchReference, PatchCheck, DeadlockAbort, SessionCancel, SessionCommit
  <1>2. CASE AssignCommit(q)
    <2>1. req[q] \in AssignParams /\ req[q].batch \in Batches /\ Kind(q) = "assign"
          /\ seen[q] \in BatchRow /\ override[q] \in BOOLEAN
      BY <1>2, PcTypes DEF AssignCommit, TypeOK
    <2>2. ~KeyUsed(req[q].key)
          /\ history' = [history EXCEPT ![req[q].batch] = Append(history[req[q].batch], NewEntry(q))]
      BY <1>2, <2>1 DEF AssignCommit, Replay, Rollback, tables, NewEntry
    <2>3. NewEntry(q) \in HistoryRow
      BY <2>1 DEF NewEntry, AssignParams, BatchRow, HistoryRow
    <2>4. QED
      BY <1>2, <2>1, <2>2, <2>3 DEF AssignParams
  <1>3. CASE PatchCommit(q)
    <2>1. Kind(q) \in {"patch", "create"} /\ seen[q] \in BatchRow
          /\ Target(q) \in BatchRow /\ req[q].batch \in Batches
      BY <1>3, TargetType DEF PatchCommit, TypeOK
    <2>2. history' = [history EXCEPT ![req[q].batch] = Append(history[req[q].batch], NewEntry(q))]
      BY <1>3, <2>1 DEF PatchCommit, NewEntry
    <2>3. NewEntry(q) \in HistoryRow /\ NewEntry(q).key = None
      BY <2>1 DEF NewEntry, BatchRow, HistoryRow
    <2>4. QED
      BY <1>3, <2>1, <2>2, <2>3
  <1>4. QED
    BY <1>1, <1>2, <1>3

(* One more row at the end of one batch's history. *)
LEMMA Appended ==
  ASSUME NEW h \in [Batches -> Seq(HistoryRow)], NEW w \in Batches, NEW e \in HistoryRow,
         NEW b \in Batches
  PROVE  LET g == [h EXCEPT ![w] = Append(h[w], e)] IN
         /\ b # w => g[b] = h[b]
         /\ b = w => /\ Len(g[b]) = Len(h[b]) + 1 /\ g[b][Len(h[b]) + 1] = e
                     /\ \A i \in DOMAIN h[b] : g[b][i] = h[b][i]
         /\ DOMAIN h[b] = 1 .. Len(h[b]) /\ DOMAIN g[b] = 1 .. Len(g[b])
         /\ Len(h[b]) \in Nat
  <1> DEFINE g == [h EXCEPT ![w] = Append(h[w], e)]
  <1>1. h[w] \in Seq(HistoryRow) /\ h[b] \in Seq(HistoryRow) /\ Append(h[w], e) \in Seq(HistoryRow)
    BY SMT
  <1>2. g[w] = Append(h[w], e) /\ (b # w => g[b] = h[b])
    BY SMT
  <1>3. /\ Len(Append(h[w], e)) = Len(h[w]) + 1 /\ Append(h[w], e)[Len(h[w]) + 1] = e
        /\ \A i \in 1 .. Len(h[w]) : Append(h[w], e)[i] = h[w][i]
        /\ DOMAIN h[w] = 1 .. Len(h[w]) /\ DOMAIN Append(h[w], e) = 1 .. Len(Append(h[w], e))
        /\ DOMAIN h[b] = 1 .. Len(h[b]) /\ Len(h[b]) \in Nat
    BY <1>1, SMT
  <1> HIDE DEF g
  <1>4. QED
    BY <1>2, <1>3 DEF g

LEMMA KeyOfStays ==
  ASSUME TypeOK, PcKind, NEW q \in Requests, Step(q),
         NEW k, NEW b \in Batches, NEW t, KeyOf(k, b, t)
  PROVE  \E i \in DOMAIN history'[b] : history'[b][i].key = k /\ history'[b][i].to = t
  <1>1. CASE UNCHANGED history
    BY <1>1 DEF KeyOf
  <1>2. CASE ~UNCHANGED history
    <2> DEFINE e == NewEntry(q)
               w == req[q].batch
    <2>1. w \in Batches /\ e \in HistoryRow /\ history \in [Batches -> Seq(HistoryRow)]
          /\ history' = [history EXCEPT ![w] = Append(history[w], e)]
      BY <1>2, HistoryWrites DEF TypeOK
    <2> HIDE DEF e, w
    <2>2. \A i \in DOMAIN history[b] : i \in DOMAIN history'[b] /\ history'[b][i] = history[b][i]
      BY <2>1, Appended
    <2>3. QED
      BY <2>2 DEF KeyOf
  <1>3. QED BY <1>1, <1>2

(* A request has no answer before its end. *)
OneAnswer == \A r \in Requests : pc[r] # "done" => reply[r] = "none"

(* The answer of a step's own request, and everybody else's. *)
LEMMA Answers ==
  ASSUME TypeOK, PcKind, OneAnswer, NEW q \in Requests, Step(q)
  PROVE  /\ \A r \in Requests \ {q} : reply'[r] = reply[r]
         /\ pc'[q] # "done" => reply'[q] = "none"
         /\ Kind(q)' = "assign" /\ reply'[q] \in {"ok", "replayed"} =>
              \/ KeyOf(req'[q].key, req'[q].batch, req'[q].to) /\ req'[q].batch \in Batches
              \/ AssignCommit(q) /\ ~KeyUsed(req[q].key) /\ req'[q] = req[q]
  <1>0. pc[q] # "done" => reply[q] = "none"
    BY DEF OneAnswer
  <1> DEFINE Goal ==
         /\ \A r \in Requests \ {q} : reply'[r] = reply[r]
         /\ pc'[q] # "done" => reply'[q] = "none"
         /\ Kind(q)' = "assign" /\ reply'[q] \in {"ok", "replayed"} =>
              \/ KeyOf(req'[q].key, req'[q].batch, req'[q].to) /\ req'[q].batch \in Batches
              \/ AssignCommit(q) /\ ~KeyUsed(req[q].key) /\ req'[q] = req[q]
  <1>1. ASSUME NEW a \in {"rejected", "aborted"}, Finish(q, a) PROVE Goal
    BY <1>1 DEF TypeOK, Finish
  <1>2. ASSUME NEW a \in {"rejected", "aborted"}, Rollback(q, a) PROVE Goal
    BY <1>1, <1>2 DEF Rollback
  <1>3. ASSUME Finish(q, "ok"), Kind(q) # "assign" PROVE Goal
    BY <1>3 DEF TypeOK, Finish, Kind
  <1>4. ASSUME Replay(q), Kind(q) = "assign" PROVE Goal
    <2>1. req'[q] = req[q] /\ req[q].batch \in Batches
      BY <1>4, PcTypes DEF Replay, Rollback, Finish
    <2>2. CASE KeyOf(req[q].key, req[q].batch, req[q].to)
      BY <1>4, <2>1, <2>2 DEF TypeOK, Replay, Rollback, Finish
    <2>3. CASE ~KeyOf(req[q].key, req[q].batch, req[q].to)
      BY <1>4, <1>2, <2>3 DEF Replay
    <2>4. QED BY <2>2, <2>3
  <1>5. CASE Receive(q)
    <2>0. pc[q] = "idle" /\ reply[q] = "none"
      BY <1>0, <1>5 DEF Receive
    <2>1. CASE AssignReceive(q)
      <3>1. PICK p \in AssignParams :
              /\ req' = [req EXCEPT ![q] = p]
              /\ IF KeyUsed(p.key)
                   THEN /\ pc' = [pc EXCEPT ![q] = "done"]
                        /\ reply' = [reply EXCEPT ![q] =
                             IF KeyOf(p.key, p.batch, p.to) THEN "replayed" ELSE "rejected"]
                   ELSE pc' = [pc EXCEPT ![q] = "lockBatch"] /\ UNCHANGED reply
        BY <2>1 DEF AssignReceive
      <3>2. req'[q] = p /\ p.batch \in Batches
        BY <3>1 DEF TypeOK, AssignParams
      <3>3. CASE KeyUsed(p.key) /\ KeyOf(p.key, p.batch, p.to)
        BY <3>1, <3>2, <3>3 DEF TypeOK
      <3>4. CASE KeyUsed(p.key) /\ ~KeyOf(p.key, p.batch, p.to)
        BY <3>1, <3>4 DEF TypeOK
      <3>5. CASE ~KeyUsed(p.key)
        BY <2>0, <3>1, <3>5
      <3>6. QED BY <3>3, <3>4, <3>5
    <2>2. CASE SessionCancel(q)
      BY <2>2 DEF TypeOK, Kind, SessionCancel, CancelParams
    <2>3. CASE SessionReceive(q) \/ EditReceive(q) \/ PatchReceive(q)
      BY <2>0, <2>3 DEF SessionReceive, EditReceive, PatchReceive
    <2>4. QED
      BY <1>5, <2>1, <2>2, <2>3 DEF Receive
  <1>6. CASE AssignCommit(q)
    <2>1. CASE KeyUsed(req[q].key)
      BY <1>4, <1>6, <2>1 DEF AssignCommit
    <2>2. CASE ~KeyUsed(req[q].key)
      BY <1>6, <2>2 DEF TypeOK, AssignCommit, Finish
    <2>3. QED BY <2>1, <2>2
  <1>7. CASE AssignReplay(q)
    BY <1>4, <1>7 DEF AssignReplay
  <1>8. CASE AssignReject(q) \/ DeadlockAbort(q) \/ Crash(q)
    BY <1>2, <1>8 DEF AssignReject, DeadlockAbort, Crash
  <1>9. CASE SessionCommit(q) \/ EditCommit(q) \/ PatchCommit(q)
    BY <1>2, <1>3, <1>9 DEF SessionCommit, EditCommit, PatchCommit
  <1>10. ASSUME UNCHANGED reply, pc[q] # "done" PROVE Goal
    BY <1>0, <1>10
  <1>11. CASE LockUser(q) \/ PatchFlush(q) \/ PatchReference(q) \/ AssignAccept(q)
    BY <1>10, <1>11 DEF LockUser, PatchFlush, PatchReference, AssignAccept, GoTo
  <1>12. CASE SessionCheck(q) \/ EditCheck(q) \/ PatchCheck(q) \/ AssignLockBatch(q)
    BY <1>2, <1>10, <1>12 DEF SessionCheck, EditCheck, PatchCheck, AssignLockBatch, GoTo
  <1>13. QED
    BY <1>5, <1>6, <1>7, <1>8, <1>9, <1>11, <1>12 DEF Step, Proceed

(* One history row per key. *)
OneRowPerKey ==
  \A b, c \in Batches : \A i \in DOMAIN history[b], j \in DOMAIN history[c] :
    history[b][i].key = history[c][j].key /\ history[b][i].key # None => b = c /\ i = j

LEMMA OneRowPerKeyStep ==
  ASSUME TypeOK, PcKind, OneRowPerKey, NEW q \in Requests, Step(q)
  PROVE  OneRowPerKey'
  <1>1. CASE UNCHANGED history
    BY <1>1 DEF OneRowPerKey
  <1>2. CASE ~UNCHANGED history
    <2> DEFINE e == NewEntry(q)
               w == req[q].batch
    <2>1. w \in Batches /\ e \in HistoryRow /\ history \in [Batches -> Seq(HistoryRow)]
          /\ history' = [history EXCEPT ![w] = Append(history[w], e)]
      BY <1>2, HistoryWrites DEF TypeOK
    <2>2. e.key # None => ~KeyUsed(e.key)
      BY <1>2, HistoryWrites DEF NewEntry
    <2> HIDE DEF e, w
    <2>3. \A b \in Batches :
            /\ b # w => history'[b] = history[b]
            /\ b = w => /\ Len(history'[b]) = Len(history[b]) + 1
                        /\ history'[b][Len(history[b]) + 1] = e
                        /\ \A i \in DOMAIN history[b] : history'[b][i] = history[b][i]
            /\ DOMAIN history[b] = 1 .. Len(history[b]) /\ DOMAIN history'[b] = 1 .. Len(history'[b])
            /\ Len(history[b]) \in Nat
      BY <2>1, Appended
    <2>4. \A b \in Batches : \A i : i \in DOMAIN history'[b] =>
            \/ i \in DOMAIN history[b] /\ history'[b][i] = history[b][i]
            \/ b = w /\ i = Len(history[w]) + 1 /\ history'[b][i] = e
      BY <2>3
    <2>5. \A b \in Batches : \A i \in DOMAIN history[b] :
            history[b][i].key = e.key => e.key = None
      BY <2>2 DEF KeyUsed
    <2> SUFFICES ASSUME NEW b \in Batches, NEW c \in Batches,
                        NEW i \in DOMAIN history'[b], NEW j \in DOMAIN history'[c],
                        history'[b][i].key = history'[c][j].key, history'[b][i].key # None
                 PROVE  b = c /\ i = j
      BY DEF OneRowPerKey
    <2>6. QED
      BY <2>4, <2>5 DEF OneRowPerKey
  <1>3. QED BY <1>1, <1>2

Answered ==
  \A r \in Requests : Kind(r) = "assign" /\ reply[r] \in {"ok", "replayed"} =>
    req[r].batch \in Batches /\ KeyOf(req[r].key, req[r].batch, req[r].to)

LEMMA AnsweredStep ==
  ASSUME TypeOK, PcKind, OneAnswer, Answered, NEW q \in Requests, Step(q)
  PROVE  OneAnswer' /\ Answered'
  <1>1. OneAnswer'
    BY Answers, Frame DEF OneAnswer
  <1>2. ASSUME NEW r \in Requests, Kind(r)' = "assign", reply'[r] \in {"ok", "replayed"}
        PROVE  req'[r].batch \in Batches /\ KeyOf(req[r].key, req[r].batch, req[r].to)'
    <2>1. CASE r # q
      <3>1. req'[r] = req[r] /\ reply'[r] = reply[r] /\ Kind(r) = "assign"
        BY <1>2, <2>1, Answers, Frame DEF Kind
      <3>2. req[r].batch \in Batches /\ KeyOf(req[r].key, req[r].batch, req[r].to)
        BY <1>2, <3>1 DEF Answered
      <3>3. QED
        BY <3>1, <3>2, KeyOfStays DEF KeyOf
    <2>2. CASE r = q
      <3>1. \/ KeyOf(req'[q].key, req'[q].batch, req'[q].to) /\ req'[q].batch \in Batches
            \/ AssignCommit(q) /\ ~KeyUsed(req[q].key) /\ req'[q] = req[q]
        BY <1>2, <2>2, Answers
      <3>2. CASE KeyOf(req'[q].key, req'[q].batch, req'[q].to) /\ req'[q].batch \in Batches
        <4>1. r = q /\ req'[q].batch \in Batches /\ KeyOf(req'[q].key, req'[q].batch, req'[q].to)
          BY <2>2, <3>2
        <4>2. \E i \in DOMAIN history'[req'[q].batch] :
                /\ history'[req'[q].batch][i].key = req'[q].key
                /\ history'[req'[q].batch][i].to = req'[q].to
          BY <4>1, KeyOfStays
        <4>3. QED
          BY <4>1, <4>2 DEF KeyOf
      <3>3. CASE AssignCommit(q) /\ ~KeyUsed(req[q].key) /\ req'[q] = req[q]
        <4> DEFINE e == NewEntry(q)
                   w == req[q].batch
        <4>1. w \in Batches /\ e.key = req[q].key /\ e.to = req[q].to
              /\ history' = [history EXCEPT ![w] = Append(history[w], e)]
          BY <3>3, PcTypes DEF AssignCommit, NewEntry
        <4>2. e \in HistoryRow /\ history \in [Batches -> Seq(HistoryRow)]
          <5>1. req[q] \in AssignParams /\ seen[q] \in BatchRow /\ override[q] \in BOOLEAN
                /\ Kind(q) = "assign"
            BY <3>3, PcTypes DEF AssignCommit, TypeOK
          <5>2. QED
            BY <5>1 DEF NewEntry, AssignParams, BatchRow, HistoryRow, TypeOK
        <4> HIDE DEF e, w
        <4>3. Len(history[w]) + 1 \in DOMAIN history'[w] /\ history'[w][Len(history[w]) + 1] = e
          BY <4>1, <4>2, Appended
        <4>4. QED
          BY <2>2, <3>3, <4>1, <4>3 DEF KeyOf, w
      <3>4. QED BY <3>1, <3>2, <3>3
    <2>3. QED BY <2>1, <2>2
  <1>3. QED
    BY <1>1, <1>2 DEF Answered

LEMMA QuietAnswers ==
  ASSUME OneAnswer, OneRowPerKey, Answered, UNCHANGED vars
  PROVE  (OneAnswer /\ OneRowPerKey /\ Answered)'
  BY DEF OneAnswer, OneRowPerKey, Answered, KeyOf, Kind, vars, tables, local

(* "idempotency_key makes a retried confirm request return the original    *)
(* result": one history row per key, and an assignment answered with       *)
(* success has its row, whatever kinds of requests run together, with      *)
(* crashes, aborted deadlocks and retries.                                 *)
THEOREM RetriesSafe == Spec => []RetriesAreIdempotent
  <1> DEFINE I == TypeOK /\ PcKind /\ OneAnswer /\ OneRowPerKey /\ Answered
  <1>1. Init => I
    <2> SUFFICES ASSUME Init PROVE OneAnswer /\ OneRowPerKey /\ Answered
      BY InitTypes
    <2>1. QED
      BY DEF Init, OneAnswer, OneRowPerKey, Answered
  <1>2. I /\ [Next]_vars => I'
    <2> SUFFICES ASSUME I, [Next]_vars PROVE (OneAnswer /\ OneRowPerKey /\ Answered)'
      BY TypeStep, PcKindStep
    <2>1. CASE UNCHANGED vars
      BY <2>1, QuietAnswers
    <2>2. ASSUME NEW q \in Requests, Step(q) PROVE (OneAnswer /\ OneRowPerKey /\ Answered)'
      BY <2>2, OneRowPerKeyStep, AnsweredStep
    <2>3. QED
      BY <2>1, <2>2 DEF Next, Rest, Step
  <1>3. I => RetriesAreIdempotent
    BY DEF OneRowPerKey, Answered, RetriesAreIdempotent
  <1>4. QED
    BY <1>1, <1>2, <1>3, PTL DEF Spec
-----------------------------------------------------------------------------
(* Without the batch editor, the history ends at the current trainer.      *)

(* An open assignment's snapshot names the current trainer (RowInv), and   *)
(* nobody but an assignment changes the trainer of a batch.                *)
NoBatchEditor == \A r \in Requests : Kind(r) \notin {"patch", "create"}

LEMMA NoBatchEditorStep ==
  ASSUME "patch" \notin Kinds, TypeOK, NoBatchEditor, NEW q \in Requests, Step(q)
  PROVE  NoBatchEditor'
  <1>1. \A r \in Requests \ {q} : Kind(r)' = Kind(r)
    BY Frame DEF Kind
  <1>2. Kind(q)' \notin {"patch", "create"}
    <2>1. CASE Receive(q)
      BY <2>1 DEF TypeOK, Kind, Receive, AssignReceive, SessionReceive, SessionCancel, EditReceive,
           AssignParams, SessionParams, CancelParams, EditParams
    <2>2. CASE ~Receive(q)
      <3>1. req' = req
        BY <2>2 DEF Step, Proceed, Crash, Rollback, Finish, GoTo, Replay, LockUser, AssignLockBatch,
             AssignReplay, AssignReject, AssignAccept, AssignCommit, SessionCheck, SessionCommit,
             EditCheck, EditCommit, PatchFlush, PatchReference, PatchCheck, PatchCommit, DeadlockAbort
      <3>2. QED
        BY <3>1 DEF NoBatchEditor, Kind
    <2>3. QED BY <2>1, <2>2
  <1>3. QED
    BY <1>1, <1>2 DEF NoBatchEditor

LEMMA TrainerOnlyAssigned ==
  ASSUME TypeOK, NoBatchEditor, NEW q \in Requests, Step(q), ~AssignCommit(q), NEW b \in Batches
  PROVE  row'[b].trainer = row[b].trainer
  <1>0. row \in [Batches -> BatchRow]
    BY DEF TypeOK
  <1>1. CASE ~Writes(q)
    BY <1>1, ReadOnly
  <1>2. CASE SessionCancel(q)
    <2>1. PICK w \in Batches, s \in Sessions : row' = [row EXCEPT ![w] = With(w, s, None)]
      BY <1>2, CancelWrites
    <2>2. QED
      BY <1>0, <2>1, WithRow
  <1>3. CASE SessionCommit(q)
    <2>1. CASE UNCHANGED row
      BY <2>1
    <2>2. CASE ~UNCHANGED row
      BY <1>0, <1>3, <2>2, SessionWritten, WithRow
    <2>3. QED BY <2>1, <2>2
  <1>4. CASE PatchCommit(q)
    BY <1>4 DEF PatchCommit, NoBatchEditor
  <1>5. QED
    BY <1>1, <1>2, <1>3, <1>4 DEF Writes

LEMMA HistoryIsChainStep ==
  ASSUME TypeOK, PcKind, RowInv, NoBatchEditor, HistoryIsChain, NEW q \in Requests, Step(q)
  PROVE  HistoryIsChain'
  <1>1. CASE ~AssignCommit(q)
    <2>1. UNCHANGED history
      BY <1>1, HistoryWrites DEF PatchCommit, NoBatchEditor
    <2>2. QED
      BY <1>1, <2>1, TrainerOnlyAssigned DEF HistoryIsChain
  <1>2. CASE AssignCommit(q) /\ KeyUsed(req[q].key)
    <2>1. UNCHANGED <<row, history>>
      BY <1>2 DEF AssignCommit, Replay, Rollback, tables
    <2>2. QED
      BY <2>1 DEF HistoryIsChain
  <1>3. CASE AssignCommit(q) /\ ~KeyUsed(req[q].key)
    <2> DEFINE w == req[q].batch
               e == NewEntry(q)
    <2>1. req[q] \in AssignParams /\ w \in Batches /\ seen[q] \in BatchRow /\ override[q] \in BOOLEAN
          /\ Kind(q) = "assign" /\ pc[q] = "commit"
      BY <1>3, PcTypes DEF AssignCommit, TypeOK
    <2>2. /\ history' = [history EXCEPT ![w] = Append(history[w], e)]
          /\ row' = [row EXCEPT ![w].trainer = req[q].to]
          /\ e.from = seen[q].trainer /\ e.to = req[q].to
      BY <1>3, <2>1 DEF AssignCommit, NewEntry
    <2>3. e \in HistoryRow /\ history \in [Batches -> Seq(HistoryRow)] /\ row \in [Batches -> BatchRow]
      BY <2>1 DEF NewEntry, AssignParams, BatchRow, HistoryRow, TypeOK
    <2>4. e.from = row[w].trainer
      BY <2>1, <2>2 DEF RowInv
    <2>5. /\ row'[w].trainer = e.to
          /\ \A b \in Batches \ {w} : row'[b].trainer = row[b].trainer
      BY <2>1, <2>2, <2>3 DEF BatchRow
    <2> HIDE DEF e, w
    <2>6. w \in Batches
      BY <2>1
    <2> SUFFICES ASSUME NEW b \in Batches, history'[b] # <<>>
                 PROVE  /\ history'[b][Len(history'[b])].to = row'[b].trainer
                        /\ \A i \in 2 .. Len(history'[b]) : history'[b][i].from = history'[b][i - 1].to
      BY DEF HistoryIsChain
    <2>7. CASE b # w
      BY <2>2, <2>3, <2>5, <2>6, <2>7, Appended DEF HistoryIsChain
    <2>8. CASE b = w
      <3> DEFINE n == Len(history[w])
      <3>1. /\ n \in Nat /\ Len(history'[w]) = n + 1 /\ history'[w][n + 1] = e
            /\ \A i \in 1 .. n : history'[w][i] = history[w][i]
        BY <2>2, <2>3, <2>6, Appended
      <3>2. ASSUME NEW i \in 2 .. n + 1 PROVE history'[w][i].from = history'[w][i - 1].to
        <4>1. CASE n = 0
          BY <3>1, <4>1
        <4>2. CASE n > 0
          <5>1. history[w] # <<>>
            BY <3>1, <4>2
          <5>2. history[w][n].to = row[w].trainer
                /\ \A j \in 2 .. n : history[w][j].from = history[w][j - 1].to
            BY <2>6, <5>1 DEF HistoryIsChain
          <5>3. CASE i = n + 1
            <6>1. n \in 1 .. n /\ i - 1 = n
              BY <3>1, <4>2, <5>3
            <6>2. QED
              BY <2>4, <3>1, <5>2, <5>3, <6>1
          <5>4. CASE i # n + 1
            <6>1. i \in 2 .. n /\ i \in 1 .. n /\ i - 1 \in 1 .. n
              BY <3>1, <5>4
            <6>2. QED
              BY <3>1, <5>2, <6>1
          <5>5. QED BY <5>3, <5>4
        <4>3. QED BY <3>1, <4>1, <4>2
      <3>3. QED
        BY <2>5, <2>8, <3>1, <3>2
    <2>9. QED BY <2>7, <2>8
  <1>4. QED BY <1>1, <1>2, <1>3

(* Without the batch editor, which writes through a snapshot taken before  *)
(* its locks, each history row starts where the one before ended and the   *)
(* last one names the current trainer, for assignments, class sessions and *)
(* availability edits together.                                            *)
THEOREM HistoryChained ==
  ASSUME "patch" \notin Kinds
  PROVE  Spec => []HistoryIsChain
  <1>1. Init => IInv /\ NoBatchEditor /\ HistoryIsChain
    <2> SUFFICES ASSUME Init PROVE NoBatchEditor /\ HistoryIsChain
      BY IInvInit
    <2>1. QED
      BY DEF Init, NoBatchEditor, HistoryIsChain, Kind
  <1>2. IInv /\ NoBatchEditor /\ HistoryIsChain /\ [Next]_vars
          => (IInv /\ NoBatchEditor /\ HistoryIsChain)'
    <2> SUFFICES ASSUME IInv, NoBatchEditor, HistoryIsChain, [Next]_vars
                 PROVE  NoBatchEditor' /\ HistoryIsChain'
      BY IInvStep
    <2>1. CASE UNCHANGED vars
      BY <2>1 DEF NoBatchEditor, HistoryIsChain, Kind, vars, tables, local
    <2>2. ASSUME NEW q \in Requests, Step(q) PROVE NoBatchEditor' /\ HistoryIsChain'
      BY <2>2, NoBatchEditorStep, HistoryIsChainStep DEF IInv
    <2>3. QED
      BY <2>1, <2>2 DEF Next, Rest, Step
  <1>3. QED
    BY <1>1, <1>2, PTL DEF Spec
-----------------------------------------------------------------------------
(* An availability edit that passed its check still uncovers nothing when  *)
(* it commits: it holds its trainer, whose calendar can only shrink.       *)

EditInv ==
  ~staleWrite => \A r \in Requests :
    Kind(r) = "edit" /\ pc[r] = "commit" => NewlyUncovered(r) = {}

(* Only the holder of a trainer changes the trainer's availability. *)
LEMMA EditWrites ==
  ASSUME TypeOK, PcKind, LockInv, NEW q \in Requests, Step(q),
         NEW t \in Trainers, userLock[t] \in Requests \ {q}
  PROVE  avail'[t] = avail[t] /\ leave'[t] = leave[t]
  <1>1. CASE EditCommit(q)
    <2>1. req[q].to \in Trainers /\ Wanted(q) = {req[q].to} /\ Wanted(q) \subseteq Held(q)
      BY <1>1, PcTypes DEF EditCommit, LockInv, Wanted
    <2>2. t # req[q].to
      BY <2>1 DEF Held
    <2>3. QED
      BY <1>1, <2>2 DEF TypeOK, EditCommit
  <1>2. CASE ~EditCommit(q)
    <2>1. UNCHANGED <<avail, leave>>
      BY <1>2 DEF Step, Receive, Proceed, Crash, Rollback, Replay, GoTo, tables, AssignReceive,
         SessionReceive, EditReceive, PatchReceive, LockUser, AssignLockBatch, AssignReplay,
         AssignReject, AssignAccept, AssignCommit, SessionCheck, EditCheck, PatchFlush,
         PatchReference, PatchCheck, PatchCommit, DeadlockAbort, SessionCancel, SessionCommit
    <2>2. QED BY <2>1
  <1>3. QED BY <1>1, <1>2

LEMMA EditStep ==
  ASSUME TypeOK, PcKind, LockInv, EditInv, NEW q \in Requests, Step(q)
  PROVE  EditInv'
  <1> SUFFICES ASSUME ~staleWrite', NEW r \in Requests, Kind(r)' = "edit", pc'[r] = "commit"
               PROVE  NewlyUncovered(r)' = {}
    BY DEF EditInv
  <1>0. ~staleWrite
    BY StaleForever
  <1>1. CASE r # q
    <2> DEFINE t == req[r].to
               av == EditedAvail(r)
               lv == EditedLeave(r)
    <2>1. pc[r] = "commit" /\ req'[r] = req[r] /\ Kind(r) = "edit"
      BY <1>1, Frame DEF Kind
    <2>2. t \in Trainers /\ userLock[t] = r
      BY <2>1, PcTypes DEF LockInv, Wanted, Held
    <2>3. avail'[t] = avail[t] /\ leave'[t] = leave[t]
      BY <1>1, <2>2, EditWrites
    <2>4. EditedAvail(r)' = av /\ EditedLeave(r)' = lv
      BY <2>1, <2>3 DEF EditedAvail, EditedLeave
    <2>5. NewlyUncovered(r) = {}
      BY <1>0, <2>1 DEF EditInv
    <2> DEFINE Class(rw, x) ==
                 /\ rw[x[1]].status = "confirmed" /\ rw[x[1]].trainer = t
                 /\ x[2] \in (rw[x[1]].pattern \cup Taught(rw[x[1]].extra)) \cap Window[x[1]]
    <2>6. \A x \in Batches \X Slots :
            x \in NewlyUncovered(r) <=>
              Class(row, x) /\ x[2] \notin av \ lv /\ x[2] \in avail[t] \ leave[t]
      BY DEF NewlyUncovered, Uncovered, Confirmed, Booked
    <2>7. \A x \in Batches \X Slots :
            x \in NewlyUncovered(r)' <=>
              Class(row', x) /\ x[2] \notin av \ lv /\ x[2] \in avail[t] \ leave[t]
      BY <2>1, <2>3, <2>4 DEF NewlyUncovered, Uncovered, Confirmed, Booked
    <2>8. NewlyUncovered(r)' \subseteq Batches \X Slots
      BY DEF NewlyUncovered, Uncovered
    <2> HIDE DEF av, lv, t
    <2>9. \A c \in Batches : row'[c].status = "confirmed" /\ row'[c].trainer = t =>
            /\ row[c].status = "confirmed" /\ row[c].trainer = t
            /\ row'[c].pattern \cup Taught(row'[c].extra) \subseteq row[c].pattern \cup Taught(row[c].extra)
      BY <1>1, <2>2, Shrink
    <2>10. \A x \in Batches \X Slots : Class(row', x) => Class(row, x)
      BY <2>9
    <2> HIDE DEF Class
    <2>11. QED
      BY <2>5, <2>6, <2>7, <2>8, <2>10
  <1>2. CASE r = q
    <2>1. ASSUME NEW a, Finish(q, a) PROVE FALSE
      BY <1>2, <2>1 DEF TypeOK, Finish
    <2>2. ASSUME NEW a, Rollback(q, a) PROVE FALSE
      BY <2>1, <2>2 DEF Rollback
    <2>3. CASE Receive(q)
      BY <1>2, <2>3 DEF TypeOK, Kind, Receive, AssignReceive, SessionReceive, SessionCancel,
           EditReceive, PatchReceive, AssignParams, SessionParams, CancelParams, EditParams, BatchParams
    <2>4. CASE EditCheck(q)
      <3>1. NewlyUncovered(q) = {} /\ UNCHANGED <<req, row, avail, leave>>
        BY <2>2, <2>4 DEF EditCheck, GoTo, tables
      <3>2. NewlyUncovered(q)' = NewlyUncovered(q)
        BY <3>1 DEF NewlyUncovered, Uncovered, Confirmed, Booked, EditedAvail, EditedLeave
      <3>3. QED
        BY <1>2, <3>1, <3>2
    <2>5. CASE LockUser(q) \/ PatchFlush(q) \/ PatchReference(q)
      BY <1>2, <2>5 DEF TypeOK, LockUser, PatchFlush, PatchReference, GoTo
    <2>6. CASE AssignLockBatch(q) \/ AssignAccept(q)
      BY <1>2, <2>2, <2>6 DEF PcKind, Kind, AssignLockBatch, AssignAccept, GoTo
    <2>7. CASE AssignReplay(q) \/ AssignReject(q) \/ DeadlockAbort(q) \/ Crash(q)
      BY <2>2, <2>7 DEF AssignReplay, AssignReject, DeadlockAbort, Crash, Replay
    <2>8. CASE AssignCommit(q) \/ SessionCommit(q) \/ EditCommit(q) \/ PatchCommit(q)
      BY <2>1, <2>2, <2>8 DEF AssignCommit, SessionCommit, EditCommit, PatchCommit, Replay
    <2>9. CASE SessionCheck(q) \/ PatchCheck(q)
      BY <1>2, <2>2, <2>9 DEF SessionCheck, PatchCheck, GoTo, Kind
    <2>10. QED
      BY <2>3, <2>4, <2>5, <2>6, <2>7, <2>8, <2>9 DEF Step, Proceed
  <1>3. QED BY <1>1, <1>2

(* A request that has not arrived has no kind. *)
Fresh == \A r \in Requests : pc[r] = "idle" => Kind(r) = "none"

LEMMA FreshStep ==
  ASSUME TypeOK, PcKind, Fresh, NEW q \in Requests, Step(q)
  PROVE  Fresh'
  <1>1. ASSUME NEW a, Finish(q, a) PROVE pc'[q] # "idle"
    BY <1>1 DEF TypeOK, Finish
  <1>2. ASSUME NEW a, Rollback(q, a) PROVE pc'[q] # "idle"
    BY <1>1, <1>2 DEF Rollback
  <1>3. ASSUME NEW label, label # "idle", GoTo(q, label) PROVE pc'[q] # "idle"
    BY <1>3 DEF TypeOK, GoTo
  <1>4. pc'[q] # "idle"
    <2>1. CASE Receive(q)
      BY <2>1 DEF TypeOK, Receive, AssignReceive, SessionReceive, SessionCancel, EditReceive, PatchReceive
    <2>2. CASE LockUser(q) \/ PatchFlush(q) \/ PatchReference(q) \/ AssignLockBatch(q) \/ AssignAccept(q)
      BY <2>2, <1>2, <1>3 DEF LockUser, PatchFlush, PatchReference, AssignLockBatch, AssignAccept
    <2>3. CASE AssignReplay(q) \/ AssignReject(q) \/ DeadlockAbort(q) \/ Crash(q)
      BY <2>3, <1>2 DEF AssignReplay, AssignReject, DeadlockAbort, Crash, Replay
    <2>4. CASE AssignCommit(q) \/ SessionCommit(q) \/ EditCommit(q) \/ PatchCommit(q)
      BY <2>4, <1>1, <1>2 DEF AssignCommit, SessionCommit, EditCommit, PatchCommit, Replay
    <2>5. CASE SessionCheck(q) \/ PatchCheck(q) \/ EditCheck(q)
      BY <2>5, <1>2, <1>3 DEF SessionCheck, PatchCheck, EditCheck
    <2>6. QED
      BY <2>1, <2>2, <2>3, <2>4, <2>5 DEF Step, Proceed
  <1>5. QED
    BY <1>4, Frame DEF Fresh, Kind

LEMMA EditCovers ==
  ASSUME TypeOK, PcKind, EditInv, OneAnswer, Fresh, [Next]_vars, NEW r \in Requests,
         Commits(r, "edit"), ~staleWrite'
  PROVE  Uncovered(req[r].to, avail'[req[r].to], leave'[req[r].to])
           \subseteq Uncovered(req[r].to, avail[req[r].to], leave[req[r].to])
  <1>1. ~UNCHANGED vars
    BY DEF Commits, vars, local
  <1>2. PICK q \in Requests : Step(q)
    BY <1>1 DEF Next, Rest, Step
  <1>3. r = q
    BY <1>2, Answers DEF Commits
  <1>4. EditCommit(q)
    <2>1. Kind(q) = "edit" /\ reply[q] = "none" /\ reply'[q] = "ok"
      BY <1>3 DEF Commits
    <2>2. ~Receive(q)
      BY <2>1 DEF Receive, Fresh
    <2>3. ASSUME NEW a \in {"rejected", "aborted"}, Rollback(q, a) PROVE FALSE
      BY <2>1, <2>3 DEF TypeOK, Rollback, Finish
    <2>4. reply' # reply
      BY <2>1
    <2>5. ~LockUser(q) /\ ~PatchFlush(q) /\ ~PatchReference(q) /\ ~AssignLockBatch(q) /\ ~AssignAccept(q)
          /\ ~EditCheck(q)
      BY <2>3, <2>4 DEF LockUser, PatchFlush, PatchReference, AssignLockBatch, AssignAccept, EditCheck, GoTo
    <2>6. ~AssignReplay(q) /\ ~AssignReject(q) /\ ~DeadlockAbort(q) /\ ~Crash(q)
      BY <2>1, <2>3 DEF AssignReplay, AssignReject, DeadlockAbort, Crash
    <2>7. ~AssignCommit(q) /\ ~SessionCommit(q) /\ ~PatchCommit(q) /\ ~SessionCheck(q) /\ ~PatchCheck(q)
      BY <2>1 DEF AssignCommit, SessionCommit, PatchCommit, SessionCheck, PatchCheck
    <2>8. QED
      BY <1>2, <2>2, <2>5, <2>6, <2>7 DEF Step, Proceed
  <1>5. NewlyUncovered(q) = {}
    BY <1>4 DEF EditInv, EditCommit
  <1>6. avail'[req[q].to] = EditedAvail(q) /\ leave'[req[q].to] = EditedLeave(q)
    <2>1. req[q].to \in Trainers
      BY <1>4, PcTypes DEF EditCommit
    <2>2. QED
      BY <1>4, <2>1 DEF TypeOK, EditCommit
  <1>7. QED
    BY <1>3, <1>5, <1>6 DEF NewlyUncovered

(* A committed availability edit leaves no confirmed class without         *)
(* availability that had it before, also one assigned while the edit was   *)
(* under way, unless some request has committed a batch that was no longer *)
(* the one it had loaded and checked.                                      *)
THEOREM EditsCover == Spec => EditsKeepClassesCovered
  <1> DEFINE I == IInv /\ EditInv /\ OneAnswer /\ Fresh
             A == \A r \in Requests : Commits(r, "edit") /\ ~staleWrite' =>
                    LET t == req[r].to IN
                    Uncovered(t, avail'[t], leave'[t]) \subseteq Uncovered(t, avail[t], leave[t])
  <1>1. Init => I
    <2> SUFFICES ASSUME Init PROVE EditInv /\ OneAnswer /\ Fresh
      BY IInvInit
    <2>1. QED
      BY DEF Init, EditInv, OneAnswer, Fresh, Kind
  <1>2. I /\ [Next]_vars => I'
    <2> SUFFICES ASSUME I, [Next]_vars PROVE (EditInv /\ OneAnswer /\ Fresh)'
      BY IInvStep
    <2>1. CASE UNCHANGED vars
      BY <2>1 DEF EditInv, OneAnswer, Fresh, NewlyUncovered, Uncovered, EditedAvail, EditedLeave,
                  Confirmed, Booked, Kind, vars, tables, local
    <2>2. ASSUME NEW q \in Requests, Step(q) PROVE (EditInv /\ OneAnswer /\ Fresh)'
      <3>1. TypeOK /\ PcKind /\ LockInv
        BY DEF IInv
      <3>2. OneAnswer'
        BY <2>2, <3>1, Answers, Frame DEF OneAnswer
      <3>3. QED
        BY <2>2, <3>1, <3>2, EditStep, FreshStep
    <2>3. QED
      BY <2>1, <2>2 DEF Next, Rest, Step
  <1>3. I /\ [Next]_vars => [A]_vars
    BY EditCovers DEF IInv
  <1>4. QED
    BY <1>1, <1>2, <1>3, PTL DEF Spec, EditsKeepClassesCovered
-----------------------------------------------------------------------------
(* The lock order.                                                         *)

(* With the scheduling page and the availability page alone, every lock is *)
(* a row lock, taken in one order: the batch, then the trainers by id.     *)
PageKinds == {"none", "assign", "edit", "cancel"}

OrderInv ==
  /\ \A r \in Requests : Kind(r) \in PageKinds
  /\ \A t \in Trainers : userShare[t] = {}
  /\ \A b \in Batches, r \in Requests :
       batchLock[b] = r => pc[r] \in {"lockUsers", "check", "commit"}
  /\ \A r \in Requests, t \in Trainers :
       userLock[t] = r => \A u \in Wanted(r) : u < t => userLock[u] = r

LEMMA WantedTypes ==
  ASSUME TypeOK, PcKind, NEW r \in Requests, Kind(r) \in {"assign", "edit"}
  PROVE  Wanted(r) \subseteq Trainers
  <1>1. seen[r].trainer \in MaybeTrainer
    BY DEF TypeOK, BatchRow
  <1>2. QED
    BY <1>1, ParamTypes DEF Wanted, AssignParams, EditParams, MaybeTrainer

LEMMA OrderStep ==
  ASSUME Kinds \subseteq {"assign", "edit", "cancel"}, TypeOK, PcKind, LockInv, OrderInv,
         NEW q \in Requests, Step(q)
  PROVE  OrderInv'
  <1>0. None \notin Requests /\ Trainers \subseteq Nat /\ Kind(q) \in PageKinds
    BY ConstantsAssumption DEF OrderInv
  <1>1. Kind(q)' \in PageKinds
    <2>1. CASE Receive(q)
      BY <2>1 DEF TypeOK, Kind, Receive, AssignReceive, SessionCancel, EditReceive, PageKinds,
           AssignParams, CancelParams, EditParams
    <2>2. CASE ~Receive(q)
      <3>1. req' = req
        BY <2>2 DEF Step, Proceed, Crash, Rollback, Finish, GoTo, Replay, LockUser, AssignLockBatch,
             AssignReplay, AssignReject, AssignAccept, AssignCommit, SessionCheck, SessionCommit,
             EditCheck, EditCommit, PatchFlush, PatchReference, PatchCheck, PatchCommit, DeadlockAbort
      <3>2. QED
        BY <1>0, <3>1 DEF Kind
    <2>3. QED BY <2>1, <2>2
  <1>2. ~PatchReference(q) /\ ~PatchFlush(q)
    BY <1>0 DEF PatchReference, PatchFlush, PcKind, PageKinds
  <1> DEFINE Own == /\ \A t \in Trainers : userShare'[t] = {}
                    /\ \A b \in Batches : batchLock'[b] = q => pc'[q] \in {"lockUsers", "check", "commit"}
                    /\ \A t \in Trainers : userLock'[t] = q =>
                         \A u \in Wanted(q)' : u < t => userLock'[u] = q
  <1>3. ASSUME NEW a, Finish(q, a) PROVE Own
    BY <1>0, <1>3 DEF TypeOK, OrderInv, Finish
  <1>4. ASSUME NEW a, Rollback(q, a) PROVE Own
    BY <1>3, <1>4 DEF Rollback
  <1>5. Own
    <2>1. CASE Receive(q)
      BY <2>1 DEF OrderInv, LockInv, Receive, AssignReceive, SessionReceive, SessionCancel, EditReceive,
                  PatchReceive, locks
    <2>2. CASE LockUser(q)
      <3>1. PICK t \in Trainers :
              /\ pc[q] = "lockUsers" /\ NextUser(q, t)
              /\ userLock' = [userLock EXCEPT ![t] = q]
              /\ pc' = [pc EXCEPT ![q] =
                   IF Wanted(q) \subseteq Held(q) \cup {t} THEN "check" ELSE "lockUsers"]
              /\ UNCHANGED <<batchLock, userShare, req, seen>>
        BY <2>2 DEF LockUser, GoTo
      <3>2. Wanted(q)' = Wanted(q) /\ Wanted(q) \subseteq Trainers
        BY <1>0, <3>1, WantedTypes DEF PcKind, PageKinds, Wanted, Kind, Target
      <3>3. pc'[q] \in {"check", "lockUsers"} /\ userLock'[t] = q
            /\ \A u \in Trainers \ {t} : userLock'[u] = userLock[u]
        BY <3>1 DEF TypeOK
      <3>4. \A u \in Wanted(q) : u < t => userLock'[u] = q
        BY <1>0, <3>1, <3>2, <3>3 DEF NextUser, Held
      <3>5. \A v \in Trainers \ {t} : userLock'[v] = q =>
              \A u \in Wanted(q) : u < v => userLock'[u] = q
        BY <3>2, <3>3 DEF OrderInv
      <3>6. QED
        BY <3>1, <3>2, <3>3, <3>4, <3>5 DEF OrderInv
    <2>3. CASE AssignLockBatch(q)
      <3>1. CASE Rollback(q, "rejected")
        BY <3>1, <1>4
      <3>2. CASE ~Rollback(q, "rejected")
        <4>1. UNCHANGED <<userLock, userShare>> /\ pc[q] = "lockBatch" /\ pc'[q] \in {"check", "lockUsers"}
          BY <2>3, <3>2 DEF TypeOK, AssignLockBatch, GoTo
        <4>2. \A t \in Trainers : userLock'[t] # q
          BY <4>1 DEF LockInv
        <4>3. QED
          BY <4>1, <4>2 DEF OrderInv
      <3>3. QED BY <3>1, <3>2
    <2>4. CASE AssignAccept(q) \/ EditCheck(q)
      <3>1. CASE Rollback(q, "rejected")
        BY <3>1, <1>4
      <3>2. CASE ~Rollback(q, "rejected")
        <4>1. UNCHANGED <<userLock, batchLock, userShare, req, seen>> /\ pc[q] = "check" /\ pc'[q] = "commit"
          BY <2>4, <3>2 DEF TypeOK, AssignAccept, EditCheck, GoTo, locks
        <4>2. Wanted(q)' = Wanted(q)
          BY <4>1 DEF Wanted, Kind, Target
        <4>3. QED
          BY <4>1, <4>2 DEF OrderInv
      <3>3. QED BY <3>1, <3>2
    <2>5. CASE AssignReplay(q) \/ AssignReject(q) \/ DeadlockAbort(q) \/ Crash(q)
      BY <2>5, <1>4 DEF AssignReplay, AssignReject, DeadlockAbort, Crash, Replay
    <2>6. CASE AssignCommit(q) \/ EditCommit(q)
      BY <2>6, <1>3, <1>4 DEF AssignCommit, EditCommit, Replay
    <2>7. ~SessionCheck(q) /\ ~SessionCommit(q) /\ ~PatchCheck(q) /\ ~PatchCommit(q)
      BY <1>0 DEF SessionCheck, SessionCommit, PatchCheck, PatchCommit, PageKinds
    <2>8. QED
      BY <1>2, <2>1, <2>2, <2>3, <2>4, <2>5, <2>6, <2>7 DEF Step, Proceed
  <1>6. ASSUME NEW r \in Requests \ {q}
        PROVE  /\ Kind(r)' = Kind(r) /\ Wanted(r)' = Wanted(r)
               /\ \A b \in Batches : batchLock'[b] = r <=> batchLock[b] = r
               /\ \A t \in Trainers : userLock'[t] = r <=> userLock[t] = r
               /\ pc'[r] = pc[r]
    <2>1. Kind(r)' = Kind(r) /\ Target(r)' = Target(r)
      BY Frame DEF Kind, Target
    <2>2. Wanted(r)' = Wanted(r)
      BY <2>1, Frame DEF Wanted
    <2>3. QED
      BY <2>1, <2>2, Frame
  <1>7. \A r \in Requests, t \in Trainers :
          userLock'[t] = r => \A u \in Wanted(r)' : u < t => userLock'[u] = r
    <2> SUFFICES ASSUME NEW r \in Requests, NEW t \in Trainers, userLock'[t] = r
                 PROVE  \A u \in Wanted(r)' : u < t => userLock'[u] = r
      OBVIOUS
    <2>1. CASE r = q
      BY <1>5, <2>1
    <2>2. CASE r # q
      <3>1. Wanted(r)' = Wanted(r) /\ \A v \in Trainers : userLock'[v] = r <=> userLock[v] = r
        BY <1>6, <2>2
      <3>2. \A u \in Wanted(r) : u < t => userLock[u] = r
        BY <3>1 DEF OrderInv
      <3>3. Wanted(r) \subseteq Trainers
        <4>1. pc[r] \in {"lockUsers", "check", "commit"}
          BY <3>1 DEF LockInv
        <4>2. Kind(r) \in {"assign", "edit"}
          BY <4>1 DEF PcKind, OrderInv, PageKinds
        <4>3. QED
          BY <4>2, WantedTypes
      <3>4. QED
        BY <3>1, <3>2, <3>3
    <2>3. QED BY <2>1, <2>2
  <1>8. \A r \in Requests : Kind(r)' \in PageKinds
    BY <1>1, <1>6 DEF OrderInv
  <1>9. \A b \in Batches, r \in Requests :
          batchLock'[b] = r => pc'[r] \in {"lockUsers", "check", "commit"}
    BY <1>5, <1>6 DEF OrderInv
  <1>10. QED
    BY <1>5, <1>7, <1>8, <1>9 DEF OrderInv

LEMMA SmallRemainder ==
  ASSUME NEW n \in Nat \ {0}, NEW j \in Nat, j < n
  PROVE  j % n = j
  OBVIOUS

(* No cycle goes up at every step. *)
LEMMA NoRisingCycle ==
  ASSUME NEW n \in Nat \ {0}, NEW w \in [1 .. n -> Nat],
         \A i \in 1 .. n : w[i] < w[(i % n) + 1]
  PROVE  FALSE
  <1> DEFINE T == {w[i] : i \in 1 .. n}
             R == OpToRel(<, Nat)
  <1>1. T \subseteq Nat /\ T # {}
    <2>1. 1 \in 1 .. n
      OBVIOUS
    <2>2. QED
      BY <2>1
  <1>2. \A x, y \in Nat : x < y => <<x, y>> \in R
    BY DEF OpToRel
  <1>3. IsWellFoundedOn(R, Nat)
    BY NatLessThanWellFounded
  <1> HIDE DEF T, R
  <1>4. PICK x \in T : \A y \in T : ~(<<y, x>> \in R)
    BY <1>1, <1>3, WFMin
  <1>5. PICK i \in 1 .. n : w[i] = x
    BY DEF T
  <1>6. PICK j \in 1 .. n : (j % n) + 1 = i
    <2>1. CASE i = 1
      <3>1. n \in 1 .. n /\ n % n = 0
        OBVIOUS
      <3>2. QED
        BY <2>1, <3>1
    <2>2. CASE i > 1
      <3>1. i - 1 \in 1 .. n /\ i - 1 \in Nat /\ i - 1 < n
        BY <2>2
      <3>2. (i - 1) % n = i - 1
        BY <3>1, SmallRemainder
      <3>3. QED
        BY <2>2, <3>1, <3>2
    <2>3. QED BY <2>1, <2>2
  <1>7. w[j] \in T /\ w[j] < x /\ w[j] \in Nat /\ x \in Nat
    BY <1>5, <1>6 DEF T
  <1>8. QED
    BY <1>2, <1>4, <1>7

(* The lock a waiting request waits for, as a number. *)
Rank(r) == IF pc[r] = "lockBatch" THEN 0 ELSE (CHOOSE t \in Trainers : NextUser(r, t)) + 1

LEMMA WaitsForRank ==
  ASSUME TypeOK, PcKind, LockInv, OrderInv, NEW r \in Requests, NEW q \in Requests, Waits(r, q)
  PROVE  /\ pc[r] \in {"lockBatch", "lockUsers"} /\ Rank(r) \in Nat
         /\ pc[r] = "lockUsers" => \E t \in Trainers :
              NextUser(r, t) /\ userLock[t] = q /\ Rank(r) = t + 1
         /\ pc[r] = "lockBatch" => Rank(r) = 0 /\ \E b \in Batches : batchLock[b] = q
  <1>1. Kind(r) \in PageKinds /\ Trainers \subseteq Nat
    BY ConstantsAssumption DEF OrderInv
  <1>2. pc[r] \in {"lockBatch", "lockUsers"}
    BY <1>1 DEF Waits, PcKind, PageKinds
  <1>3. CASE pc[r] = "lockBatch"
    BY <1>3, PcTypes DEF Waits, Rank
  <1>4. CASE pc[r] = "lockUsers"
    <2>1. PICK t \in Trainers : NextUser(r, t) /\ userLock[t] = q
      BY <1>4 DEF Waits, OrderInv
    <2>2. Wanted(r) \subseteq Trainers
      BY <1>1, <1>4, WantedTypes DEF PcKind, PageKinds
    <2>3. \A u \in Trainers : NextUser(r, u) => u = t
      BY <1>1, <2>1, <2>2 DEF NextUser
    <2>4. (CHOOSE u \in Trainers : NextUser(r, u)) = t
      BY <2>1, <2>3
    <2>5. Rank(r) = t + 1 /\ t \in Nat
      BY <1>1, <1>4, <2>4 DEF Rank
    <2>6. QED
      BY <1>4, <2>1, <2>5
  <1>5. QED BY <1>2, <1>3, <1>4

LEMMA WaitsUpwards ==
  ASSUME TypeOK, PcKind, LockInv, OrderInv, NEW r \in Requests, NEW q \in Requests, NEW p \in Requests,
         Waits(r, q), Waits(q, p)
  PROVE  Rank(r) < Rank(q)
  <1>0. Trainers \subseteq Nat /\ Kind(q) \in PageKinds
    BY ConstantsAssumption DEF OrderInv
  <1>1. pc[q] = "lockUsers"
    <2>1. pc[q] \in {"lockUsers", "check", "commit"}
      BY WaitsForRank DEF LockInv, OrderInv
    <2>2. QED
      BY <2>1, WaitsForRank
  <1>2. PICK u \in Trainers : NextUser(q, u) /\ Rank(q) = u + 1
    BY <1>1, WaitsForRank
  <1>3. CASE pc[r] = "lockBatch"
    BY <1>0, <1>2, <1>3, WaitsForRank
  <1>4. CASE pc[r] = "lockUsers"
    <2>1. PICK t \in Trainers : userLock[t] = q /\ Rank(r) = t + 1
      BY <1>4, WaitsForRank
    <2>2. u \in Wanted(q) /\ userLock[u] # q
      BY <1>2 DEF NextUser, Held
    <2>3. ~(u < t) /\ u # t
      BY <2>1, <2>2 DEF OrderInv
    <2>4. QED
      BY <1>0, <1>2, <2>1, <2>3
  <1>5. QED BY <1>3, <1>4, WaitsForRank

LEMMA NoCycle ==
  ASSUME TypeOK, PcKind, LockInv, OrderInv
  PROVE  NoDeadlock
  <1> SUFFICES ASSUME NEW r \in Requests, InWaitCycle(r) PROVE FALSE
    BY DEF NoDeadlock
  <1>1. PICK n \in 2 .. Cardinality(Requests) : \E path \in [1 .. n -> Requests] :
          path[1] = r /\ \A i \in 1 .. n : Waits(path[i], path[(i % n) + 1])
    BY DEF InWaitCycle
  <1>2. PICK path \in [1 .. n -> Requests] :
          \A i \in 1 .. n : Waits(path[i], path[(i % n) + 1])
    BY <1>1
  <1>3. n \in Nat \ {0}
    OBVIOUS
  <1> DEFINE w == [i \in 1 .. n |-> Rank(path[i])]
  <1>4. \A i \in 1 .. n : (i % n) + 1 \in 1 .. n
    BY <1>3
  <1>5. \A i \in 1 .. n : path[i] \in Requests /\ path[(i % n) + 1] \in Requests
    BY <1>2, <1>4
  <1>6. w \in [1 .. n -> Nat]
    <2>1. \A i \in 1 .. n : Rank(path[i]) \in Nat
      <3>1. \A p, q \in Requests : Waits(p, q) => Rank(p) \in Nat
        BY WaitsForRank
      <3>2. QED
        BY <1>2, <1>5, <3>1
    <2> HIDE DEF Rank
    <2>2. QED
      BY <2>1
  <1>7. \A i \in 1 .. n : w[i] < w[(i % n) + 1]
    BY <1>2, <1>4, <1>5, WaitsUpwards
  <1> HIDE DEF w
  <1>8. QED
    BY <1>3, <1>6, <1>7, NoRisingCycle

(* lock_trainers takes the rows "in ascending id order": assignments from  *)
(* the scheduling page, availability edits and cancellations never wait    *)
(* for each other in a circle, however many run together.                  *)
THEOREM PageNeverDeadlocks ==
  ASSUME Kinds \subseteq {"assign", "edit", "cancel"}
  PROVE  Spec => []NoDeadlock
  <1>1. Init => IInv /\ OrderInv
    <2> SUFFICES ASSUME Init PROVE OrderInv
      BY IInvInit
    <2>1. None \notin Requests
      BY ConstantsAssumption
    <2>2. QED
      BY <2>1 DEF Init, OrderInv, PageKinds, Kind
  <1>2. IInv /\ OrderInv /\ [Next]_vars => (IInv /\ OrderInv)'
    <2> SUFFICES ASSUME IInv, OrderInv, [Next]_vars PROVE OrderInv'
      BY IInvStep
    <2>1. CASE UNCHANGED vars
      <3>1. UNCHANGED <<row, pc, req, seen, userLock, userShare, batchLock>>
        BY <2>1 DEF vars, tables, locks, local
      <3>2. \A r : Kind(r)' = Kind(r) /\ Target(r)' = Target(r)
        BY <3>1 DEF Kind, Target
      <3>3. \A r : Wanted(r)' = Wanted(r)
        BY <3>1, <3>2 DEF Wanted
      <3>4. QED
        BY <3>1, <3>2, <3>3 DEF OrderInv
    <2>2. QED
      BY <2>1, OrderStep DEF IInv, Next, Rest, Step
  <1>3. IInv /\ OrderInv => NoDeadlock
    BY NoCycle DEF IInv
  <1>4. QED
    BY <1>1, <1>2, <1>3, PTL DEF Spec

=============================================================================
