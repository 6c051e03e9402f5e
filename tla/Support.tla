-------------------------------- MODULE Support --------------------------------
(***************************************************************************)
(* Support tickets and uploaded files (api/routes_admin_support.py,        *)
(* routes_students.py, routes_profile.py, core/uploads.py,                 *)
(* core/student_deletion.py, core/upload_cleanup.py).                      *)
(*                                                                         *)
(* A request loads its rows without a lock, and commits the columns it     *)
(* changed.  Files are written before the row that refers to them is       *)
(* committed and, except by the deletion of a ticket, removed after it is  *)
(* gone; a student's permanent deletion leaves the removal to a worker.    *)
(***************************************************************************)
EXTENDS Naturals, FiniteSets, SequencesExt

CONSTANTS
  Requesters,     \* students and trainers, who ask for support
  Trainers,       \* the trainers among them
  Tickets, Messages,
  Files,          \* names of stored files, each used once
  Helpers,        \* request threads
  Cleaners,       \* processes that run the cleanup worker
  SupportPlans,   \* which requests each thread may run, and the first state
  MaxFiles,       \* MAX_FILES_PER_MESSAGE
  BatchSize,      \* the worker's limit on a batch of jobs
  Desk, Nobody    \* an administrator; no user, message or file

ASSUME TrainersAssumption == Trainers \subseteq Requesters

VARIABLES
  people,     \* the requesters' rows and their photos
  tickets, messages,
  attached,   \* the message each attachment's file is attached to
  files,      \* the disk
  queue,      \* file_cleanup_jobs: those never tried, those tried
  helps,      \* the request each thread is running
  cleaning,   \* the batch each worker holds
  helpPlan,   \* the plan of this behaviour
  torn        \* history: files removed while a ticket was being deleted

supVars ==
  <<people, tickets, messages, attached, files, queue, helps, cleaning, helpPlan, torn>>
supRows == <<people, tickets, messages, attached>>

States == {"open", "in_progress", "waiting", "resolved", "closed"}
Ticket ==
  [state: States \cup {"none", "gone"}, by: Requesters \cup {Nobody},
   resolved: BOOLEAN, closed: BOOLEAN]
Loaded == {ticket \in Ticket : ticket.state \in States}
Message ==
  [state: {"none", "here", "gone"}, ticket: Tickets \cup {Nobody},
   from: Requesters \cup {Desk, Nobody}]
Person == [here: BOOLEAN, photo: Files \cup {Nobody}]
TicketOps == {"reply", "note", "status", "close", "reopen"}
Help ==
  [pc: {"idle"}]
  \cup [pc: TicketOps, ticket: Tickets, by: Requesters \cup {Desk}, saw: Loaded]
  \cup [pc: {"upload"}, message: Messages]
  \cup [pc: {"saved"}, message: Messages, file: Files]
  \cup [pc: {"photo", "unphoto"}, who: Requesters, old: Files \cup {Nobody}]
  \cup [pc: {"pictured"}, who: Requesters, old: Files \cup {Nobody}, file: Files]
  \cup [pc: {"replaced"}, old: Files]
  \cup [pc: {"delete"}, ticket: Tickets, messages: SUBSET Messages, files: SUBSET Files,
        left: SUBSET Files]
  \cup [pc: {"leave"}, who: Requesters, files: SUBSET Files]
Batch == [left: SUBSET Files, done: SUBSET Files, failed: SUBSET Files]

(* The first states are those of a database whose references hold, and no  *)
(* two of its rows name one file.                                          *)
ASSUME SupportAssumption ==
  /\ IsFiniteSet(Files) /\ BatchSize \in Nat
  /\ Desk # Nobody /\ {Desk, Nobody} \cap Requesters = {}
  /\ Nobody \notin Tickets \cup Messages \cup Files
  /\ \A plan \in SupportPlans :
       /\ DOMAIN plan.tickets \subseteq Tickets /\ DOMAIN plan.messages \subseteq Messages
       /\ \A t \in DOMAIN plan.tickets : plan.tickets[t] \in States \X Requesters
       /\ \A m \in DOMAIN plan.messages :
            plan.messages[m] \in Tickets \X (Requesters \cup {Desk})
       /\ plan.attached \in [Files -> Messages \cup {Nobody}]
       /\ plan.photo \in [Requesters -> Files \cup {Nobody}]
       /\ \A r \in Requesters : plan.photo[r] # Nobody =>
            /\ plan.attached[plan.photo[r]] = Nobody
            /\ \A o \in Requesters \ {r} : plan.photo[o] # plan.photo[r]

SupTypeOK ==
  /\ people \in [Requesters -> Person]
  /\ tickets \in [Tickets -> Ticket]
  /\ messages \in [Messages -> Message]
  /\ \A m \in Messages : messages[m].from \in Requesters => people[messages[m].from].here
  /\ attached \in [Files -> Messages \cup {Nobody}]
  /\ files \in [Files -> {"new", "disk", "gone"}]
  /\ queue \in [fresh: Seq(Files), tried: Seq(Files)]
  /\ helps \in [Helpers -> Help]
  /\ cleaning \in [Cleaners -> Batch]
  /\ helpPlan \in SupportPlans
  /\ torn \subseteq Files

Free == [pc |-> "idle"]
NoBatch == [left |-> {}, done |-> {}, failed |-> {}]
(* Every ticket, message, attachment and photo of the plan is there.       *)
SupInit ==
  /\ helpPlan \in SupportPlans
  /\ people = [r \in Requesters |-> [here |-> TRUE, photo |-> helpPlan.photo[r]]]
  /\ tickets = [t \in Tickets |->
       IF t \in DOMAIN helpPlan.tickets
       THEN [state |-> helpPlan.tickets[t][1], by |-> helpPlan.tickets[t][2],
             resolved |-> FALSE, closed |-> helpPlan.tickets[t][1] = "closed"]
       ELSE [state |-> "none", by |-> Nobody, resolved |-> FALSE, closed |-> FALSE]]
  /\ messages = [m \in Messages |->
       IF m \in DOMAIN helpPlan.messages
       THEN [state |-> "here", ticket |-> helpPlan.messages[m][1],
             from |-> helpPlan.messages[m][2]]
       ELSE [state |-> "none", ticket |-> Nobody, from |-> Nobody]]
  /\ attached = helpPlan.attached
  /\ files = [f \in Files |->
       IF attached[f] # Nobody \/ \E r \in Requesters : people[r].photo = f
       THEN "disk" ELSE "new"]
  /\ queue = [fresh |-> <<>>, tried |-> <<>>]
  /\ helps = [p \in Helpers |-> Free]
  /\ cleaning = [w \in Cleaners |-> NoBatch]
  /\ torn = {}

-------------------------------------------------------------------------------
Does(p, op) == helps[p] = Free /\ op \in helpPlan.runs[p]
Goes(p, q) == helps' = [helps EXCEPT ![p] = q]

(* A student's row is locked from the first step of its deletion to its    *)
(* commit: what refers to the row waits, and fails if it is gone.          *)
Locked(r) == \E p \in Helpers : helps[p].pc = "leave" /\ helps[p].who = r
Refers(by) == by # Desk => (people[by].here /\ ~Locked(by))

Open(t) == tickets[t].state \in States
(* Columns a request did not change keep what others have committed.       *)
TicketPatch(t, saw, to) ==
  tickets' = [tickets EXCEPT ![t] =
    [state |-> IF to.state # saw.state THEN to.state ELSE @.state, by |-> @.by,
     resolved |-> IF to.resolved # saw.resolved THEN to.resolved ELSE @.resolved,
     closed |-> IF to.closed # saw.closed THEN to.closed ELSE @.closed]]
Posts(t, from) ==
  \E m \in Messages :
    /\ messages[m].state = "none"
    /\ messages' = [messages EXCEPT ![m] = [state |-> "here", ticket |-> t, from |-> from]]

Opens(p, who) ==
  /\ Does(p, "create")
  /\ \E t \in Tickets, r \in who :
       /\ tickets[t].state = "none" /\ Refers(r)
       /\ tickets' = [tickets EXCEPT ![t] = [@ EXCEPT !.state = "open", !.by = r]]
       /\ Posts(t, r)
  /\ UNCHANGED <<people, attached, files, queue, helps, cleaning, helpPlan, torn>>
CreateTicket(p) == Opens(p, Requesters \ Trainers)
CreateStaffTicket(p) == Opens(p, Trainers)

(* Requesters reply to and reopen tickets of their own.                    *)
LoadTicket(p, op) ==
  /\ Does(p, op)
  /\ \E t \in Tickets, by \in Requesters \cup {Desk} :
       /\ Open(t)
       /\ by # Desk => op \in {"reply", "reopen"} /\ tickets[t].by = by
       /\ Goes(p, [pc |-> op, ticket |-> t, by |-> by, saw |-> tickets[t]])
  /\ UNCHANGED <<supRows, files, queue, cleaning, helpPlan, torn>>

Replies(p, from) ==
  LET q == helps[p] IN
  /\ q.pc = "reply" /\ Open(q.ticket)
  /\ Posts(q.ticket, q.by)
  /\ TicketPatch(q.ticket, q.saw,
       IF q.saw.state = from THEN [q.saw EXCEPT !.state = "in_progress"] ELSE q.saw)
  /\ Goes(p, Free)
  /\ UNCHANGED <<people, attached, files, queue, cleaning, helpPlan, torn>>
(* An administrator's reply moves an open ticket on, a requester's one     *)
(* that waited for it; requesters do not reply to a closed ticket.         *)
ReplyToTicket(p) == helps[p].pc = "reply" /\ helps[p].by = Desk /\ Replies(p, "open")
OwnReply(p, who) ==
  /\ helps[p].pc = "reply" /\ helps[p].by \in who
  /\ Refers(helps[p].by) /\ helps[p].saw.state # "closed"
  /\ Replies(p, "waiting")
StudentReply(p) == OwnReply(p, Requesters \ Trainers)
StaffReply(p) == OwnReply(p, Trainers)

AddInternalNote(p) ==
  LET q == helps[p] IN
  /\ q.pc = "note" /\ Open(q.ticket)
  /\ Posts(q.ticket, Desk)
  /\ Goes(p, Free)
  /\ UNCHANGED <<people, tickets, attached, files, queue, cleaning, helpPlan, torn>>

(* Mutant: a closed ticket may be moved back to in progress.               *)
TransitionsOfAll(state) == {"in_progress", "waiting", "resolved"} \ {state}
AllowedTransitions(state) ==
  CASE state = "open" -> {"in_progress", "waiting", "resolved"}
    [] state = "in_progress" -> {"waiting", "resolved", "open"}
    [] state = "waiting" -> {"in_progress", "resolved"}
    [] state = "resolved" -> {"in_progress", "waiting", "open"}
    [] state = "closed" -> {}

ChangeStatus(p) ==
  LET q == helps[p] IN
  /\ q.pc = "status" /\ Open(q.ticket)
  /\ \E to \in AllowedTransitions(q.saw.state) :
       TicketPatch(q.ticket, q.saw,
         [q.saw EXCEPT !.state = to, !.resolved = (to = "resolved")])
  /\ Goes(p, Free)
  /\ UNCHANGED <<people, messages, attached, files, queue, cleaning, helpPlan, torn>>

CloseTicket(p) ==
  LET q == helps[p] IN
  /\ q.pc = "close" /\ Open(q.ticket) /\ q.saw.state # "closed"
  /\ TicketPatch(q.ticket, q.saw, [q.saw EXCEPT !.state = "closed", !.closed = TRUE])
  /\ Goes(p, Free)
  /\ UNCHANGED <<people, messages, attached, files, queue, cleaning, helpPlan, torn>>

Reopens(p, who) ==
  LET q == helps[p] IN
  /\ q.pc = "reopen" /\ q.by \in who
  /\ Open(q.ticket) /\ q.saw.state = "closed"
  /\ TicketPatch(q.ticket, q.saw, [q.saw EXCEPT !.state = "in_progress", !.closed = FALSE])
  /\ Goes(p, Free)
  /\ UNCHANGED <<people, messages, attached, files, queue, cleaning, helpPlan, torn>>
ReopenTicket(p) == Reopens(p, {Desk})
StudentReopen(p) == Reopens(p, Requesters \ Trainers)
StaffReopen(p) == Reopens(p, Trainers)

-------------------------------------------------------------------------------
(* Attachments and photos.                                                 *)

On(m) == {f \in Files : attached[f] = m}
Save(f) == files[f] = "new" /\ files' = [files EXCEPT ![f] = "disk"]
Unlink(f) == files' = [files EXCEPT ![f] = IF @ = "disk" THEN "gone" ELSE @]

(* The message is the sender's own and has room for one more.              *)
LoadsMessage(p, who) ==
  /\ Does(p, "upload")
  /\ \E m \in Messages :
       /\ messages[m].state = "here" /\ messages[m].from \in who
       /\ Cardinality(On(m)) < MaxFiles
       /\ Goes(p, [pc |-> "upload", message |-> m])
  /\ UNCHANGED <<supRows, files, queue, cleaning, helpPlan, torn>>
UploadTicketAttachment(p) == LoadsMessage(p, {Desk})
StudentUpload(p) == LoadsMessage(p, Requesters \ Trainers)
StaffUpload(p) == LoadsMessage(p, Trainers)

SaveUpload(p) ==
  /\ helps[p].pc = "upload"
  /\ \E f \in Files :
       Save(f) /\ Goes(p, [pc |-> "saved", message |-> helps[p].message, file |-> f])
  /\ UNCHANGED <<supRows, queue, cleaning, helpPlan, torn>>

InsertAttachment(p) ==
  LET q == helps[p] IN
  /\ q.pc = "saved" /\ messages[q.message].state = "here"
  /\ attached' = [attached EXCEPT ![q.file] = q.message]
  /\ Goes(p, Free)
  /\ UNCHANGED <<people, tickets, messages, files, queue, cleaning, helpPlan, torn>>

LoadPhoto(p, op) ==
  /\ Does(p, op)
  /\ \E r \in Requesters :
       /\ people[r].here /\ (op = "unphoto" => people[r].photo # Nobody)
       /\ Goes(p, [pc |-> op, who |-> r, old |-> people[r].photo])
  /\ UNCHANGED <<supRows, files, queue, cleaning, helpPlan, torn>>

SaveProfilePhoto(p) ==
  LET q == helps[p] IN
  /\ q.pc = "photo"
  /\ \E f \in Files :
       Save(f) /\ Goes(p, [pc |-> "pictured", who |-> q.who, old |-> q.old, file |-> f])
  /\ UNCHANGED <<supRows, queue, cleaning, helpPlan, torn>>

(* Mutant: the row is read again, and the photo it has then is removed.    *)
ReplacingNow(q) ==
  IF people'[q.who].photo = Nobody THEN Free
  ELSE [pc |-> "replaced", old |-> people'[q.who].photo]
(* The file that will be removed is the one the request had loaded.        *)
Replacing(q) == IF q.old = Nobody THEN Free ELSE [pc |-> "replaced", old |-> q.old]

CommitPhoto(p) ==
  LET q == helps[p]
      photo == IF q.pc = "pictured" THEN q.file ELSE Nobody
  IN
  /\ q.pc \in {"pictured", "unphoto"} /\ Refers(q.who)
  /\ people' = [people EXCEPT ![q.who] = [here |-> TRUE, photo |-> photo]]
  /\ Goes(p, Replacing(q))
  /\ UNCHANGED <<tickets, messages, attached, files, queue, cleaning, helpPlan, torn>>

DeleteOldPhoto(p) ==
  /\ helps[p].pc = "replaced"
  /\ Unlink(helps[p].old)
  /\ Goes(p, Free)
  /\ UNCHANGED <<supRows, queue, cleaning, helpPlan, torn>>

-------------------------------------------------------------------------------
(* Deletions.                                                              *)

LoadTicketToDelete(p) ==
  /\ Does(p, "delete")
  /\ \E t \in Tickets :
       LET of == {m \in Messages : messages[m].state = "here" /\ messages[m].ticket = t}
           on == {f \in Files : attached[f] \in of}
       IN
       /\ Open(t)
       /\ Goes(p, [pc |-> "delete", ticket |-> t, messages |-> of, files |-> on, left |-> on])
  /\ UNCHANGED <<supRows, files, queue, cleaning, helpPlan, torn>>

UnlinkAttachment(p) ==
  LET q == helps[p] IN
  /\ q.pc = "delete"
  /\ \E f \in q.left :
       /\ Unlink(f)
       /\ torn' = torn \cup {f}
       /\ Goes(p, [q EXCEPT !.left = @ \ {f}])
  /\ UNCHANGED <<supRows, queue, cleaning, helpPlan>>

(* The loaded rows are deleted; others that refer to them prevent it.      *)
DropTicket(p) ==
  LET q == helps[p] IN
  /\ q.pc = "delete" /\ q.left = {}
  /\ \A m \in Messages :
       messages[m].state = "here" /\ messages[m].ticket = q.ticket => m \in q.messages
  /\ \A f \in Files : attached[f] \in q.messages => f \in q.files
  /\ tickets' = [tickets EXCEPT ![q.ticket] = [@ EXCEPT !.state = "gone"]]
  /\ messages' = [m \in Messages |->
       IF m \in q.messages THEN [messages[m] EXCEPT !.state = "gone"] ELSE messages[m]]
  /\ attached' = [f \in Files |-> IF f \in q.files THEN Nobody ELSE attached[f]]
  /\ Goes(p, Free)
  /\ UNCHANGED <<people, files, queue, cleaning, helpPlan, torn>>

(* The student's row is locked and the attachments read.                   *)
StageDeletion(p) ==
  /\ Does(p, "leave")
  /\ \E r \in Requesters \ Trainers :
       /\ people[r].here /\ ~Locked(r)
       /\ Goes(p, [pc |-> "leave", who |-> r,
                   files |-> {f \in Files : \E m \in Messages :
                                attached[f] = m /\ messages[m].from = r}])
  /\ UNCHANGED <<supRows, files, queue, cleaning, helpPlan, torn>>

(* Mutant: the messages are missing from what is detached.                 *)
KeepingSenders(r) == messages
Detached(r) == [m \in Messages |->
  IF messages[m].from = r THEN [messages[m] EXCEPT !.from = Nobody] ELSE messages[m]]

(* The files to remove are queued with the deletion; tickets and messages  *)
(* stay, without the student.                                              *)
DeleteStudent(p) ==
  LET q == helps[p]
      r == q.who
      manifest == q.files \cup ({people[r].photo} \ {Nobody})
  IN
  /\ q.pc = "leave"
  /\ queue' = [queue EXCEPT !.fresh = @ \o SetToSeq(manifest)]
  /\ attached' = [f \in Files |-> IF f \in q.files THEN Nobody ELSE attached[f]]
  /\ messages' = Detached(r)
  /\ tickets' = [t \in Tickets |->
       IF tickets[t].by = r THEN [tickets[t] EXCEPT !.by = Nobody] ELSE tickets[t]]
  /\ people' = [people EXCEPT ![r] = [here |-> FALSE, photo |-> Nobody]]
  /\ Goes(p, Free)
  /\ UNCHANGED <<files, cleaning, helpPlan, torn>>

(* A request fails, or its server stops.                                   *)
Fail(p) ==
  /\ helps[p] # Free
  /\ Goes(p, Free)
  /\ UNCHANGED <<supRows, files, queue, cleaning, helpPlan, torn>>

-------------------------------------------------------------------------------
(* The cleanup worker.                                                     *)

Held == UNION {cleaning[w].left \cup cleaning[w].done \cup cleaning[w].failed : w \in Cleaners}
Queued == ToSet(queue.fresh) \cup ToSet(queue.tried)
(* What is left of a sequence.                                             *)
Without(s, out) ==
  LET kept[n \in 0..Len(s)] ==
        IF n = 0 THEN <<>>
        ELSE IF s[n] \in out THEN kept[n - 1] ELSE Append(kept[n - 1], s[n])
  IN kept[Len(s)]
(* Those never tried come first, then those tried longest ago.             *)
InOrder == queue.fresh \o queue.tried
FirstOf(s) == ToSet(SubSeq(s, 1, IF Len(s) < BatchSize THEN Len(s) ELSE BatchSize))

TakeJobs(w) ==
  LET free == Without(InOrder, Held) IN
  /\ cleaning[w] = NoBatch /\ free # <<>>
  /\ cleaning' = [cleaning EXCEPT ![w] = [NoBatch EXCEPT !.left = FirstOf(free)]]
  /\ UNCHANGED <<supRows, files, queue, helps, helpPlan, torn>>

Used(f) == attached[f] # Nobody \/ \E r \in Requesters : people[r].photo = f
CleanFile(w, f) ==
  /\ f \in cleaning[w].left /\ f \notin helpPlan.stuck
  /\ IF Used(f) THEN UNCHANGED files ELSE Unlink(f)
  /\ cleaning' = [cleaning EXCEPT ![w].left = @ \ {f}, ![w].done = @ \cup {f}]
  /\ UNCHANGED <<supRows, queue, helps, helpPlan, torn>>

CannotClean(w, f) ==
  /\ f \in cleaning[w].left
  /\ cleaning' = [cleaning EXCEPT ![w].left = @ \ {f}, ![w].failed = @ \cup {f}]
  /\ UNCHANGED <<supRows, files, queue, helps, helpPlan, torn>>

(* Mutant: a job that failed keeps its place.                              *)
KeepingPlace(batch) ==
  [fresh |-> Without(queue.fresh, batch.done), tried |-> Without(queue.tried, batch.done)]
AfterBatch(batch) ==
  LET out == batch.done \cup batch.failed IN
  [fresh |-> Without(queue.fresh, out),
   tried |-> Without(queue.tried, out) \o SetToSeq(batch.failed)]

CommitJobs(w) ==
  /\ cleaning[w] # NoBatch /\ cleaning[w].left = {}
  /\ queue' = AfterBatch(cleaning[w])
  /\ cleaning' = [cleaning EXCEPT ![w] = NoBatch]
  /\ UNCHANGED <<supRows, files, helps, helpPlan, torn>>

(* The worker's process stops: its jobs are free again.                    *)
StopCleaner(w) ==
  /\ cleaning[w] # NoBatch
  /\ cleaning' = [cleaning EXCEPT ![w] = NoBatch]
  /\ UNCHANGED <<supRows, files, queue, helps, helpPlan, torn>>

Cleanup ==
  \E w \in Cleaners :
    \/ TakeJobs(w) \/ CommitJobs(w) \/ StopCleaner(w)
    \/ \E f \in Files : CleanFile(w, f) \/ CannotClean(w, f)

SupNext ==
  \/ \E p \in Helpers :
       \/ CreateTicket(p) \/ CreateStaffTicket(p)
       \/ \E op \in TicketOps : LoadTicket(p, op)
       \/ ReplyToTicket(p) \/ StudentReply(p) \/ StaffReply(p)
       \/ AddInternalNote(p) \/ ChangeStatus(p) \/ CloseTicket(p)
       \/ ReopenTicket(p) \/ StudentReopen(p) \/ StaffReopen(p)
       \/ UploadTicketAttachment(p) \/ StudentUpload(p) \/ StaffUpload(p)
       \/ SaveUpload(p) \/ InsertAttachment(p)
       \/ \E op \in {"photo", "unphoto"} : LoadPhoto(p, op)
       \/ SaveProfilePhoto(p) \/ CommitPhoto(p) \/ DeleteOldPhoto(p)
       \/ LoadTicketToDelete(p) \/ UnlinkAttachment(p) \/ DropTicket(p)
       \/ StageDeletion(p) \/ DeleteStudent(p)
       \/ Fail(p)
  \/ Cleanup

(* A worker keeps going.  A job that is taken again and again is not      *)
(* stopped before its outcome each time, nor before its commit, and its    *)
(* unlink succeeds at last unless the file is stuck.                       *)
Settles(w, f) == IF f \in helpPlan.stuck THEN CannotClean(w, f) ELSE CleanFile(w, f)
Settled(w, f) ==
  f \in (IF f \in helpPlan.stuck THEN cleaning[w].failed ELSE cleaning[w].done)
SupFairness ==
  /\ \A w \in Cleaners : WF_supVars(TakeJobs(w) \/ CommitJobs(w))
  /\ \A f \in Files :
       /\ SF_supVars(\E w \in Cleaners : Settles(w, f))
       /\ SF_supVars(\E w \in Cleaners : Settled(w, f) /\ CommitJobs(w))

SupSpec == SupInit /\ [][SupNext]_supVars /\ SupFairness

-------------------------------------------------------------------------------
(* A photo or an attachment that a row refers to is on the disk, whichever *)
(* requests, deletions and workers meet, and wherever one of them stops:   *)
(* only the deletion of a ticket removes files that rows still refer to    *)
(* (routes_profile.py:25-35, upload_cleanup.py:28-31,                      *)
(* routes_admin_support.py:425-430).                                       *)
FilesOutliveRows == \A f \in Files : Used(f) => files[f] = "disk" \/ f \in torn

(* A closed ticket leaves that state by a reopening, or by a request that  *)
(* had loaded the ticket before it was closed (routes_admin_support.py:    *)
(* 48-58).                                                                 *)
ClosedNeedsReopen ==
  [][\A t \in Tickets :
       tickets[t].state = "closed" /\ tickets'[t].state \in States \ {"closed"}
       => \E p \in Helpers :
            /\ helps'[p] # helps[p] /\ helps[p].pc \in TicketOps /\ helps[p].ticket = t
            /\ (helps[p].pc = "reopen" \/ helps[p].saw.state # "closed")]_supVars

(* The files of a deleted student go, whatever stops between the steps of  *)
(* the worker, and though another file can never be removed                *)
(* (upload_cleanup.py:28-55).                                              *)
CleanupFinishes ==
  \A f \in Files :
    (f \in Queued /\ f \notin helpPlan.stuck) ~> (f \notin Queued /\ files[f] # "disk")
================================================================================
