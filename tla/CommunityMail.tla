----------------------------- MODULE CommunityMail -----------------------------
(***************************************************************************)
(* Community posts and the queue of their emails (core/community_posts.py, *)
(* api/routes_admin_community_posts.py).  Publishing a post inserts one    *)
(* delivery row per eligible member in the same transaction.  Workers, one *)
(* per API process, repeat a pass: fail the claims that have gone stale,   *)
(* claim a batch of due rows, and for each claimed row read it, call the   *)
(* mail transport and record the outcome.                                  *)
(*                                                                         *)
(* A pass touches the database in short transactions and keeps the rest in *)
(* the memory of its process, so every step between two of them can be     *)
(* interleaved with other workers, requests, time and a crash.  Time is    *)
(* kept per row, as the time since its claim and the time until it is due. *)
(***************************************************************************)
EXTENDS Integers, FiniteSets

CONSTANTS
  Posts, Members,
  Workers,       \* API processes, each with one mail worker
  Admins,        \* concurrent publish requests
  BatchSize,     \* BATCH_SIZE
  MaxAttempts,   \* MAX_SEND_ATTEMPTS
  Backoff,       \* Backoff[n]: ticks to wait after n failed attempts
  RetryAfters,   \* what a Retry-After header may ask for, in ticks
  Recheck,       \* TRANSPORT_RECHECK_SECONDS, in ticks
  StaleAfter,    \* STALE_CLAIM_AFTER, in ticks
  MaxCrashes,    \* bound on the crashes of processes
  None           \* no row

ASSUME Sizes ==
  /\ BatchSize \in Nat /\ MaxAttempts \in Nat \ {0} /\ MaxCrashes \in Nat
  /\ Recheck \in Nat /\ StaleAfter \in Nat /\ RetryAfters \subseteq Nat
  /\ Backoff \in [1..MaxAttempts -> Nat]
ASSUME NoneIsNew == None \notin Posts \cup (Posts \X Members)

Pairs == Posts \X Members

VARIABLES
  posts,      \* posts[p]: "absent", "draft" or "published"
  eligible,   \* active community members with a verified email
  queue,      \* queue[d]: the delivery row of a <<post, member>>
  workers,    \* the memory of each process's worker
  admins,     \* the publish request each administrator has open
  configured, \* a mail transport is configured, with credentials it accepts
  crashes,    \* processes that have crashed so far
  mails       \* history: emails about d the transport accepted

vars == <<posts, eligible, queue, workers, admins, configured, crashes, mails>>

RowStatuses == {"absent", "pending", "sending", "sent", "failed", "skipped"}
(* since: ticks a row being sent has been claimed, to StaleAfter + 1;      *)
(* wait: ticks until the next_attempt_at of a pending row.                 *)
Row == [status: RowStatuses, attempts: Nat, since: Nat, wait: Nat]
Reports == {"accepted", "retryable", "unavailable", "refused"}
(* stale and picked are locked rows: claims to fail and rows to claim.     *)
Worker ==
  [pc: {"idle", "claiming", "sending", "loaded", "ineligible", "answered"},
   stale: SUBSET Pairs, picked: SUBSET Pairs, todo: SUBSET Pairs,
   row: Pairs \cup {None}, attempts: Nat, report: Reports]
Admin == [post: Posts \cup {None}, seen: {"absent", "draft", "published"}]

Entry(status, attempts, wait) ==
  [status |-> status, attempts |-> attempts, since |-> 0, wait |-> wait]
NoRow == Entry("absent", 0, 0)
NewRow == Entry("pending", 0, 0)

Claiming(S, P) ==
  [pc |-> "claiming", stale |-> S, picked |-> P, todo |-> {},
   row |-> None, attempts |-> 0, report |-> "refused"]
At(pc, T, d, n, report) ==
  [pc |-> pc, stale |-> {}, picked |-> {}, todo |-> T,
   row |-> d, attempts |-> n, report |-> report]
Sending(T) == At("sending", T, None, 0, "refused")
Idle == At("idle", {}, None, 0, "refused")

Init ==
  /\ posts = [p \in Posts |-> "absent"]
  /\ eligible \in SUBSET Members
  /\ queue = [d \in Pairs |-> NoRow]
  /\ workers = [w \in Workers |-> Idle]
  /\ admins = [a \in Admins |-> [post |-> None, seen |-> "absent"]]
  /\ configured \in BOOLEAN
  /\ crashes = 0
  /\ mails = [d \in Pairs |-> 0]

(***************************************************************************)
(* Requests                                                                *)
(***************************************************************************)
CreatePost(p) ==
  /\ posts[p] = "absent"
  /\ posts' = [posts EXCEPT ![p] = "draft"]
  /\ UNCHANGED <<eligible, queue, workers, admins, configured, crashes, mails>>

(* Nobody else has the row of p locked.                                    *)
PostFree(a, p) == \A o \in Admins \ {a}: admins[o].post # p

(* SELECT ... FOR UPDATE on the post.                                      *)
OpenPublish(a, p) ==
  /\ admins[a].post = None
  /\ posts[p] # "absent"
  /\ PostFree(a, p)
  /\ admins' = [admins EXCEPT ![a] = [post |-> p, seen |-> posts[p]]]
  /\ UNCHANGED <<posts, eligible, queue, workers, configured, crashes, mails>>

(* ON CONFLICT DO NOTHING: rows already there stay as they are.            *)
Enqueued(p) ==
  [d \in Pairs |-> IF /\ d[1] = p
                      /\ d[2] \in eligible
                      /\ queue[d].status = "absent"
                   THEN NewRow ELSE queue[d]]

ClosePublish(a) ==
  LET p == admins[a].post IN
  /\ p # None
  /\ IF admins[a].seen # "published"
     THEN /\ posts' = [posts EXCEPT ![p] = "published"]
          /\ queue' = Enqueued(p)
     ELSE UNCHANGED <<posts, queue>>
  /\ admins' = [admins EXCEPT ![a].post = None]
  /\ UNCHANGED <<eligible, workers, configured, crashes, mails>>

(* The request dies before its commit.                                     *)
AbortPublish(a) ==
  /\ admins[a].post # None
  /\ admins' = [admins EXCEPT ![a].post = None]
  /\ UNCHANGED <<posts, eligible, queue, workers, configured, crashes, mails>>

(* A member registers, or an administrator disables or enables one.        *)
Toggle(m) ==
  /\ eligible' = IF m \in eligible THEN eligible \ {m} ELSE eligible \cup {m}
  /\ UNCHANGED <<posts, queue, workers, admins, configured, crashes, mails>>

Reconfigure ==
  /\ configured' = ~configured
  /\ UNCHANGED <<posts, eligible, queue, workers, admins, crashes, mails>>

(***************************************************************************)
(* A worker's pass                                                         *)
(***************************************************************************)
Locked(w) == UNION {workers[o].stale \cup workers[o].picked: o \in Workers \ {w}}

(* Mutant: nothing ever reconciles the claims of a dead worker.            *)
NeverStale == {}

Stale == {d \in Pairs: queue[d].status = "sending" /\ queue[d].since > StaleAfter}
Due == {d \in Pairs: queue[d].status = "pending" /\ queue[d].wait = 0}

(* Mutant: the SELECT takes no locks.                                      *)
PickableUnlocked(w) == Due

(* SKIP LOCKED passes over the rows another pass is claiming; LIMIT keeps  *)
(* BatchSize of the rest.                                                  *)
Pickable(w) == Due \ Locked(w)
IsBatch(S, all) ==
  /\ S \subseteq all
  /\ Cardinality(S) = BatchSize \/ (S = all /\ Cardinality(all) < BatchSize)

(* The pass's first transaction: the UPDATE of stale claims, which waits   *)
(* for rows another pass holds, and the locking SELECT.                    *)
StartClaim(w) ==
  /\ workers[w].pc = "idle"
  /\ Stale \cap Locked(w) = {}
  /\ \E S \in SUBSET Pickable(w):
       /\ IsBatch(S, Pickable(w))
       /\ workers' = [workers EXCEPT ![w] = Claiming(Stale, S)]
  /\ UNCHANGED <<posts, eligible, queue, admins, configured, crashes, mails>>

Interrupted(row) == Entry("failed", row.attempts, 0)
Claimed(row) == Entry("sending", row.attempts, 0)

CommitClaim(w) ==
  /\ workers[w].pc = "claiming"
  /\ queue' = [d \in Pairs |->
                 IF d \in workers[w].stale THEN Interrupted(queue[d])
                 ELSE IF d \in workers[w].picked THEN Claimed(queue[d])
                 ELSE queue[d]]
  /\ workers' = [workers EXCEPT ![w] = Sending(workers[w].picked)]
  /\ UNCHANGED <<posts, eligible, admins, configured, crashes, mails>>

(* A row that is no longer being sent is passed over.                      *)
StillClaimed(d) == queue[d].status = "sending"

NextRow(w, d) ==
  /\ workers[w].pc = "sending"
  /\ d \in workers[w].todo
  /\ LET rest == workers[w].todo \ {d}
         fit == posts[d[1]] = "published" /\ d[2] \in eligible IN
     workers' = [workers EXCEPT ![w] =
       IF StillClaimed(d)
       THEN At(IF fit THEN "loaded" ELSE "ineligible", rest, d, queue[d].attempts, "refused")
       ELSE Sending(rest)]
  /\ UNCHANGED <<posts, eligible, queue, admins, configured, crashes, mails>>

EndPass(w) ==
  /\ workers[w].pc = "sending"
  /\ workers[w].todo = {}
  /\ workers' = [workers EXCEPT ![w] = Idle]
  /\ UNCHANGED <<posts, eligible, queue, admins, configured, crashes, mails>>

(* What the transport did, and what send_email_detailed reports of it.     *)
(* "retryable" is reported only when the message cannot have been accepted *)
(* (no token, no connection, HTTP 429 or 5xx); "refused" also covers the   *)
(* timeouts and exceptions after which nobody knows.                       *)
Outcomes ==
  IF configured
  THEN {<<1, "accepted">>, <<0, "retryable">>, <<0, "refused">>, <<1, "refused">>}
  ELSE {<<0, "unavailable">>}

Send(w) ==
  /\ workers[w].pc = "loaded"
  /\ \E o \in Outcomes:
       /\ mails' = [mails EXCEPT ![workers[w].row] = @ + o[1]]
       /\ workers' = [workers EXCEPT ![w] = At("answered", @.todo, @.row, @.attempts, o[2])]
  /\ UNCHANGED <<posts, eligible, queue, admins, configured, crashes>>

Later(n, after) == IF after > n THEN after ELSE n

(* Mutant: a delivery of unknown outcome is retried.                       *)
RetriesRefused(w, after) ==
  [queue[workers[w].row] EXCEPT !.status = IF workers[w].report = "accepted" THEN "sent" ELSE "pending"]

(* Mutant: the row's status becomes what the transport reported.           *)
RecordsReport(w, after) ==
  Entry(IF workers[w].pc = "ineligible" THEN "skipped" ELSE workers[w].report,
        workers[w].attempts + 1, 0)

(* The row as _deliver_one leaves it.                                      *)
Recorded(w, after) ==
  LET n == workers[w].attempts + 1
      report == workers[w].report
      attempts == queue[workers[w].row].attempts IN
  IF workers[w].pc = "ineligible" THEN Entry("skipped", attempts, 0)
  ELSE CASE report = "accepted" -> Entry("sent", attempts, 0)
         [] report = "unavailable" -> Entry("pending", attempts, Recheck)
         [] report = "retryable" /\ n < MaxAttempts ->
              Entry("pending", n, Later(Backoff[n], after))
         [] OTHER -> Entry("failed", n, 0)

Record(w) ==
  /\ workers[w].pc \in {"ineligible", "answered"}
  /\ workers[w].row \notin Locked(w)
  /\ \E after \in RetryAfters:
       queue' = [queue EXCEPT ![workers[w].row] = Recorded(w, after)]
  /\ workers' = [workers EXCEPT ![w] = Sending(@.todo)]
  /\ UNCHANGED <<posts, eligible, admins, configured, crashes, mails>>

(* The process stops, or a database error ends the pass: what was claimed  *)
(* stays claimed, what was not committed is undone.                        *)
Crash(w) ==
  /\ workers[w].pc # "idle"
  /\ crashes < MaxCrashes
  /\ crashes' = crashes + 1
  /\ workers' = [workers EXCEPT ![w] = Idle]
  /\ UNCHANGED <<posts, eligible, queue, admins, configured, mails>>

Aged(row) ==
  CASE row.status = "sending" /\ row.since <= StaleAfter -> [row EXCEPT !.since = @ + 1]
    [] row.status = "pending" /\ row.wait > 0 -> [row EXCEPT !.wait = @ - 1]
    [] OTHER -> row

Tick ==
  /\ queue' = [d \in Pairs |-> Aged(queue[d])]
  /\ UNCHANGED <<posts, eligible, workers, admins, configured, crashes, mails>>

Pass(w) ==
  \/ StartClaim(w) \/ CommitClaim(w)
  \/ \E d \in Pairs: NextRow(w, d)
  \/ Send(w) \/ Record(w) \/ EndPass(w)

Next ==
  \/ \E p \in Posts: CreatePost(p)
  \/ \E a \in Admins, p \in Posts: OpenPublish(a, p)
  \/ \E a \in Admins: ClosePublish(a) \/ AbortPublish(a)
  \/ \E m \in Members: Toggle(m)
  \/ Reconfigure
  \/ \E w \in Workers: Pass(w) \/ Crash(w)
  \/ Tick

Spec == Init /\ [][Next]_vars

(* A pass runs on in its thread, the loop starts the next one, and time    *)
(* passes.  No request ever has to arrive.                                 *)
LiveSpec == Spec /\ (\A w \in Workers: WF_vars(Pass(w))) /\ WF_vars(Tick)

(***************************************************************************)
(* Properties                                                              *)
(***************************************************************************)
(* Type invariant.                                                         *)
TypeOK ==
  /\ posts \in [Posts -> {"absent", "draft", "published"}]
  /\ eligible \subseteq Members
  /\ queue \in [Pairs -> Row]
  /\ workers \in [Workers -> Worker]
  /\ admins \in [Admins -> Admin]
  /\ configured \in BOOLEAN
  /\ crashes \in Nat
  /\ mails \in [Pairs -> Nat]

(* The queue keeps the promise: published posts are announced, the rows    *)
(* are what is owed.  Publishing again, retrying a send, failing a claim   *)
(* of another worker and restarting never email a member twice about a     *)
(* post, nor anyone who was not a member when it was published.            *)
Promise == INSTANCE MailPromise WITH
  announced <- {p \in Posts: posts[p] = "published"},
  owed <- {d \in Pairs: queue[d].status # "absent"}
PromiseKept == Promise!Spec

(* The delivery list an administrator sees tells the truth: "sent" rows    *)
(* were accepted by the transport, rows still pending or skipped were not. *)
StatusIsTruthful ==
  \A d \in Pairs:
    /\ queue[d].status = "sent" => mails[d] = 1
    /\ queue[d].status \in {"absent", "pending", "skipped"} => mails[d] = 0

(* Once a transport stays configured, every row that was queued ends.      *)
Ended(d) == queue[d].status \in {"sent", "failed", "skipped"}
QueueDrains ==
  <>[]configured => \A d \in Pairs: queue[d].status = "pending" ~> Ended(d)
=============================================================================
