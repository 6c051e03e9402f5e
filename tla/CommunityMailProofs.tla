-------------------------- MODULE CommunityMailProofs --------------------------
(***************************************************************************)
(* Proofs about CommunityMail for any posts, members, workers and          *)
(* administrators: its type, the truth of the delivery list, and that the  *)
(* queue implements MailPromise.                                           *)
(***************************************************************************)
EXTENDS CommunityMail, TLAPS

(***************************************************************************)
(* Types                                                                   *)
(***************************************************************************)
(* What a Retry-After or the back-off adds up to is a natural number.      *)
LEMMA LaterIsNat ==
  ASSUME NEW n \in Nat, NEW after \in Nat
  PROVE  Later(n, after) \in Nat
  BY DEF Later

(* A row built from a status, a count and a delay is a row.                *)
LEMMA EntryType ==
  ASSUME NEW status \in RowStatuses, NEW attempts \in Nat, NEW wait \in Nat
  PROVE  /\ Entry(status, attempts, wait) \in Row
         /\ Entry(status, attempts, wait).status = status
  BY DEF Entry, Row

(* The worker records are worker records, with the fields they name.       *)
LEMMA AtType ==
  ASSUME NEW pc \in {"idle", "claiming", "sending", "loaded", "ineligible", "answered"},
         NEW T \in SUBSET Pairs, NEW d \in Pairs \cup {None}, NEW n \in Nat,
         NEW report \in Reports
  PROVE  /\ At(pc, T, d, n, report) \in Worker
         /\ Sending(T) \in Worker
         /\ Idle \in Worker
  BY DEF At, Sending, Idle, Worker, Reports

(* A worker that has locked its rows is a worker record.                   *)
LEMMA ClaimingType ==
  ASSUME NEW S \in SUBSET Pairs, NEW P \in SUBSET Pairs
  PROVE  Claiming(S, P) \in Worker
  BY DEF Claiming, Worker, Reports

(* A recorded row is a row, and is not absent.                             *)
LEMMA RecordedType ==
  ASSUME TypeOK, NEW w \in Workers, NEW after \in RetryAfters,
         workers[w].row \in Pairs
  PROVE  /\ Recorded(w, after) \in Row
         /\ Recorded(w, after).status \in {"pending", "sent", "failed", "skipped"}
<1> DEFINE wk == workers[w]
           n == wk.attempts + 1
           k == queue[wk.row].attempts
<1>1. n \in Nat \ {0} /\ k \in Nat
  BY DEF TypeOK, Worker, Row
<1>2. Recheck \in Nat /\ after \in Nat
  BY Sizes
<1>3. n < MaxAttempts => Later(Backoff[n], after) \in Nat
  <2> SUFFICES ASSUME n < MaxAttempts PROVE Later(Backoff[n], after) \in Nat
    OBVIOUS
  <2>1. n \in 1..MaxAttempts
    BY <1>1, Sizes
  <2> HIDE DEF n
  <2>2. Backoff[n] \in Nat
    BY <2>1, Sizes
  <2> QED BY <1>2, <2>2, LaterIsNat
<1>4. CASE wk.pc = "ineligible"
  <2>1. Recorded(w, after) = Entry("skipped", k, 0)
    BY <1>4 DEF Recorded
  <2> HIDE DEF n, k
  <2> QED BY <1>1, <2>1, EntryType DEF RowStatuses
<1>5. CASE wk.pc # "ineligible" /\ wk.report = "accepted"
  <2>1. Recorded(w, after) = Entry("sent", k, 0)
    BY <1>5 DEF Recorded
  <2> HIDE DEF n, k
  <2> QED BY <1>1, <2>1, EntryType DEF RowStatuses
<1>6. CASE wk.pc # "ineligible" /\ wk.report = "unavailable"
  <2>1. Recorded(w, after) = Entry("pending", k, Recheck)
    BY <1>6 DEF Recorded
  <2> HIDE DEF n, k
  <2>2. Entry("pending", k, Recheck) \in Row
    BY <1>1, <1>2, EntryType DEF RowStatuses
  <2> QED BY <1>1, <1>2, <2>1, <2>2, EntryType DEF RowStatuses
<1>7. CASE wk.pc # "ineligible" /\ wk.report = "retryable" /\ n < MaxAttempts
  <2>1. Recorded(w, after) = Entry("pending", n, Later(Backoff[n], after))
    BY <1>7 DEF Recorded
  <2> HIDE DEF n, k
  <2> QED BY <1>1, <1>3, <1>7, <2>1, EntryType DEF RowStatuses
<1>8. CASE /\ wk.pc # "ineligible"
           /\ wk.report \notin {"accepted", "unavailable"}
           /\ ~(wk.report = "retryable" /\ n < MaxAttempts)
  <2>1. Recorded(w, after) = Entry("failed", n, 0)
    BY <1>8 DEF Recorded
  <2> HIDE DEF n, k
  <2> QED BY <1>1, <2>1, EntryType DEF RowStatuses
<1> QED BY <1>4, <1>5, <1>6, <1>7, <1>8

(* Time passing leaves a row a row, of the same status.                    *)
LEMMA AgedType ==
  ASSUME NEW row \in Row
  PROVE  Aged(row) \in Row /\ Aged(row).status = row.status
<1>1. CASE row.status = "sending" /\ row.since <= StaleAfter
  <2>1. Aged(row) = [row EXCEPT !.since = @ + 1]
    BY <1>1 DEF Aged
  <2> QED BY <2>1 DEF Row, RowStatuses
<1>2. CASE row.status = "pending" /\ row.wait > 0
  <2>1. Aged(row) = [row EXCEPT !.wait = @ - 1]
    BY <1>2 DEF Aged
  <2> QED BY <1>2, <2>1 DEF Row, RowStatuses
<1>3. CASE /\ ~(row.status = "sending" /\ row.since <= StaleAfter)
           /\ ~(row.status = "pending" /\ row.wait > 0)
  BY <1>3 DEF Aged
<1> QED BY <1>1, <1>2, <1>3

(* Every action keeps the types.                                           *)
LEMMA TypeStep == TypeOK /\ [Next]_vars => TypeOK'
<1> SUFFICES ASSUME TypeOK, [Next]_vars PROVE TypeOK'
  OBVIOUS
<1> USE DEF TypeOK
<1>1. ASSUME NEW p \in Posts, CreatePost(p) PROVE TypeOK'
  BY <1>1 DEF CreatePost
<1>2. ASSUME NEW a \in Admins, NEW p \in Posts, OpenPublish(a, p) PROVE TypeOK'
  <2>1. [post |-> p, seen |-> posts[p]] \in Admin
    BY DEF Admin
  <2> QED BY <1>2, <2>1 DEF OpenPublish
<1>3. ASSUME NEW a \in Admins, ClosePublish(a) PROVE TypeOK'
  <2> DEFINE p == admins[a].post
  <2>1. p \in Posts
    BY <1>3 DEF ClosePublish, Admin
  <2>2. admins' \in [Admins -> Admin]
    BY <1>3 DEF ClosePublish, Admin
  <2>3. Enqueued(p) \in [Pairs -> Row]
    BY EntryType DEF Enqueued, NewRow, RowStatuses
  <2> HIDE DEF p
  <2>4. posts' \in [Posts -> {"absent", "draft", "published"}] /\ queue' \in [Pairs -> Row]
    BY <1>3, <2>1, <2>3 DEF ClosePublish, p
  <2> QED BY <1>3, <2>2, <2>4 DEF ClosePublish
<1>4. ASSUME NEW a \in Admins, AbortPublish(a) PROVE TypeOK'
  BY <1>4 DEF AbortPublish, Admin
<1>5. ASSUME NEW m \in Members, Toggle(m) PROVE TypeOK'
  BY <1>5 DEF Toggle
<1>6. CASE Reconfigure
  BY <1>6 DEF Reconfigure
<1>7. ASSUME NEW w \in Workers, StartClaim(w) PROVE TypeOK'
  <2>1. PICK S \in SUBSET Pickable(w): workers' = [workers EXCEPT ![w] = Claiming(Stale, S)]
    BY <1>7 DEF StartClaim
  <2>2. Claiming(Stale, S) \in Worker
    BY ClaimingType DEF Stale, Pickable, Due
  <2> QED BY <1>7, <2>1, <2>2 DEF StartClaim
<1>8. ASSUME NEW w \in Workers, CommitClaim(w) PROVE TypeOK'
  <2>1. \A d \in Pairs: Interrupted(queue[d]) \in Row /\ Claimed(queue[d]) \in Row
    BY EntryType DEF Interrupted, Claimed, Row, RowStatuses
  <2>2. Sending(workers[w].picked) \in Worker
    BY AtType DEF Worker, Reports
  <2> QED BY <1>8, <2>1, <2>2 DEF CommitClaim
<1>9. ASSUME NEW w \in Workers, NEW d \in Pairs, NextRow(w, d) PROVE TypeOK'
  <2> DEFINE rest == workers[w].todo \ {d}
  <2>1. rest \in SUBSET Pairs /\ queue[d].attempts \in Nat /\ "refused" \in Reports
    BY DEF Worker, Row, Reports
  <2>2. /\ Sending(rest) \in Worker
        /\ \A pc \in {"loaded", "ineligible"}: At(pc, rest, d, queue[d].attempts, "refused") \in Worker
    BY <2>1, AtType
  <2>3. PICK wk \in Worker: workers' = [workers EXCEPT ![w] = wk]
    BY <1>9, <2>2 DEF NextRow
  <2> QED BY <1>9, <2>3 DEF NextRow
<1>10. ASSUME NEW w \in Workers, Send(w) PROVE TypeOK'
  <2>1. PICK o \in Outcomes:
          /\ mails' = [mails EXCEPT ![workers[w].row] = @ + o[1]]
          /\ workers' = [workers EXCEPT ![w] = At("answered", @.todo, @.row, @.attempts, o[2])]
    BY <1>10 DEF Send
  <2>2. o[1] \in Nat /\ o[2] \in Reports
    BY DEF Outcomes, Reports
  <2>3. At("answered", workers[w].todo, workers[w].row, workers[w].attempts, o[2]) \in Worker
    BY <2>2, AtType DEF Worker
  <2>4. mails' \in [Pairs -> Nat]
    <3> DEFINE r == workers[w].row
               n == mails[r] + o[1]
    <3>1. mails' = [mails EXCEPT ![r] = n]
      BY <2>1
    <3>2. r \in Pairs => n \in Nat
      BY <2>2
    <3> HIDE DEF r, n
    <3> QED BY <3>1, <3>2
  <2>5. workers' \in [Workers -> Worker]
    BY <2>1, <2>3
  <2> QED BY <1>10, <2>4, <2>5 DEF Send
<1>11. ASSUME NEW w \in Workers, Record(w) PROVE TypeOK'
  <2>1. PICK after \in RetryAfters: queue' = [queue EXCEPT ![workers[w].row] = Recorded(w, after)]
    BY <1>11 DEF Record
  <2>2. workers[w].row \in Pairs => Recorded(w, after) \in Row
    BY RecordedType
  <2>3. Sending(workers[w].todo) \in Worker
    BY AtType DEF Worker, Reports
  <2> QED BY <1>11, <2>1, <2>2, <2>3 DEF Record
<1>12. ASSUME NEW w \in Workers, EndPass(w) PROVE TypeOK'
  <2>1. Idle \in Worker
    BY AtType DEF Reports
  <2> QED BY <1>12, <2>1 DEF EndPass
<1>13. ASSUME NEW w \in Workers, Crash(w) PROVE TypeOK'
  <2>1. Idle \in Worker
    BY AtType DEF Reports
  <2> QED BY <1>13, <2>1 DEF Crash
<1>14. CASE Tick
  BY <1>14, AgedType DEF Tick
<1>15. CASE UNCHANGED vars
  BY <1>15 DEF vars
<1> QED
  BY <1>1, <1>2, <1>3, <1>4, <1>5, <1>6, <1>7, <1>8, <1>9, <1>10, <1>11, <1>12, <1>13, <1>14, <1>15
  DEF Next, Pass

(* The initial values have their types.                                    *)
LEMMA TypeInit == Init => TypeOK
<1> SUFFICES ASSUME Init PROVE TypeOK
  OBVIOUS
<1>1. NoRow \in Row
  BY EntryType DEF NoRow, RowStatuses
<1>2. Idle \in Worker
  BY AtType DEF Reports
<1> QED BY <1>1, <1>2 DEF Init, TypeOK, Admin

(* The variables keep their types in every execution.                      *)
THEOREM MailTypeCorrect == Spec => []TypeOK
  BY TypeInit, TypeStep, PTL DEF Spec

(***************************************************************************)
(* The invariant.  A row is locked, and is being worked on, by at most one *)
(* worker; what a worker holds in memory agrees with the row and with what *)
(* reached the transport, even when another worker failed its claim; a     *)
(* publish request sees the post as it is.                                 *)
(***************************************************************************)
LockedBy(wk) == wk.stale \cup wk.picked
Held(wk) == wk.todo \cup ({wk.row} \ {None})

Shape(wk) ==
  /\ wk.pc # "claiming" => wk.stale = {} /\ wk.picked = {}
  /\ wk.pc \in {"idle", "claiming"} => wk.todo = {}
  /\ wk.row = None <=> wk.pc \in {"idle", "claiming", "sending"}
  /\ wk.row \notin wk.todo

Shapes == \A w \in Workers: Shape(workers[w])

Apart ==
  \A w, o \in Workers: w # o =>
    /\ LockedBy(workers[w]) \cap LockedBy(workers[o]) = {}
    /\ Held(workers[w]) \cap Held(workers[o]) = {}

RowsAgree ==
  \A w \in Workers, d \in Pairs:
    /\ d \in workers[w].stale => queue[d].status = "sending"
    /\ d \in workers[w].picked => queue[d].status = "pending"
    /\ d \in Held(workers[w]) => queue[d].status \in {"sending", "failed"}

MailsAgree ==
  \A w \in Workers:
    /\ \A d \in workers[w].todo: mails[d] = 0
    /\ workers[w].pc \in {"loaded", "ineligible"} => mails[workers[w].row] = 0
    /\ workers[w].pc = "answered" =>
         /\ workers[w].report = "accepted" => mails[workers[w].row] = 1
         /\ workers[w].report \in {"retryable", "unavailable"} => mails[workers[w].row] = 0

AtMostOnce == \A d \in Pairs: mails[d] \in {0, 1}

Requests ==
  \A a \in Admins: admins[a].post # None =>
    /\ admins[a].seen = posts[admins[a].post] /\ admins[a].seen # "absent"
    /\ \A b \in Admins \ {a}: admins[b].post # admins[a].post

QueuedWhenPublished == \A d \in Pairs: queue[d].status # "absent" => posts[d[1]] = "published"

MailInv ==
  /\ TypeOK /\ Shapes /\ Apart /\ RowsAgree /\ MailsAgree /\ AtMostOnce
  /\ Requests /\ QueuedWhenPublished /\ StatusIsTruthful

(* At the start there are no rows, no claims and no requests.              *)
LEMMA InitInv == Init => MailInv
<1> SUFFICES ASSUME Init PROVE MailInv
  OBVIOUS
<1>1. TypeOK
  BY TypeInit
<1>2. \A w \in Workers: workers[w] = Idle
  BY DEF Init
<1>3. \A d \in Pairs: queue[d].status = "absent" /\ mails[d] = 0
  BY DEF Init, NoRow, Entry
<1>4. Shapes /\ Apart /\ RowsAgree /\ MailsAgree
  BY <1>2 DEF Shapes, Shape, Apart, RowsAgree, MailsAgree, LockedBy, Held, Idle, At
<1>5. Requests
  BY DEF Requests, Init
<1>6. AtMostOnce /\ QueuedWhenPublished /\ StatusIsTruthful
  BY <1>3 DEF AtMostOnce, QueuedWhenPublished, StatusIsTruthful
<1> QED BY <1>1, <1>4, <1>5, <1>6 DEF MailInv

(* The requests of administrators and members.                             *)
LEMMA PublishStep ==
  ASSUME MailInv, TypeOK', NEW a \in Admins, ClosePublish(a)
  PROVE  MailInv'
<1> DEFINE p == admins[a].post
<1>1. p \in Posts /\ UNCHANGED <<workers, mails>>
  BY DEF ClosePublish, MailInv, TypeOK, Admin
<1>2. admins' = [admins EXCEPT ![a].post = None]
  BY DEF ClosePublish
<1>3. CASE admins[a].seen = "published"
  <2>1. UNCHANGED <<posts, queue>>
    BY <1>3 DEF ClosePublish
  <2>2. Requests'
    BY <1>2, <2>1 DEF Requests, MailInv, TypeOK, Admin
  <2> QED
    BY <1>1, <2>1, <2>2 DEF MailInv, Shapes, Apart, RowsAgree, MailsAgree, AtMostOnce,
      QueuedWhenPublished, StatusIsTruthful
<1>4. CASE admins[a].seen # "published"
  <2>1. posts' = [posts EXCEPT ![p] = "published"] /\ queue' = Enqueued(p)
    BY <1>1, <1>4 DEF ClosePublish
  <2>2. \A d \in Pairs: \/ queue'[d] = queue[d]
                        \/ /\ queue[d].status = "absent" /\ queue'[d].status = "pending"
                           /\ d[1] = p
    BY <2>1 DEF Enqueued, NewRow, Entry
  <2>3. Requests'
    <3> SUFFICES ASSUME NEW b \in Admins, admins'[b].post # None
                 PROVE  /\ admins'[b].seen = posts'[admins'[b].post]
                        /\ admins'[b].seen # "absent"
                        /\ \A c \in Admins \ {b}: admins'[c].post # admins'[b].post
      BY DEF Requests
    <3>1. b # a /\ admins'[b] = admins[b]
      BY <1>2 DEF MailInv, TypeOK, Admin
    <3>2. admins[b].post # p /\ admins[b].seen = posts[admins[b].post]
      BY <1>1, <3>1, NoneIsNew DEF MailInv, Requests
    <3>3. admins[b].post \in Posts
      BY <3>1 DEF MailInv, TypeOK, Admin
    <3>4. \A c \in Admins: admins'[c].post \in {None, admins[c].post}
      BY <1>2 DEF MailInv, TypeOK, Admin
    <3> HIDE DEF p
    <3>5. posts'[admins'[b].post] = posts[admins[b].post]
      BY <1>1, <2>1, <3>1, <3>2, <3>3 DEF MailInv, TypeOK
    <3> QED BY <3>1, <3>2, <3>3, <3>4, <3>5 DEF MailInv, Requests
  <2>4. RowsAgree'
    BY <1>1, <2>2 DEF MailInv, RowsAgree
  <2>5. QueuedWhenPublished'
    BY <1>1, <2>1, <2>2 DEF MailInv, QueuedWhenPublished, TypeOK, Pairs
  <2>6. StatusIsTruthful'
    BY <1>1, <2>2 DEF MailInv, StatusIsTruthful
  <2> QED
    BY <1>1, <2>3, <2>4, <2>5, <2>6 DEF MailInv, Shapes, Apart, MailsAgree, AtMostOnce
<1> QED BY <1>3, <1>4

(* Other requests touch neither the rows nor the workers.                  *)
LEMMA RequestStep ==
  ASSUME MailInv, TypeOK',
         \/ \E p \in Posts: CreatePost(p)
         \/ \E a \in Admins, p \in Posts: OpenPublish(a, p)
         \/ \E a \in Admins: AbortPublish(a)
         \/ \E m \in Members: Toggle(m)
         \/ Reconfigure
         \/ UNCHANGED vars
  PROVE  MailInv'
<1>1. UNCHANGED <<queue, workers, mails>>
  BY DEF CreatePost, OpenPublish, AbortPublish, Toggle, Reconfigure, vars
<1>2. Requests'
  <2>1. ASSUME NEW p \in Posts, CreatePost(p) PROVE Requests'
    BY <2>1, NoneIsNew DEF CreatePost, MailInv, Requests, TypeOK, Admin
  <2>2. ASSUME NEW a \in Admins, NEW p \in Posts, OpenPublish(a, p) PROVE Requests'
    BY <2>2 DEF OpenPublish, PostFree, MailInv, Requests, TypeOK, Admin
  <2>3. ASSUME NEW a \in Admins, AbortPublish(a) PROVE Requests'
    BY <2>3 DEF AbortPublish, MailInv, Requests, TypeOK, Admin
  <2>4. CASE UNCHANGED <<posts, admins>>
    BY <2>4 DEF MailInv, Requests
  <2> QED BY <2>1, <2>2, <2>3, <2>4 DEF Toggle, Reconfigure, vars
<1>3. \A p \in Posts: posts[p] = "published" => posts'[p] = "published"
  BY DEF CreatePost, OpenPublish, AbortPublish, Toggle, Reconfigure, vars, MailInv, TypeOK
<1>4. QueuedWhenPublished'
  BY <1>1, <1>3 DEF MailInv, QueuedWhenPublished, Pairs
<1> QED
  BY <1>1, <1>2, <1>4 DEF MailInv, Shapes, Apart, RowsAgree, MailsAgree, AtMostOnce, StatusIsTruthful

(***************************************************************************)
(* The steps of a pass                                                     *)
(***************************************************************************)
(* The rows a pass locks were locked by nobody and held by nobody.         *)
LEMMA StartClaimStep ==
  ASSUME MailInv, TypeOK', NEW w \in Workers, StartClaim(w)
  PROVE  MailInv'
<1>1. PICK S \in SUBSET Pickable(w): workers' = [workers EXCEPT ![w] = Claiming(Stale, S)]
  BY DEF StartClaim
<1>2. UNCHANGED <<posts, queue, admins, mails>> /\ Stale \cap Locked(w) = {}
  BY DEF StartClaim
<1> DEFINE new == Claiming(Stale, S)
<1>3. /\ new.pc = "claiming" /\ new.stale = Stale /\ new.picked = S
      /\ new.todo = {} /\ new.row = None
  BY DEF Claiming
<1> HIDE DEF new
<1>4. workers'[w] = new /\ \A o \in Workers: o # w => workers'[o] = workers[o]
  BY <1>1 DEF MailInv, TypeOK, new
<1>5. Shapes'
  BY <1>3, <1>4 DEF MailInv, Shapes, Shape
<1>6. Apart'
  <2>1. Held(new) = {} /\ LockedBy(new) = Stale \cup S
    BY <1>3 DEF Held, LockedBy
  <2>2. \A o \in Workers: o # w => LockedBy(workers[o]) \subseteq Locked(w)
    BY DEF LockedBy, Locked
  <2>3. (Stale \cup S) \cap Locked(w) = {}
    BY <1>2 DEF Pickable
  <2> QED BY <1>4, <2>1, <2>2, <2>3 DEF MailInv, Apart
<1>7. RowsAgree'
  <2>1. \A d \in Stale: queue[d].status = "sending"
    BY DEF Stale
  <2>2. \A d \in S: queue[d].status = "pending"
    BY DEF Pickable, Due
  <2>3. Held(new) = {}
    BY <1>3 DEF Held
  <2> QED BY <1>2, <1>3, <1>4, <2>1, <2>2, <2>3 DEF MailInv, RowsAgree
<1>8. MailsAgree'
  BY <1>2, <1>3, <1>4 DEF MailInv, MailsAgree
<1> QED
  BY <1>2, <1>5, <1>6, <1>7, <1>8 DEF MailInv, AtMostOnce, Requests, QueuedWhenPublished, StatusIsTruthful

(* A committed claim hands pending rows, never emailed, to one worker.     *)
LEMMA CommitClaimStep ==
  ASSUME MailInv, TypeOK', NEW w \in Workers, CommitClaim(w)
  PROVE  MailInv'
<1> DEFINE S == workers[w].stale
           P == workers[w].picked
           new == Sending(P)
<1>1. UNCHANGED <<posts, admins, mails>> /\ workers[w].pc = "claiming"
  BY DEF CommitClaim
<1>2. \A d \in Pairs:
        /\ d \in S => queue[d].status = "sending" /\ queue'[d].status = "failed"
        /\ d \in P => queue[d].status = "pending" /\ queue'[d].status = "sending"
        /\ d \notin S \cup P => queue'[d] = queue[d]
  BY DEF CommitClaim, Interrupted, Claimed, Entry, MailInv, RowsAgree
<1>3. /\ new.pc = "sending" /\ new.stale = {} /\ new.picked = {}
      /\ new.todo = P /\ new.row = None
  BY DEF Sending, At
<1>4. workers'[w] = new /\ \A o \in Workers: o # w => workers'[o] = workers[o]
  BY DEF CommitClaim, MailInv, TypeOK
<1>5. S \subseteq Pairs /\ P \subseteq Pairs /\ None \notin P
  BY NoneIsNew DEF MailInv, TypeOK, Worker, Pairs
<1>6. \A o \in Workers: o # w => (S \cup P) \cap LockedBy(workers[o]) = {}
  BY DEF MailInv, Apart, LockedBy
<1>7. \A o \in Workers: Held(workers[o]) \subseteq Pairs
  BY DEF MailInv, TypeOK, Worker, Held
<1>8. \A o \in Workers, d \in P: d \notin Held(workers[o])
  BY <1>2, <1>5 DEF MailInv, RowsAgree
<1> HIDE DEF new, S, P
<1>9. Held(new) = P /\ LockedBy(new) = {}
  BY <1>3 DEF Held, LockedBy
<1>10. Shapes'
  BY <1>3, <1>4, <1>5 DEF MailInv, Shapes, Shape
<1>11. Apart'
  BY <1>4, <1>8, <1>9 DEF MailInv, Apart
<1>12. RowsAgree'
  <2> SUFFICES ASSUME NEW o \in Workers, NEW d \in Pairs
               PROVE  /\ d \in workers'[o].stale => queue'[d].status = "sending"
                      /\ d \in workers'[o].picked => queue'[d].status = "pending"
                      /\ d \in Held(workers'[o]) => queue'[d].status \in {"sending", "failed"}
    BY DEF RowsAgree
  <2>1. CASE o = w
    BY <1>2, <1>3, <1>4, <1>9, <2>1
  <2>2. CASE o # w
    <3>1. d \in S \cup P => d \notin workers[o].stale \cup workers[o].picked
      BY <1>6, <2>2 DEF LockedBy
    <3>2. d \in P => d \notin Held(workers[o])
      BY <1>8
    <3> QED BY <1>2, <1>4, <2>2, <3>1, <3>2 DEF MailInv, RowsAgree
  <2> QED BY <2>1, <2>2
<1>13. MailsAgree'
  <2>1. \A d \in P: mails[d] = 0
    BY <1>2, <1>5 DEF MailInv, StatusIsTruthful
  <2> QED BY <1>1, <1>3, <1>4, <2>1 DEF MailInv, MailsAgree
<1>14. QueuedWhenPublished'
  <2>1. \A d \in Pairs: queue'[d].status # "absent" => queue[d].status # "absent"
    BY <1>2
  <2> QED BY <1>1, <2>1 DEF MailInv, QueuedWhenPublished
<1>15. StatusIsTruthful'
  BY <1>1, <1>2 DEF MailInv, StatusIsTruthful
<1> QED
  BY <1>1, <1>10, <1>11, <1>12, <1>13, <1>14, <1>15 DEF MailInv, AtMostOnce, Requests

(* Steps that change only the memory of w, which goes on with some of the  *)
(* rows it held.                                                           *)
LEMMA MemoryStep ==
  ASSUME MailInv, TypeOK', NEW w \in Workers, NEW new,
         workers' = [workers EXCEPT ![w] = new],
         UNCHANGED <<posts, queue, admins, mails>>,
         Shape(new), LockedBy(new) = {}, Held(new) \subseteq Held(workers[w]),
         \A d \in new.todo: mails[d] = 0,
         new.pc \in {"loaded", "ineligible"} => mails[new.row] = 0,
         new.pc # "answered"
  PROVE  MailInv'
<1>1. workers'[w] = new /\ \A o \in Workers: o # w => workers'[o] = workers[o]
  BY DEF MailInv, TypeOK
<1>2. Shapes'
  BY <1>1 DEF MailInv, Shapes
<1>3. Apart'
  BY <1>1 DEF MailInv, Apart
<1>4. RowsAgree'
  <2>1. new.stale = {} /\ new.picked = {}
    BY DEF LockedBy
  <2> QED BY <1>1, <2>1 DEF MailInv, RowsAgree
<1>5. MailsAgree'
  BY <1>1 DEF MailInv, MailsAgree
<1> QED
  BY <1>2, <1>3, <1>4, <1>5 DEF MailInv, AtMostOnce, Requests, QueuedWhenPublished, StatusIsTruthful

(* The row read next was held already, and has not been emailed.           *)
LEMMA NextRowStep ==
  ASSUME MailInv, TypeOK', NEW w \in Workers, NEW d \in Pairs, NextRow(w, d)
  PROVE  MailInv'
<1> DEFINE rest == workers[w].todo \ {d}
           pc == IF posts[d[1]] = "published" /\ d[2] \in eligible THEN "loaded" ELSE "ineligible"
           n == queue[d].attempts
<1>1. d # None /\ d \in workers[w].todo /\ mails[d] = 0
  BY NoneIsNew DEF NextRow, Pairs, MailInv, MailsAgree
<1>2. pc \in {"loaded", "ineligible"} /\ \A e \in rest: mails[e] = 0
  BY DEF MailInv, MailsAgree
<1>3. UNCHANGED <<posts, queue, admins, mails>>
  BY DEF NextRow
<1>4. None \notin rest
  BY NoneIsNew DEF MailInv, TypeOK, Worker, Pairs
<1>5. rest \subseteq Held(workers[w]) /\ d \in Held(workers[w]) /\ d \notin rest
  BY <1>1 DEF Held
<1>6. \/ workers' = [workers EXCEPT ![w] = At(pc, rest, d, n, "refused")]
      \/ workers' = [workers EXCEPT ![w] = Sending(rest)]
  BY DEF NextRow
<1> HIDE DEF rest, pc, n
<1>7. CASE workers' = [workers EXCEPT ![w] = At(pc, rest, d, n, "refused")]
  <2> DEFINE new == At(pc, rest, d, n, "refused")
  <2>1. new.pc = pc /\ new.stale = {} /\ new.picked = {} /\ new.todo = rest /\ new.row = d
    BY DEF At
  <2> HIDE DEF new
  <2>2. Shape(new) /\ LockedBy(new) = {} /\ Held(new) \subseteq Held(workers[w])
    BY <1>1, <1>2, <1>5, <2>1 DEF Shape, LockedBy, Held
  <2>3. workers' = [workers EXCEPT ![w] = new]
    BY <1>7 DEF new
  <2> QED BY <1>1, <1>2, <1>3, <2>1, <2>2, <2>3, MemoryStep
<1>8. CASE workers' = [workers EXCEPT ![w] = Sending(rest)]
  <2> DEFINE new == Sending(rest)
  <2>1. new.pc = "sending" /\ new.stale = {} /\ new.picked = {} /\ new.todo = rest /\ new.row = None
    BY DEF Sending, At
  <2> HIDE DEF new
  <2>2. Shape(new) /\ LockedBy(new) = {} /\ Held(new) \subseteq Held(workers[w])
    BY <1>4, <1>5, <2>1 DEF Shape, LockedBy, Held
  <2>3. workers' = [workers EXCEPT ![w] = new]
    BY <1>8 DEF new
  <2> QED BY <1>2, <1>3, <2>1, <2>2, <2>3, MemoryStep
<1> QED BY <1>6, <1>7, <1>8

(* The pass ends, or the process does.                                     *)
LEMMA StopStep ==
  ASSUME MailInv, TypeOK', NEW w \in Workers, EndPass(w) \/ Crash(w)
  PROVE  MailInv'
<1>1. Idle.pc = "idle" /\ Idle.stale = {} /\ Idle.picked = {} /\ Idle.todo = {} /\ Idle.row = None
  BY DEF Idle, At
<1>2. Shape(Idle) /\ LockedBy(Idle) = {} /\ Held(Idle) = {}
  BY <1>1 DEF Shape, LockedBy, Held
<1>3. workers' = [workers EXCEPT ![w] = Idle] /\ UNCHANGED <<posts, queue, admins, mails>>
  BY DEF EndPass, Crash
<1> HIDE DEF Idle
<1> QED BY <1>1, <1>2, <1>3, MemoryStep

(* A worker that has loaded its row calls the transport: at most one email *)
(* leaves, and the report does not contradict it.                          *)
LEMMA SendEffect ==
  ASSUME MailInv, NEW w \in Workers, Send(w)
  PROVE  LET d == workers[w].row IN
         /\ d \in Held(workers[w]) /\ d \in Pairs /\ mails[d] = 0
         /\ \A e \in Pairs: e # d => mails'[e] = mails[e]
         /\ mails'[d] \in {0, 1}
         /\ \E report \in Reports:
              /\ workers' = [workers EXCEPT ![w] =
                   At("answered", workers[w].todo, d, workers[w].attempts, report)]
              /\ report = "accepted" => mails'[d] = 1
              /\ report \in {"retryable", "unavailable"} => mails'[d] = 0
<1> DEFINE d == workers[w].row
<1>1. PICK o \in Outcomes:
        /\ mails' = [mails EXCEPT ![d] = @ + o[1]]
        /\ workers' = [workers EXCEPT ![w] = At("answered", @.todo, @.row, @.attempts, o[2])]
  BY DEF Send
<1>2. /\ o[1] \in {0, 1} /\ o[2] \in Reports
      /\ o[2] = "accepted" => o[1] = 1
      /\ o[2] \in {"retryable", "unavailable"} => o[1] = 0
  BY DEF Outcomes, Reports
<1>3. workers[w].pc = "loaded"
  BY DEF Send
<1>4. d # None /\ d \in Pairs /\ mails[d] = 0
  BY <1>3 DEF MailInv, Shapes, Shape, TypeOK, Worker, MailsAgree
<1>5. d \in Held(workers[w])
  BY <1>4 DEF Held
<1>6. mails \in [Pairs -> Nat]
  BY DEF MailInv, TypeOK
<1>7. workers' = [workers EXCEPT ![w] = At("answered", workers[w].todo, d, workers[w].attempts, o[2])]
  BY <1>1
<1> DEFINE k == o[1]
<1>8. mails' = [mails EXCEPT ![d] = @ + k] /\ k \in {0, 1}
  BY <1>1, <1>2
<1> HIDE DEF d, k
<1>9. mails'[d] = k /\ \A e \in Pairs: e # d => mails'[e] = mails[e]
  BY <1>4, <1>6, <1>8
<1> QED BY <1>2, <1>4, <1>5, <1>7, <1>9 DEF d, k

(* Calling the transport keeps the invariant.                              *)
LEMMA SendStep ==
  ASSUME MailInv, TypeOK', NEW w \in Workers, Send(w)
  PROVE  MailInv'
<1> DEFINE d == workers[w].row
           T == workers[w].todo
<1>1. /\ d \in Held(workers[w]) /\ d \in Pairs /\ mails[d] = 0
      /\ \A e \in Pairs: e # d => mails'[e] = mails[e]
      /\ mails'[d] \in {0, 1}
  BY SendEffect
<1>2. PICK report \in Reports:
        /\ workers' = [workers EXCEPT ![w] = At("answered", T, d, workers[w].attempts, report)]
        /\ report = "accepted" => mails'[d] = 1
        /\ report \in {"retryable", "unavailable"} => mails'[d] = 0
  BY SendEffect
<1>3. UNCHANGED <<posts, queue, admins>>
  BY DEF Send
<1> DEFINE new == At("answered", T, d, workers[w].attempts, report)
<1>4. /\ new.pc = "answered" /\ new.stale = {} /\ new.picked = {}
      /\ new.todo = T /\ new.row = d /\ new.report = report
  BY DEF At
<1> HIDE DEF new
<1>5. workers'[w] = new /\ \A o \in Workers: o # w => workers'[o] = workers[o]
  BY <1>2 DEF MailInv, TypeOK, new
<1>6. d # None /\ d \notin T /\ T \subseteq Pairs
  BY <1>1, NoneIsNew DEF Pairs, MailInv, Shapes, Shape, TypeOK, Worker
<1>7. LockedBy(new) = {} /\ Held(new) = Held(workers[w])
  BY <1>4 DEF LockedBy, Held
<1>8. \A o \in Workers: o # w => d \notin Held(workers[o])
  BY <1>1 DEF MailInv, Apart
<1>9. queue[d].status \in {"sending", "failed"}
  BY <1>1 DEF MailInv, RowsAgree
<1> HIDE DEF d, T
<1>10. Shapes'
  BY <1>4, <1>5, <1>6 DEF MailInv, Shapes, Shape
<1>11. Apart'
  BY <1>5, <1>7 DEF MailInv, Apart
<1>12. RowsAgree'
  BY <1>3, <1>4, <1>5, <1>7 DEF MailInv, RowsAgree
<1>13. MailsAgree'
  <2> SUFFICES ASSUME NEW o \in Workers
               PROVE  /\ \A e \in workers'[o].todo: mails'[e] = 0
                      /\ workers'[o].pc \in {"loaded", "ineligible"} => mails'[workers'[o].row] = 0
                      /\ workers'[o].pc = "answered" =>
                           /\ workers'[o].report = "accepted" => mails'[workers'[o].row] = 1
                           /\ workers'[o].report \in {"retryable", "unavailable"} =>
                                mails'[workers'[o].row] = 0
    BY DEF MailsAgree
  <2>1. CASE o = w
    <3>1. \A e \in T: mails'[e] = 0
      BY <1>1, <1>6 DEF MailInv, MailsAgree, T
    <3> QED BY <1>2, <1>4, <1>5, <2>1, <3>1
  <2>2. CASE o # w
    <3>1. workers'[o] = workers[o] /\ d \notin Held(workers[o])
      BY <1>5, <1>8, <2>2
    <3>2. workers[o].todo \subseteq Pairs /\ d \notin workers[o].todo
      BY <3>1 DEF Held, MailInv, TypeOK, Worker
    <3>3. workers[o].pc \in {"loaded", "ineligible", "answered"} =>
            workers[o].row \in Pairs /\ workers[o].row # d
      BY <1>6, <3>1 DEF Held, MailInv, TypeOK, Worker, Shapes, Shape
    <3> QED BY <1>1, <3>1, <3>2, <3>3 DEF MailInv, MailsAgree
  <2> QED BY <2>1, <2>2
<1>14. AtMostOnce'
  BY <1>1 DEF MailInv, AtMostOnce
<1>15. StatusIsTruthful'
  BY <1>1, <1>3, <1>9 DEF MailInv, StatusIsTruthful
<1> QED
  BY <1>3, <1>10, <1>11, <1>12, <1>13, <1>14, <1>15 DEF MailInv, Requests, QueuedWhenPublished

(* What is recorded does not contradict what the transport did.            *)
LEMMA RecordedTruth ==
  ASSUME MailInv, NEW w \in Workers, NEW after \in RetryAfters,
         workers[w].pc \in {"ineligible", "answered"}
  PROVE  LET d == workers[w].row
             status == Recorded(w, after).status IN
         /\ status = "sent" => mails[d] = 1
         /\ status \in {"pending", "skipped"} => mails[d] = 0
<1> DEFINE wk == workers[w]
<1>1. \A status, n, wait: Entry(status, n, wait).status = status
  BY DEF Entry
<1>2. wk.report \in Reports
  BY DEF MailInv, TypeOK, Worker
<1>3. CASE wk.pc = "ineligible"
  <2>1. Recorded(w, after).status = "skipped"
    BY <1>1, <1>3 DEF Recorded
  <2> QED BY <1>3, <2>1 DEF MailInv, MailsAgree
<1>4. CASE wk.pc = "answered" /\ wk.report = "accepted"
  <2>1. Recorded(w, after).status = "sent"
    BY <1>1, <1>4 DEF Recorded
  <2> QED BY <1>4, <2>1 DEF MailInv, MailsAgree
<1>5. CASE wk.pc = "answered" /\ wk.report \in {"retryable", "unavailable"}
  <2>1. Recorded(w, after).status \in {"pending", "failed"}
    BY <1>1, <1>5 DEF Recorded
  <2> QED BY <1>5, <2>1 DEF MailInv, MailsAgree
<1>6. CASE wk.pc = "answered" /\ wk.report = "refused"
  <2>1. Recorded(w, after).status = "failed"
    BY <1>1, <1>6 DEF Recorded
  <2> QED BY <2>1
<1> QED BY <1>2, <1>3, <1>4, <1>5, <1>6 DEF Reports

(* Recording an outcome keeps the invariant: nobody else has the row.      *)
LEMMA RecordStep ==
  ASSUME MailInv, TypeOK', NEW w \in Workers, Record(w)
  PROVE  MailInv'
<1> DEFINE d == workers[w].row
           T == workers[w].todo
           new == Sending(T)
<1>1. PICK after \in RetryAfters: queue' = [queue EXCEPT ![d] = Recorded(w, after)]
  BY DEF Record
<1>2. workers[w].pc \in {"ineligible", "answered"} /\ d \notin Locked(w)
  BY DEF Record
<1>3. UNCHANGED <<posts, admins, mails>> /\ workers' = [workers EXCEPT ![w] = new]
  BY DEF Record
<1>4. d # None /\ d \in Pairs /\ d \notin T /\ T \subseteq Pairs
  BY <1>2 DEF MailInv, TypeOK, Worker, Shapes, Shape
<1>5. d \in Held(workers[w]) /\ T \subseteq Held(workers[w])
  BY <1>4 DEF Held
<1>6. queue[d].status \in {"sending", "failed"}
  BY <1>4, <1>5 DEF MailInv, RowsAgree
<1>7. /\ Recorded(w, after).status \in {"pending", "sent", "failed", "skipped"}
      /\ Recorded(w, after).status = "sent" => mails[d] = 1
      /\ Recorded(w, after).status \in {"pending", "skipped"} => mails[d] = 0
  BY <1>2, <1>4, RecordedType, RecordedTruth DEF MailInv
<1>8. queue'[d] = Recorded(w, after) /\ \A e \in Pairs: e # d => queue'[e] = queue[e]
  BY <1>1, <1>4 DEF MailInv, TypeOK
<1>9. new.pc = "sending" /\ new.stale = {} /\ new.picked = {} /\ new.todo = T /\ new.row = None
  BY DEF Sending, At
<1> HIDE DEF new
<1>10. workers'[w] = new /\ \A o \in Workers: o # w => workers'[o] = workers[o]
  BY <1>3 DEF MailInv, TypeOK
<1>11. LockedBy(new) = {} /\ Held(new) = T
  BY <1>4, <1>9, NoneIsNew DEF LockedBy, Held
<1>12. \A o \in Workers: o # w => d \notin Held(workers[o]) /\ d \notin LockedBy(workers[o])
  BY <1>2, <1>5 DEF MailInv, Apart, Locked, LockedBy
<1> HIDE DEF d, T
<1>13. Shapes'
  BY <1>4, <1>9, <1>10, NoneIsNew DEF MailInv, Shapes, Shape, Pairs
<1>14. Apart'
  BY <1>5, <1>10, <1>11 DEF MailInv, Apart
<1>15. RowsAgree'
  <2> SUFFICES ASSUME NEW o \in Workers, NEW e \in Pairs
               PROVE  /\ e \in workers'[o].stale => queue'[e].status = "sending"
                      /\ e \in workers'[o].picked => queue'[e].status = "pending"
                      /\ e \in Held(workers'[o]) => queue'[e].status \in {"sending", "failed"}
    BY DEF RowsAgree
  <2>1. CASE o = w
    <3>1. e \in T => queue'[e] = queue[e] /\ e \in Held(workers[w])
      BY <1>4, <1>5, <1>8
    <3> QED BY <1>9, <1>10, <1>11, <2>1, <3>1 DEF MailInv, RowsAgree
  <2>2. CASE o # w
    <3>1. workers'[o] = workers[o]
      BY <1>10, <2>2
    <3>2. e \in workers[o].stale \cup workers[o].picked \cup Held(workers[o]) => queue'[e] = queue[e]
      BY <1>8, <1>12, <2>2 DEF LockedBy
    <3> QED BY <3>1, <3>2 DEF MailInv, RowsAgree
  <2> QED BY <2>1, <2>2
<1>16. MailsAgree'
  BY <1>3, <1>9, <1>10 DEF MailInv, MailsAgree, T
<1>17. QueuedWhenPublished'
  <2>1. \A e \in Pairs: queue'[e].status # "absent" => queue[e].status # "absent"
    BY <1>6, <1>8
  <2> QED BY <1>3, <2>1 DEF MailInv, QueuedWhenPublished
<1>18. StatusIsTruthful'
  BY <1>3, <1>7, <1>8 DEF MailInv, StatusIsTruthful
<1> QED
  BY <1>3, <1>13, <1>14, <1>15, <1>16, <1>17, <1>18 DEF MailInv, AtMostOnce, Requests

(* Time changes no status.                                                 *)
LEMMA TickStep ==
  ASSUME MailInv, TypeOK', Tick
  PROVE  MailInv'
<1>1. UNCHANGED <<posts, workers, admins, mails>> /\ queue' = [d \in Pairs |-> Aged(queue[d])]
  BY DEF Tick
<1>2. \A d \in Pairs: queue'[d].status = queue[d].status
  BY <1>1, AgedType DEF MailInv, TypeOK
<1>3. \A w \in Workers: Held(workers[w]) \subseteq Pairs
  BY DEF Held, MailInv, TypeOK, Worker
<1> QED
  BY <1>1, <1>2 DEF MailInv, Shapes, Apart, RowsAgree, MailsAgree, AtMostOnce, Requests,
    QueuedWhenPublished, StatusIsTruthful

(* Every step keeps the invariant.                                         *)
LEMMA InvStep == MailInv /\ [Next]_vars => MailInv'
<1> SUFFICES ASSUME MailInv, [Next]_vars PROVE MailInv'
  OBVIOUS
<1>1. TypeOK'
  BY TypeStep DEF MailInv
<1>2. ASSUME NEW a \in Admins, ClosePublish(a) \/ AbortPublish(a) PROVE MailInv'
  BY <1>1, <1>2, PublishStep, RequestStep
<1>3. ASSUME NEW w \in Workers, Pass(w) \/ Crash(w) PROVE MailInv'
  BY <1>1, <1>3, StartClaimStep, CommitClaimStep, NextRowStep, SendStep, RecordStep, StopStep DEF Pass
<1>4. CASE Tick
  BY <1>1, <1>4, TickStep
<1> QED BY <1>1, <1>2, <1>3, <1>4, RequestStep DEF Next

(* The invariant holds in every execution.                                 *)
THEOREM MailInvariant == Spec => []MailInv
  BY InitInv, InvStep, PTL DEF Spec

(* The delivery list an administrator sees tells the truth about every     *)
(* row, however many workers, members and crashes there are.               *)
THEOREM DeliveryListTruthful == Spec => []StatusIsTruthful
<1>1. MailInv => StatusIsTruthful
  BY DEF MailInv
<1> QED BY <1>1, MailInvariant, PTL

(***************************************************************************)
(* Refinement                                                              *)
(***************************************************************************)
Announced == {p \in Posts: posts[p] = "published"}
Owed == {d \in Pairs: queue[d].status # "absent"}

(* Nothing is announced, owed or sent at the start.                        *)
LEMMA PromiseInit == Init => Promise!Init
  BY DEF Init, NoRow, Entry, Promise!Init, Promise!Pairs, Pairs

(* Publishing a draft announces it to the members eligible at that moment. *)
LEMMA PublishAnnounces ==
  ASSUME MailInv, NEW a \in Admins, ClosePublish(a)
  PROVE  [Promise!Next]_Promise!vars
<1> DEFINE p == admins[a].post
<1>1. p \in Posts /\ mails' = mails
  BY DEF ClosePublish, MailInv, TypeOK, Admin
<1>2. CASE admins[a].seen = "published"
  <2>1. UNCHANGED <<posts, queue, mails>>
    BY <1>2 DEF ClosePublish
  <2> QED BY <2>1 DEF Promise!vars
<1>3. CASE admins[a].seen # "published"
  <2>1. posts' = [posts EXCEPT ![p] = "published"] /\ queue' = Enqueued(p)
    BY <1>3 DEF ClosePublish
  <2>2. posts[p] # "published" /\ posts \in [Posts -> {"absent", "draft", "published"}]
    BY <1>1, <1>3, NoneIsNew DEF MailInv, Requests, TypeOK
  <2>3. \A d \in Pairs: d[1] = p => queue[d].status = "absent"
    BY <2>2 DEF MailInv, QueuedWhenPublished
  <2>4. eligible \in SUBSET Members
    BY DEF MailInv, TypeOK
  <2> HIDE DEF p
  <2>5. Announced' = Announced \cup {p} /\ p \notin Announced
    BY <1>1, <2>1, <2>2 DEF Announced
  <2>6. Owed' = Owed \cup ({p} \X eligible)
    <3>1. \A d \in Pairs: d \in Owed' <=> d \in Owed \/ (d[1] = p /\ d[2] \in eligible)
      BY <2>1, <2>3 DEF Owed, Enqueued, NewRow, Entry
    <3>2. Owed \subseteq Pairs /\ Owed' \subseteq Pairs /\ {p} \X eligible \subseteq Pairs
      BY <1>1, <2>4 DEF Owed, Pairs
    <3>3. \A d \in Pairs: d \in {p} \X eligible <=> d[1] = p /\ d[2] \in eligible
      BY DEF Pairs
    <3> QED BY <3>1, <3>2, <3>3
  <2>7. PICK q \in Posts, M \in SUBSET Members: q = p /\ M = eligible
    BY <1>1, <2>4
  <2>8. Promise!Announce(q, M)
    BY <1>1, <2>5, <2>6, <2>7 DEF Promise!Announce, Announced, Owed
  <2> QED BY <2>8 DEF Promise!Next
<1> QED BY <1>2, <1>3

(* Calling the transport for a row delivers it, or changes nothing.        *)
LEMMA SendDelivers ==
  ASSUME MailInv, NEW w \in Workers, Send(w)
  PROVE  [Promise!Next]_Promise!vars
<1> DEFINE d == workers[w].row
<1>1. /\ d \in Held(workers[w]) /\ d \in Pairs /\ mails[d] = 0
      /\ \A e \in Pairs: e # d => mails'[e] = mails[e]
      /\ mails'[d] \in {0, 1}
  BY SendEffect
<1>2. UNCHANGED <<posts, queue>>
  BY DEF Send
<1>3. queue[d].status # "absent"
  BY <1>1 DEF MailInv, RowsAgree
<1>4. mails \in [Pairs -> Nat]
  BY DEF MailInv, TypeOK
<1>5. mails' \in [Pairs -> Nat]
  BY TypeStep DEF MailInv, TypeOK, Next, Pass
<1> HIDE DEF d
<1>6. CASE mails'[d] = 0
  <2>1. mails' = mails
    BY <1>1, <1>4, <1>5, <1>6
  <2> QED BY <1>2, <2>1 DEF Promise!vars
<1>7. CASE mails'[d] = 1
  <2>1. mails' = [mails EXCEPT ![d] = 1]
    BY <1>1, <1>4, <1>5, <1>7
  <2>2. Promise!Deliver(d)
    BY <1>1, <1>2, <1>3, <2>1 DEF Promise!Deliver
  <2> QED BY <1>1, <2>2 DEF Promise!Next, Promise!Pairs, Pairs
<1> QED BY <1>1, <1>6, <1>7

(* A step that queues nothing and sends nothing changes nothing abstract.  *)
LEMMA QuietStep ==
  ASSUME mails' = mails, Announced' = Announced, Owed' = Owed
  PROVE  UNCHANGED Promise!vars
  BY DEF Announced, Owed, Promise!vars

(* Recording an outcome neither queues nor sends.                          *)
LEMMA RecordIsQuiet ==
  ASSUME MailInv, NEW w \in Workers, Record(w)
  PROVE  UNCHANGED Promise!vars
<1> DEFINE d == workers[w].row
<1>1. PICK after \in RetryAfters: queue' = [queue EXCEPT ![d] = Recorded(w, after)]
  BY DEF Record
<1>2. d \in Pairs /\ d # None
  BY DEF Record, MailInv, TypeOK, Worker, Shapes, Shape
<1>3. d \in Held(workers[w])
  BY <1>2 DEF Held
<1>4. queue[d].status # "absent" /\ Recorded(w, after).status # "absent"
  BY <1>2, <1>3, RecordedType DEF MailInv, RowsAgree
<1>5. queue'[d] = Recorded(w, after) /\ \A e \in Pairs: e # d => queue'[e] = queue[e]
  BY <1>1, <1>2 DEF MailInv, TypeOK
<1> HIDE DEF d
<1>6. Owed' = Owed
  BY <1>4, <1>5 DEF Owed
<1> QED BY <1>6, QuietStep DEF Record, Announced

(* Neither do drafting a post, committing a claim and time.                *)
LEMMA QuietSteps ==
  ASSUME MailInv,
         \/ \E p \in Posts: CreatePost(p)
         \/ \E w \in Workers: CommitClaim(w)
         \/ Tick
  PROVE  UNCHANGED Promise!vars
<1>1. ASSUME NEW p \in Posts, CreatePost(p) PROVE UNCHANGED Promise!vars
  <2>1. Announced' = Announced
    BY <1>1 DEF CreatePost, Announced, MailInv, TypeOK
  <2> QED BY <1>1, <2>1, QuietStep DEF CreatePost, Owed
<1>2. ASSUME NEW w \in Workers, CommitClaim(w) PROVE UNCHANGED Promise!vars
  <2>1. \A d \in Pairs: queue'[d].status = "absent" <=> queue[d].status = "absent"
    BY <1>2 DEF CommitClaim, Interrupted, Claimed, Entry, MailInv, RowsAgree
  <2> QED BY <1>2, <2>1, QuietStep DEF CommitClaim, Owed, Announced
<1>3. CASE Tick
  <2>1. \A d \in Pairs: queue'[d].status = queue[d].status
    BY <1>3, AgedType DEF Tick, MailInv, TypeOK
  <2> QED BY <1>3, <2>1, QuietStep DEF Tick, Owed, Announced
<1> QED BY <1>1, <1>2, <1>3

(* Every step is a step of MailPromise or a stutter.                       *)
LEMMA PromiseStep == MailInv /\ [Next]_vars => [Promise!Next]_Promise!vars
<1> SUFFICES ASSUME MailInv, [Next]_vars PROVE [Promise!Next]_Promise!vars
  OBVIOUS
<1>1. CASE UNCHANGED <<posts, queue, mails>>
  BY <1>1 DEF Promise!vars
<1>2. ASSUME NEW w \in Workers, Pass(w) PROVE [Promise!Next]_Promise!vars
  BY <1>1, <1>2, QuietSteps, SendDelivers, RecordIsQuiet DEF Pass, StartClaim, NextRow, EndPass
<1> QED
  BY <1>1, <1>2, PublishAnnounces, QuietSteps
  DEF Next, OpenPublish, AbortPublish, Toggle, Reconfigure, Crash, vars

(* Every execution keeps MailPromise's promise: each post is announced     *)
(* once, to the members eligible then, and each gets at most one email.    *)
THEOREM QueueKeepsPromise == Spec => PromiseKept
<1>1. Init => Promise!Init
  BY PromiseInit
<1>2. MailInv /\ [Next]_vars => [Promise!Next]_Promise!vars
  BY PromiseStep
<1> QED BY <1>1, <1>2, MailInvariant, PTL DEF Spec, PromiseKept, Promise!Spec

=============================================================================
