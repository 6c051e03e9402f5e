--------------------------------- MODULE Chat ---------------------------------
(***************************************************************************)
(* Group and direct chat (api/routes_chat.py, core/ws_manager.py, and the  *)
(* chat routes of routes_students.py and routes_staff.py), with the        *)
(* students of a batch (routes_admin_batches.py).                          *)
(*                                                                         *)
(* A message carries the time its transaction began, a reader's mark the   *)
(* time it was made; a mark stands here for the messages that had begun by *)
(* then.  One process keeps the connections: a message is pushed to those  *)
(* of each recipient, one after the other, and other requests run between  *)
(* two pushes.  One batch and one pair of users stand for all.             *)
(***************************************************************************)
EXTENDS Naturals, FiniteSets, SequencesExt

CONSTANTS
  Students, Coaches,  \* the users of the batch and of the pair
  Pair,               \* the two users of the direct conversation
  Sockets,            \* websocket connections, each of one login
  OwnerOf(_),         \* the user of a connection
  Texts,              \* messages
  Talkers,            \* request threads
  Limits,             \* the capacities a batch may be given
  NoLimit,            \* a batch without one
  ChatPlans,          \* which requests each thread may run, and the first state
  NoUser

VARIABLES
  accounts,   \* the users whose row is there
  logged,     \* the connections whose session is open
  connected,  \* the connections the manager holds
  roster,     \* batch_enrollments
  coach,      \* the batch's trainer
  capacity,   \* the batch's max_capacity
  convo,      \* the users of the conversation's row, {} until there is one
  texts,      \* batch_messages and direct_messages
  readBy,     \* for each channel and user, the messages its mark covers
  talks,      \* the request each thread is running
  chatPlan,   \* the plan of this behaviour
  seenBy,     \* history: the messages a user was shown
  pushes,     \* history: which message went through which connection
  barred,     \* history: the connections and users shut out since the commit
  crossed,    \* history: messages sent while a load of that user was under way
  accepted    \* history: how many students the batch was last left with by its
              \* creation, by a cut of its capacity below what it held, or by an
              \* allocation that another request had overtaken

chatRows == <<accounts, logged, roster, coach, capacity, convo, texts, readBy>>
chatHistory == <<seenBy, pushes, barred, crossed, accepted>>
chatVars == <<chatRows, connected, talks, chatPlan, chatHistory>>

People == Students \cup Coaches
Channels == {"room", "direct"}
Text ==
  [state: {"none", "sending", "here", "lost"}, in: Channels,
   from: People \cup {NoUser}]
Talk ==
  [pc: {"quiet"}]
  \cup [pc: {"send", "sent"}, text: Texts, by: People]
  \cup [pc: {"push"}, text: Texts, by: People, to: Seq(People), left: SUBSET Sockets]
  \cup [pc: {"load"}, in: Channels, by: People, rows: SUBSET Texts]
  \cup [pc: {"allocate"}, who: SUBSET Students, saw: SUBSET Students,
        limit: Limits \cup {NoLimit}]

ASSUME ChatAssumption ==
  /\ IsFiniteSet(Students) /\ Limits \subseteq Nat /\ NoLimit \notin Nat
  /\ Sockets \cap People = {} /\ NoUser \notin People \cup Sockets
  /\ \A s \in Sockets : OwnerOf(s) \in People
  /\ \E u, v \in People : u # v /\ Pair = {u, v}
  /\ \A plan \in ChatPlans :
       /\ plan.connected \subseteq Sockets /\ plan.roster \subseteq Students
       /\ plan.capacity \in Limits \cup {NoLimit}

ChatTypeOK ==
  /\ accounts \subseteq People
  /\ logged \subseteq Sockets /\ connected \subseteq Sockets
  /\ roster \subseteq Students /\ coach \in Coaches \cup {NoUser}
  /\ capacity \in Limits \cup {NoLimit}
  /\ convo \subseteq Pair
  /\ texts \in [Texts -> Text]
  /\ readBy \in [Channels -> [People -> SUBSET Texts]]
  /\ talks \in [Talkers -> Talk]
  /\ seenBy \in [People -> SUBSET Texts]
  /\ pushes \subseteq Sockets \X Texts
  /\ barred \in [Texts -> SUBSET (Sockets \cup People)]
  /\ crossed \subseteq People \X Texts
  /\ accepted \in Nat

Quiet == [pc |-> "quiet"]
(* A batch is created with the students it is given, however many it takes. *)
ChatInit ==
  /\ chatPlan \in ChatPlans
  /\ accounts = People /\ logged = Sockets
  /\ connected = chatPlan.connected
  /\ roster = chatPlan.roster /\ coach \in Coaches
  /\ capacity = chatPlan.capacity /\ accepted = Cardinality(roster)
  /\ convo = {}
  /\ texts = [m \in Texts |-> [state |-> "none", in |-> "room", from |-> NoUser]]
  /\ readBy = [c \in Channels |-> [u \in People |-> {}]]
  /\ talks = [p \in Talkers |-> Quiet]
  /\ seenBy = [u \in People |-> {}]
  /\ pushes = {} /\ crossed = {}
  /\ barred = [m \in Texts |-> {}]

-------------------------------------------------------------------------------
Starting(p, op) == talks[p] = Quiet /\ op \in chatPlan.runs[p]
Becomes(p, q) == talks' = [talks EXCEPT ![p] = q]

InRoom == roster \cup ({coach} \ {NoUser})
Other(u) == CHOOSE v \in Pair : v # u
SignedIn(u) == \E s \in logged : OwnerOf(s) = u
In(c) == {m \in Texts : texts[m].state = "here" /\ texts[m].in = c}
Stamped(c) == {m \in Texts : texts[m].state # "none" /\ texts[m].in = c}

(* Sending: the transaction begins, the sender is checked.                 *)
BeginSend(p, c, who) ==
  /\ \E m \in Texts, u \in who :
       /\ texts[m].state = "none" /\ m \in chatPlan.texts
       /\ texts' = [texts EXCEPT ![m] = [state |-> "sending", in |-> c, from |-> u]]
       /\ Becomes(p, [pc |-> "send", text |-> m, by |-> u])
  /\ UNCHANGED <<accounts, logged, roster, coach, capacity, convo, readBy, connected, chatPlan,
                 chatHistory>>
SendBatchChat(p) ==
  Starting(p, "room") /\ BeginSend(p, "room", {u \in roster : SignedIn(u)})
SendMyBatchChat(p) ==
  Starting(p, "room") /\ BeginSend(p, "room", {u \in {coach} \cap Coaches : SignedIn(u)})
(* The sender's session is checked at each message its connection brings.  *)
ReceiveDirect(p) ==
  /\ Starting(p, "direct")
  /\ BeginSend(p, "direct", {OwnerOf(s) : s \in connected \cap logged} \cap Pair)

LoadersOf(c) ==
  {u \in People : \E p \in Talkers :
     talks[p].pc = "load" /\ talks[p].in = c /\ talks[p].by = u}
(* The message is there; who may see it from now on.                       *)
Commits(m, by, readers) ==
  /\ texts' = [texts EXCEPT ![m] = [@ EXCEPT !.state = "here"]]
  /\ seenBy' = [seenBy EXCEPT ![by] = @ \cup {m}]
  /\ crossed' = crossed \cup {<<u, m>> : u \in LoadersOf(texts[m].in)}
  /\ barred' = [barred EXCEPT ![m] = (Sockets \ logged) \cup (People \ (readers \cup {by}))]

CommitRoomText(p) ==
  LET q == talks[p] IN
  /\ q.pc = "send" /\ texts[q.text].in = "room" /\ q.by \in accounts
  /\ Commits(q.text, q.by, InRoom)
  /\ Becomes(p, [q EXCEPT !.pc = "sent"])
  /\ UNCHANGED <<accounts, logged, roster, coach, capacity, convo, readBy, connected, chatPlan,
                 pushes, accepted>>

Pushing(q, to) == [pc |-> "push", text |-> q.text, by |-> q.by, to |-> to, left |-> {}]
(* A trainer hears itself, a student its batch's trainer.                  *)
Recipients(q) ==
  SetToSeq(IF q.by \in Coaches THEN roster \cup {q.by} ELSE InRoom)
ReadRecipients(p) ==
  /\ talks[p].pc = "sent"
  /\ Becomes(p, Pushing(talks[p], Recipients(talks[p])))
  /\ UNCHANGED <<chatRows, connected, chatPlan, chatHistory>>

(* Both users' rows are locked until the message is there.                 *)
HandleSend(p) ==
  LET q == talks[p] IN
  /\ q.pc = "send" /\ texts[q.text].in = "direct" /\ Pair \subseteq accounts
  /\ Commits(q.text, q.by, Pair)
  /\ convo' = Pair
  /\ Becomes(p, Pushing(q, <<q.by, Other(q.by)>>))
  /\ UNCHANGED <<accounts, logged, roster, coach, capacity, readBy, connected, chatPlan,
                 pushes, accepted>>

SendToUser(p) ==
  LET q == talks[p] IN
  /\ q.pc = "push" /\ q.left = {} /\ q.to # <<>>
  /\ Becomes(p, [q EXCEPT !.to = Tail(@),
                          !.left = {s \in connected : OwnerOf(s) = Head(q.to)}])
  /\ UNCHANGED <<chatRows, connected, chatPlan, chatHistory>>

(* Mutant: the session is not looked at again.                             *)
AnyConnection(s) == s \in connected
Deliverable(s) == s \in connected \cap logged
Push(p, s) ==
  LET q == talks[p] IN
  /\ q.pc = "push" /\ s \in q.left /\ Deliverable(s)
  /\ pushes' = pushes \cup {<<s, q.text>>}
  /\ seenBy' = [seenBy EXCEPT ![OwnerOf(s)] = @ \cup {q.text}]
  /\ Becomes(p, [q EXCEPT !.left = @ \ {s}])
  /\ UNCHANGED <<chatRows, connected, chatPlan, barred, crossed, accepted>>

WithoutConnection(s) == connected \ {s}
(* The session has ended, or the connection does not take the message.     *)
PushFails(p, s) ==
  /\ talks[p].pc = "push" /\ s \in talks[p].left
  /\ connected' = WithoutConnection(s)
  /\ Becomes(p, [talks[p] EXCEPT !.left = @ \ {s}])
  /\ UNCHANGED <<chatRows, chatPlan, chatHistory>>

(* Who was not online gets an email about a direct message.                *)
EndSend(p) ==
  LET q == talks[p] IN
  /\ q.pc = "push" /\ q.left = {} /\ q.to = <<>>
  /\ Becomes(p, Quiet)
  /\ UNCHANGED <<chatRows, connected, chatPlan, seenBy, pushes, barred, crossed, accepted>>

-------------------------------------------------------------------------------
(* Reading: the messages are read, then the mark is made, then the reader  *)
(* is shown what was read.                                                 *)

Loads(p, op, c, who) ==
  /\ Starting(p, op)
  /\ \E u \in who :
       /\ SignedIn(u)
       /\ Becomes(p, [pc |-> "load", in |-> c, by |-> u, rows |-> In(c)])
  /\ UNCHANGED <<chatRows, connected, chatPlan, chatHistory>>
GetBatchChat(p) == Loads(p, "read", "room", roster)
GetMyBatchChat(p) == Loads(p, "read", "room", {coach} \cap Coaches)
GetMessages(p) == Loads(p, "peek", "direct", IF Pair \subseteq accounts THEN Pair ELSE {})
ConversationHistory(p) == Loads(p, "peek", "direct", convo)

(* Mutant: the mark is the other user's.                                   *)
MarkOf(c, u) == IF c = "direct" THEN Other(u) ELSE u
MarkedUser(c, u) == u
MarkRead(p) ==
  LET q == talks[p]
      u == MarkedUser(q.in, q.by)
  IN
  /\ q.pc = "load" /\ q.by \in accounts
  /\ readBy' = [readBy EXCEPT ![q.in] = [@ EXCEPT ![u] = Stamped(q.in)]]
  /\ seenBy' = [seenBy EXCEPT ![q.by] = @ \cup q.rows]
  /\ crossed' = crossed \cup
       {<<q.by, m>> : m \in {n \in Texts : texts[n].state = "sending" /\ texts[n].in = q.in}}
  /\ convo' = IF q.in = "direct" /\ convo = {} THEN Pair ELSE convo
  /\ Becomes(p, Quiet)
  /\ UNCHANGED <<accounts, logged, roster, coach, capacity, texts, connected, chatPlan, pushes,
                 barred, accepted>>

-------------------------------------------------------------------------------
(* The batch's students.                                                   *)

LoadAllocation(p) ==
  /\ Starting(p, "allocate")
  /\ \E who \in SUBSET (Students \cap accounts) :
       Becomes(p, [pc |-> "allocate", who |-> who, saw |-> roster, limit |-> capacity])
  /\ UNCHANGED <<chatRows, connected, chatPlan, chatHistory>>

Fits(n, limit) == limit # NoLimit => n <= limit
(* Mutant: the students to add are not counted.                            *)
RoomBefore(saw, who, limit) == Fits(Cardinality(saw), limit)
RoomFor(saw, who, limit) == Fits(Cardinality(saw \cup who), limit)
Overtaken(q) == ~(roster \subseteq q.saw) \/ capacity # q.limit
AllocateStudents(p) ==
  LET q == talks[p]
      new == q.who \ q.saw
  IN
  /\ q.pc = "allocate" /\ RoomFor(q.saw, q.who, q.limit)
  /\ q.who \subseteq accounts /\ new \cap roster = {}
  /\ roster' = roster \cup new
  /\ barred' = [m \in Texts |-> barred[m] \ (roster' \ roster)]
  /\ accepted' = IF Overtaken(q) THEN Cardinality(roster') ELSE accepted
  /\ Becomes(p, Quiet)
  /\ UNCHANGED <<accounts, logged, coach, capacity, convo, texts, readBy, connected, chatPlan,
                 seenBy, pushes, crossed>>

RemoveStudent(p) ==
  /\ Starting(p, "remove")
  /\ \E u \in roster : roster' = roster \ {u}
  /\ UNCHANGED <<accounts, logged, coach, capacity, convo, texts, readBy, connected, talks,
                 chatPlan, chatHistory>>

(* The students are not counted when the capacity changes.                 *)
UpdateBatch(p) ==
  /\ Starting(p, "edit")
  /\ \E n \in Limits \cup {capacity}, v \in {coach, NoUser} \cup (Coaches \cap accounts) :
       /\ capacity' = n /\ coach' = v
       /\ barred' = [m \in Texts |-> barred[m] \ ({v} \ {coach})]
       /\ accepted' = IF Fits(Cardinality(roster), n) THEN accepted ELSE Cardinality(roster)
  /\ UNCHANGED <<accounts, logged, roster, convo, texts, readBy, connected, talks, chatPlan,
                 seenBy, pushes, crossed>>

-------------------------------------------------------------------------------
(* The websocket of a signed-in user; the manager forgets a connection     *)
(* that closed or whose session has ended.                                 *)
Connect(s) ==
  /\ s \in logged \ connected /\ s \in chatPlan.moves
  /\ connected' = connected \cup {s}
  /\ UNCHANGED <<chatRows, talks, chatPlan, seenBy, pushes, barred, crossed, accepted>>

Disconnect(s) ==
  /\ s \in connected \cap chatPlan.moves
  /\ connected' = connected \ {s}
  /\ UNCHANGED <<chatRows, talks, chatPlan, chatHistory>>

EndSession(s) ==
  /\ s \in logged /\ s \in chatPlan.ends
  /\ logged' = logged \ {s}
  /\ UNCHANGED <<accounts, roster, coach, capacity, convo, texts, readBy, connected, talks, chatPlan,
                 chatHistory>>

(* An account's messages stay, its enrolment and its marks go.             *)
DeleteAccount(p) ==
  /\ Starting(p, "delete")
  /\ \E u \in accounts \cap chatPlan.leaves :
       /\ accounts' = accounts \ {u}
       /\ logged' = {s \in logged : OwnerOf(s) # u}
       /\ roster' = roster \ {u}
       /\ coach' = IF coach = u THEN NoUser ELSE coach
       /\ convo' = convo \ {u}
       /\ texts' = [m \in Texts |->
            IF texts[m].from = u /\ texts[m].state = "here"
            THEN [texts[m] EXCEPT !.from = NoUser] ELSE texts[m]]
       /\ readBy' = [readBy EXCEPT !["room"] = [@ EXCEPT ![u] = {}]]
  /\ UNCHANGED <<capacity, connected, talks, chatPlan, chatHistory>>

(* A request fails: what it had not committed is undone.                   *)
Breaks(p) ==
  /\ talks[p] # Quiet
  /\ texts' = IF talks[p].pc = "send"
              THEN [texts EXCEPT ![talks[p].text] = [@ EXCEPT !.state = "lost"]]
              ELSE texts
  /\ Becomes(p, Quiet)
  /\ UNCHANGED <<accounts, logged, roster, coach, capacity, convo, readBy, connected, chatPlan,
                 chatHistory>>

ChatNext ==
  \/ \E p \in Talkers :
       \/ SendBatchChat(p) \/ SendMyBatchChat(p) \/ ReceiveDirect(p)
       \/ CommitRoomText(p) \/ ReadRecipients(p) \/ HandleSend(p)
       \/ SendToUser(p) \/ EndSend(p)
       \/ \E s \in Sockets : Push(p, s) \/ PushFails(p, s)
       \/ GetBatchChat(p) \/ GetMyBatchChat(p) \/ GetMessages(p) \/ ConversationHistory(p)
       \/ MarkRead(p)
       \/ LoadAllocation(p) \/ AllocateStudents(p) \/ RemoveStudent(p)
       \/ UpdateBatch(p)
       \/ DeleteAccount(p) \/ Breaks(p)
  \/ \E s \in Sockets : Connect(s) \/ Disconnect(s) \/ EndSession(s)

ChatSpec == ChatInit /\ [][ChatNext]_chatVars

-------------------------------------------------------------------------------
(* A message that a user was never shown and that its mark covers was on   *)
(* its way while the user's messages were being loaded                     *)
(* (routes_students.py:320-340, routes_chat.py:162-215).                   *)
MissedNeedsOverlap ==
  \A c \in Channels : \A u \in People : \A m \in readBy[c][u] :
    texts[m].state = "here" /\ m \notin seenBy[u] => <<u, m>> \in crossed

(* A message never reaches a login that had ended when it was committed,   *)
(* nor a user who has not been among its readers since                     *)
(* (ws_manager.py:27-41, routes_staff.py:477-483).                         *)
PushedToReaders ==
  \A push \in pushes : push[1] \notin barred[push[2]] /\ OwnerOf(push[1]) \notin barred[push[2]]

(* A batch grows past its capacity only by an allocation that another      *)
(* request overtook between its count and its commit: otherwise it holds   *)
(* no more students than it takes, or than it was created with, or held    *)
(* when its capacity was cut (routes_admin_batches.py:184-185, :283-284,   *)
(* :345-361).                                                              *)
OverfullNeedsCause == Fits(Cardinality(roster), capacity) \/ Cardinality(roster) <= accepted
================================================================================
