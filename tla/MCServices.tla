------------------------------ MODULE MCServices ------------------------------
(***************************************************************************)
(* Instances of Support and Chat.  They share no row here: in a behaviour  *)
(* one works and the other's plan is empty.                                *)
(***************************************************************************)
EXTENDS Support, Chat

CONSTANTS
  t1, d1, k1, m1, m2, f1, f2, f3, h1, h2,  \* support
  u1, u2, c1, s1, s2, s3, n1, n2, g1, g2   \* chat

-------------------------------------------------------------------------------
(* Support: tickets <<status, requester>>, messages <<ticket, author>>.    *)
HelpPlan(tk, ms, at, photo, stuck, a, b) ==
  [tickets |-> tk, messages |-> ms,
   attached |-> [f \in Files |-> IF f \in DOMAIN at THEN at[f] ELSE Nobody],
   photo |-> d1 :> photo @@ t1 :> Nobody, stuck |-> stuck, runs |-> h1 :> a @@ h2 :> b]
NoHelp == HelpPlan(<<>>, <<>>, <<>>, Nobody, {}, {}, {})
Ticket1(status) == k1 :> <<status, d1>>
Question == m1 :> <<k1, d1>>
HelpPlans == {
  NoHelp,
  \* a conversation, from its first message or after the answer
  HelpPlan(<<>>, <<>>, <<>>, Nobody, {}, {"create", "reply", "close"},
           {"reply", "status", "reopen"}),
  HelpPlan(Ticket1("waiting"), Question, <<>>, Nobody, {}, {"reply", "status", "note"},
           {"close", "reopen"}),
  HelpPlan(k1 :> <<"closed", t1>>, m1 :> <<k1, t1>>, <<>>, Nobody, {}, {"reply", "create"},
           {"reopen", "upload"}),
  \* attachments and the deletion of their ticket or of its requester
  HelpPlan(Ticket1("open"), Question, f1 :> m1, Nobody, {}, {"upload"}, {"delete", "upload"}),
  HelpPlan(Ticket1("open"), Question, f1 :> m1, Nobody, {}, {"delete"}, {"reply", "leave"}),
  HelpPlan(Ticket1("open"), Question, f1 :> m1, f2, {f1}, {"leave"}, {"upload", "photo"}),
  HelpPlan(Ticket1("open"), Question, f1 :> m1 @@ f2 :> m1, f3, {}, {"leave"}, {}),
  \* photos
  HelpPlan(<<>>, <<>>, <<>>, f1, {}, {"photo", "unphoto"}, {"photo"}) }

-------------------------------------------------------------------------------
(* Chat: u1 has two connections, the trainer c1 one.                       *)
Owner(s) == IF s = s3 THEN c1 ELSE u1
TalkPlan(tx, con, ro, moves, ends, leaves, a, b) ==
  [texts |-> tx, connected |-> con, roster |-> ro, capacity |-> 1, moves |-> moves, ends |-> ends,
   leaves |-> leaves, runs |-> g1 :> a @@ g2 :> b]
NoTalk == TalkPlan({}, {}, {}, {}, {}, {}, {}, {})
TalkPlans == {
  NoTalk,
  \* a message meets a reader, in the batch's room and between the pair
  TalkPlan({n1}, {s1, s3}, {u1}, {}, {}, {}, {"room"}, {"read"}),
  TalkPlan({n1}, {s1, s3}, {u1}, {}, {}, {}, {"direct"}, {"peek"}),
  \* connections come and go, sessions end
  TalkPlan({n1}, {s1}, {u1}, {s1}, {s1}, {}, {"room"}, {"allocate", "remove"}),
  TalkPlan({n1}, {s1, s3}, {u1}, {s2, s3}, {s1}, {}, {"direct"}, {}),
  \* an account is deleted
  TalkPlan({n1}, {s1, s3}, {u1}, {}, {}, {u1}, {"direct"}, {"delete"}),
  TalkPlan({n1}, {s1}, {u1}, {}, {}, {u1}, {"room"}, {"delete", "read"}),
  \* the batch's trainer changes
  TalkPlan({n1}, {s1, s3}, {u1}, {}, {}, {}, {"room"}, {"edit"}),
  \* two allocations for the last place, which is given and taken away; the
  \* batch was created empty, or with too many
  TalkPlan({}, {}, {}, {}, {}, {}, {"allocate"}, {"allocate", "remove", "edit"}),
  TalkPlan({}, {}, {u1, u2}, {}, {}, {}, {"allocate"}, {"allocate", "remove", "edit"}),
  [TalkPlan({}, {}, {}, {}, {}, {}, {"allocate"}, {"edit"}) EXCEPT !.capacity = NoLimit] }

-------------------------------------------------------------------------------
ServicesInit == SupInit /\ ChatInit /\ (helpPlan = NoHelp <=> chatPlan # NoTalk)
ServicesNext ==
  \/ helpPlan # NoHelp /\ SupNext /\ UNCHANGED chatVars
  \/ chatPlan # NoTalk /\ ChatNext /\ UNCHANGED supVars
ServicesSpec == ServicesInit /\ [][ServicesNext]_<<supVars, chatVars>> /\ SupFairness

(* Every variable holds what it is meant to hold.                          *)
ServicesTypeOK == SupTypeOK /\ ChatTypeOK
===============================================================================
