---------------------------- MODULE ServicesProofs ----------------------------
(***************************************************************************)
(* Theorems about support tickets with their files and about chat, each    *)
(* for every value of the constants.                                       *)
(***************************************************************************)
EXTENDS MCServices, FiniteSetTheorems, SequenceTheorems, WellFoundedInduction, TLAPS

-------------------------------------------------------------------------------
(* Files.                                                                  *)

(* A request brings the file it has saved to its row, and names the file   *)
(* it is going to remove.                                                  *)
Brings(q, f) == q.pc \in {"saved", "pictured"} /\ q.file = f
Names(q, f) ==
  \/ q.pc \in {"photo", "unphoto", "pictured", "replaced"} /\ q.old = f
  \/ q.pc = "leave" /\ f \in q.files
Known(f) ==
  Used(f) \/ f \in Queued \/ f \in Held \/ \E p \in Helpers : Names(helps[p], f)

(* A name is used once: a new one is nowhere, and one that a request       *)
(* brings is known to nobody else.                                         *)
NewUnknown ==
  \A f \in Files : files[f] = "new" => ~Known(f) /\ \A p \in Helpers : ~Brings(helps[p], f)
BroughtOnce ==
  \A p \in Helpers : \A f \in Files :
    Brings(helps[p], f) =>
      /\ ~Known(f) /\ (files[f] = "disk" \/ f \in torn)
      /\ \A o \in Helpers \ {p} : ~Brings(helps[o], f)
(* A photo is of one requester and no attachment; a photo that a request   *)
(* is going to replace is at most its requester's, and used by nobody once *)
(* it has been replaced.                                                   *)
PhotosAlone ==
  \A r \in Requesters :
    people[r].photo # Nobody =>
      /\ attached[people[r].photo] = Nobody
      /\ \A o \in Requesters \ {r} : people[o].photo # people[r].photo
OldGoes(q) ==
  /\ q.pc \in {"photo", "unphoto", "pictured"} /\ q.old # Nobody =>
       attached[q.old] = Nobody /\ \A r \in Requesters \ {q.who} : people[r].photo # q.old
  /\ q.pc = "replaced" => ~Used(q.old)
OldPhotosGo == \A p \in Helpers : OldGoes(helps[p])
SupInv ==
  SupTypeOK /\ NewUnknown /\ BroughtOnce /\ PhotosAlone /\ OldPhotosGo /\ FilesOutliveRows

-------------------------------------------------------------------------------
(* Chat.                                                                   *)

(* What a request may rely on: the message it sends has begun, and is      *)
(* there once it is sent; nobody it is pushed to is barred from it; what   *)
(* was committed since the messages were read is in crossed.               *)
TalkRight(q) ==
  /\ q.pc = "send" =>
       texts[q.text].state = "sending" /\ (texts[q.text].in = "direct" => q.by \in Pair)
  /\ q.pc \in {"sent", "push"} => texts[q.text].state = "here" /\ q.by \notin barred[q.text]
  /\ q.pc = "sent" => texts[q.text].in = "room"
  /\ q.pc = "push" =>
       /\ \A n \in DOMAIN q.to : q.to[n] \notin barred[q.text]
       /\ \A s \in q.left : OwnerOf(s) \notin barred[q.text]
  /\ q.pc = "load" =>
       \A m \in Texts : texts[m].state = "here" /\ texts[m].in = q.in =>
         m \in q.rows \/ <<q.by, m>> \in crossed
TalksRight == \A p \in Talkers : TalkRight(talks[p])
(* A message is sent by one request.                                       *)
SentByOne ==
  \A p \in Talkers : \A o \in Talkers \ {p} :
    talks[p].pc = "send" /\ talks[o].pc = "send" => talks[o].text # talks[p].text
(* A mark covers messages that had begun; those that were not shown and    *)
(* are not lost were on their way.                                         *)
MarksCover ==
  \A c \in Channels : \A u \in People : \A m \in readBy[c][u] :
    /\ texts[m].state # "none"
    /\ texts[m].state # "lost" /\ m \notin seenBy[u] => <<u, m>> \in crossed
(* No open login is barred from a message, nor are the members of the      *)
(* batch from one to the batch.                                            *)
MembersMay ==
  \A m \in Texts :
    /\ barred[m] \cap logged = {}
    /\ texts[m].state = "here" /\ texts[m].in = "room" =>
         barred[m] \cap roster = {} /\ coach \notin barred[m]
PushedThere == \A push \in pushes : texts[push[2]].state = "here"
ChatInv ==
  /\ ChatTypeOK /\ TalksRight /\ SentByOne /\ MarksCover /\ MembersMay
  /\ PushedThere /\ PushedToReaders /\ OverfullNeedsCause

-------------------------------------------------------------------------------
(* Sequences.                                                              *)

LEMMA NatLeast ==
  ASSUME NEW S, S \subseteq Nat, S # {}
  PROVE  \E n \in S : \A m \in S : n <= m
  <1>1. PICK n \in S : \A m \in S : <<m, n>> \notin OpToRel(<, Nat)
    BY NatLessThanWellFounded, WFMin, Zenon
  <1>2. \A m \in S : ~(m < n)
    BY <1>1, Zenon DEF OpToRel
  <1>. QED BY <1>2

(* The recursion of Without, for the first m elements.                     *)
KeptAt(s, out, k, n) ==
  IF n = 0 THEN <<>>
  ELSE IF s[n] \in out THEN k[n - 1] ELSE Append(k[n - 1], s[n])
Keeps(s, out, k, m) == k = [n \in 0..m |-> KeptAt(s, out, k, n)]

LEMMA KeepsMore ==
  ASSUME NEW s, NEW out, NEW m \in Nat, m # 0, NEW k, Keeps(s, out, k, m - 1)
  PROVE  \E l : Keeps(s, out, l, m)
  <1>. DEFINE l == [n \in 0..m |-> IF n = m THEN KeptAt(s, out, k, m) ELSE k[n]]
  <1>1. \A n \in 0..m - 1 : k[n] = KeptAt(s, out, k, n)
    BY DEF Keeps
  <1>2. \A n \in 0..m : l[n] = KeptAt(s, out, k, n)
    <2>. TAKE n \in 0..m
    <2>1. CASE n = m
      BY <2>1
    <2>2. CASE n # m
      <3>1. n \in 0..m - 1
        BY <2>2
      <3>. QED BY <1>1, <2>2, <3>1
    <2>. QED BY <2>1, <2>2
  <1>3. \A n \in 0..m : n # 0 => l[n - 1] = k[n - 1]
    OBVIOUS
  <1>4. l = [n \in 0..m |-> l[n]]
    OBVIOUS
  <1>. HIDE DEF l
  <1>5. \A n \in 0..m : KeptAt(s, out, l, n) = KeptAt(s, out, k, n)
    BY <1>3 DEF KeptAt
  <1>6. [n \in 0..m |-> l[n]] = [n \in 0..m |-> KeptAt(s, out, l, n)]
    BY <1>2, <1>5
  <1>. QED BY <1>4, <1>6 DEF Keeps

LEMMA KeepsExists ==
  ASSUME NEW s, NEW out, NEW m \in Nat
  PROVE  \E k : Keeps(s, out, k, m)
  <1>. DEFINE Bad == {n \in Nat : ~\E k : Keeps(s, out, k, n)}
  <1>. SUFFICES ASSUME Bad # {} PROVE FALSE
    BY Zenon
  <1>1. PICK n \in Bad : \A o \in Bad : n <= o
    <2>1. Bad \subseteq Nat
      OBVIOUS
    <2>. HIDE DEF Bad
    <2>. QED BY <2>1, NatLeast
  <1>2. n \in Nat /\ ~\E k : Keeps(s, out, k, n)
    BY <1>1
  <1>3. CASE n = 0
    <2>. DEFINE k == [o \in 0..0 |-> <<>>]
    <2>1. \A o \in 0..0 : KeptAt(s, out, k, o) = <<>>
      BY DEF KeptAt
    <2>2. Keeps(s, out, k, 0)
      BY <2>1 DEF Keeps
    <2>. QED BY <1>2, <1>3, <2>2, Zenon
  <1>4. CASE n # 0
    <2>1. n - 1 \in Nat /\ ~(n <= n - 1)
      BY <1>2, <1>4
    <2>2. n - 1 \notin Bad
      BY <1>1, <2>1, Zenon
    <2>3. \E k : Keeps(s, out, k, n - 1)
      BY <2>1, <2>2, Zenon
    <2>. QED BY <1>2, <1>4, <2>3, KeepsMore
  <1>. QED BY <1>3, <1>4

(* What is left of a sequence is of that sequence.                         *)
LEMMA WithoutFacts ==
  ASSUME NEW S, NEW s \in Seq(S), NEW out
  PROVE  Without(s, out) \in Seq(S) /\ ToSet(Without(s, out)) \subseteq ToSet(s) \ out
  <1>1. Len(s) \in Nat
    OBVIOUS
  <1>. DEFINE kept == CHOOSE k : Keeps(s, out, k, Len(s))
              Right(n) == kept[n] \in Seq(S) /\ ToSet(kept[n]) \subseteq ToSet(s) \ out
              Bad == {n \in 0..Len(s) : ~Right(n)}
  <1>2. Keeps(s, out, kept, Len(s))
    BY <1>1, KeepsExists
  <1>3. Without(s, out) = kept[Len(s)]
    BY DEF Without, Keeps, KeptAt
  <1>. HIDE DEF kept
  <1>4. \A n \in 0..Len(s) : kept[n] = KeptAt(s, out, kept, n)
    BY <1>2 DEF Keeps
  <1>5. Right(0)
    <2>1. kept[0] = <<>>
      BY <1>1, <1>4 DEF KeptAt
    <2>2. <<>> \in Seq(S) /\ ToSet(<<>>) = {}
      BY DEF ToSet
    <2>. QED BY <2>1, <2>2
  <1>6. ASSUME NEW n \in 1..Len(s), Right(n - 1) PROVE Right(n)
    <2>. DEFINE t == kept[n - 1]
    <2>1. t \in Seq(S) /\ ToSet(t) \subseteq ToSet(s) \ out
      BY <1>6
    <2>2. s[n] \in S /\ s[n] \in ToSet(s)
      BY DEF ToSet
    <2>3. kept[n] = IF s[n] \in out THEN t ELSE Append(t, s[n])
      BY <1>1, <1>4 DEF KeptAt
    <2>. HIDE DEF t
    <2>4. Append(t, s[n]) \in Seq(S) /\ ToSet(Append(t, s[n])) \subseteq ToSet(t) \cup {s[n]}
      BY <2>1, <2>2 DEF ToSet
    <2>. QED BY <2>1, <2>2, <2>3, <2>4
  <1>. HIDE DEF Right
  <1>7. \A n \in 0..Len(s) : Right(n)
    <2>. SUFFICES ASSUME Bad # {} PROVE FALSE
      BY Zenon
    <2>1. PICK n \in Bad : \A o \in Bad : n <= o
      <3>1. Bad \subseteq Nat
        BY <1>1
      <3>. HIDE DEF Bad
      <3>. QED BY <3>1, NatLeast
    <2>2. n \in 0..Len(s) /\ ~Right(n)
      BY <2>1
    <2>3. n # 0
      BY <1>5, <2>2
    <2>4. n \in 1..Len(s) /\ n - 1 \in 0..Len(s) /\ ~(n <= n - 1)
      BY <1>1, <2>2, <2>3
    <2>5. Right(n - 1)
      BY <2>1, <2>4, Zenon
    <2>. QED BY <1>6, <2>2, <2>4, <2>5
  <1>. QED BY <1>1, <1>3, <1>7 DEF Right

(* A set made a sequence has its elements.                                 *)
LEMMA SetToSeqFacts ==
  ASSUME NEW S, IsFiniteSet(S)
  PROVE  SetToSeq(S) \in Seq(S) /\ ToSet(SetToSeq(S)) \subseteq S
  <1>1. Cardinality(S) \in Nat /\ ExistsBijection(1..Cardinality(S), S)
    BY FS_CardinalityType
  <1>2. \E f \in [1..Cardinality(S) -> S] : IsInjective(f)
    BY <1>1, Zenon DEF ExistsBijection, Bijection, Injection, IsInjective
  <1>3. SetToSeq(S) \in [1..Cardinality(S) -> S]
    BY <1>2, Zenon DEF SetToSeq
  <1>. HIDE DEF SetToSeq
  <1>. QED BY <1>1, <1>3 DEF ToSet

LEMMA ConcatSet ==
  ASSUME NEW S, NEW s \in Seq(S), NEW t \in Seq(S)
  PROVE  s \o t \in Seq(S) /\ ToSet(s \o t) \subseteq ToSet(s) \cup ToSet(t)
  BY DEF ToSet

LEMMA FirstSet ==
  ASSUME NEW S, NEW s \in Seq(S)
  PROVE  FirstOf(s) \subseteq ToSet(s)
  <1>. DEFINE n == IF Len(s) < BatchSize THEN Len(s) ELSE BatchSize
  <1>1. n \in 0..Len(s)
    BY SupportAssumption
  <1>. HIDE DEF n
  <1>2. \A i \in DOMAIN SubSeq(s, 1, n) : SubSeq(s, 1, n)[i] \in ToSet(s)
    BY <1>1, SubSeqProperties DEF ToSet
  <1>. QED BY <1>2 DEF FirstOf, ToSet, n

-------------------------------------------------------------------------------
(* Support: types.                                                         *)

LEMMA HelpFields ==
  ASSUME NEW q \in Help
  PROVE  /\ q.pc \in TicketOps \cup {"idle", "upload", "saved", "photo", "unphoto", "pictured",
                                     "replaced", "delete", "leave"}
         /\ q.pc = "idle" => q = Free
         /\ q.pc \in TicketOps =>
              q.ticket \in Tickets /\ q.by \in Requesters \cup {Desk} /\ q.saw \in Loaded
         /\ q.pc \in {"upload", "saved"} => q.message \in Messages
         /\ q.pc \in {"saved", "pictured"} => q.file \in Files
         /\ q.pc \in {"photo", "unphoto", "pictured", "leave"} => q.who \in Requesters
         /\ q.pc \in {"photo", "unphoto", "pictured"} => q.old \in Files \cup {Nobody}
         /\ q.pc = "replaced" => q.old \in Files
         /\ q.pc = "delete" => /\ q.ticket \in Tickets /\ q.messages \subseteq Messages
                               /\ q.files \subseteq Files /\ q.left \subseteq Files
         /\ q.pc = "leave" => q.files \subseteq Files
  BY DEF Help, TicketOps, Free

LEMMA GoesFacts ==
  ASSUME SupTypeOK, NEW p \in Helpers, NEW q \in Help, Goes(p, q)
  PROVE  /\ helps' \in [Helpers -> Help] /\ helps'[p] = q
         /\ \A o \in Helpers : o # p => helps'[o] = helps[o]
  BY DEF Goes, SupTypeOK

LEMMA FreeIsHelp == Free \in Help /\ Free.pc = "idle"
  BY DEF Free, Help

LEMMA RowFields ==
  ASSUME SupTypeOK
  PROVE  /\ \A t \in Tickets : /\ tickets[t] \in Ticket /\ tickets[t].state \in States \cup {"none", "gone"}
                               /\ tickets[t].by \in Requesters \cup {Nobody}
                               /\ tickets[t].resolved \in BOOLEAN /\ tickets[t].closed \in BOOLEAN
         /\ \A m \in Messages : /\ messages[m] \in Message
                                /\ messages[m].from \in Requesters \cup {Desk, Nobody}
                                /\ messages[m].ticket \in Tickets \cup {Nobody}
         /\ \A r \in Requesters : people[r] \in Person /\ people[r].photo \in Files \cup {Nobody}
         /\ \A f \in Files : attached[f] \in Messages \cup {Nobody}
                             /\ files[f] \in {"new", "disk", "gone"}
         /\ \A p \in Helpers : helps[p] \in Help
         /\ \A w \in Cleaners : /\ cleaning[w] \in Batch /\ cleaning[w].left \subseteq Files
                                /\ cleaning[w].done \subseteq Files /\ cleaning[w].failed \subseteq Files
         /\ queue.fresh \in Seq(Files) /\ queue.tried \in Seq(Files)
  BY DEF SupTypeOK, Ticket, Message, Person, Batch

(* The columns a request changed are written, the others stay.             *)
LEMMA PatchFacts ==
  ASSUME SupTypeOK, NEW t \in Tickets, NEW saw \in Ticket, NEW to \in Ticket,
         TicketPatch(t, saw, to)
  PROVE  /\ tickets' \in [Tickets -> Ticket]
         /\ tickets'[t].state = IF to.state # saw.state THEN to.state ELSE tickets[t].state
         /\ \A o \in Tickets : o # t => tickets'[o] = tickets[o]
  BY DEF TicketPatch, SupTypeOK, Ticket

LEMMA PostFacts ==
  ASSUME SupTypeOK, NEW t \in Tickets, NEW from \in Requesters \cup {Desk}, Posts(t, from),
         from \in Requesters => people[from].here, people' = people
  PROVE  /\ messages' \in [Messages -> Message]
         /\ \A m \in Messages : messages'[m].from \in Requesters => people'[messages'[m].from].here
  BY SupportAssumption DEF Posts, SupTypeOK, Message

LEMMA SupTypeStarts == SupInit => SupTypeOK
  <1>. SUFFICES ASSUME SupInit PROVE SupTypeOK
    OBVIOUS
  <1>0. helpPlan \in SupportPlans
    BY DEF SupInit
  <1>1. people \in [Requesters -> Person] /\ \A r \in Requesters : people[r].here
    <2>1. helpPlan.photo \in [Requesters -> Files \cup {Nobody}]
      BY <1>0, SupportAssumption, Zenon
    <2>2. people = [r \in Requesters |-> [here |-> TRUE, photo |-> helpPlan.photo[r]]]
      BY Zenon DEF SupInit
    <2>3. \A r \in Requesters : [here |-> TRUE, photo |-> helpPlan.photo[r]] \in Person
      BY <2>1 DEF Person
    <2>4. people \in [Requesters -> Person]
      BY <2>2, <2>3, Zenon
    <2>. QED BY <2>2, <2>4
  <1>2. tickets \in [Tickets -> Ticket]
    <2>1. \A t \in DOMAIN helpPlan.tickets :
            helpPlan.tickets[t][1] \in States /\ helpPlan.tickets[t][2] \in Requesters
      BY <1>0, SupportAssumption
    <2>. QED BY <2>1 DEF SupInit, Ticket
  <1>3. messages \in [Messages -> Message]
    <2>1. \A m \in DOMAIN helpPlan.messages :
            helpPlan.messages[m][1] \in Tickets /\ helpPlan.messages[m][2] \in Requesters \cup {Desk}
      BY <1>0, SupportAssumption
    <2>. QED BY <2>1 DEF SupInit, Message
  <1>4. attached \in [Files -> Messages \cup {Nobody}]
    BY <1>0, SupportAssumption DEF SupInit
  <1>5. files \in [Files -> {"new", "disk", "gone"}]
    BY DEF SupInit
  <1>6. queue \in [fresh: Seq(Files), tried: Seq(Files)]
    BY DEF SupInit
  <1>7. helps \in [Helpers -> Help] /\ cleaning \in [Cleaners -> Batch] /\ torn \subseteq Files
    BY FreeIsHelp DEF SupInit, NoBatch, Batch
  <1>8. \A m \in Messages : messages[m].from \in Requesters => people[messages[m].from].here
    BY <1>1, Zenon
  <1>. QED BY <1>0, <1>1, <1>2, <1>3, <1>4, <1>5, <1>6, <1>7, <1>8, Zenon DEF SupTypeOK

(* A step of a request that leaves the rows alone, and one that changes    *)
(* tickets and messages only.                                              *)
LEMMA ReadingKeepsTypes ==
  ASSUME SupTypeOK, NEW p \in Helpers, NEW q \in Help, Goes(p, q),
         UNCHANGED <<supRows, queue, cleaning, helpPlan>>,
         files' \in [Files -> {"new", "disk", "gone"}], torn' \subseteq Files
  PROVE  SupTypeOK'
  <1>1. helps' \in [Helpers -> Help]
    BY GoesFacts
  <1>. QED BY <1>1, Zenon DEF SupTypeOK, supRows

LEMMA TicketsKeepTypes ==
  ASSUME SupTypeOK, NEW p \in Helpers, NEW q \in Help, Goes(p, q) \/ helps' = helps,
         UNCHANGED <<people, attached, files, queue, cleaning, helpPlan, torn>>,
         tickets' \in [Tickets -> Ticket], messages' \in [Messages -> Message],
         \A m \in Messages : messages'[m].from \in Requesters => people'[messages'[m].from].here
  PROVE  SupTypeOK'
  <1>1. helps' \in [Helpers -> Help]
    BY GoesFacts DEF SupTypeOK
  <1>. QED BY <1>1, Zenon DEF SupTypeOK

LEMMA SavedFiles ==
  ASSUME SupTypeOK, NEW f \in Files, Save(f) \/ Unlink(f)
  PROVE  files' \in [Files -> {"new", "disk", "gone"}]
  <1>1. CASE Save(f)
    BY <1>1 DEF Save, SupTypeOK
  <1>2. CASE Unlink(f)
    <2>1. files[f] \in {"new", "disk", "gone"} /\ files \in [Files -> {"new", "disk", "gone"}]
      BY DEF SupTypeOK
    <2>. QED BY <1>2, <2>1 DEF Unlink
  <1>. QED BY <1>1, <1>2

LEMMA OpeningKeepsTypes ==
  ASSUME SupTypeOK, NEW p \in Helpers, NEW who, who \subseteq Requesters, Opens(p, who)
  PROVE  SupTypeOK'
  <1>1. PICK t \in Tickets, r \in who :
          /\ Refers(r) /\ Posts(t, r)
          /\ tickets' = [tickets EXCEPT ![t] = [@ EXCEPT !.state = "open", !.by = r]]
    BY DEF Opens
  <1>2. r \in Requesters /\ people[r].here /\ people' = people
    BY <1>1, SupportAssumption DEF Refers, Opens
  <1>3. tickets' \in [Tickets -> Ticket]
    <2>1. [tickets[t] EXCEPT !.state = "open", !.by = r] \in Ticket
      BY <1>2, RowFields DEF Ticket, States
    <2>2. tickets \in [Tickets -> Ticket]
      BY Zenon DEF SupTypeOK
    <2>. QED BY <1>1, <2>1, <2>2
  <1>4. helps' = helps /\ UNCHANGED <<people, attached, files, queue, cleaning, helpPlan, torn>>
    BY DEF Opens
  <1>. QED BY <1>1, <1>2, <1>3, <1>4, PostFacts, TicketsKeepTypes, FreeIsHelp

(* What a request has loaded of its ticket is a ticket.                    *)
LEMMA TicketOpFields ==
  ASSUME SupTypeOK, NEW p \in Helpers, helps[p].pc \in TicketOps
  PROVE  /\ helps[p].ticket \in Tickets /\ helps[p].by \in Requesters \cup {Desk}
         /\ helps[p].saw \in Ticket /\ helps[p].saw.state \in States
  BY HelpFields, RowFields DEF Loaded

LEMMA ReplyKeepsTypes ==
  ASSUME SupTypeOK, NEW p \in Helpers, NEW from \in {"open", "waiting"}, Replies(p, from),
         helps[p].by \in Requesters => people[helps[p].by].here
  PROVE  SupTypeOK'
  <1>. DEFINE q == helps[p]
              to == IF q.saw.state = from THEN [q.saw EXCEPT !.state = "in_progress"] ELSE q.saw
  <1>1. q.ticket \in Tickets /\ q.by \in Requesters \cup {Desk} /\ q.saw \in Ticket
    BY TicketOpFields DEF Replies, TicketOps
  <1>2. to \in Ticket
    BY <1>1 DEF Ticket, States
  <1>3. /\ Posts(q.ticket, q.by) /\ TicketPatch(q.ticket, q.saw, to) /\ Goes(p, Free)
        /\ UNCHANGED <<people, attached, files, queue, cleaning, helpPlan, torn>>
        /\ people' = people
    BY DEF Replies
  <1>. HIDE DEF to
  <1>4. tickets' \in [Tickets -> Ticket]
    BY <1>1, <1>2, <1>3, PatchFacts
  <1>5. /\ messages' \in [Messages -> Message]
        /\ \A m \in Messages : messages'[m].from \in Requesters => people'[messages'[m].from].here
    BY <1>1, <1>3, PostFacts
  <1>. QED BY <1>3, <1>4, <1>5, FreeIsHelp, TicketsKeepTypes

LEMMA PatchKeepsTypes ==
  ASSUME SupTypeOK, NEW p \in Helpers, helps[p].pc \in TicketOps, NEW to \in Ticket,
         TicketPatch(helps[p].ticket, helps[p].saw, to), Goes(p, Free),
         UNCHANGED <<people, messages, attached, files, queue, cleaning, helpPlan, torn>>
  PROVE  SupTypeOK'
  <1>1. tickets' \in [Tickets -> Ticket]
    BY TicketOpFields, PatchFacts
  <1>2. /\ messages' \in [Messages -> Message]
        /\ \A m \in Messages : messages'[m].from \in Requesters => people'[messages'[m].from].here
    BY Zenon DEF SupTypeOK
  <1>. QED BY <1>1, <1>2, FreeIsHelp, TicketsKeepTypes

LEMMA CleanupKeepsTypes == SupTypeOK /\ Cleanup => SupTypeOK'
  <1>. SUFFICES ASSUME SupTypeOK, NEW w \in Cleaners,
                       \/ TakeJobs(w) \/ CommitJobs(w) \/ StopCleaner(w)
                       \/ \E f \in Files : CleanFile(w, f) \/ CannotClean(w, f)
                PROVE  SupTypeOK'
    BY DEF Cleanup
  <1>. DEFINE held == cleaning[w]
  <1>1. held.left \subseteq Files /\ held.done \subseteq Files /\ held.failed \subseteq Files
    BY RowFields
  <1>2. NoBatch \in Batch
    BY DEF NoBatch, Batch
  <1>3. ASSUME NEW b \in Batch, cleaning' = [cleaning EXCEPT ![w] = b],
               UNCHANGED <<supRows, helps, helpPlan, torn>>,
               files' \in [Files -> {"new", "disk", "gone"}],
               queue' \in [fresh: Seq(Files), tried: Seq(Files)]
        PROVE  SupTypeOK'
    <2>1. cleaning' \in [Cleaners -> Batch]
      BY <1>3 DEF SupTypeOK
    <2>. QED BY <1>3, <2>1, Zenon DEF SupTypeOK, supRows
  <1>4. files \in [Files -> {"new", "disk", "gone"}] /\ queue \in [fresh: Seq(Files), tried: Seq(Files)]
    BY DEF SupTypeOK
  <1>5. CASE TakeJobs(w)
    <2>. DEFINE free == Without(InOrder, Held)
                b == [NoBatch EXCEPT !.left = FirstOf(free)]
    <2>1. InOrder \in Seq(Files)
      BY RowFields, ConcatSet DEF InOrder
    <2>2. free \in Seq(Files) /\ ToSet(free) \subseteq ToSet(InOrder)
      BY <2>1, WithoutFacts
    <2>3. FirstOf(free) \subseteq Files
      <3>. HIDE DEF free
      <3>1. FirstOf(free) \subseteq ToSet(free)
        BY <2>2, FirstSet
      <3>. QED BY <2>2, <3>1 DEF ToSet
    <2>4. b \in Batch
      <3>. HIDE DEF free
      <3>. QED BY <2>3 DEF Batch, NoBatch
    <2>. QED BY <1>3, <1>4, <1>5, <2>4, Zenon DEF TakeJobs
  <1>6. CASE CommitJobs(w)
    <2>. DEFINE out == held.done \cup held.failed
                tried == Without(queue.tried, out)
    <2>1. IsFiniteSet(held.failed)
      BY <1>1, SupportAssumption, FS_Subset
    <2>2. Without(queue.fresh, out) \in Seq(Files) /\ tried \in Seq(Files)
      BY RowFields, WithoutFacts
    <2>3. SetToSeq(held.failed) \in Seq(Files)
      <3>1. SetToSeq(held.failed) \in Seq(held.failed)
        BY <2>1, SetToSeqFacts
      <3>. QED BY <1>1, <3>1
    <2>4. tried \o SetToSeq(held.failed) \in Seq(Files)
      <3>. HIDE DEF tried
      <3>. QED BY <2>2, <2>3, ConcatSet
    <2>5. queue' = [fresh |-> Without(queue.fresh, out), tried |-> tried \o SetToSeq(held.failed)]
      BY <1>6 DEF CommitJobs, AfterBatch
    <2>6. queue' \in [fresh: Seq(Files), tried: Seq(Files)]
      <3>. HIDE DEF tried, out
      <3>. QED BY <2>2, <2>4, <2>5
    <2>. QED BY <1>2, <1>3, <1>4, <1>6, <2>6, Zenon DEF CommitJobs
  <1>7. CASE StopCleaner(w)
    BY <1>2, <1>3, <1>4, <1>7, Zenon DEF StopCleaner
  <1>8. ASSUME NEW f \in Files, CleanFile(w, f) PROVE SupTypeOK'
    <2>1. [held EXCEPT !.left = @ \ {f}, !.done = @ \cup {f}] \in Batch
      BY <1>1, RowFields DEF Batch
    <2>2. files' \in [Files -> {"new", "disk", "gone"}]
      BY <1>4, <1>8, SavedFiles DEF CleanFile
    <2>3. cleaning' = [cleaning EXCEPT ![w] = [held EXCEPT !.left = @ \ {f}, !.done = @ \cup {f}]]
      BY <1>8 DEF CleanFile
    <2>. QED BY <1>3, <1>4, <1>8, <2>1, <2>2, <2>3, Zenon DEF CleanFile
  <1>9. ASSUME NEW f \in Files, CannotClean(w, f) PROVE SupTypeOK'
    <2>1. [held EXCEPT !.left = @ \ {f}, !.failed = @ \cup {f}] \in Batch
      BY <1>1, RowFields DEF Batch
    <2>3. cleaning' = [cleaning EXCEPT ![w] = [held EXCEPT !.left = @ \ {f}, !.failed = @ \cup {f}]]
      BY <1>9 DEF CannotClean
    <2>. QED BY <1>3, <1>4, <1>9, <2>1, <2>3, Zenon DEF CannotClean
  <1>. QED BY <1>5, <1>6, <1>7, <1>8, <1>9

LEMMA DeletionsKeepTypes ==
  ASSUME SupTypeOK, NEW p \in Helpers,
         \/ LoadTicketToDelete(p) \/ UnlinkAttachment(p) \/ DropTicket(p)
         \/ StageDeletion(p) \/ DeleteStudent(p)
  PROVE  SupTypeOK'
  <1>. DEFINE q == helps[p]
  <1>1. q \in Help
    BY RowFields
  <1>2. files \in [Files -> {"new", "disk", "gone"}] /\ torn \subseteq Files
    BY DEF SupTypeOK
  <1>3. CASE LoadTicketToDelete(p)
    <2>1. PICK t \in Tickets, of \in SUBSET Messages, on \in SUBSET Files :
            Goes(p, [pc |-> "delete", ticket |-> t, messages |-> of, files |-> on, left |-> on])
      BY <1>3, Zenon DEF LoadTicketToDelete
    <2>2. [pc |-> "delete", ticket |-> t, messages |-> of, files |-> on, left |-> on] \in Help
      BY DEF Help
    <2>. QED BY <1>2, <1>3, <2>1, <2>2, ReadingKeepsTypes, Zenon DEF LoadTicketToDelete
  <1>4. CASE UnlinkAttachment(p)
    <2>1. q.pc = "delete"
      BY <1>4 DEF UnlinkAttachment
    <2>2. PICK f \in q.left :
            Unlink(f) /\ torn' = torn \cup {f} /\ Goes(p, [q EXCEPT !.left = @ \ {f}])
      BY <1>4 DEF UnlinkAttachment
    <2>3. q.left \subseteq Files
      BY <1>1, <2>1, HelpFields
    <2>4. [q EXCEPT !.left = @ \ {f}] \in Help
      BY <1>1, <2>1 DEF Help, TicketOps
    <2>5. files' \in [Files -> {"new", "disk", "gone"}] /\ torn' \subseteq Files
      BY <1>2, <2>2, <2>3, SavedFiles
    <2>6. UNCHANGED <<supRows, queue, cleaning, helpPlan>>
      BY <1>4 DEF UnlinkAttachment
    <2>. QED BY <2>2, <2>4, <2>5, <2>6, ReadingKeepsTypes
  <1>5. CASE DropTicket(p)
    <2>1. q.pc = "delete" /\ q.ticket \in Tickets
      BY <1>1, <1>5, HelpFields DEF DropTicket
    <2>2. tickets' \in [Tickets -> Ticket]
      <3>1. tickets' = [tickets EXCEPT ![q.ticket] = [tickets[q.ticket] EXCEPT !.state = "gone"]]
        BY <1>5 DEF DropTicket
      <3>2. [tickets[q.ticket] EXCEPT !.state = "gone"] \in Ticket
        BY <2>1, RowFields DEF Ticket
      <3>3. tickets \in [Tickets -> Ticket]
        BY Zenon DEF SupTypeOK
      <3>. HIDE DEF q
      <3>. QED BY <3>1, <3>2, <3>3
    <2>3. messages' \in [Messages -> Message]
      <3>1. \A m \in Messages : [messages[m] EXCEPT !.state = "gone"] \in Message
        BY RowFields DEF Message
      <3>. QED BY <1>5, <3>1, RowFields DEF DropTicket
    <2>4. \A m \in Messages : messages'[m].from = messages[m].from
      <3>1. \A m \in Messages : [messages[m] EXCEPT !.state = "gone"].from = messages[m].from
        BY RowFields DEF Message
      <3>. QED BY <1>5, <3>1 DEF DropTicket
    <2>5. people' = people /\ \A m \in Messages : messages[m].from \in Requesters => people[messages[m].from].here
      BY <1>5 DEF DropTicket, SupTypeOK
    <2>6. attached' \in [Files -> Messages \cup {Nobody}]
      BY <1>5, RowFields DEF DropTicket
    <2>7. helps' \in [Helpers -> Help]
      BY <1>5, FreeIsHelp, GoesFacts DEF DropTicket
    <2>8. UNCHANGED <<people, files, queue, cleaning, helpPlan, torn>>
      BY <1>5 DEF DropTicket
    <2>9. \A m \in Messages : messages'[m].from \in Requesters => people'[messages'[m].from].here
      BY <2>4, <2>5, Zenon
    <2>. QED BY <2>2, <2>3, <2>6, <2>7, <2>8, <2>9, Zenon DEF SupTypeOK
  <1>6. CASE StageDeletion(p)
    <2>1. PICK r \in Requesters, fs \in SUBSET Files :
            Goes(p, [pc |-> "leave", who |-> r, files |-> fs])
      BY <1>6, Zenon DEF StageDeletion
    <2>2. [pc |-> "leave", who |-> r, files |-> fs] \in Help
      BY DEF Help
    <2>. QED BY <1>2, <1>6, <2>1, <2>2, ReadingKeepsTypes, Zenon DEF StageDeletion
  <1>7. CASE DeleteStudent(p)
    <2>. DEFINE r == q.who
                manifest == q.files \cup ({people[r].photo} \ {Nobody})
    <2>1. q.pc = "leave" /\ r \in Requesters /\ q.files \subseteq Files
      BY <1>1, <1>7, HelpFields DEF DeleteStudent
    <2>2. manifest \subseteq Files
      BY <2>1, RowFields
    <2>3. SetToSeq(manifest) \in Seq(Files)
      <3>. HIDE DEF manifest
      <3>1. IsFiniteSet(manifest)
        BY <2>2, SupportAssumption, FS_Subset
      <3>2. SetToSeq(manifest) \in Seq(manifest)
        BY <3>1, SetToSeqFacts
      <3>. QED BY <2>2, <3>2
    <2>4. queue' = [queue EXCEPT !.fresh = @ \o SetToSeq(manifest)]
      BY <1>7 DEF DeleteStudent
    <2>5. queue' \in [fresh: Seq(Files), tried: Seq(Files)]
      <3>. HIDE DEF manifest
      <3>1. queue.fresh \o SetToSeq(manifest) \in Seq(Files)
        BY <2>3, RowFields, ConcatSet
      <3>. QED BY <2>4, <3>1 DEF SupTypeOK
    <2>6. attached' \in [Files -> Messages \cup {Nobody}]
      BY <1>7, RowFields DEF DeleteStudent
    <2>7. messages' = Detached(r)
          /\ tickets' = [t \in Tickets |->
               IF tickets[t].by = r THEN [tickets[t] EXCEPT !.by = Nobody] ELSE tickets[t]]
          /\ people' = [people EXCEPT ![r] = [here |-> FALSE, photo |-> Nobody]]
      BY <1>7 DEF DeleteStudent
    <2>8. tickets' \in [Tickets -> Ticket]
      <3>1. \A t \in Tickets : [tickets[t] EXCEPT !.by = Nobody] \in Ticket
        BY RowFields DEF Ticket
      <3>. QED BY <2>7, <3>1, RowFields
    <2>9. /\ \A m \in Messages : messages'[m] \in Message
          /\ \A m \in Messages : messages'[m].from = IF messages[m].from = r THEN Nobody ELSE messages[m].from
      <3>1. \A m \in Messages : /\ [messages[m] EXCEPT !.from = Nobody] \in Message
                                /\ [messages[m] EXCEPT !.from = Nobody].from = Nobody
        BY RowFields DEF Message
      <3>. QED BY <2>7, <3>1, RowFields DEF Detached
    <2>10. messages' \in [Messages -> Message]
      BY <2>7, <2>9 DEF Detached
    <2>11. people' \in [Requesters -> Person] /\ \A o \in Requesters : o # r => people'[o] = people[o]
      BY <2>1, <2>7 DEF SupTypeOK, Person
    <2>12. \A m \in Messages : messages'[m].from \in Requesters => people'[messages'[m].from].here
      <3>1. \A m \in Messages : messages[m].from \in Requesters => people[messages[m].from].here
        BY DEF SupTypeOK
      <3>2. Nobody \notin Requesters
        BY SupportAssumption
      <3>. QED BY <2>9, <2>11, <3>1, <3>2
    <2>13. helps' \in [Helpers -> Help]
      BY <1>7, FreeIsHelp, GoesFacts DEF DeleteStudent
    <2>14. UNCHANGED <<files, cleaning, helpPlan, torn>>
      BY <1>7 DEF DeleteStudent
    <2>. QED BY <2>5, <2>6, <2>8, <2>10, <2>11, <2>12, <2>13, <2>14, Zenon DEF SupTypeOK
  <1>. QED BY <1>3, <1>4, <1>5, <1>6, <1>7

LEMMA RepliesKeepTypes ==
  ASSUME SupTypeOK, NEW p \in Helpers,
         ReplyToTicket(p) \/ StudentReply(p) \/ StaffReply(p)
  PROVE  SupTypeOK'
  <1>1. \E from \in {"open", "waiting"} : Replies(p, from)
    BY DEF ReplyToTicket, StudentReply, StaffReply, OwnReply
  <1>2. helps[p].by \in Requesters => people[helps[p].by].here
    BY SupportAssumption DEF ReplyToTicket, StudentReply, StaffReply, OwnReply, Refers
  <1>. QED BY <1>1, <1>2, ReplyKeepsTypes

LEMMA StatusKeepsTypes ==
  ASSUME SupTypeOK, NEW p \in Helpers,
         \/ ChangeStatus(p) \/ CloseTicket(p)
         \/ ReopenTicket(p) \/ StudentReopen(p) \/ StaffReopen(p)
  PROVE  SupTypeOK'
  <1>. DEFINE q == helps[p]
  <1>1. q.pc \in TicketOps
    BY DEF ChangeStatus, CloseTicket, ReopenTicket, StudentReopen, StaffReopen, Reopens, TicketOps
  <1>2. q.saw \in Ticket /\ q.saw.state \in States
    BY <1>1, TicketOpFields
  <1>3. CASE ChangeStatus(p)
    <2>1. PICK to \in AllowedTransitions(q.saw.state) :
            TicketPatch(q.ticket, q.saw, [q.saw EXCEPT !.state = to, !.resolved = (to = "resolved")])
      BY <1>3 DEF ChangeStatus
    <2>2. to \in States
      BY <1>2 DEF AllowedTransitions, States
    <2>3. [q.saw EXCEPT !.state = to, !.resolved = (to = "resolved")] \in Ticket
      BY <1>2, <2>2 DEF Ticket
    <2>. QED BY <1>1, <1>3, <2>1, <2>3, PatchKeepsTypes DEF ChangeStatus
  <1>4. CASE CloseTicket(p)
    <2>1. [q.saw EXCEPT !.state = "closed", !.closed = TRUE] \in Ticket
      BY <1>2 DEF Ticket, States
    <2>. QED BY <1>1, <1>4, <2>1, PatchKeepsTypes DEF CloseTicket
  <1>5. CASE ReopenTicket(p) \/ StudentReopen(p) \/ StaffReopen(p)
    <2>1. [q.saw EXCEPT !.state = "in_progress", !.closed = FALSE] \in Ticket
      BY <1>2 DEF Ticket, States
    <2>. QED BY <1>1, <1>5, <2>1, PatchKeepsTypes
         DEF ReopenTicket, StudentReopen, StaffReopen, Reopens
  <1>. QED BY <1>3, <1>4, <1>5

LEMMA UploadsKeepTypes ==
  ASSUME SupTypeOK, NEW p \in Helpers,
         \/ UploadTicketAttachment(p) \/ StudentUpload(p) \/ StaffUpload(p)
         \/ SaveUpload(p) \/ InsertAttachment(p)
  PROVE  SupTypeOK'
  <1>1. files \in [Files -> {"new", "disk", "gone"}] /\ torn \subseteq Files
    BY DEF SupTypeOK
  <1>2. CASE UploadTicketAttachment(p) \/ StudentUpload(p) \/ StaffUpload(p)
    <2>1. PICK m \in Messages : Goes(p, [pc |-> "upload", message |-> m])
      BY <1>2 DEF UploadTicketAttachment, StudentUpload, StaffUpload, LoadsMessage
    <2>2. [pc |-> "upload", message |-> m] \in Help
      BY DEF Help
    <2>3. UNCHANGED <<supRows, files, queue, cleaning, helpPlan, torn>>
      BY <1>2, Zenon DEF UploadTicketAttachment, StudentUpload, StaffUpload, LoadsMessage
    <2>. QED BY <1>1, <2>1, <2>2, <2>3, ReadingKeepsTypes
  <1>3. CASE SaveUpload(p)
    <2>1. PICK f \in Files :
            Save(f) /\ Goes(p, [pc |-> "saved", message |-> helps[p].message, file |-> f])
      BY <1>3 DEF SaveUpload
    <2>2. helps[p].message \in Messages
      BY <1>3, RowFields, HelpFields DEF SaveUpload
    <2>3. [pc |-> "saved", message |-> helps[p].message, file |-> f] \in Help
      BY <2>2 DEF Help
    <2>4. files' \in [Files -> {"new", "disk", "gone"}]
      BY <2>1, SavedFiles
    <2>5. UNCHANGED <<supRows, queue, cleaning, helpPlan>> /\ torn' \subseteq Files
      BY <1>1, <1>3 DEF SaveUpload
    <2>. QED BY <2>1, <2>3, <2>4, <2>5, ReadingKeepsTypes
  <1>4. CASE InsertAttachment(p)
    <2>1. helps[p].message \in Messages /\ helps[p].file \in Files
      BY <1>4, RowFields, HelpFields DEF InsertAttachment
    <2>2. attached' \in [Files -> Messages \cup {Nobody}]
      BY <1>4, <2>1 DEF InsertAttachment, SupTypeOK
    <2>3. helps' \in [Helpers -> Help]
      BY <1>4, FreeIsHelp, GoesFacts DEF InsertAttachment
    <2>4. UNCHANGED <<people, tickets, messages, files, queue, cleaning, helpPlan, torn>>
      BY <1>4 DEF InsertAttachment
    <2>. QED BY <2>2, <2>3, <2>4, Zenon DEF SupTypeOK
  <1>. QED BY <1>2, <1>3, <1>4

LEMMA PhotosKeepTypes ==
  ASSUME SupTypeOK, NEW p \in Helpers,
         \/ \E op \in {"photo", "unphoto"} : LoadPhoto(p, op)
         \/ SaveProfilePhoto(p) \/ CommitPhoto(p) \/ DeleteOldPhoto(p)
  PROVE  SupTypeOK'
  <1>. DEFINE q == helps[p]
  <1>1. files \in [Files -> {"new", "disk", "gone"}] /\ torn \subseteq Files /\ q \in Help
    BY DEF SupTypeOK
  <1>2. ASSUME NEW op \in {"photo", "unphoto"}, LoadPhoto(p, op) PROVE SupTypeOK'
    <2>1. PICK r \in Requesters : Goes(p, [pc |-> op, who |-> r, old |-> people[r].photo])
      BY <1>2 DEF LoadPhoto
    <2>2. [pc |-> op, who |-> r, old |-> people[r].photo] \in Help
      BY RowFields DEF Help
    <2>3. UNCHANGED <<supRows, files, queue, cleaning, helpPlan, torn>>
      BY <1>2 DEF LoadPhoto
    <2>. QED BY <1>1, <2>1, <2>2, <2>3, ReadingKeepsTypes
  <1>3. CASE SaveProfilePhoto(p)
    <2>1. PICK f \in Files :
            Save(f) /\ Goes(p, [pc |-> "pictured", who |-> q.who, old |-> q.old, file |-> f])
      BY <1>3 DEF SaveProfilePhoto
    <2>2. q.who \in Requesters /\ q.old \in Files \cup {Nobody}
      BY <1>1, <1>3, HelpFields DEF SaveProfilePhoto
    <2>3. [pc |-> "pictured", who |-> q.who, old |-> q.old, file |-> f] \in Help
      BY <2>2 DEF Help
    <2>4. files' \in [Files -> {"new", "disk", "gone"}]
      BY <2>1, SavedFiles
    <2>5. UNCHANGED <<supRows, queue, cleaning, helpPlan>> /\ torn' \subseteq Files
      BY <1>1, <1>3 DEF SaveProfilePhoto
    <2>. QED BY <2>1, <2>3, <2>4, <2>5, ReadingKeepsTypes
  <1>4. CASE CommitPhoto(p)
    <2>. DEFINE photo == IF q.pc = "pictured" THEN q.file ELSE Nobody
    <2>1. q.pc \in {"pictured", "unphoto"} /\ q.who \in Requesters /\ q.old \in Files \cup {Nobody}
      BY <1>1, <1>4, HelpFields DEF CommitPhoto
    <2>2. photo \in Files \cup {Nobody}
      BY <1>1, HelpFields
    <2>3. people' = [people EXCEPT ![q.who] = [here |-> TRUE, photo |-> photo]]
      BY <1>4 DEF CommitPhoto
    <2>. HIDE DEF photo
    <2>4. people' \in [Requesters -> Person] /\ people'[q.who].here
          /\ \A o \in Requesters \ {q.who} : people'[o] = people[o]
      BY <2>1, <2>2, <2>3 DEF SupTypeOK, Person
    <2>5. Replacing(q) \in Help
      BY <2>1, FreeIsHelp DEF Replacing, Help
    <2>6. helps' \in [Helpers -> Help]
      BY <1>4, <2>5, GoesFacts DEF CommitPhoto
    <2>7. UNCHANGED <<tickets, messages, attached, files, queue, cleaning, helpPlan, torn>>
      BY <1>4 DEF CommitPhoto
    <2>8. \A m \in Messages : messages'[m].from \in Requesters => people'[messages'[m].from].here
      BY <2>4, <2>7 DEF SupTypeOK
    <2>. QED BY <2>4, <2>6, <2>7, <2>8, Zenon DEF SupTypeOK
  <1>5. CASE DeleteOldPhoto(p)
    <2>1. q.old \in Files
      BY <1>1, <1>5, HelpFields DEF DeleteOldPhoto
    <2>2. files' \in [Files -> {"new", "disk", "gone"}]
      BY <1>5, <2>1, SavedFiles DEF DeleteOldPhoto
    <2>. QED BY <1>1, <1>5, <2>2, FreeIsHelp, ReadingKeepsTypes DEF DeleteOldPhoto
  <1>. QED BY <1>2, <1>3, <1>4, <1>5

LEMMA SupTypeKeeps == SupTypeOK /\ [SupNext]_supVars => SupTypeOK'
  <1>. SUFFICES ASSUME SupTypeOK, [SupNext]_supVars PROVE SupTypeOK'
    OBVIOUS
  <1>1. CASE UNCHANGED supVars
    BY <1>1, Zenon DEF SupTypeOK, supVars
  <1>2. CASE Cleanup
    BY <1>2, CleanupKeepsTypes
  <1>3. ASSUME NEW p \in Helpers, NEW op \in TicketOps, LoadTicket(p, op) PROVE SupTypeOK'
    <2>1. PICK t \in Tickets, by \in Requesters \cup {Desk} :
            Open(t) /\ Goes(p, [pc |-> op, ticket |-> t, by |-> by, saw |-> tickets[t]])
      BY <1>3 DEF LoadTicket
    <2>2. [pc |-> op, ticket |-> t, by |-> by, saw |-> tickets[t]] \in Help
      BY <2>1, RowFields DEF Help, Open, Loaded
    <2>3. UNCHANGED <<supRows, files, queue, cleaning, helpPlan, torn>>
      BY <1>3 DEF LoadTicket
    <2>4. files \in [Files -> {"new", "disk", "gone"}] /\ torn \subseteq Files
      BY DEF SupTypeOK
    <2>. QED BY <2>1, <2>2, <2>3, <2>4, ReadingKeepsTypes
  <1>4. ASSUME NEW p \in Helpers, CreateTicket(p) \/ CreateStaffTicket(p) PROVE SupTypeOK'
    BY <1>4, TrainersAssumption, OpeningKeepsTypes DEF CreateTicket, CreateStaffTicket
  <1>5. ASSUME NEW p \in Helpers, AddInternalNote(p) PROVE SupTypeOK'
    <2>1. helps[p].ticket \in Tickets
      BY <1>5, TicketOpFields DEF AddInternalNote, TicketOps
    <2>2. Posts(helps[p].ticket, Desk) /\ people' = people /\ Desk \notin Requesters
      BY <1>5, SupportAssumption DEF AddInternalNote
    <2>3. /\ messages' \in [Messages -> Message]
          /\ \A m \in Messages : messages'[m].from \in Requesters => people'[messages'[m].from].here
      BY <2>1, <2>2, PostFacts
    <2>. QED BY <1>5, <2>3, FreeIsHelp, TicketsKeepTypes DEF AddInternalNote, SupTypeOK
  <1>6. ASSUME NEW p \in Helpers, Fail(p) PROVE SupTypeOK'
    BY <1>6, FreeIsHelp, ReadingKeepsTypes DEF Fail, SupTypeOK
  <1>. QED BY <1>1, <1>2, <1>3, <1>4, <1>5, <1>6, RepliesKeepTypes, StatusKeepsTypes,
              UploadsKeepTypes, PhotosKeepTypes, DeletionsKeepTypes DEF SupNext

-------------------------------------------------------------------------------
(* Support: closed tickets.                                                *)

LEMMA ClosedStep ==
  ASSUME SupTypeOK, SupNext, NEW t \in Tickets,
         tickets[t].state = "closed", tickets'[t].state \in States \ {"closed"}
  PROVE  \E p \in Helpers :
           /\ helps'[p] # helps[p] /\ helps[p].pc \in TicketOps /\ helps[p].ticket = t
           /\ (helps[p].pc = "reopen" \/ helps[p].saw.state # "closed")
  <1>1. tickets' # tickets
    OBVIOUS
  <1>2. ASSUME NEW p \in Helpers, helps[p].pc \in TicketOps, Goes(p, Free), NEW to \in Ticket,
               TicketPatch(helps[p].ticket, helps[p].saw, to)
        PROVE  /\ helps'[p] # helps[p] /\ helps[p].ticket = t
               /\ to.state # helps[p].saw.state /\ to.state # "closed"
    <2>1. helps[p].ticket \in Tickets /\ helps[p].saw \in Ticket
      BY <1>2, TicketOpFields
    <2>2. helps'[p].pc = "idle" /\ helps[p].pc # "idle"
      BY <1>2, FreeIsHelp, GoesFacts DEF TicketOps
    <2>3. /\ tickets'[helps[p].ticket].state =
               IF to.state # helps[p].saw.state THEN to.state ELSE tickets[helps[p].ticket].state
          /\ \A o \in Tickets : o # helps[p].ticket => tickets'[o] = tickets[o]
      BY <1>2, <2>1, PatchFacts
    <2>. QED BY <2>2, <2>3
  <1>3. ASSUME NEW p \in Helpers, NEW from \in {"open", "waiting"}, Replies(p, from),
               from = "waiting" => helps[p].saw.state # "closed"
        PROVE  /\ helps'[p] # helps[p] /\ helps[p].pc \in TicketOps /\ helps[p].ticket = t
               /\ helps[p].saw.state # "closed"
    <2>. DEFINE saw == helps[p].saw
                to == IF saw.state = from THEN [saw EXCEPT !.state = "in_progress"] ELSE saw
    <2>1. helps[p].pc \in TicketOps
      BY <1>3 DEF Replies, TicketOps
    <2>2. to \in Ticket
      BY <2>1, TicketOpFields DEF Ticket, States
    <2>3. to.state # saw.state => saw.state = from
      OBVIOUS
    <2>4. TicketPatch(helps[p].ticket, saw, to) /\ Goes(p, Free)
      BY <1>3 DEF Replies
    <2>. HIDE DEF to
    <2>5. helps'[p] # helps[p] /\ helps[p].ticket = t /\ to.state # saw.state
      BY <1>2, <2>1, <2>2, <2>4
    <2>. QED BY <1>3, <2>1, <2>3, <2>5
  <1>4. ASSUME NEW p \in Helpers, ReplyToTicket(p) \/ StudentReply(p) \/ StaffReply(p)
        PROVE  /\ helps'[p] # helps[p] /\ helps[p].pc \in TicketOps /\ helps[p].ticket = t
               /\ helps[p].saw.state # "closed"
    BY <1>3, <1>4 DEF ReplyToTicket, StudentReply, StaffReply, OwnReply
  <1>5. ASSUME NEW p \in Helpers, ChangeStatus(p)
        PROVE  /\ helps'[p] # helps[p] /\ helps[p].pc \in TicketOps /\ helps[p].ticket = t
               /\ helps[p].saw.state # "closed"
    <2>. DEFINE saw == helps[p].saw
    <2>1. helps[p].pc \in TicketOps
      BY <1>5 DEF ChangeStatus, TicketOps
    <2>2. saw \in Ticket /\ saw.state \in States
      BY <2>1, TicketOpFields
    <2>3. PICK to \in AllowedTransitions(saw.state) :
            TicketPatch(helps[p].ticket, saw, [saw EXCEPT !.state = to, !.resolved = (to = "resolved")])
      BY <1>5 DEF ChangeStatus
    <2>4. to \in States /\ saw.state # "closed"
      BY <2>2, <2>3 DEF AllowedTransitions, States
    <2>5. [saw EXCEPT !.state = to, !.resolved = (to = "resolved")] \in Ticket
      BY <2>2, <2>4 DEF Ticket
    <2>. QED BY <1>2, <1>5, <2>1, <2>3, <2>4, <2>5 DEF ChangeStatus
  <1>6. ASSUME NEW p \in Helpers, CloseTicket(p) PROVE FALSE
    <2>1. helps[p].pc \in TicketOps
      BY <1>6 DEF CloseTicket, TicketOps
    <2>. DEFINE to == [helps[p].saw EXCEPT !.state = "closed", !.closed = TRUE]
    <2>2. to \in Ticket /\ to.state = "closed"
      BY <2>1, TicketOpFields DEF Ticket, States
    <2>3. TicketPatch(helps[p].ticket, helps[p].saw, to) /\ Goes(p, Free)
      BY <1>6 DEF CloseTicket
    <2>. HIDE DEF to
    <2>. QED BY <1>2, <2>1, <2>2, <2>3
  <1>7. ASSUME NEW p \in Helpers, ReopenTicket(p) \/ StudentReopen(p) \/ StaffReopen(p)
        PROVE  helps'[p] # helps[p] /\ helps[p].pc = "reopen" /\ helps[p].ticket = t
    <2>1. helps[p].pc = "reopen" /\ helps[p].pc \in TicketOps
      BY <1>7 DEF ReopenTicket, StudentReopen, StaffReopen, Reopens, TicketOps
    <2>. DEFINE to == [helps[p].saw EXCEPT !.state = "in_progress", !.closed = FALSE]
    <2>2. to \in Ticket
      BY <2>1, TicketOpFields DEF Ticket, States
    <2>3. TicketPatch(helps[p].ticket, helps[p].saw, to) /\ Goes(p, Free)
      BY <1>7 DEF ReopenTicket, StudentReopen, StaffReopen, Reopens
    <2>. HIDE DEF to
    <2>. QED BY <1>2, <2>1, <2>2, <2>3
  <1>8. ASSUME NEW p \in Helpers, CreateTicket(p) \/ CreateStaffTicket(p) PROVE FALSE
    <2>1. PICK o \in Tickets, r \in Requesters :
            /\ tickets[o].state = "none"
            /\ tickets' = [tickets EXCEPT ![o] = [@ EXCEPT !.state = "open", !.by = r]]
      BY <1>8, TrainersAssumption DEF CreateTicket, CreateStaffTicket, Opens
    <2>. QED BY <2>1 DEF SupTypeOK
  <1>9. ASSUME NEW p \in Helpers, DropTicket(p) PROVE FALSE
    <2>1. tickets' = [tickets EXCEPT ![helps[p].ticket] = [@ EXCEPT !.state = "gone"]]
          /\ helps[p].ticket \in Tickets
      BY <1>9, RowFields, HelpFields DEF DropTicket
    <2>2. tickets \in [Tickets -> Ticket] /\ tickets[t] \in Ticket
      BY DEF SupTypeOK
    <2>3. CASE helps[p].ticket = t
      <3>1. tickets'[t] = [tickets[t] EXCEPT !.state = "gone"]
        BY <2>1, <2>2, <2>3
      <3>2. tickets'[t].state = "gone"
        BY <2>2, <3>1 DEF Ticket
      <3>. QED BY <3>2 DEF States
    <2>4. CASE helps[p].ticket # t
      BY <2>1, <2>2, <2>4
    <2>. QED BY <2>3, <2>4
  <1>10. ASSUME NEW p \in Helpers, DeleteStudent(p) PROVE FALSE
    <2>1. tickets'[t] = IF tickets[t].by = helps[p].who THEN [tickets[t] EXCEPT !.by = Nobody]
                        ELSE tickets[t]
      BY <1>10 DEF DeleteStudent
    <2>2. [tickets[t] EXCEPT !.by = Nobody].state = tickets[t].state
      BY RowFields DEF Ticket
    <2>. QED BY <2>1, <2>2
  <1>11. ASSUME NEW p \in Helpers,
                \/ \E op \in TicketOps : LoadTicket(p, op)
                \/ AddInternalNote(p)
                \/ UploadTicketAttachment(p) \/ StudentUpload(p) \/ StaffUpload(p)
                \/ SaveUpload(p) \/ InsertAttachment(p)
                \/ \E op \in {"photo", "unphoto"} : LoadPhoto(p, op)
                \/ SaveProfilePhoto(p) \/ CommitPhoto(p) \/ DeleteOldPhoto(p)
                \/ LoadTicketToDelete(p) \/ UnlinkAttachment(p)
                \/ StageDeletion(p) \/ Fail(p)
         PROVE  FALSE
    <2>1. CASE \/ \E op \in TicketOps : LoadTicket(p, op)
               \/ AddInternalNote(p)
               \/ UploadTicketAttachment(p) \/ StudentUpload(p) \/ StaffUpload(p)
               \/ SaveUpload(p) \/ InsertAttachment(p)
      BY <1>1, <2>1, Zenon DEF LoadTicket, AddInternalNote, UploadTicketAttachment, StudentUpload,
         StaffUpload, LoadsMessage, SaveUpload, InsertAttachment, supRows
    <2>2. CASE \/ \E op \in {"photo", "unphoto"} : LoadPhoto(p, op)
               \/ SaveProfilePhoto(p) \/ CommitPhoto(p) \/ DeleteOldPhoto(p)
      BY <1>1, <2>2, Zenon DEF LoadPhoto, SaveProfilePhoto, CommitPhoto, DeleteOldPhoto, supRows
    <2>3. CASE \/ LoadTicketToDelete(p) \/ UnlinkAttachment(p)
               \/ StageDeletion(p) \/ Fail(p)
      BY <1>1, <2>3, Zenon DEF LoadTicketToDelete, UnlinkAttachment, StageDeletion, Fail, supRows
    <2>. QED BY <1>11, <2>1, <2>2, <2>3
  <1>12. ASSUME Cleanup PROVE FALSE
    BY <1>1, <1>12, Zenon
       DEF Cleanup, TakeJobs, CommitJobs, StopCleaner, CleanFile, CannotClean, supRows
  <1>. QED
    <2>1. PICK p \in Helpers :
            \/ CreateTicket(p) \/ CreateStaffTicket(p)
            \/ \E op \in TicketOps : LoadTicket(p, op)
            \/ ReplyToTicket(p) \/ StudentReply(p) \/ StaffReply(p)
            \/ AddInternalNote(p) \/ ChangeStatus(p) \/ CloseTicket(p)
            \/ ReopenTicket(p) \/ StudentReopen(p) \/ StaffReopen(p)
            \/ UploadTicketAttachment(p) \/ StudentUpload(p) \/ StaffUpload(p)
            \/ SaveUpload(p) \/ InsertAttachment(p)
            \/ \E op \in {"photo", "unphoto"} : LoadPhoto(p, op)
            \/ SaveProfilePhoto(p) \/ CommitPhoto(p) \/ DeleteOldPhoto(p)
            \/ LoadTicketToDelete(p) \/ UnlinkAttachment(p) \/ DropTicket(p)
            \/ StageDeletion(p) \/ DeleteStudent(p)
            \/ Fail(p)
      BY <1>12, Zenon DEF SupNext
    <2>2. CASE ReplyToTicket(p) \/ StudentReply(p) \/ StaffReply(p) \/ ChangeStatus(p)
      BY <1>4, <1>5, <2>2
    <2>3. CASE ReopenTicket(p) \/ StudentReopen(p) \/ StaffReopen(p)
      BY <1>7, <2>3 DEF TicketOps
    <2>. QED BY <1>6, <1>8, <1>9, <1>10, <1>11, <2>1, <2>2, <2>3, Zenon

(* The variables of support are typed.                                     *)
THEOREM SupTypeCorrect == SupSpec => []SupTypeOK
  <1>. QED BY SupTypeStarts, SupTypeKeeps, PTL DEF SupSpec

(* A closed ticket leaves its state only by a reopening or by a request    *)
(* that had loaded it before it was closed, whatever requests interleave   *)
(* (routes_admin_support.py:48-58).                                        *)
THEOREM ClosedStays == SupSpec => ClosedNeedsReopen
  <1>. DEFINE Kept ==
         \A t \in Tickets :
           tickets[t].state = "closed" /\ tickets'[t].state \in States \ {"closed"}
           => \E p \in Helpers :
                /\ helps'[p] # helps[p] /\ helps[p].pc \in TicketOps /\ helps[p].ticket = t
                /\ (helps[p].pc = "reopen" \/ helps[p].saw.state # "closed")
  <1>1. SupTypeOK /\ [SupNext]_supVars => [Kept]_supVars
    <2>1. SupTypeOK /\ SupNext => Kept
      BY ClosedStep
    <2>. HIDE DEF Kept
    <2>. QED BY <2>1
  <1>2. ClosedNeedsReopen <=> [][Kept]_supVars
    BY DEF ClosedNeedsReopen
  <1>. HIDE DEF Kept
  <1>. QED BY <1>1, <1>2, SupTypeCorrect, PTL DEF SupSpec

-------------------------------------------------------------------------------
(* Support: files.                                                         *)

LEMMA KnownFacts ==
  ASSUME SupInv
  PROVE  /\ \A f \in Files : attached[f] # Nobody => Used(f) /\ Known(f)
         /\ \A r \in Requesters : people[r].photo # Nobody =>
              people[r].photo \in Files /\ Used(people[r].photo) /\ Known(people[r].photo)
         /\ \A f \in Files : Used(f) => Known(f)
         /\ \A p \in Helpers : \A f \in Files : Names(helps[p], f) => Known(f)
         /\ \A f \in Files : f \in Queued \cup Held => Known(f)
         /\ Nobody \notin Files
  BY SupportAssumption, RowFields DEF SupInv, Known, Used

(* What a request may begin to hold without bringing a file.               *)
Harmless(q) ==
  /\ \A f \in Files : Names(q, f) => Known(f)
  /\ q.pc \notin {"saved", "pictured", "replaced"}
  /\ q.pc \in {"photo", "unphoto"} => \E r \in Requesters : q.who = r /\ q.old = people[r].photo

(* A step that refers to no more files than are known and removes one that *)
(* is not used, or whose ticket is being deleted.                          *)
LEMMA QuietKeeps ==
  ASSUME SupInv, SupTypeOK',
         \A f \in Files : attached'[f] \in {attached[f], Nobody},
         \A r \in Requesters : people'[r].photo \in {people[r].photo, Nobody},
         \A f \in Files : f \in Queued' \cup Held' => Known(f),
         \A p \in Helpers : helps'[p] = helps[p] \/ Harmless(helps'[p]),
         torn \subseteq torn',
         \A f \in Files :
           \/ files'[f] = files[f]
           \/ /\ files[f] = "disk" /\ files'[f] = "gone"
              /\ f \in torn' \/ (~Used(f) /\ \A p \in Helpers : ~Brings(helps[p], f))
  PROVE  SupInv'
  <1>1. \A f \in Files : Used(f)' => Used(f)
    BY KnownFacts DEF Used
  <1>2. \A p \in Helpers : \A f \in Files : Brings(helps'[p], f) => Brings(helps[p], f)
    BY DEF Brings, Harmless
  <1>3. \A p \in Helpers : \A f \in Files : Names(helps'[p], f) => Known(f)
    BY KnownFacts DEF Harmless
  <1>4. \A f \in Files : Known(f)' => Known(f)
    <2>. TAKE f \in Files
    <2>1. Known(f)' => Used(f)' \/ f \in Queued' \/ f \in Held' \/ \E p \in Helpers : Names(helps'[p], f)
      BY Zenon DEF Known
    <2>. QED BY <1>1, <1>3, <2>1, KnownFacts
  <1>5. NewUnknown'
    <2>1. \A f \in Files : files'[f] = "new" => files[f] = "new"
      OBVIOUS
    <2>2. \A f \in Files : files[f] = "new" =>
            ~Known(f) /\ \A p \in Helpers : ~Brings(helps[p], f)
      BY DEF SupInv, NewUnknown
    <2>3. \A f \in Files : files'[f] = "new" =>
            ~Known(f)' /\ \A p \in Helpers : ~Brings(helps'[p], f)
      BY <1>2, <1>4, <2>1, <2>2
    <2>. QED BY <2>3, Zenon DEF NewUnknown, Brings
  <1>6. BroughtOnce'
    <2>. SUFFICES ASSUME NEW p \in Helpers, NEW f \in Files, Brings(helps'[p], f)
                  PROVE  /\ ~Known(f)' /\ (files'[f] = "disk" \/ f \in torn')
                         /\ \A o \in Helpers \ {p} : ~Brings(helps'[o], f)
      BY Zenon DEF BroughtOnce, Brings
    <2>1. Brings(helps[p], f)
      BY <1>2
    <2>2. /\ ~Known(f) /\ (files[f] = "disk" \/ f \in torn)
          /\ \A o \in Helpers \ {p} : ~Brings(helps[o], f)
      BY <2>1 DEF SupInv, BroughtOnce
    <2>. QED BY <1>2, <1>4, <2>1, <2>2
  <1>7. PhotosAlone'
    <2>. SUFFICES ASSUME NEW r \in Requesters, people'[r].photo # Nobody
                  PROVE  /\ attached'[people'[r].photo] = Nobody
                         /\ \A o \in Requesters \ {r} : people'[o].photo # people'[r].photo
      BY Zenon DEF PhotosAlone
    <2>1. people'[r].photo = people[r].photo /\ people[r].photo \in Files
      BY KnownFacts
    <2>2. attached[people[r].photo] = Nobody
          /\ \A o \in Requesters \ {r} : people[o].photo # people[r].photo
      BY <2>1 DEF SupInv, PhotosAlone
    <2>. QED BY <2>1, <2>2
  <1>8. OldPhotosGo'
    <2>. SUFFICES ASSUME NEW p \in Helpers
                  PROVE  /\ helps'[p].pc \in {"photo", "unphoto", "pictured"} /\ helps'[p].old # Nobody =>
                              /\ attached'[helps'[p].old] = Nobody
                              /\ \A r \in Requesters \ {helps'[p].who} :
                                   people'[r].photo # helps'[p].old
                         /\ helps'[p].pc = "replaced" =>
                              /\ attached'[helps'[p].old] = Nobody
                              /\ \A r \in Requesters : people'[r].photo # helps'[p].old
      BY Zenon DEF OldPhotosGo, OldGoes, Used
    <2>. DEFINE q == helps'[p]
    <2>0. q \in Help
      BY DEF SupTypeOK
    <2>1. ASSUME q.pc \in {"photo", "unphoto", "pictured"}, q.old # Nobody
          PROVE  q.old \in Files /\ attached[q.old] = Nobody
                 /\ \A r \in Requesters \ {q.who} : people[r].photo # q.old
      <3>1. q.old \in Files
        BY <2>0, <2>1, HelpFields
      <3>2. CASE q = helps[p]
        BY <2>1, <3>1, <3>2 DEF SupInv, OldPhotosGo, OldGoes
      <3>3. CASE Harmless(q)
        BY <2>1, <3>1, <3>3 DEF SupInv, PhotosAlone, Harmless
      <3>. QED BY <3>1, <3>2, <3>3
    <2>2. ASSUME q.pc = "replaced" PROVE q.old \in Files /\ ~Used(q.old)
      <3>1. q = helps[p]
        BY <2>2 DEF Harmless
      <3>. QED BY <2>0, <2>2, <3>1, HelpFields DEF SupInv, OldPhotosGo, OldGoes
    <2>3. q.pc = "replaced" => /\ attached'[q.old] = Nobody
                               /\ \A r \in Requesters : people'[r].photo # q.old
      BY <2>2, KnownFacts DEF Used
    <2>4. q.pc \in {"photo", "unphoto", "pictured"} /\ q.old # Nobody =>
            attached'[q.old] = Nobody /\ \A r \in Requesters \ {q.who} : people'[r].photo # q.old
      BY <2>1
    <2>. QED BY <2>3, <2>4, Zenon
  <1>9. FilesOutliveRows'
    <2>1. \A f \in Files : Used(f) => files[f] = "disk" \/ f \in torn
      BY DEF SupInv, FilesOutliveRows
    <2>2. \A f \in Files : Used(f)' => files'[f] = "disk" \/ f \in torn'
      BY <1>1, <2>1
    <2>. QED BY <2>2, Zenon DEF FilesOutliveRows, Used
  <1>. QED BY <1>5, <1>6, <1>7, <1>8, <1>9, Zenon DEF SupInv

(* A file is saved under a new name.                                       *)
LEMMA SavingKeeps ==
  ASSUME SupInv, SupTypeOK', NEW p \in Helpers, NEW q \in Help, Goes(p, q), NEW f \in Files,
         Save(f), UNCHANGED <<supRows, queue, cleaning, torn>>,
         q.pc \in {"saved", "pictured"}, q.file = f,
         q.pc = "pictured" => helps[p].pc = "photo" /\ q.old = helps[p].old /\ q.who = helps[p].who
  PROVE  SupInv'
  <1>1. helps'[p] = q /\ \A o \in Helpers : o # p => helps'[o] = helps[o]
    BY GoesFacts DEF SupInv
  <1>2. /\ files[f] = "new" /\ files'[f] = "disk"
        /\ \A g \in Files : g # f => files'[g] = files[g]
    BY DEF Save, SupInv, SupTypeOK
  <1>3. ~Known(f) /\ \A o \in Helpers : ~Brings(helps[o], f)
    BY <1>2 DEF SupInv, NewUnknown
  <1>4. \A g \in Files : Names(q, g) => Known(g)
    BY KnownFacts DEF Names
  <1>5. \A g \in Files : Used(g)' <=> Used(g)
    BY DEF Used, supRows
  <1>6. \A g \in Files : Known(g)' => Known(g)
    <2>. TAKE g \in Files
    <2>1. Known(g)' => Used(g)' \/ g \in Queued' \/ g \in Held' \/ \E o \in Helpers : Names(helps'[o], g)
      BY Zenon DEF Known
    <2>2. Queued' = Queued /\ Held' = Held
      BY DEF Queued, Held
    <2>. QED BY <1>1, <1>4, <1>5, <2>1, <2>2, KnownFacts
  <1>7. /\ \A g \in Files : Brings(q, g) <=> g = f
        /\ \A o \in Helpers : \A g \in Files : o # p => (Brings(helps'[o], g) => Brings(helps[o], g))
    BY <1>1 DEF Brings
  <1>8. NewUnknown'
    <2>1. \A g \in Files : files[g] = "new" =>
            ~Known(g) /\ \A o \in Helpers : ~Brings(helps[o], g)
      BY DEF SupInv, NewUnknown
    <2>2. \A g \in Files : files'[g] = "new" =>
            ~Known(g)' /\ \A o \in Helpers : ~Brings(helps'[o], g)
      BY <1>1, <1>2, <1>6, <1>7, <2>1
    <2>. QED BY <2>2, Zenon DEF NewUnknown, Brings
  <1>9. BroughtOnce'
    <2>. SUFFICES ASSUME NEW o \in Helpers, NEW g \in Files, Brings(helps'[o], g)
                  PROVE  /\ ~Known(g)' /\ (files'[g] = "disk" \/ g \in torn')
                         /\ \A e \in Helpers \ {o} : ~Brings(helps'[e], g)
      BY Zenon DEF BroughtOnce, Brings
    <2>1. CASE o = p
      BY <1>1, <1>2, <1>3, <1>6, <1>7, <2>1
    <2>2. CASE o # p
      <3>1. Brings(helps[o], g) /\ g # f
        BY <1>3, <1>7, <2>2
      <3>2. /\ ~Known(g) /\ (files[g] = "disk" \/ g \in torn)
            /\ \A e \in Helpers \ {o} : ~Brings(helps[e], g)
        BY <3>1 DEF SupInv, BroughtOnce
      <3>. QED BY <1>1, <1>2, <1>6, <1>7, <3>1, <3>2
    <2>. QED BY <2>1, <2>2
  <1>10. PhotosAlone'
    BY Zenon DEF SupInv, PhotosAlone, supRows
  <1>11. OldPhotosGo'
    <2>. SUFFICES ASSUME NEW o \in Helpers
                  PROVE  /\ helps'[o].pc \in {"photo", "unphoto", "pictured"} /\ helps'[o].old # Nobody =>
                              /\ attached'[helps'[o].old] = Nobody
                              /\ \A r \in Requesters \ {helps'[o].who} :
                                   people'[r].photo # helps'[o].old
                         /\ helps'[o].pc = "replaced" =>
                              /\ attached'[helps'[o].old] = Nobody
                              /\ \A r \in Requesters : people'[r].photo # helps'[o].old
      BY Zenon DEF OldPhotosGo, OldGoes, Used
    <2>1. attached' = attached /\ people' = people
      BY DEF supRows
    <2>2. /\ helps[o].pc \in {"photo", "unphoto", "pictured"} /\ helps[o].old # Nobody =>
               /\ attached[helps[o].old] = Nobody
               /\ \A r \in Requesters \ {helps[o].who} : people[r].photo # helps[o].old
          /\ helps[o].pc = "replaced" => ~Used(helps[o].old)
      BY DEF SupInv, OldPhotosGo, OldGoes
    <2>3. CASE o = p
      BY <1>1, <2>1, <2>2, <2>3
    <2>4. CASE o # p
      <3>1. helps[o].pc = "replaced" => helps[o].old \in Files
        BY HelpFields DEF SupInv, SupTypeOK
      <3>. QED BY <1>1, <2>1, <2>2, <2>4, <3>1 DEF Used
    <2>. QED BY <2>3, <2>4
  <1>12. FilesOutliveRows'
    <2>1. \A g \in Files : Used(g) => files[g] = "disk" \/ g \in torn
      BY DEF SupInv, FilesOutliveRows
    <2>2. \A g \in Files : Used(g)' => files'[g] = "disk" \/ g \in torn'
      BY <1>2, <1>5, <2>1
    <2>. QED BY <2>2, Zenon DEF FilesOutliveRows, Used
  <1>. QED BY <1>8, <1>9, <1>10, <1>11, <1>12, Zenon DEF SupInv

(* A row refers to the file that its request brings.                       *)
LEMMA UsingKeeps ==
  ASSUME SupInv, SupTypeOK', NEW p \in Helpers, NEW f \in Files, Brings(helps[p], f),
         \A o \in Helpers : o # p => helps'[o] = helps[o],
         \A g \in Files : ~Brings(helps'[p], g) /\ (Names(helps'[p], g) => Known(g)),
         \A g \in Files : Used(g)' => Used(g) \/ g = f,
         UNCHANGED <<files, queue, cleaning, torn>>
  PROVE  NewUnknown' /\ BroughtOnce' /\ FilesOutliveRows'
  <1>1. /\ ~Known(f) /\ (files[f] = "disk" \/ f \in torn)
        /\ \A o \in Helpers \ {p} : ~Brings(helps[o], f)
    BY DEF SupInv, BroughtOnce
  <1>2. files[f] # "new"
    BY DEF SupInv, NewUnknown
  <1>3. \A g \in Files : Known(g)' => Known(g) \/ g = f
    <2>. TAKE g \in Files
    <2>1. Known(g)' => Used(g)' \/ g \in Queued' \/ g \in Held' \/ \E o \in Helpers : Names(helps'[o], g)
      BY Zenon DEF Known
    <2>2. Queued' = Queued /\ Held' = Held
      BY DEF Queued, Held
    <2>. QED BY <2>1, <2>2, KnownFacts
  <1>4. \A o \in Helpers : \A g \in Files : Brings(helps'[o], g) =>
          o # p /\ helps'[o] = helps[o] /\ Brings(helps[o], g) /\ g # f
    BY <1>1
  <1>5. NewUnknown'
    <2>1. \A g \in Files : files[g] = "new" =>
            ~Known(g) /\ \A o \in Helpers : ~Brings(helps[o], g)
      BY DEF SupInv, NewUnknown
    <2>2. \A g \in Files : files'[g] = "new" =>
            ~Known(g)' /\ \A o \in Helpers : ~Brings(helps'[o], g)
      BY <1>2, <1>3, <1>4, <2>1
    <2>. QED BY <2>2, Zenon DEF NewUnknown, Brings
  <1>6. BroughtOnce'
    <2>. SUFFICES ASSUME NEW o \in Helpers, NEW g \in Files, Brings(helps'[o], g)
                  PROVE  /\ ~Known(g)' /\ (files'[g] = "disk" \/ g \in torn')
                         /\ \A e \in Helpers \ {o} : ~Brings(helps'[e], g)
      BY Zenon DEF BroughtOnce, Brings
    <2>1. Brings(helps[o], g) /\ g # f
      BY <1>4
    <2>2. /\ ~Known(g) /\ (files[g] = "disk" \/ g \in torn)
          /\ \A e \in Helpers \ {o} : ~Brings(helps[e], g)
      BY <2>1 DEF SupInv, BroughtOnce
    <2>. QED BY <1>3, <1>4, <2>1, <2>2
  <1>7. FilesOutliveRows'
    <2>1. \A g \in Files : Used(g) => files[g] = "disk" \/ g \in torn
      BY DEF SupInv, FilesOutliveRows
    <2>2. \A g \in Files : Used(g)' => files'[g] = "disk" \/ g \in torn'
      BY <1>1, <2>1
    <2>. QED BY <2>2, Zenon DEF FilesOutliveRows, Used
  <1>. QED BY <1>5, <1>6, <1>7

LEMMA InsertKeeps ==
  ASSUME SupInv, SupTypeOK', NEW p \in Helpers, InsertAttachment(p)
  PROVE  SupInv'
  <1>. DEFINE f == helps[p].file
  <1>1. helps[p].pc = "saved" /\ f \in Files /\ Brings(helps[p], f) /\ helps[p].message \in Messages
    BY HelpFields DEF InsertAttachment, Brings, SupInv, SupTypeOK
  <1>2. helps'[p] = Free /\ \A o \in Helpers : o # p => helps'[o] = helps[o]
    BY FreeIsHelp, GoesFacts DEF InsertAttachment, SupInv
  <1>3. /\ people' = people
        /\ \A g \in Files : g # f => attached'[g] = attached[g]
    BY <1>1 DEF InsertAttachment, SupInv, SupTypeOK
  <1>4. ~Known(f)
    BY <1>1 DEF SupInv, BroughtOnce
  <1>5. \A g \in Files : ~Brings(helps'[p], g) /\ ~Names(helps'[p], g)
    BY <1>2, FreeIsHelp DEF Brings, Names
  <1>6. NewUnknown' /\ BroughtOnce' /\ FilesOutliveRows'
    <2>1. \A g \in Files : Used(g)' => Used(g) \/ g = f
      BY <1>3 DEF Used
    <2>2. UNCHANGED <<files, queue, cleaning, torn>>
      BY DEF InsertAttachment
    <2>. HIDE DEF f
    <2>. QED BY <1>1, <1>2, <1>5, <2>1, <2>2, UsingKeeps
  <1>7. \A r \in Requesters : people[r].photo # f
    BY <1>1, <1>4, KnownFacts, SupportAssumption
  <1>8. PhotosAlone'
    <2>1. \A r \in Requesters : people[r].photo # Nobody =>
            /\ people[r].photo \in Files /\ attached[people[r].photo] = Nobody
            /\ \A o \in Requesters \ {r} : people[o].photo # people[r].photo
      BY KnownFacts DEF SupInv, PhotosAlone
    <2>2. \A r \in Requesters : people'[r].photo # Nobody =>
            /\ attached'[people'[r].photo] = Nobody
            /\ \A o \in Requesters \ {r} : people'[o].photo # people'[r].photo
      BY <1>3, <1>7, <2>1
    <2>. QED BY <2>2, Zenon DEF PhotosAlone
  <1>9. OldPhotosGo'
    <2>. SUFFICES ASSUME NEW o \in Helpers
                  PROVE  /\ helps'[o].pc \in {"photo", "unphoto", "pictured"} /\ helps'[o].old # Nobody =>
                              /\ attached'[helps'[o].old] = Nobody
                              /\ \A r \in Requesters \ {helps'[o].who} :
                                   people'[r].photo # helps'[o].old
                         /\ helps'[o].pc = "replaced" =>
                              /\ attached'[helps'[o].old] = Nobody
                              /\ \A r \in Requesters : people'[r].photo # helps'[o].old
      BY Zenon DEF OldPhotosGo, OldGoes, Used
    <2>1. CASE o = p
      BY <1>2, <2>1, FreeIsHelp
    <2>2. CASE o # p
      <3>1. helps[o].pc \in {"photo", "unphoto", "pictured", "replaced"} =>
              helps[o].old \in Files \cup {Nobody} /\ helps[o].old # f
        BY <1>1, <1>4, HelpFields, KnownFacts DEF Names, SupInv, SupTypeOK
      <3>2. helps[o].pc = "replaced" => helps[o].old \in Files
        BY HelpFields DEF SupInv, SupTypeOK
      <3>3. OldGoes(helps[o])
        BY DEF SupInv, OldPhotosGo
      <3>. QED BY <1>2, <1>3, <2>2, <3>1, <3>2, <3>3 DEF OldGoes, Used
    <2>. QED BY <2>1, <2>2
  <1>. QED BY <1>6, <1>8, <1>9, Zenon DEF SupInv

LEMMA CommitPhotoKeeps ==
  ASSUME SupInv, SupTypeOK', NEW p \in Helpers, CommitPhoto(p)
  PROVE  SupInv'
  <1>. DEFINE q == helps[p]
              photo == IF q.pc = "pictured" THEN q.file ELSE Nobody
  <1>1. q.pc \in {"pictured", "unphoto"} /\ q.who \in Requesters /\ q.old \in Files \cup {Nobody}
        /\ (q.pc = "pictured" => q.file \in Files)
    BY HelpFields DEF CommitPhoto, SupInv, SupTypeOK
  <1>2. people' = [people EXCEPT ![q.who] = [here |-> TRUE, photo |-> photo]]
        /\ UNCHANGED <<tickets, messages, attached, files, queue, cleaning, helpPlan, torn>>
        /\ Goes(p, Replacing(q))
    BY DEF CommitPhoto
  <1>3. Replacing(q) \in Help
    BY <1>1, FreeIsHelp DEF Replacing, Help
  <1>4. helps'[p] = Replacing(q) /\ \A o \in Helpers : o # p => helps'[o] = helps[o]
    BY <1>2, <1>3, GoesFacts DEF SupInv
  <1>. HIDE DEF photo
  <1>5. /\ people'[q.who].photo = photo
        /\ \A o \in Requesters : o # q.who => people'[o] = people[o]
    BY <1>1, <1>2 DEF SupInv, SupTypeOK
  <1>6. /\ helps'[p].pc \in {"idle", "replaced"}
        /\ helps'[p].pc = "replaced" => helps'[p].old = q.old /\ q.old # Nobody
    BY <1>4, FreeIsHelp DEF Replacing
  <1>7. \A g \in Files : ~Brings(helps'[p], g) /\ (Names(helps'[p], g) => Names(q, g))
    BY <1>1, <1>6 DEF Brings, Names
  <1>8. q.old # Nobody =>
          /\ q.old \in Files /\ Known(q.old) /\ attached[q.old] = Nobody
          /\ \A r \in Requesters \ {q.who} : people[r].photo # q.old
    <2>1. OldGoes(q)
      BY DEF SupInv, OldPhotosGo
    <2>2. q.old # Nobody => q.old \in Files /\ Names(q, q.old)
      BY <1>1 DEF Names
    <2>. QED BY <1>1, <2>1, <2>2, KnownFacts DEF OldGoes
  <1>9. photo # Nobody =>
          photo \in Files /\ Brings(q, photo) /\ ~Known(photo) /\ ~Used(photo)
          /\ attached[photo] = Nobody /\ \A r \in Requesters : people[r].photo # photo
    <2>1. photo # Nobody => photo \in Files /\ Brings(q, photo)
      BY <1>1 DEF photo, Brings
    <2>2. photo # Nobody => ~Known(photo)
      BY <2>1 DEF SupInv, BroughtOnce
    <2>. QED BY <2>1, <2>2, KnownFacts
  <1>10. NewUnknown' /\ BroughtOnce' /\ FilesOutliveRows'
    <2>1. CASE photo # Nobody
      <3>1. \A g \in Files : Used(g)' => Used(g) \/ g = photo
        BY <1>2, <1>5 DEF Used
      <3>2. \A g \in Files : ~Brings(helps'[p], g) /\ (Names(helps'[p], g) => Known(g))
        BY <1>7, KnownFacts
      <3>. QED BY <1>2, <1>4, <1>9, <2>1, <3>1, <3>2, UsingKeeps
    <2>2. CASE photo = Nobody
      <3>1. \A g \in Files : Used(g)' => Used(g)
        BY <1>2, <1>5, <2>2, KnownFacts DEF Used
      <3>2. \A g \in Files : Known(g)' => Known(g)
        <4>. TAKE g \in Files
        <4>1. Known(g)' => Used(g)' \/ g \in Queued' \/ g \in Held' \/ \E o \in Helpers : Names(helps'[o], g)
          BY Zenon DEF Known
        <4>2. Queued' = Queued /\ Held' = Held
          BY <1>2 DEF Queued, Held
        <4>. QED BY <1>4, <1>7, <3>1, <4>1, <4>2, KnownFacts
      <3>3. \A o \in Helpers : \A g \in Files : Brings(helps'[o], g) =>
              o # p /\ helps'[o] = helps[o] /\ Brings(helps[o], g)
        BY <1>4, <1>7
      <3>4. NewUnknown'
        <4>1. \A g \in Files : files'[g] = "new" =>
                ~Known(g)' /\ \A o \in Helpers : ~Brings(helps'[o], g)
          BY <1>2, <3>2, <3>3 DEF SupInv, NewUnknown
        <4>. QED BY <4>1, Zenon DEF NewUnknown, Brings
      <3>5. BroughtOnce'
        <4>. SUFFICES ASSUME NEW o \in Helpers, NEW g \in Files, Brings(helps'[o], g)
                      PROVE  /\ ~Known(g)' /\ (files'[g] = "disk" \/ g \in torn')
                             /\ \A e \in Helpers \ {o} : ~Brings(helps'[e], g)
          BY Zenon DEF BroughtOnce, Brings
        <4>1. Brings(helps[o], g)
          BY <3>3
        <4>2. /\ ~Known(g) /\ (files[g] = "disk" \/ g \in torn)
              /\ \A e \in Helpers \ {o} : ~Brings(helps[e], g)
          BY <4>1 DEF SupInv, BroughtOnce
        <4>. QED BY <1>2, <3>2, <3>3, <4>1, <4>2
      <3>6. FilesOutliveRows'
        <4>1. \A g \in Files : Used(g) => files[g] = "disk" \/ g \in torn
          BY DEF SupInv, FilesOutliveRows
        <4>2. \A g \in Files : Used(g)' => files'[g] = "disk" \/ g \in torn'
          BY <1>2, <3>1, <4>1
        <4>. QED BY <4>2, Zenon DEF FilesOutliveRows, Used
      <3>. QED BY <3>4, <3>5, <3>6
    <2>. QED BY <2>1, <2>2
  <1>11. PhotosAlone'
    <2>1. \A r \in Requesters : people[r].photo # Nobody =>
            /\ people[r].photo \in Files /\ attached[people[r].photo] = Nobody
            /\ \A o \in Requesters \ {r} : people[o].photo # people[r].photo
      BY KnownFacts DEF SupInv, PhotosAlone
    <2>2. \A r \in Requesters : people'[r].photo # Nobody =>
            /\ attached'[people'[r].photo] = Nobody
            /\ \A o \in Requesters \ {r} : people'[o].photo # people'[r].photo
      BY <1>2, <1>5, <1>9, <2>1
    <2>. QED BY <2>2, Zenon DEF PhotosAlone
  <1>12. OldPhotosGo'
    <2>. SUFFICES ASSUME NEW o \in Helpers
                  PROVE  /\ helps'[o].pc \in {"photo", "unphoto", "pictured"} /\ helps'[o].old # Nobody =>
                              /\ attached'[helps'[o].old] = Nobody
                              /\ \A r \in Requesters \ {helps'[o].who} :
                                   people'[r].photo # helps'[o].old
                         /\ helps'[o].pc = "replaced" =>
                              /\ attached'[helps'[o].old] = Nobody
                              /\ \A r \in Requesters : people'[r].photo # helps'[o].old
      BY Zenon DEF OldPhotosGo, OldGoes, Used
    <2>1. CASE o = p
      <3>1. q.old # Nobody => photo # q.old
        BY <1>8, <1>9
      <3>. QED BY <1>2, <1>5, <1>6, <1>8, <2>1, <3>1
    <2>2. CASE o # p
      <3>1. OldGoes(helps[o])
        BY DEF SupInv, OldPhotosGo
      <3>2. helps[o].pc \in {"photo", "unphoto", "pictured", "replaced"} =>
              helps[o].old \in Files \cup {Nobody}
              /\ (helps[o].old # Nobody => Names(helps[o], helps[o].old))
        BY HelpFields DEF SupInv, SupTypeOK, Names
      <3>3. helps[o].pc = "replaced" => helps[o].old \in Files
        BY HelpFields DEF SupInv, SupTypeOK
      <3>4. helps[o].pc \in {"photo", "unphoto", "pictured", "replaced"} /\ helps[o].old # Nobody =>
              photo # helps[o].old
        BY <1>9, <3>2, KnownFacts
      <3>5. Nobody \notin Files
        BY SupportAssumption
      <3>. QED BY <1>2, <1>4, <1>5, <2>2, <3>1, <3>3, <3>4, <3>5 DEF OldGoes, Used
    <2>. QED BY <2>1, <2>2
  <1>. QED BY <1>10, <1>11, <1>12, Zenon DEF SupInv

(* A request that moves on without a file, and leaves the rows alone.      *)
LEMMA MovingKeeps ==
  ASSUME SupInv, SupTypeOK', NEW p \in Helpers, NEW q \in Help, Goes(p, q), Harmless(q),
         UNCHANGED <<people, attached, files, queue, cleaning, torn>>
  PROVE  SupInv'
  <1>1. helps'[p] = q /\ \A o \in Helpers : o # p => helps'[o] = helps[o]
    BY GoesFacts DEF SupInv
  <1>2. Queued' = Queued /\ Held' = Held
    BY DEF Queued, Held
  <1>3. \A f \in Files : f \in Queued' \cup Held' => Known(f)
    BY <1>2, KnownFacts
  <1>4. \A o \in Helpers : helps'[o] = helps[o] \/ Harmless(helps'[o])
    BY <1>1
  <1>. QED BY <1>3, <1>4, QuietKeeps

LEMMA NoFileIsHarmless ==
  ASSUME NEW q, q.pc \in TicketOps \cup {"idle", "upload", "delete"}
  PROVE  Harmless(q)
  BY DEF Harmless, Names, TicketOps

LEMMA UnlinkFacts ==
  ASSUME SupTypeOK, NEW f \in Files, Unlink(f)
  PROVE  /\ \A g \in Files : g # f => files'[g] = files[g]
         /\ files'[f] = files[f] \/ (files[f] = "disk" /\ files'[f] = "gone")
  BY DEF SupTypeOK, Unlink

LEMMA CleanupKeeps == SupInv /\ SupTypeOK' /\ Cleanup => SupInv'
  <1>. SUFFICES ASSUME SupInv, SupTypeOK', NEW w \in Cleaners,
                       \/ TakeJobs(w) \/ CommitJobs(w) \/ StopCleaner(w)
                       \/ \E f \in Files : CleanFile(w, f) \/ CannotClean(w, f)
                PROVE  SupInv'
    BY DEF Cleanup
  <1>. DEFINE held == cleaning[w]
  <1>0. SupTypeOK
    BY DEF SupInv
  <1>1. /\ held \in Batch /\ held.left \subseteq Files /\ held.done \subseteq Files
        /\ held.failed \subseteq Files
        /\ held.left \cup held.done \cup held.failed \subseteq Held
    BY <1>0, RowFields DEF Held
  <1>2. \A f \in Files : f \in Queued \cup Held => Known(f)
    BY KnownFacts
  <1>3. people' = people /\ attached' = attached /\ helps' = helps /\ torn' = torn
    <2>1. ASSUME NEW f \in Files, CleanFile(w, f) \/ CannotClean(w, f)
          PROVE  UNCHANGED <<supRows, helps, torn>>
      BY <2>1, Zenon DEF CleanFile, CannotClean
    <2>2. UNCHANGED <<supRows, helps, torn>>
      BY <2>1, Zenon DEF TakeJobs, CommitJobs, StopCleaner
    <2>. QED BY <2>2 DEF supRows
  <1>4. ASSUME NEW b \in Batch, cleaning' = [cleaning EXCEPT ![w] = b],
               b.left \cup b.done \cup b.failed \subseteq Held \cup Queued
        PROVE  Held' \subseteq Held \cup Queued
    <2>1. cleaning'[w] = b /\ \A o \in Cleaners : o # w => cleaning'[o] = cleaning[o]
      BY <1>0, <1>4 DEF SupTypeOK
    <2>. QED BY <1>4, <2>1 DEF Held
  <1>5. NoBatch \in Batch /\ NoBatch.left \cup NoBatch.done \cup NoBatch.failed = {}
    BY DEF NoBatch, Batch
  <1>6. ASSUME files' = files, Queued' \cup Held' \subseteq Held \cup Queued PROVE SupInv'
    BY <1>2, <1>3, <1>6, QuietKeeps
  <1>7. CASE TakeJobs(w)
    <2>. DEFINE free == Without(InOrder, Held)
                b == [NoBatch EXCEPT !.left = FirstOf(free)]
    <2>1. InOrder \in Seq(Files) /\ ToSet(InOrder) \subseteq Queued
      BY <1>0, RowFields, ConcatSet DEF InOrder, Queued
    <2>2. free \in Seq(Files) /\ ToSet(free) \subseteq ToSet(InOrder)
      BY <2>1, WithoutFacts
    <2>3. FirstOf(free) \subseteq ToSet(free) /\ FirstOf(free) \subseteq Files
      <3>. HIDE DEF free
      <3>1. FirstOf(free) \subseteq ToSet(free)
        BY <2>2, FirstSet
      <3>. QED BY <2>2, <3>1 DEF ToSet
    <2>4. b \in Batch /\ b.left \cup b.done \cup b.failed \subseteq Queued
      <3>. HIDE DEF free
      <3>. QED BY <2>1, <2>2, <2>3 DEF Batch, NoBatch
    <2>5. cleaning' = [cleaning EXCEPT ![w] = b] /\ files' = files /\ queue' = queue
      BY <1>7 DEF TakeJobs
    <2>. HIDE DEF b
    <2>6. Held' \subseteq Held \cup Queued
      BY <1>4, <2>4, <2>5
    <2>7. Queued' = Queued
      BY <2>5 DEF Queued
    <2>. QED BY <1>6, <2>5, <2>6, <2>7
  <1>8. CASE CommitJobs(w)
    <2>. DEFINE out == held.done \cup held.failed
                tried == Without(queue.tried, out)
                fresh == Without(queue.fresh, out)
    <2>1. IsFiniteSet(held.failed)
      BY <1>1, SupportAssumption, FS_Subset
    <2>2. /\ fresh \in Seq(Files) /\ ToSet(fresh) \subseteq ToSet(queue.fresh)
          /\ tried \in Seq(Files) /\ ToSet(tried) \subseteq ToSet(queue.tried)
      BY <1>0, RowFields, WithoutFacts
    <2>3. SetToSeq(held.failed) \in Seq(Files) /\ ToSet(SetToSeq(held.failed)) \subseteq held.failed
      <3>1. SetToSeq(held.failed) \in Seq(held.failed) /\ ToSet(SetToSeq(held.failed)) \subseteq held.failed
        BY <2>1, SetToSeqFacts
      <3>. QED BY <1>1, <3>1
    <2>4. ToSet(tried \o SetToSeq(held.failed)) \subseteq ToSet(tried) \cup held.failed
      <3>. HIDE DEF tried
      <3>1. ToSet(tried \o SetToSeq(held.failed)) \subseteq ToSet(tried) \cup ToSet(SetToSeq(held.failed))
        BY <2>2, <2>3, ConcatSet
      <3>. QED BY <2>3, <3>1
    <2>5. queue'.fresh = fresh /\ queue'.tried = tried \o SetToSeq(held.failed)
      BY <1>8 DEF CommitJobs, AfterBatch
    <2>6. Queued' \subseteq Queued \cup Held
      <3>. HIDE DEF tried, fresh
      <3>. QED BY <1>1, <2>2, <2>4, <2>5 DEF Queued
    <2>7. cleaning' = [cleaning EXCEPT ![w] = NoBatch] /\ files' = files
      BY <1>8 DEF CommitJobs
    <2>8. Held' \subseteq Held \cup Queued
      BY <1>4, <1>5, <2>7
    <2>. QED BY <1>6, <2>6, <2>7, <2>8
  <1>9. CASE StopCleaner(w)
    <2>1. cleaning' = [cleaning EXCEPT ![w] = NoBatch] /\ files' = files /\ queue' = queue
      BY <1>9 DEF StopCleaner
    <2>2. Held' \subseteq Held \cup Queued
      BY <1>4, <1>5, <2>1
    <2>3. Queued' = Queued
      BY <2>1 DEF Queued
    <2>. QED BY <1>6, <2>1, <2>2, <2>3
  <1>10. ASSUME NEW f \in Files, CannotClean(w, f) PROVE SupInv'
    <2>. DEFINE b == [held EXCEPT !.left = @ \ {f}, !.failed = @ \cup {f}]
    <2>1. f \in held.left /\ cleaning' = [cleaning EXCEPT ![w] = b] /\ files' = files /\ queue' = queue
      BY <1>10 DEF CannotClean
    <2>2. b \in Batch /\ b.left \cup b.done \cup b.failed \subseteq Held
      BY <1>1, <2>1 DEF Batch
    <2>. HIDE DEF b
    <2>3. Held' \subseteq Held \cup Queued
      BY <1>4, <2>1, <2>2
    <2>4. Queued' = Queued
      BY <2>1 DEF Queued
    <2>. QED BY <1>6, <2>1, <2>3, <2>4
  <1>11. ASSUME NEW f \in Files, CleanFile(w, f) PROVE SupInv'
    <2>. DEFINE b == [held EXCEPT !.left = @ \ {f}, !.done = @ \cup {f}]
    <2>1. f \in held.left /\ cleaning' = [cleaning EXCEPT ![w] = b] /\ queue' = queue
          /\ (files' = files \/ (~Used(f) /\ Unlink(f)))
      BY <1>11 DEF CleanFile
    <2>2. b \in Batch /\ b.left \cup b.done \cup b.failed \subseteq Held
      BY <1>1, <2>1 DEF Batch
    <2>. HIDE DEF b
    <2>3. Held' \subseteq Held \cup Queued
      BY <1>4, <2>1, <2>2
    <2>4. Queued' = Queued
      BY <2>1 DEF Queued
    <2>5. Known(f) /\ \A p \in Helpers : ~Brings(helps[p], f)
      BY <1>1, <1>2, <2>1 DEF SupInv, BroughtOnce
    <2>6. \A g \in Files :
            \/ files'[g] = files[g]
            \/ /\ files[g] = "disk" /\ files'[g] = "gone"
               /\ ~Used(g) /\ \A p \in Helpers : ~Brings(helps[p], g)
      BY <1>0, <2>1, <2>5, UnlinkFacts
    <2>7. \A g \in Files : g \in Queued' \cup Held' => Known(g)
      BY <1>2, <2>3, <2>4
    <2>. QED BY <1>3, <2>6, <2>7, QuietKeeps
  <1>. QED BY <1>7, <1>8, <1>9, <1>10, <1>11

LEMMA RemovalsKeep ==
  ASSUME SupInv, SupTypeOK', NEW p \in Helpers,
         \/ DeleteOldPhoto(p) \/ UnlinkAttachment(p) \/ DropTicket(p)
         \/ StageDeletion(p) \/ DeleteStudent(p)
  PROVE  SupInv'
  <1>. DEFINE q == helps[p]
  <1>1. SupTypeOK /\ q \in Help
    BY DEF SupInv, SupTypeOK
  <1>2. Harmless(Free) /\ Free \in Help
    BY FreeIsHelp, NoFileIsHarmless
  <1>3. \A f \in Files : f \in Queued \cup Held => Known(f)
    BY KnownFacts
  <1>4. CASE DeleteOldPhoto(p)
    <2>1. q.pc = "replaced" /\ q.old \in Files /\ Unlink(q.old) /\ Goes(p, Free)
          /\ UNCHANGED <<people, attached, queue, cleaning, torn>>
      BY <1>1, <1>4, HelpFields DEF DeleteOldPhoto, supRows
    <2>2. ~Used(q.old) /\ \A o \in Helpers : ~Brings(helps[o], q.old)
      <3>1. OldGoes(q) /\ Names(q, q.old)
        BY <2>1 DEF SupInv, OldPhotosGo, Names
      <3>2. Known(q.old)
        BY <2>1, <3>1, KnownFacts
      <3>. QED BY <2>1, <3>1, <3>2 DEF OldGoes, SupInv, BroughtOnce
    <2>3. \A f \in Files :
            \/ files'[f] = files[f]
            \/ /\ files[f] = "disk" /\ files'[f] = "gone"
               /\ ~Used(f) /\ \A o \in Helpers : ~Brings(helps[o], f)
      BY <1>1, <2>1, <2>2, UnlinkFacts
    <2>4. \A o \in Helpers : helps'[o] = helps[o] \/ Harmless(helps'[o])
      BY <1>1, <1>2, <2>1, GoesFacts
    <2>5. Queued' = Queued /\ Held' = Held
      BY <2>1 DEF Queued, Held
    <2>. QED BY <1>3, <2>1, <2>3, <2>4, <2>5, QuietKeeps
  <1>5. CASE UnlinkAttachment(p)
    <2>1. PICK f \in q.left :
            Unlink(f) /\ torn' = torn \cup {f} /\ Goes(p, [q EXCEPT !.left = @ \ {f}])
      BY <1>5 DEF UnlinkAttachment
    <2>2. q.pc = "delete" /\ f \in Files /\ UNCHANGED <<people, attached, queue, cleaning>>
      BY <1>1, <1>5, HelpFields DEF UnlinkAttachment, supRows
    <2>3. [q EXCEPT !.left = @ \ {f}] \in Help /\ [q EXCEPT !.left = @ \ {f}].pc = "delete"
      BY <1>1, <2>2 DEF Help, TicketOps
    <2>4. \A o \in Helpers : helps'[o] = helps[o] \/ Harmless(helps'[o])
      BY <1>1, <2>1, <2>3, GoesFacts, NoFileIsHarmless
    <2>5. \A g \in Files :
            \/ files'[g] = files[g]
            \/ files[g] = "disk" /\ files'[g] = "gone" /\ g \in torn'
      BY <1>1, <2>1, <2>2, UnlinkFacts
    <2>6. Queued' = Queued /\ Held' = Held
      BY <2>2 DEF Queued, Held
    <2>. QED BY <1>3, <2>1, <2>2, <2>4, <2>5, <2>6, QuietKeeps
  <1>6. CASE DropTicket(p)
    <2>1. /\ \A f \in Files : attached'[f] \in {attached[f], Nobody}
          /\ Goes(p, Free) /\ UNCHANGED <<people, files, queue, cleaning, torn>>
      BY <1>6 DEF DropTicket
    <2>2. \A o \in Helpers : helps'[o] = helps[o] \/ Harmless(helps'[o])
      BY <1>1, <1>2, <2>1, GoesFacts
    <2>3. Queued' = Queued /\ Held' = Held
      BY <2>1 DEF Queued, Held
    <2>. QED BY <1>3, <2>1, <2>2, <2>3, QuietKeeps
  <1>7. CASE StageDeletion(p)
    <2>1. PICK r \in Requesters, fs \in SUBSET {f \in Files : \E m \in Messages : attached[f] = m} :
            Goes(p, [pc |-> "leave", who |-> r, files |-> fs])
      BY <1>7, Zenon DEF StageDeletion
    <2>2. UNCHANGED <<people, attached, files, queue, cleaning, torn>>
      BY <1>7 DEF StageDeletion, supRows
    <2>3. \A f \in fs : f \in Files /\ attached[f] # Nobody
      BY <2>1, SupportAssumption
    <2>. DEFINE h == [pc |-> "leave", who |-> r, files |-> fs]
    <2>4. h \in Help
      BY <2>1 DEF Help
    <2>5. Harmless(h)
      BY <2>3, KnownFacts DEF Harmless, Names
    <2>. HIDE DEF h
    <2>. QED BY <2>1, <2>2, <2>4, <2>5, MovingKeeps DEF h
  <1>8. CASE DeleteStudent(p)
    <2>. DEFINE r == q.who
                manifest == q.files \cup ({people[r].photo} \ {Nobody})
    <2>1. q.pc = "leave" /\ r \in Requesters /\ q.files \subseteq Files
      BY <1>1, <1>8, HelpFields DEF DeleteStudent
    <2>2. /\ manifest \subseteq Files
          /\ \A f \in manifest : Known(f)
      BY <2>1, KnownFacts DEF Names
    <2>3. ToSet(SetToSeq(manifest)) \subseteq manifest /\ SetToSeq(manifest) \in Seq(Files)
      <3>. HIDE DEF manifest
      <3>1. IsFiniteSet(manifest)
        BY <2>2, SupportAssumption, FS_Subset
      <3>2. SetToSeq(manifest) \in Seq(manifest) /\ ToSet(SetToSeq(manifest)) \subseteq manifest
        BY <3>1, SetToSeqFacts
      <3>. QED BY <2>2, <3>2
    <2>4. queue'.fresh = queue.fresh \o SetToSeq(manifest) /\ queue'.tried = queue.tried
      <3>1. queue' = [queue EXCEPT !.fresh = @ \o SetToSeq(manifest)]
        BY <1>8 DEF DeleteStudent
      <3>. HIDE DEF manifest
      <3>. QED BY <1>1, <3>1 DEF SupTypeOK
    <2>5. \A f \in Files : f \in Queued' => Known(f)
      <3>. HIDE DEF manifest
      <3>1. ToSet(queue'.fresh) \subseteq ToSet(queue.fresh) \cup ToSet(SetToSeq(manifest))
        BY <1>1, <2>3, <2>4, RowFields, ConcatSet
      <3>. QED BY <1>3, <2>2, <2>3, <2>4, <3>1 DEF Queued
    <2>6. /\ \A f \in Files : attached'[f] \in {attached[f], Nobody}
          /\ people' = [people EXCEPT ![r] = [here |-> FALSE, photo |-> Nobody]]
          /\ Goes(p, Free) /\ UNCHANGED <<files, cleaning, torn>>
      BY <1>8 DEF DeleteStudent
    <2>7. \A o \in Requesters : people'[o].photo \in {people[o].photo, Nobody}
      BY <1>1, <2>1, <2>6 DEF SupTypeOK
    <2>8. \A o \in Helpers : helps'[o] = helps[o] \/ Harmless(helps'[o])
      BY <1>1, <1>2, <2>6, GoesFacts
    <2>9. Held' = Held
      BY <2>6 DEF Held
    <2>10. \A f \in Files : f \in Queued' \cup Held' => Known(f)
      BY <1>3, <2>5, <2>9
    <2>. QED BY <2>6, <2>7, <2>8, <2>10, QuietKeeps
  <1>. QED BY <1>4, <1>5, <1>6, <1>7, <1>8

LEMMA SupInvKeeps == SupInv /\ [SupNext]_supVars => SupInv'
  <1>. SUFFICES ASSUME SupInv, [SupNext]_supVars PROVE SupInv'
    OBVIOUS
  <1>1. SupTypeOK /\ SupTypeOK'
    BY SupTypeKeeps DEF SupInv
  <1>2. CASE UNCHANGED supVars
    <2>1. UNCHANGED <<people, attached, files, queue, helps, cleaning, torn>>
      BY <1>2 DEF supVars
    <2>2. Queued' = Queued /\ Held' = Held
      BY <2>1 DEF Queued, Held
    <2>3. \A f \in Files : f \in Queued' \cup Held' => Known(f)
      BY <2>2, KnownFacts
    <2>. QED BY <1>1, <2>1, <2>3, QuietKeeps
  <1>3. CASE Cleanup
    BY <1>1, <1>3, CleanupKeeps
  <1>4. Free \in Help /\ Harmless(Free)
    BY FreeIsHelp, NoFileIsHarmless
  <1>5. ASSUME NEW p \in Helpers, CreateTicket(p) \/ CreateStaffTicket(p) PROVE SupInv'
    <2>1. UNCHANGED <<people, attached, files, queue, helps, cleaning, torn>>
      BY <1>5 DEF CreateTicket, CreateStaffTicket, Opens
    <2>2. Queued' = Queued /\ Held' = Held
      BY <2>1 DEF Queued, Held
    <2>3. \A f \in Files : f \in Queued' \cup Held' => Known(f)
      BY <2>2, KnownFacts
    <2>. QED BY <1>1, <2>1, <2>3, QuietKeeps
  <1>6. ASSUME NEW p \in Helpers,
               \/ ReplyToTicket(p) \/ StudentReply(p) \/ StaffReply(p)
               \/ AddInternalNote(p) \/ ChangeStatus(p) \/ CloseTicket(p)
               \/ ReopenTicket(p) \/ StudentReopen(p) \/ StaffReopen(p)
               \/ DropTicket(p) \/ Fail(p)
        PROVE  SupInv'
    <2>1. CASE \/ ReplyToTicket(p) \/ StudentReply(p) \/ StaffReply(p)
               \/ AddInternalNote(p) \/ ChangeStatus(p) \/ CloseTicket(p)
      <3>1. Goes(p, Free) /\ UNCHANGED <<people, attached, files, queue, cleaning, torn>>
        BY <2>1, Zenon DEF ReplyToTicket, StudentReply, StaffReply, OwnReply, Replies,
           AddInternalNote, ChangeStatus, CloseTicket
      <3>. QED BY <1>1, <1>4, <3>1, MovingKeeps
    <2>2. CASE ReopenTicket(p) \/ StudentReopen(p) \/ StaffReopen(p) \/ Fail(p)
      <3>1. Goes(p, Free) /\ UNCHANGED <<people, attached, files, queue, cleaning, torn>>
        BY <2>2, Zenon DEF ReopenTicket, StudentReopen, StaffReopen, Reopens, Fail, supRows
      <3>. QED BY <1>1, <1>4, <3>1, MovingKeeps
    <2>3. CASE DropTicket(p)
      BY <1>1, <2>3, RemovalsKeep
    <2>. QED BY <1>6, <2>1, <2>2, <2>3
  <1>7. ASSUME NEW p \in Helpers, NEW op \in TicketOps, LoadTicket(p, op) PROVE SupInv'
    <2>1. PICK t \in Tickets, by \in Requesters \cup {Desk} :
            Open(t) /\ Goes(p, [pc |-> op, ticket |-> t, by |-> by, saw |-> tickets[t]])
      BY <1>7 DEF LoadTicket
    <2>. DEFINE h == [pc |-> op, ticket |-> t, by |-> by, saw |-> tickets[t]]
    <2>2. h \in Help /\ h.pc \in TicketOps
      BY <1>1, <2>1, RowFields DEF Help, Open, Loaded
    <2>3. UNCHANGED <<people, attached, files, queue, cleaning, torn>>
      BY <1>7 DEF LoadTicket, supRows
    <2>. HIDE DEF h
    <2>. QED BY <1>1, <2>1, <2>2, <2>3, NoFileIsHarmless, MovingKeeps DEF h
  <1>8. ASSUME NEW p \in Helpers, UploadTicketAttachment(p) \/ StudentUpload(p) \/ StaffUpload(p)
        PROVE  SupInv'
    <2>1. PICK m \in Messages : Goes(p, [pc |-> "upload", message |-> m])
      BY <1>8 DEF UploadTicketAttachment, StudentUpload, StaffUpload, LoadsMessage
    <2>. DEFINE h == [pc |-> "upload", message |-> m]
    <2>2. h \in Help /\ h.pc = "upload"
      BY DEF Help
    <2>3. UNCHANGED <<people, attached, files, queue, cleaning, torn>>
      BY <1>8, Zenon DEF UploadTicketAttachment, StudentUpload, StaffUpload, LoadsMessage, supRows
    <2>. HIDE DEF h
    <2>. QED BY <1>1, <2>1, <2>2, <2>3, NoFileIsHarmless, MovingKeeps DEF h
  <1>9. ASSUME NEW p \in Helpers, SaveUpload(p) PROVE SupInv'
    <2>1. PICK f \in Files :
            Save(f) /\ Goes(p, [pc |-> "saved", message |-> helps[p].message, file |-> f])
      BY <1>9 DEF SaveUpload
    <2>. DEFINE h == [pc |-> "saved", message |-> helps[p].message, file |-> f]
    <2>2. helps[p].message \in Messages
      BY <1>1, <1>9, RowFields, HelpFields DEF SaveUpload
    <2>3. h \in Help /\ h.pc = "saved" /\ h.file = f
      BY <2>2 DEF Help
    <2>4. UNCHANGED <<supRows, queue, cleaning, torn>>
      BY <1>9 DEF SaveUpload
    <2>. HIDE DEF h
    <2>. QED BY <1>1, <2>1, <2>3, <2>4, SavingKeeps DEF h
  <1>10. ASSUME NEW p \in Helpers, SaveProfilePhoto(p) PROVE SupInv'
    <2>. DEFINE q == helps[p]
    <2>1. PICK f \in Files :
            Save(f) /\ Goes(p, [pc |-> "pictured", who |-> q.who, old |-> q.old, file |-> f])
      BY <1>10 DEF SaveProfilePhoto
    <2>. DEFINE h == [pc |-> "pictured", who |-> q.who, old |-> q.old, file |-> f]
    <2>2. q.pc = "photo" /\ q.who \in Requesters /\ q.old \in Files \cup {Nobody}
      BY <1>1, <1>10, RowFields, HelpFields DEF SaveProfilePhoto
    <2>3. h \in Help /\ h.pc = "pictured" /\ h.file = f /\ h.old = q.old /\ h.who = q.who
      BY <2>2 DEF Help
    <2>4. UNCHANGED <<supRows, queue, cleaning, torn>>
      BY <1>10 DEF SaveProfilePhoto
    <2>. HIDE DEF h
    <2>. QED BY <1>1, <2>1, <2>2, <2>3, <2>4, SavingKeeps DEF h
  <1>11. ASSUME NEW p \in Helpers, NEW op \in {"photo", "unphoto"}, LoadPhoto(p, op) PROVE SupInv'
    <2>1. PICK r \in Requesters : Goes(p, [pc |-> op, who |-> r, old |-> people[r].photo])
      BY <1>11 DEF LoadPhoto
    <2>. DEFINE h == [pc |-> op, who |-> r, old |-> people[r].photo]
    <2>2. h \in Help
      BY <1>1, RowFields DEF Help
    <2>3. Harmless(h)
      BY KnownFacts DEF Harmless, Names
    <2>4. UNCHANGED <<people, attached, files, queue, cleaning, torn>>
      BY <1>11 DEF LoadPhoto, supRows
    <2>. HIDE DEF h
    <2>. QED BY <1>1, <2>1, <2>2, <2>3, <2>4, MovingKeeps DEF h
  <1>12. ASSUME NEW p \in Helpers, LoadTicketToDelete(p) PROVE SupInv'
    <2>1. PICK t \in Tickets, of \in SUBSET Messages, on \in SUBSET Files :
            Goes(p, [pc |-> "delete", ticket |-> t, messages |-> of, files |-> on, left |-> on])
      BY <1>12, Zenon DEF LoadTicketToDelete
    <2>. DEFINE h == [pc |-> "delete", ticket |-> t, messages |-> of, files |-> on, left |-> on]
    <2>2. h \in Help /\ h.pc = "delete"
      BY DEF Help
    <2>3. UNCHANGED <<people, attached, files, queue, cleaning, torn>>
      BY <1>12, Zenon DEF LoadTicketToDelete, supRows
    <2>. HIDE DEF h
    <2>. QED BY <1>1, <2>1, <2>2, <2>3, NoFileIsHarmless, MovingKeeps DEF h
  <1>. QED BY <1>1, <1>2, <1>3, <1>5, <1>6, <1>7, <1>8, <1>9, <1>10, <1>11, <1>12,
              InsertKeeps, CommitPhotoKeeps, RemovalsKeep DEF SupNext

LEMMA SupInvStarts == SupInit => SupInv
  <1>. SUFFICES ASSUME SupInit PROVE SupInv
    OBVIOUS
  <1>1. SupTypeOK
    BY SupTypeStarts
  <1>2. \A p \in Helpers : helps[p] = Free
    BY DEF SupInit
  <1>3. \A p \in Helpers : \A f \in Files : ~Names(helps[p], f) /\ ~Brings(helps[p], f)
    BY <1>2, FreeIsHelp DEF Names, Brings
  <1>4. Queued = {} /\ Held = {}
    BY DEF SupInit, Queued, Held, ToSet, NoBatch
  <1>5. \A f \in Files : files[f] = IF Used(f) THEN "disk" ELSE "new"
    BY DEF SupInit, Used
  <1>6. \A f \in Files : Known(f) => Used(f)
    BY <1>3, <1>4 DEF Known
  <1>7. NewUnknown /\ BroughtOnce /\ FilesOutliveRows
    BY <1>3, <1>5, <1>6 DEF NewUnknown, BroughtOnce, FilesOutliveRows
  <1>8. PhotosAlone
    <2>1. helpPlan \in SupportPlans /\ attached = helpPlan.attached
      BY DEF SupInit
    <2>2. people = [r \in Requesters |-> [here |-> TRUE, photo |-> helpPlan.photo[r]]]
      BY Zenon DEF SupInit
    <2>3. \A r \in Requesters : people[r].photo = helpPlan.photo[r]
      BY <2>2
    <2>4. \A r \in Requesters : helpPlan.photo[r] # Nobody =>
            /\ helpPlan.attached[helpPlan.photo[r]] = Nobody
            /\ \A o \in Requesters \ {r} : helpPlan.photo[o] # helpPlan.photo[r]
      BY <2>1, SupportAssumption, Zenon
    <2>. QED BY <2>1, <2>3, <2>4 DEF PhotosAlone
  <1>9. OldPhotosGo
    BY <1>2, FreeIsHelp DEF OldPhotosGo, OldGoes
  <1>. QED BY <1>1, <1>7, <1>8, <1>9 DEF SupInv

(* A photo or an attachment that a row refers to is on the disk, unless    *)
(* its ticket is being deleted, whatever uploads, photo changes, deletions *)
(* and cleanup workers interleave (routes_profile.py:25-35,                *)
(* upload_cleanup.py:28-31, routes_admin_support.py:425-430).              *)
THEOREM FilesStay == SupSpec => []FilesOutliveRows
  <1>1. SupSpec => []SupInv
    BY SupInvStarts, SupInvKeeps, PTL DEF SupSpec
  <1>2. SupInv => FilesOutliveRows
    BY DEF SupInv
  <1>. QED BY <1>1, <1>2, PTL

-------------------------------------------------------------------------------
(* Chat: types.                                                            *)

LEMMA TalkFields ==
  ASSUME NEW q \in Talk
  PROVE  /\ q.pc \in {"quiet", "send", "sent", "push", "load", "allocate"}
         /\ q.pc = "quiet" => q = Quiet
         /\ q.pc \in {"send", "sent", "push"} => q.text \in Texts /\ q.by \in People
         /\ q.pc = "push" => q.to \in Seq(People) /\ q.left \subseteq Sockets
         /\ q.pc = "load" => q.in \in Channels /\ q.by \in People /\ q.rows \subseteq Texts
         /\ q.pc = "allocate" => /\ q.who \subseteq Students /\ q.saw \subseteq Students
                              /\ q.limit \in Limits \cup {NoLimit}
  BY DEF Talk, Quiet

LEMMA QuietIsTalk == Quiet \in Talk /\ Quiet.pc = "quiet"
  BY DEF Quiet, Talk

LEMMA BecomesFacts ==
  ASSUME ChatTypeOK, NEW p \in Talkers, NEW q \in Talk, Becomes(p, q)
  PROVE  /\ talks' \in [Talkers -> Talk] /\ talks'[p] = q
         /\ \A o \in Talkers : o # p => talks'[o] = talks[o]
  BY DEF Becomes, ChatTypeOK

LEMMA TextFields ==
  ASSUME ChatTypeOK
  PROVE  /\ \A m \in Texts : /\ texts[m] \in Text /\ texts[m].in \in Channels
                             /\ texts[m].state \in {"none", "sending", "here", "lost"}
         /\ \A p \in Talkers : talks[p] \in Talk
  BY DEF ChatTypeOK, Text

LEMMA PairFacts ==
  /\ Pair \subseteq People
  /\ \A u \in Pair : Other(u) \in Pair
  <1>1. PICK u, v \in People : u # v /\ Pair = {u, v}
    BY ChatAssumption
  <1>2. \A o \in Pair : \E e \in Pair : e # o
    BY <1>1
  <1>. QED BY <1>1, <1>2 DEF Other

LEMMA MembersFinite ==
  ASSUME ChatTypeOK
  PROVE  /\ IsFiniteSet(roster) /\ IsFiniteSet(InRoom) /\ InRoom \subseteq People
         /\ \A u \in People : IsFiniteSet(roster \cup {u})
  <1>1. IsFiniteSet(roster)
    BY ChatAssumption, FS_Subset DEF ChatTypeOK
  <1>2. \A u : IsFiniteSet(roster \cup {u}) /\ IsFiniteSet(roster \cup {})
    BY <1>1, FS_AddElement
  <1>3. InRoom = roster \cup {coach} \/ InRoom = roster \cup {}
    BY DEF InRoom
  <1>. QED BY <1>1, <1>2, <1>3 DEF InRoom, ChatTypeOK, People

(* A step of a request that changes no row, and what was shown and pushed  *)
(* at most.                                                                *)
LEMMA TalkKeepsTypes ==
  ASSUME ChatTypeOK, NEW p \in Talkers, NEW q \in Talk, Becomes(p, q),
         UNCHANGED <<chatRows, barred, crossed, accepted>>, connected' \subseteq Sockets,
         seenBy' \in [People -> SUBSET Texts], pushes' \subseteq Sockets \X Texts
  PROVE  ChatTypeOK'
  <1>1. talks' \in [Talkers -> Talk]
    BY BecomesFacts
  <1>. QED BY <1>1, Zenon DEF ChatTypeOK, chatRows

LEMMA CommitsFacts ==
  ASSUME ChatTypeOK, NEW m \in Texts, NEW by \in People, NEW readers, Commits(m, by, readers)
  PROVE  /\ texts' \in [Texts -> Text] /\ seenBy' \in [People -> SUBSET Texts]
         /\ crossed' \subseteq People \X Texts /\ barred' \in [Texts -> SUBSET (Sockets \cup People)]
         /\ texts'[m].state = "here" /\ texts'[m].in = texts[m].in
         /\ \A n \in Texts : n # m => texts'[n] = texts[n] /\ barred'[n] = barred[n]
         /\ \A u \in People : seenBy[u] \subseteq seenBy'[u]
         /\ crossed' = crossed \cup {<<u, m>> : u \in LoadersOf(texts[m].in)}
         /\ barred'[m] = (Sockets \ logged) \cup (People \ (readers \cup {by}))
  <1>1. texts' = [texts EXCEPT ![m] = [texts[m] EXCEPT !.state = "here"]]
    BY DEF Commits
  <1>2. [texts[m] EXCEPT !.state = "here"] \in Text /\ texts \in [Texts -> Text]
    BY TextFields DEF Text, ChatTypeOK
  <1>3. seenBy' = [seenBy EXCEPT ![by] = seenBy[by] \cup {m}] /\ seenBy \in [People -> SUBSET Texts]
    BY DEF Commits, ChatTypeOK
  <1>4. crossed' = crossed \cup {<<u, m>> : u \in LoadersOf(texts[m].in)}
        /\ crossed \subseteq People \X Texts
    BY DEF Commits, ChatTypeOK
  <1>5. barred' = [barred EXCEPT ![m] = (Sockets \ logged) \cup (People \ (readers \cup {by}))]
        /\ barred \in [Texts -> SUBSET (Sockets \cup People)]
    BY DEF Commits, ChatTypeOK
  <1>6. texts' \in [Texts -> Text] /\ \A n \in Texts : n # m => texts'[n] = texts[n]
    BY <1>1, <1>2
  <1>7. texts'[m].state = "here" /\ texts'[m].in = texts[m].in
    BY <1>1, <1>2 DEF Text
  <1>8. crossed' \subseteq People \X Texts
    BY <1>4 DEF LoadersOf
  <1>9. seenBy' \in [People -> SUBSET Texts] /\ \A u \in People : seenBy[u] \subseteq seenBy'[u]
    BY <1>3
  <1>10. /\ barred' \in [Texts -> SUBSET (Sockets \cup People)]
         /\ \A n \in Texts : n # m => barred'[n] = barred[n]
         /\ barred'[m] = (Sockets \ logged) \cup (People \ (readers \cup {by}))
    BY <1>5
  <1>. QED BY <1>4, <1>6, <1>7, <1>8, <1>9, <1>10, Zenon

LEMMA BeginSendFacts ==
  ASSUME ChatTypeOK, NEW p \in Talkers, NEW c \in Channels, NEW who, who \subseteq People,
         BeginSend(p, c, who)
  PROVE  ChatTypeOK' /\ \E m \in Texts, u \in who :
           /\ texts[m].state = "none"
           /\ texts'[m].state = "sending" /\ texts'[m].in = c
           /\ \A n \in Texts : n # m => texts'[n] = texts[n]
           /\ talks'[p] = [pc |-> "send", text |-> m, by |-> u]
           /\ \A o \in Talkers : o # p => talks'[o] = talks[o]
  <1>1. PICK m \in Texts, u \in who :
          /\ texts[m].state = "none"
          /\ texts' = [texts EXCEPT ![m] = [state |-> "sending", in |-> c, from |-> u]]
          /\ Becomes(p, [pc |-> "send", text |-> m, by |-> u])
    BY DEF BeginSend
  <1>2. [pc |-> "send", text |-> m, by |-> u] \in Talk
    BY DEF Talk
  <1>3. /\ talks' \in [Talkers -> Talk] /\ talks'[p] = [pc |-> "send", text |-> m, by |-> u]
        /\ \A o \in Talkers : o # p => talks'[o] = talks[o]
    BY <1>1, <1>2, BecomesFacts
  <1>4. [state |-> "sending", in |-> c, from |-> u] \in Text /\ texts \in [Texts -> Text]
    BY DEF Text, ChatTypeOK
  <1>5. /\ texts' \in [Texts -> Text]
        /\ texts'[m].state = "sending" /\ texts'[m].in = c
        /\ \A n \in Texts : n # m => texts'[n] = texts[n]
    BY <1>1, <1>4
  <1>6. UNCHANGED <<accounts, logged, roster, coach, capacity, convo, readBy, connected, chatHistory>>
    BY DEF BeginSend
  <1>7. ChatTypeOK'
    BY <1>3, <1>5, <1>6, Zenon DEF ChatTypeOK, chatHistory
  <1>. QED BY <1>1, <1>3, <1>5, <1>7

LEMMA RecipientsFacts ==
  ASSUME ChatTypeOK, NEW q \in Talk, q.pc = "sent"
  PROVE  /\ Recipients(q) \in Seq(People)
         /\ \A n \in DOMAIN Recipients(q) : Recipients(q)[n] \in InRoom \cup {q.by}
  <1>. DEFINE to == IF q.by \in Coaches THEN roster \cup {q.by} ELSE InRoom
  <1>1. IsFiniteSet(to) /\ to \subseteq People /\ to \subseteq InRoom \cup {q.by}
    BY TalkFields, MembersFinite DEF InRoom
  <1>. HIDE DEF to
  <1>2. SetToSeq(to) \in Seq(to) /\ ToSet(SetToSeq(to)) \subseteq to
    BY <1>1, SetToSeqFacts
  <1>3. Recipients(q) = SetToSeq(to)
    BY DEF Recipients, to
  <1>. QED BY <1>1, <1>2, <1>3

LEMMA SendsKeepTypes ==
  ASSUME ChatTypeOK, NEW p \in Talkers,
         \/ CommitRoomText(p) \/ ReadRecipients(p) \/ HandleSend(p)
         \/ SendToUser(p) \/ EndSend(p)
         \/ \E s \in Sockets : Push(p, s) \/ PushFails(p, s)
  PROVE  ChatTypeOK'
  <1>. DEFINE q == talks[p]
  <1>1. /\ q \in Talk /\ connected \subseteq Sockets
        /\ seenBy \in [People -> SUBSET Texts] /\ pushes \subseteq Sockets \X Texts
    BY DEF ChatTypeOK
  <1>2. CASE CommitRoomText(p)
    <2>1. /\ q.pc = "send" /\ Commits(q.text, q.by, InRoom) /\ Becomes(p, [q EXCEPT !.pc = "sent"])
          /\ UNCHANGED <<accounts, logged, roster, coach, capacity, convo, readBy, connected, pushes, accepted>>
      BY <1>2 DEF CommitRoomText
    <2>2. [q EXCEPT !.pc = "sent"] \in Talk /\ q.text \in Texts /\ q.by \in People
      BY <1>1, <2>1 DEF Talk
    <2>3. talks' \in [Talkers -> Talk]
      BY <2>1, <2>2, BecomesFacts
    <2>4. /\ texts' \in [Texts -> Text] /\ seenBy' \in [People -> SUBSET Texts]
          /\ crossed' \subseteq People \X Texts /\ barred' \in [Texts -> SUBSET (Sockets \cup People)]
      BY <2>1, <2>2, CommitsFacts
    <2>. QED BY <2>1, <2>3, <2>4, Zenon DEF ChatTypeOK
  <1>3. CASE HandleSend(p)
    <2>1. /\ q.pc = "send" /\ Commits(q.text, q.by, Pair) /\ convo' = Pair
          /\ Becomes(p, Pushing(q, <<q.by, Other(q.by)>>)) /\ Pair \subseteq accounts
          /\ UNCHANGED <<accounts, logged, roster, coach, capacity, readBy, connected, pushes, accepted>>
      BY <1>3 DEF HandleSend
    <2>2. q.text \in Texts /\ q.by \in People
      BY <1>1, <2>1, TalkFields
    <2>3. Other(q.by) \in People
      <3>1. PICK u, v \in People : u # v /\ Pair = {u, v}
        BY ChatAssumption
      <3>2. \E e \in Pair : e # q.by
        BY <3>1
      <3>. QED BY <3>2, PairFacts DEF Other
    <2>4. Pushing(q, <<q.by, Other(q.by)>>) \in Talk
      BY <2>2, <2>3 DEF Pushing, Talk
    <2>5. talks' \in [Talkers -> Talk]
      BY <2>1, <2>4, BecomesFacts
    <2>6. /\ texts' \in [Texts -> Text] /\ seenBy' \in [People -> SUBSET Texts]
          /\ crossed' \subseteq People \X Texts /\ barred' \in [Texts -> SUBSET (Sockets \cup People)]
      BY <2>1, <2>2, CommitsFacts
    <2>7. convo' \subseteq Pair
      BY <2>1
    <2>. QED BY <2>1, <2>5, <2>6, <2>7, Zenon DEF ChatTypeOK
  <1>4. CASE ReadRecipients(p)
    <2>1. Pushing(q, Recipients(q)) \in Talk
      BY <1>1, <1>4, TalkFields, RecipientsFacts DEF ReadRecipients, Pushing, Talk
    <2>2. /\ Becomes(p, Pushing(q, Recipients(q)))
          /\ UNCHANGED <<chatRows, barred, crossed, accepted, connected, seenBy, pushes>>
      BY <1>4 DEF ReadRecipients, chatHistory
    <2>. QED BY <1>1, <2>1, <2>2, TalkKeepsTypes
  <1>5. CASE SendToUser(p)
    <2>. DEFINE to == Tail(q.to)
                left == {s \in connected : OwnerOf(s) = Head(q.to)}
    <2>1. q.pc = "push" /\ to \in Seq(People) /\ left \subseteq Sockets
      BY <1>1, <1>5, TalkFields DEF SendToUser
    <2>2. Becomes(p, [q EXCEPT !.to = to, !.left = left])
          /\ UNCHANGED <<chatRows, barred, crossed, accepted, connected, seenBy, pushes>>
      BY <1>5 DEF SendToUser, chatHistory
    <2>. HIDE DEF to, left
    <2>3. [q EXCEPT !.to = to, !.left = left] \in Talk
      BY <1>1, <2>1 DEF Talk
    <2>. QED BY <1>1, <2>2, <2>3, TalkKeepsTypes
  <1>6. CASE EndSend(p)
    BY <1>1, <1>6, QuietIsTalk, TalkKeepsTypes DEF EndSend
  <1>7. ASSUME NEW s \in Sockets, Push(p, s) PROVE ChatTypeOK'
    <2>1. /\ q.pc = "push" /\ Becomes(p, [q EXCEPT !.left = @ \ {s}])
          /\ pushes' = pushes \cup {<<s, q.text>>}
          /\ seenBy' = [seenBy EXCEPT ![OwnerOf(s)] = @ \cup {q.text}]
          /\ UNCHANGED <<chatRows, barred, crossed, accepted, connected>>
      BY <1>7 DEF Push
    <2>2. q.text \in Texts /\ q.left \subseteq Sockets
      BY <1>1, <2>1, TalkFields
    <2>3. [q EXCEPT !.left = @ \ {s}] \in Talk
      BY <1>1, <2>1 DEF Talk
    <2>4. seenBy' \in [People -> SUBSET Texts] /\ pushes' \subseteq Sockets \X Texts
      <3>1. seenBy' = [seenBy EXCEPT ![OwnerOf(s)] = seenBy[OwnerOf(s)] \cup {q.text}]
        BY <2>1
      <3>2. \A u \in People : seenBy[u] \cup {q.text} \subseteq Texts
        BY <1>1, <2>2
      <3>. HIDE DEF q
      <3>3. seenBy' \in [People -> SUBSET Texts]
        BY <1>1, <3>1, <3>2
      <3>4. pushes' \subseteq Sockets \X Texts
        BY <1>1, <2>1, <2>2
      <3>. QED BY <3>3, <3>4
    <2>. QED BY <1>1, <2>1, <2>3, <2>4, TalkKeepsTypes
  <1>8. ASSUME NEW s \in Sockets, PushFails(p, s) PROVE ChatTypeOK'
    <2>1. /\ q.pc = "push" /\ Becomes(p, [q EXCEPT !.left = @ \ {s}])
          /\ connected' \subseteq Sockets
          /\ UNCHANGED <<chatRows, barred, crossed, accepted, seenBy, pushes>>
      BY <1>1, <1>8 DEF PushFails, WithoutConnection, chatHistory
    <2>2. [q EXCEPT !.left = @ \ {s}] \in Talk
      BY <1>1, <2>1 DEF Talk
    <2>. QED BY <1>1, <2>1, <2>2, TalkKeepsTypes
  <1>. QED BY <1>2, <1>3, <1>4, <1>5, <1>6, <1>7, <1>8

LEMMA ReadsKeepTypes ==
  ASSUME ChatTypeOK, NEW p \in Talkers,
         \/ GetBatchChat(p) \/ GetMyBatchChat(p) \/ GetMessages(p) \/ ConversationHistory(p)
         \/ MarkRead(p) \/ LoadAllocation(p)
  PROVE  ChatTypeOK'
  <1>. DEFINE q == talks[p]
  <1>1. /\ q \in Talk /\ connected \subseteq Sockets
        /\ seenBy \in [People -> SUBSET Texts] /\ pushes \subseteq Sockets \X Texts
    BY DEF ChatTypeOK
  <1>2. ASSUME NEW op, NEW c \in Channels, NEW who, who \subseteq People, Loads(p, op, c, who)
        PROVE  ChatTypeOK'
    <2>1. PICK u \in who : Becomes(p, [pc |-> "load", in |-> c, by |-> u, rows |-> In(c)])
      BY <1>2 DEF Loads
    <2>2. [pc |-> "load", in |-> c, by |-> u, rows |-> In(c)] \in Talk
      BY <1>2 DEF Talk, In
    <2>3. UNCHANGED <<chatRows, barred, crossed, accepted, connected, seenBy, pushes>>
      BY <1>2 DEF Loads, chatHistory
    <2>. QED BY <1>1, <2>1, <2>2, <2>3, TalkKeepsTypes
  <1>3. /\ roster \subseteq People /\ ({coach} \cap Coaches) \subseteq People
        /\ (IF Pair \subseteq accounts THEN Pair ELSE {}) \subseteq People /\ convo \subseteq People
        /\ "room" \in Channels /\ "direct" \in Channels
    BY PairFacts DEF ChatTypeOK, People, Channels
  <1>4. CASE GetBatchChat(p) \/ GetMyBatchChat(p) \/ GetMessages(p) \/ ConversationHistory(p)
    BY <1>2, <1>3, <1>4, Zenon DEF GetBatchChat, GetMyBatchChat, GetMessages, ConversationHistory
  <1>5. CASE LoadAllocation(p)
    <2>1. PICK who \in SUBSET Students :
            Becomes(p, [pc |-> "allocate", who |-> who, saw |-> roster, limit |-> capacity])
      BY <1>5 DEF LoadAllocation
    <2>2. [pc |-> "allocate", who |-> who, saw |-> roster, limit |-> capacity] \in Talk
      BY DEF Talk, ChatTypeOK
    <2>3. UNCHANGED <<chatRows, barred, crossed, accepted, connected, seenBy, pushes>>
      BY <1>5 DEF LoadAllocation, chatHistory
    <2>. QED BY <1>1, <2>1, <2>2, <2>3, TalkKeepsTypes
  <1>6. CASE MarkRead(p)
    <2>1. q.pc = "load" /\ q.in \in Channels /\ q.by \in People /\ q.rows \subseteq Texts
      BY <1>1, <1>6, TalkFields DEF MarkRead
    <2>2. /\ readBy' = [readBy EXCEPT ![q.in] = [readBy[q.in] EXCEPT ![q.by] = Stamped(q.in)]]
          /\ seenBy' = [seenBy EXCEPT ![q.by] = seenBy[q.by] \cup q.rows]
          /\ crossed' = crossed \cup
               {<<q.by, m>> : m \in {n \in Texts : texts[n].state = "sending" /\ texts[n].in = q.in}}
          /\ convo' = IF q.in = "direct" /\ convo = {} THEN Pair ELSE convo
          /\ Becomes(p, Quiet)
          /\ UNCHANGED <<accounts, logged, roster, coach, capacity, texts, connected, pushes, barred, accepted>>
      BY <1>6 DEF MarkRead, MarkedUser
    <2>3. readBy' \in [Channels -> [People -> SUBSET Texts]]
      <3>1. readBy \in [Channels -> [People -> SUBSET Texts]] /\ Stamped(q.in) \subseteq Texts
        BY DEF ChatTypeOK, Stamped
      <3>2. [readBy[q.in] EXCEPT ![q.by] = Stamped(q.in)] \in [People -> SUBSET Texts]
        BY <2>1, <3>1
      <3>. QED BY <2>2, <3>1, <3>2
    <2>4. seenBy' \in [People -> SUBSET Texts]
      <3>1. \A u \in People : seenBy[u] \cup q.rows \subseteq Texts
        BY <1>1, <2>1
      <3>. HIDE DEF q
      <3>. QED BY <1>1, <2>2, <3>1
    <2>5. crossed' \subseteq People \X Texts
      BY <2>1, <2>2 DEF ChatTypeOK
    <2>6. convo' \subseteq Pair /\ talks' \in [Talkers -> Talk]
      BY <2>2, QuietIsTalk, BecomesFacts DEF ChatTypeOK
    <2>. QED BY <2>2, <2>3, <2>4, <2>5, <2>6, Zenon DEF ChatTypeOK
  <1>. QED BY <1>4, <1>5, <1>6

LEMMA MembersKeepTypes ==
  ASSUME ChatTypeOK, NEW p \in Talkers,
         AllocateStudents(p) \/ RemoveStudent(p) \/ UpdateBatch(p) \/ DeleteAccount(p) \/ Breaks(p)
  PROVE  ChatTypeOK'
  <1>. DEFINE q == talks[p]
  <1>1. q \in Talk
    BY DEF ChatTypeOK
  <1>2. CASE AllocateStudents(p)
    <2>1. q.pc = "allocate" /\ q.who \subseteq Students
      BY <1>1, <1>2, TalkFields DEF AllocateStudents
    <2>2. /\ roster' = roster \cup (q.who \ q.saw)
          /\ barred' = [m \in Texts |-> barred[m] \ (roster' \ roster)]
          /\ accepted' = IF Overtaken(q) THEN Cardinality(roster') ELSE accepted
          /\ Becomes(p, Quiet)
          /\ UNCHANGED <<accounts, logged, coach, capacity, convo, texts, readBy, connected, seenBy, pushes, crossed>>
      BY <1>2 DEF AllocateStudents
    <2>3. roster' \subseteq Students
      BY <2>1, <2>2 DEF ChatTypeOK
    <2>4. barred' \in [Texts -> SUBSET (Sockets \cup People)]
      BY <2>2 DEF ChatTypeOK
    <2>5. accepted' \in Nat
      <3>1. Cardinality(roster') \in Nat
        BY <2>3, ChatAssumption, FS_Subset, FS_CardinalityType
      <3>. QED BY <2>2, <3>1 DEF ChatTypeOK
    <2>6. talks' \in [Talkers -> Talk]
      BY <2>2, QuietIsTalk, BecomesFacts
    <2>. QED BY <2>2, <2>3, <2>4, <2>5, <2>6, Zenon DEF ChatTypeOK
  <1>3. CASE RemoveStudent(p)
    <2>1. roster' \subseteq Students
      BY <1>3 DEF RemoveStudent, ChatTypeOK
    <2>. QED BY <1>3, <2>1, Zenon DEF RemoveStudent, ChatTypeOK, chatHistory
  <1>6. CASE UpdateBatch(p)
    <2>1. PICK n \in Limits \cup {capacity}, v \in {coach, NoUser} \cup (Coaches \cap accounts) :
            /\ capacity' = n /\ coach' = v
            /\ barred' = [m \in Texts |-> barred[m] \ ({v} \ {coach})]
            /\ accepted' = IF Fits(Cardinality(roster), n) THEN accepted ELSE Cardinality(roster)
      BY <1>6 DEF UpdateBatch
    <2>2. capacity' \in Limits \cup {NoLimit} /\ coach' \in Coaches \cup {NoUser}
      BY <2>1 DEF ChatTypeOK
    <2>3. barred' \in [Texts -> SUBSET (Sockets \cup People)]
      BY <2>1 DEF ChatTypeOK
    <2>4. accepted' \in Nat
      <3>1. Cardinality(roster) \in Nat
        BY MembersFinite, FS_CardinalityType
      <3>. QED BY <2>1, <3>1 DEF ChatTypeOK
    <2>. QED BY <1>6, <2>2, <2>3, <2>4, Zenon DEF UpdateBatch, ChatTypeOK
  <1>4. CASE DeleteAccount(p)
    <2>1. PICK u \in accounts \cap chatPlan.leaves :
            /\ accounts' = accounts \ {u}
            /\ logged' = {s \in logged : OwnerOf(s) # u}
            /\ roster' = roster \ {u}
            /\ coach' = IF coach = u THEN NoUser ELSE coach
            /\ convo' = convo \ {u}
            /\ texts' = [m \in Texts |->
                 IF texts[m].from = u /\ texts[m].state = "here"
                 THEN [texts[m] EXCEPT !.from = NoUser] ELSE texts[m]]
            /\ readBy' = [readBy EXCEPT !["room"] = [readBy["room"] EXCEPT ![u] = {}]]
      BY <1>4 DEF DeleteAccount
    <2>2. texts' \in [Texts -> Text]
      <3>1. \A m \in Texts : [texts[m] EXCEPT !.from = NoUser] \in Text
        BY TextFields DEF Text
      <3>. QED BY <2>1, <3>1, TextFields
    <2>3. readBy' \in [Channels -> [People -> SUBSET Texts]]
      <3>1. readBy \in [Channels -> [People -> SUBSET Texts]] /\ "room" \in Channels
        BY DEF ChatTypeOK, Channels
      <3>2. [readBy["room"] EXCEPT ![u] = {}] \in [People -> SUBSET Texts]
        BY <3>1
      <3>. QED BY <2>1, <3>1, <3>2
    <2>4. /\ accounts' \subseteq People /\ logged' \subseteq Sockets /\ roster' \subseteq Students
          /\ coach' \in Coaches \cup {NoUser} /\ convo' \subseteq Pair
      BY <2>1 DEF ChatTypeOK
    <2>5. UNCHANGED <<capacity, connected, talks, chatHistory>>
      BY <1>4 DEF DeleteAccount
    <2>. QED BY <2>2, <2>3, <2>4, <2>5, Zenon DEF ChatTypeOK, chatHistory
  <1>5. CASE Breaks(p)
    <2>1. texts' \in [Texts -> Text]
      <3>1. \A m \in Texts : [texts[m] EXCEPT !.state = "lost"] \in Text
        BY TextFields DEF Text
      <3>2. texts' = IF q.pc = "send"
                     THEN [texts EXCEPT ![q.text] = [texts[q.text] EXCEPT !.state = "lost"]] ELSE texts
        BY <1>5 DEF Breaks
      <3>3. q.pc = "send" => q.text \in Texts
        BY <1>1, TalkFields
      <3>. QED BY <3>1, <3>2, <3>3 DEF ChatTypeOK
    <2>2. talks' \in [Talkers -> Talk]
      BY <1>5, QuietIsTalk, BecomesFacts DEF Breaks
    <2>. QED BY <1>5, <2>1, <2>2, Zenon DEF Breaks, ChatTypeOK, chatHistory
  <1>. QED BY <1>2, <1>3, <1>4, <1>5, <1>6

LEMMA LoginsKeepTypes ==
  ASSUME ChatTypeOK, NEW s \in Sockets, Connect(s) \/ Disconnect(s) \/ EndSession(s)
  PROVE  ChatTypeOK'
  <1>1. CASE Connect(s)
    <2>1. connected' \subseteq Sockets
      BY <1>1 DEF Connect, ChatTypeOK
    <2>. QED BY <1>1, <2>1, Zenon DEF Connect, ChatTypeOK, chatRows
  <1>2. CASE Disconnect(s)
    <2>1. connected' \subseteq Sockets
      BY <1>2 DEF Disconnect, ChatTypeOK
    <2>. QED BY <1>2, <2>1, Zenon DEF Disconnect, ChatTypeOK, chatRows, chatHistory
  <1>3. CASE EndSession(s)
    <2>1. logged' \subseteq Sockets
      BY <1>3 DEF EndSession, ChatTypeOK
    <2>. QED BY <1>3, <2>1, Zenon DEF EndSession, ChatTypeOK, chatHistory
  <1>. QED BY <1>1, <1>2, <1>3

LEMMA ChatTypeKeeps == ChatTypeOK /\ [ChatNext]_chatVars => ChatTypeOK'
  <1>. SUFFICES ASSUME ChatTypeOK, [ChatNext]_chatVars PROVE ChatTypeOK'
    OBVIOUS
  <1>1. CASE UNCHANGED chatVars
    BY <1>1, Zenon DEF ChatTypeOK, chatVars, chatRows, chatHistory
  <1>2. ASSUME NEW p \in Talkers, SendBatchChat(p) \/ SendMyBatchChat(p) \/ ReceiveDirect(p)
        PROVE  ChatTypeOK'
    <2>1. PICK c \in Channels, who \in SUBSET People : BeginSend(p, c, who)
      <3>1. /\ {u \in roster : SignedIn(u)} \in SUBSET People
            /\ {u \in {coach} \cap Coaches : SignedIn(u)} \in SUBSET People
            /\ {OwnerOf(s) : s \in connected \cap logged} \cap Pair \in SUBSET People
            /\ "room" \in Channels /\ "direct" \in Channels
        BY PairFacts DEF ChatTypeOK, People, Channels
      <3>. QED BY <1>2, <3>1, Zenon DEF SendBatchChat, SendMyBatchChat, ReceiveDirect
    <2>. QED BY <2>1, BeginSendFacts
  <1>. QED BY <1>1, <1>2, SendsKeepTypes, ReadsKeepTypes, MembersKeepTypes, LoginsKeepTypes DEF ChatNext

LEMMA ChatTypeStarts == ChatInit => ChatTypeOK
  <1>. SUFFICES ASSUME ChatInit PROVE ChatTypeOK
    OBVIOUS
  <1>1. connected \subseteq Sockets /\ roster \subseteq Students
    BY ChatAssumption DEF ChatInit
  <1>2. texts \in [Texts -> Text]
    BY DEF ChatInit, Text, Channels
  <1>3. talks \in [Talkers -> Talk]
    BY QuietIsTalk DEF ChatInit
  <1>4. /\ readBy \in [Channels -> [People -> SUBSET Texts]]
        /\ seenBy \in [People -> SUBSET Texts]
        /\ barred \in [Texts -> SUBSET (Sockets \cup People)]
    BY DEF ChatInit
  <1>5. /\ accounts \subseteq People /\ logged \subseteq Sockets
        /\ coach \in Coaches \cup {NoUser} /\ convo \subseteq Pair
        /\ pushes \subseteq Sockets \X Texts /\ crossed \subseteq People \X Texts
    BY DEF ChatInit
  <1>6. accepted \in Nat /\ capacity \in Limits \cup {NoLimit}
    <2>1. IsFiniteSet(roster)
      BY <1>1, ChatAssumption, FS_Subset
    <2>. QED BY <2>1, ChatAssumption, FS_CardinalityType DEF ChatInit
  <1>. QED BY <1>1, <1>2, <1>3, <1>4, <1>5, <1>6, Zenon DEF ChatTypeOK

(* The variables of support and chat are typed.                            *)
THEOREM ServicesTypeCorrect == ServicesSpec => []ServicesTypeOK
  <1>1. ServicesInit => ServicesTypeOK
    BY SupTypeStarts, ChatTypeStarts DEF ServicesInit, ServicesTypeOK
  <1>2. ServicesTypeOK /\ [ServicesNext]_<<supVars, chatVars>> => ServicesTypeOK'
    <2>1. [ServicesNext]_<<supVars, chatVars>> => [SupNext]_supVars /\ [ChatNext]_chatVars
      BY Zenon DEF ServicesNext
    <2>. QED BY <2>1, SupTypeKeeps, ChatTypeKeeps DEF ServicesTypeOK
  <1>. QED BY <1>1, <1>2, PTL DEF ServicesSpec

-------------------------------------------------------------------------------
(* Chat: what a mark covers, whom a message reaches, how many the batch    *)
(* holds.                                                                  *)

(* TalkRight of a request after a step.                                    *)
RightThen(q) ==
  /\ q.pc = "send" =>
       texts'[q.text].state = "sending" /\ (texts'[q.text].in = "direct" => q.by \in Pair)
  /\ q.pc \in {"sent", "push"} => texts'[q.text].state = "here" /\ q.by \notin barred'[q.text]
  /\ q.pc = "sent" => texts'[q.text].in = "room"
  /\ q.pc = "push" =>
       /\ \A n \in DOMAIN q.to : q.to[n] \notin barred'[q.text]
       /\ \A s \in q.left : OwnerOf(s) \notin barred'[q.text]
  /\ q.pc = "load" =>
       \A m \in Texts : texts'[m].state = "here" /\ texts'[m].in = q.in =>
         m \in q.rows \/ <<q.by, m>> \in crossed'

(* A request keeps what it relies on while its message stays, and what is  *)
(* committed during its load is noted.                                     *)
LEMMA RightStays ==
  ASSUME NEW q \in Talk, TalkRight(q),
         q.pc \in {"send", "sent", "push"} =>
           /\ texts'[q.text].state = texts[q.text].state /\ texts'[q.text].in = texts[q.text].in
           /\ barred'[q.text] \subseteq barred[q.text],
         crossed \subseteq crossed',
         q.pc = "load" =>
           \A m \in Texts : texts'[m].state = "here" /\ texts'[m].in = q.in =>
             (texts[m].state = "here" /\ texts[m].in = q.in) \/ <<q.by, m>> \in crossed'
  PROVE  RightThen(q)
  <1>1. CASE q.pc = "send"
    BY <1>1 DEF TalkRight, RightThen
  <1>2. CASE q.pc = "sent"
    BY <1>2 DEF TalkRight, RightThen
  <1>3. CASE q.pc = "push"
    BY <1>3 DEF TalkRight, RightThen
  <1>4. CASE q.pc = "load"
    BY <1>4 DEF TalkRight, RightThen
  <1>5. CASE q.pc \in {"quiet", "allocate"}
    BY <1>5 DEF RightThen
  <1>. QED BY <1>1, <1>2, <1>3, <1>4, <1>5, TalkFields

LEMMA RightNext == (\A p \in Talkers : RightThen(talks'[p])) => TalksRight'
  BY Zenon DEF RightThen, TalksRight, TalkRight

(* A step in which no message begins, is sent or lost.                     *)
LEMMA SteadyKeeps ==
  ASSUME ChatInv, ChatTypeOK',
         \A p \in Talkers :
           talks'[p] = talks[p] \/ (talks'[p].pc # "send" /\ RightThen(talks'[p])),
         \A m \in Texts :
           /\ texts'[m].state = texts[m].state /\ texts'[m].in = texts[m].in
           /\ barred'[m] \subseteq barred[m],
         crossed \subseteq crossed', logged' \subseteq logged,
         \A u \in People : seenBy[u] \subseteq seenBy'[u],
         \A c \in Channels : \A u \in People : \A m \in readBy'[c][u] :
           \/ m \in readBy[c][u]
           \/ /\ texts[m].state # "none"
              /\ texts[m].state # "lost" /\ m \notin seenBy'[u] => <<u, m>> \in crossed',
         \A m \in Texts : texts[m].state = "here" /\ texts[m].in = "room" =>
           barred'[m] \cap roster' = {} /\ coach' \notin barred'[m],
         \A push \in pushes' :
           \/ push \in pushes
           \/ /\ texts[push[2]].state = "here"
              /\ push[1] \notin barred[push[2]] /\ OwnerOf(push[1]) \notin barred[push[2]],
         Fits(Cardinality(roster'), capacity') \/ Cardinality(roster') <= accepted'
  PROVE  ChatInv'
  <1>0. ChatTypeOK
    BY DEF ChatInv
  <1>1. TalksRight'
    <2>. SUFFICES ASSUME NEW p \in Talkers PROVE RightThen(talks'[p])
      BY RightNext
    <2>1. CASE talks'[p] = talks[p]
      <3>1. talks[p] \in Talk /\ TalkRight(talks[p])
        BY <1>0, TextFields DEF ChatInv, TalksRight
      <3>2. talks[p].pc \in {"send", "sent", "push"} => talks[p].text \in Texts
        BY <3>1, TalkFields
      <3>. QED BY <2>1, <3>1, <3>2, RightStays
    <2>. QED BY <2>1
  <1>2. SentByOne'
    <2>1. \A p \in Talkers : talks'[p].pc = "send" => talks'[p] = talks[p]
      OBVIOUS
    <2>2. \A p \in Talkers : \A o \in Talkers \ {p} :
            talks'[p].pc = "send" /\ talks'[o].pc = "send" => talks'[o].text # talks'[p].text
      BY <2>1 DEF ChatInv, SentByOne
    <2>. QED BY <2>2, Zenon DEF SentByOne
  <1>3. MarksCover'
    <2>1. \A c \in Channels : \A u \in People : \A m \in readBy'[c][u] : m \in Texts
      BY DEF ChatTypeOK
    <2>2. \A c \in Channels : \A u \in People : \A m \in readBy'[c][u] :
            /\ texts'[m].state # "none"
            /\ texts'[m].state # "lost" /\ m \notin seenBy'[u] => <<u, m>> \in crossed'
      <3>. TAKE c \in Channels
      <3>. TAKE u \in People
      <3>. TAKE m \in readBy'[c][u]
      <3>1. m \in Texts /\ texts'[m].state = texts[m].state /\ seenBy[u] \subseteq seenBy'[u]
        BY <2>1
      <3>2. CASE m \in readBy[c][u]
        <4>1. /\ texts[m].state # "none"
              /\ texts[m].state # "lost" /\ m \notin seenBy[u] => <<u, m>> \in crossed
          BY <3>2, Zenon DEF ChatInv, MarksCover
        <4>. QED BY <3>1, <4>1
      <3>3. CASE m \notin readBy[c][u]
        <4>1. /\ texts[m].state # "none"
              /\ texts[m].state # "lost" /\ m \notin seenBy'[u] => <<u, m>> \in crossed'
          BY <3>3, Zenon
        <4>. QED BY <3>1, <4>1
      <3>. QED BY <3>2, <3>3
    <2>. QED BY <2>2, Zenon DEF MarksCover
  <1>4. MembersMay'
    <2>1. \A m \in Texts :
            /\ barred'[m] \cap logged' = {}
            /\ texts'[m].state = "here" /\ texts'[m].in = "room" =>
                 barred'[m] \cap roster' = {} /\ coach' \notin barred'[m]
      BY DEF ChatInv, MembersMay
    <2>. QED BY <2>1, Zenon DEF MembersMay
  <1>5. \A push \in pushes' : push[2] \in Texts
    BY DEF ChatTypeOK
  <1>6. PushedThere'
    <2>1. \A push \in pushes' : texts'[push[2]].state = "here"
      BY <1>5 DEF ChatInv, PushedThere
    <2>. QED BY <2>1, Zenon DEF PushedThere
  <1>7. PushedToReaders'
    <2>1. \A push \in pushes' :
            push[1] \notin barred'[push[2]] /\ OwnerOf(push[1]) \notin barred'[push[2]]
      BY <1>5 DEF ChatInv, PushedToReaders
    <2>. QED BY <2>1, Zenon DEF PushedToReaders
  <1>8. OverfullNeedsCause'
    BY Zenon DEF OverfullNeedsCause
  <1>. QED BY <1>1, <1>2, <1>3, <1>4, <1>6, <1>7, <1>8 DEF ChatInv

(* A step of the request that begins, sends or loses the message n.        *)
LEMMA TextKeeps ==
  ASSUME ChatInv, ChatTypeOK', NEW p \in Talkers, NEW n \in Texts,
         \A m \in Texts : m # n =>
           /\ texts'[m].state = texts[m].state /\ texts'[m].in = texts[m].in
           /\ barred'[m] = barred[m],
         texts[n].state \in {"none", "sending"}, texts'[n].state # "none",
         texts[n].state = "sending" =>
           talks[p].pc = "send" /\ talks[p].text = n /\ texts'[n].in = texts[n].in,
         texts'[n].state = "here" =>
           \A o \in Talkers : talks[o].pc = "load" /\ talks[o].in = texts'[n].in =>
             <<talks[o].by, n>> \in crossed',
         texts'[n].state = "here" /\ texts'[n].in = "room" =>
           barred'[n] \cap roster = {} /\ coach \notin barred'[n],
         barred'[n] \cap logged = {},
         crossed \subseteq crossed', \A u \in People : seenBy[u] \subseteq seenBy'[u],
         UNCHANGED <<logged, roster, coach, capacity, readBy, pushes, accepted>>,
         \A o \in Talkers : o # p => talks'[o] = talks[o],
         RightThen(talks'[p]),
         talks'[p].pc = "send" => texts[n].state = "none" /\ talks'[p].text = n
  PROVE  ChatInv'
  <1>0. ChatTypeOK
    BY DEF ChatInv
  <1>1. \A o \in Talkers : o # p /\ talks[o].pc \in {"send", "sent", "push"} =>
          talks[o].text \in Texts /\ talks[o].text # n
    <2>. SUFFICES ASSUME NEW o \in Talkers, o # p, talks[o].pc \in {"send", "sent", "push"}
                  PROVE  talks[o].text \in Texts /\ talks[o].text # n
      OBVIOUS
    <2>1. talks[o].text \in Texts /\ TalkRight(talks[o])
      BY <1>0, TextFields, TalkFields DEF ChatInv, TalksRight
    <2>2. CASE talks[o].pc = "send"
      BY <2>1, <2>2 DEF TalkRight, ChatInv, SentByOne
    <2>3. CASE talks[o].pc \in {"sent", "push"}
      BY <2>1, <2>3 DEF TalkRight
    <2>. QED BY <2>1, <2>2, <2>3
  <1>2. TalksRight'
    <2>. SUFFICES ASSUME NEW o \in Talkers, o # p PROVE RightThen(talks[o])
      BY RightNext
    <2>1. talks[o] \in Talk /\ TalkRight(talks[o])
      BY <1>0, TextFields DEF ChatInv, TalksRight
    <2>. QED BY <1>1, <2>1, RightStays
  <1>3. SentByOne'
    <2>1. \A o \in Talkers \ {p} : talks'[p].pc = "send" /\ talks'[o].pc = "send" =>
            talks'[o].text # talks'[p].text
      BY <1>1
    <2>2. \A e \in Talkers : \A o \in Talkers \ {e} :
            talks[e].pc = "send" /\ talks[o].pc = "send" => talks[o].text # talks[e].text
      BY DEF ChatInv, SentByOne
    <2>3. \A e \in Talkers : \A o \in Talkers \ {e} :
            talks'[e].pc = "send" /\ talks'[o].pc = "send" => talks'[o].text # talks'[e].text
      BY <2>1, <2>2
    <2>. QED BY <2>3, Zenon DEF SentByOne
  <1>4. MarksCover'
    <2>1. \A c \in Channels : \A u \in People : \A m \in readBy[c][u] : m \in Texts
      BY <1>0 DEF ChatTypeOK
    <2>2. \A c \in Channels : \A u \in People : \A m \in readBy[c][u] :
            /\ texts[m].state # "none"
            /\ texts[m].state # "lost" /\ m \notin seenBy[u] => <<u, m>> \in crossed
      BY DEF ChatInv, MarksCover
    <2>3. \A c \in Channels : \A u \in People : \A m \in readBy'[c][u] :
            /\ texts'[m].state # "none"
            /\ texts'[m].state # "lost" /\ m \notin seenBy'[u] => <<u, m>> \in crossed'
      <3>. TAKE c \in Channels
      <3>. TAKE u \in People
      <3>. TAKE m \in readBy'[c][u]
      <3>1. m \in readBy[c][u] /\ m \in Texts /\ seenBy[u] \subseteq seenBy'[u]
        BY <2>1
      <3>2. /\ texts[m].state # "none"
            /\ texts[m].state # "lost" /\ m \notin seenBy[u] => <<u, m>> \in crossed
        BY <2>2, <3>1, Zenon
      <3>3. texts'[m].state # "none" /\ (texts'[m].state # "lost" => texts[m].state # "lost")
        BY <3>1, <3>2
      <3>. QED BY <3>1, <3>2, <3>3
    <2>. QED BY <2>3, Zenon DEF MarksCover
  <1>5. MembersMay'
    <2>1. \A m \in Texts :
            /\ barred'[m] \cap logged' = {}
            /\ texts'[m].state = "here" /\ texts'[m].in = "room" =>
                 barred'[m] \cap roster' = {} /\ coach' \notin barred'[m]
      BY DEF ChatInv, MembersMay
    <2>. QED BY <2>1, Zenon DEF MembersMay
  <1>6. \A push \in pushes : push[2] \in Texts /\ push[2] # n
    BY <1>0 DEF ChatTypeOK, ChatInv, PushedThere
  <1>7. PushedThere'
    <2>1. \A push \in pushes' : texts'[push[2]].state = "here"
      BY <1>6 DEF ChatInv, PushedThere
    <2>. QED BY <2>1, Zenon DEF PushedThere
  <1>8. PushedToReaders'
    <2>1. \A push \in pushes' :
            push[1] \notin barred'[push[2]] /\ OwnerOf(push[1]) \notin barred'[push[2]]
      BY <1>6 DEF ChatInv, PushedToReaders
    <2>. QED BY <2>1, Zenon DEF PushedToReaders
  <1>9. OverfullNeedsCause'
    BY Zenon DEF ChatInv, OverfullNeedsCause
  <1>. QED BY <1>2, <1>3, <1>4, <1>5, <1>7, <1>8, <1>9 DEF ChatInv

(* What a step that leaves the rows alone keeps.                           *)
LEMMA SameRows ==
  ASSUME ChatInv
  PROVE  /\ \A m \in Texts : texts[m].state = "here" /\ texts[m].in = "room" =>
              barred[m] \cap roster = {} /\ coach \notin barred[m]
         /\ Fits(Cardinality(roster), capacity) \/ Cardinality(roster) <= accepted
         /\ \A p \in Talkers : talks[p] \in Talk /\ TalkRight(talks[p])
         /\ ChatTypeOK
  BY DEF ChatInv, MembersMay, OverfullNeedsCause, TalksRight, ChatTypeOK

LEMMA BeginKeeps ==
  ASSUME ChatInv, NEW p \in Talkers,
         SendBatchChat(p) \/ SendMyBatchChat(p) \/ ReceiveDirect(p)
  PROVE  ChatInv'
  <1>1. PICK c \in Channels, who \in SUBSET People :
          BeginSend(p, c, who) /\ (c = "direct" => who \subseteq Pair)
    <2>1. /\ {u \in roster : SignedIn(u)} \in SUBSET People
          /\ {u \in {coach} \cap Coaches : SignedIn(u)} \in SUBSET People
          /\ {OwnerOf(s) : s \in connected \cap logged} \cap Pair \in SUBSET People
          /\ {OwnerOf(s) : s \in connected \cap logged} \cap Pair \subseteq Pair
          /\ "room" \in Channels /\ "direct" \in Channels
      BY PairFacts, SameRows DEF ChatTypeOK, People, Channels
    <2>2. "room" # "direct"
      OBVIOUS
    <2>. QED BY <2>1, <2>2, Zenon DEF SendBatchChat, SendMyBatchChat, ReceiveDirect
  <1>2. ChatTypeOK'
    BY <1>1, SameRows, BeginSendFacts
  <1>3. PICK n \in Texts, u \in who :
          /\ texts[n].state = "none"
          /\ texts'[n].state = "sending" /\ texts'[n].in = c
          /\ \A m \in Texts : m # n => texts'[m] = texts[m]
          /\ talks'[p] = [pc |-> "send", text |-> n, by |-> u]
          /\ \A o \in Talkers : o # p => talks'[o] = talks[o]
    <2>1. ChatTypeOK /\ who \subseteq People
      BY <1>1, SameRows
    <2>. QED BY <1>1, <2>1, BeginSendFacts
  <1>4. UNCHANGED <<logged, roster, coach, capacity, readBy, pushes, accepted, barred, crossed, seenBy>>
    BY <1>1 DEF BeginSend, chatHistory
  <1>5. barred'[n] \cap logged = {}
    BY <1>4 DEF ChatInv, MembersMay
  <1>6. RightThen(talks'[p])
    BY <1>1, <1>3 DEF RightThen
  <1>. QED BY <1>2, <1>3, <1>4, <1>5, <1>6, TextKeeps

(* A message is committed by the request that had begun it.                *)
LEMMA CommitKeeps ==
  ASSUME ChatInv, ChatTypeOK', NEW p \in Talkers, talks[p].pc = "send", NEW readers,
         Commits(talks[p].text, talks[p].by, readers),
         texts[talks[p].text].in = "room" => InRoom \subseteq readers,
         UNCHANGED <<logged, roster, coach, capacity, readBy, pushes, accepted>>,
         \A o \in Talkers : o # p => talks'[o] = talks[o],
         talks'[p].pc # "send", RightThen(talks'[p])
  PROVE  ChatInv'
  <1>. DEFINE n == talks[p].text
  <1>1. n \in Texts /\ talks[p].by \in People /\ texts[n].state = "sending"
    BY SameRows, TalkFields DEF TalkRight
  <1>2. /\ texts'[n].state = "here" /\ texts'[n].in = texts[n].in
        /\ \A m \in Texts : m # n => texts'[m] = texts[m] /\ barred'[m] = barred[m]
        /\ \A u \in People : seenBy[u] \subseteq seenBy'[u]
        /\ crossed' = crossed \cup {<<u, n>> : u \in LoadersOf(texts[n].in)}
        /\ barred'[n] = (Sockets \ logged) \cup (People \ (readers \cup {talks[p].by}))
    BY <1>1, SameRows, CommitsFacts
  <1>3. \A o \in Talkers : talks[o].pc = "load" /\ talks[o].in = texts'[n].in =>
          <<talks[o].by, n>> \in crossed'
    <2>1. \A o \in Talkers : talks[o].pc = "load" => talks[o].by \in People
      BY SameRows, TalkFields
    <2>. QED BY <1>2, <2>1 DEF LoadersOf
  <1>4. barred'[n] \cap logged = {}
    BY <1>2, ChatAssumption, SameRows DEF ChatTypeOK
  <1>5. texts'[n].in = "room" => barred'[n] \cap roster = {} /\ coach \notin barred'[n]
    <2>1. roster \subseteq InRoom /\ roster \subseteq People /\ (coach \in InRoom \/ coach = NoUser)
          /\ coach \in People \cup {NoUser}
      BY SameRows DEF InRoom, ChatTypeOK, People
    <2>2. roster \cap Sockets = {} /\ coach \notin Sockets
      BY <2>1, ChatAssumption
    <2>3. NoUser \notin People \cup Sockets
      BY ChatAssumption
    <2>. QED BY <1>2, <2>1, <2>2, <2>3
  <1>. HIDE DEF n
  <1>. QED BY <1>1, <1>2, <1>3, <1>4, <1>5, TextKeeps DEF n

LEMMA CommitsKeep ==
  ASSUME ChatInv, ChatTypeOK', NEW p \in Talkers, CommitRoomText(p) \/ HandleSend(p)
  PROVE  ChatInv'
  <1>. DEFINE q == talks[p]
  <1>1. q.pc = "send" /\ q \in Talk /\ q.text \in Texts /\ q.by \in People /\ TalkRight(q)
    BY SameRows, TalkFields DEF CommitRoomText, HandleSend
  <1>2. CASE CommitRoomText(p)
    <2>1. /\ Commits(q.text, q.by, InRoom) /\ Becomes(p, [q EXCEPT !.pc = "sent"])
          /\ texts[q.text].in = "room"
          /\ UNCHANGED <<logged, roster, coach, capacity, readBy, pushes, accepted>>
      BY <1>2 DEF CommitRoomText
    <2>. DEFINE h == [q EXCEPT !.pc = "sent"]
    <2>2. h \in Talk /\ h.pc = "sent" /\ h.text = q.text /\ h.by = q.by
      BY <1>1 DEF Talk
    <2>3. talks'[p] = h /\ \A o \in Talkers : o # p => talks'[o] = talks[o]
      BY <2>1, <2>2, SameRows, BecomesFacts
    <2>4. /\ texts'[q.text].state = "here" /\ texts'[q.text].in = "room"
          /\ barred'[q.text] = (Sockets \ logged) \cup (People \ (InRoom \cup {q.by}))
      BY <1>1, <2>1, SameRows, CommitsFacts
    <2>5. RightThen(h)
      BY <1>1, <2>2, <2>4, ChatAssumption DEF RightThen
    <2>. HIDE DEF h
    <2>. QED BY <1>1, <2>1, <2>2, <2>3, <2>5, CommitKeeps
  <1>3. CASE HandleSend(p)
    <2>1. /\ Commits(q.text, q.by, Pair) /\ Becomes(p, Pushing(q, <<q.by, Other(q.by)>>))
          /\ texts[q.text].in = "direct"
          /\ UNCHANGED <<logged, roster, coach, capacity, readBy, pushes, accepted>>
      BY <1>3 DEF HandleSend
    <2>2. q.by \in Pair
      BY <1>1, <2>1 DEF TalkRight
    <2>3. Other(q.by) \in Pair /\ Pair \subseteq People
      BY <2>2, PairFacts
    <2>. DEFINE h == Pushing(q, <<q.by, Other(q.by)>>)
    <2>4. h \in Talk
      BY <1>1, <2>3 DEF Pushing, Talk
    <2>5. /\ h.pc = "push" /\ h.text = q.text /\ h.by = q.by /\ h.left = {}
          /\ \A i \in DOMAIN h.to : h.to[i] \in Pair
      BY <2>2, <2>3 DEF Pushing
    <2>6. talks'[p] = h /\ \A o \in Talkers : o # p => talks'[o] = talks[o]
      BY <2>1, <2>4, SameRows, BecomesFacts
    <2>7. /\ texts'[q.text].state = "here" /\ texts'[q.text].in = "direct"
          /\ barred'[q.text] = (Sockets \ logged) \cup (People \ (Pair \cup {q.by}))
      BY <1>1, <2>1, SameRows, CommitsFacts
    <2>8. \A u \in Pair : u \notin barred'[q.text]
      BY <2>3, <2>7, ChatAssumption
    <2>9. RightThen(h)
      BY <2>2, <2>5, <2>7, <2>8 DEF RightThen
    <2>. HIDE DEF h
    <2>. QED BY <1>1, <2>1, <2>5, <2>6, <2>9, CommitKeeps
  <1>. QED BY <1>2, <1>3

(* A request moves on and changes no row.                                  *)
LEMMA TalkMoves ==
  ASSUME ChatInv, ChatTypeOK', NEW p \in Talkers, NEW q \in Talk, Becomes(p, q),
         UNCHANGED <<chatRows, barred, crossed, accepted, seenBy, pushes>>,
         q.pc # "send", TalkRight(q)
  PROVE  ChatInv'
  <1>1. talks'[p] = q /\ \A o \in Talkers : o # p => talks'[o] = talks[o]
    BY SameRows, BecomesFacts
  <1>2. RightThen(q)
    BY RightStays DEF chatRows
  <1>3. UNCHANGED <<texts, logged, roster, coach, capacity, readBy>>
    BY DEF chatRows
  <1>. QED BY <1>1, <1>2, <1>3, SameRows, SteadyKeeps

LEMMA PushesKeep ==
  ASSUME ChatInv, ChatTypeOK', NEW p \in Talkers,
         \/ ReadRecipients(p) \/ SendToUser(p) \/ EndSend(p)
         \/ \E s \in Sockets : Push(p, s) \/ PushFails(p, s)
  PROVE  ChatInv'
  <1>. DEFINE q == talks[p]
  <1>1. q \in Talk /\ TalkRight(q)
    BY SameRows
  <1>2. CASE ReadRecipients(p)
    <2>. DEFINE h == Pushing(q, Recipients(q))
    <2>1. /\ q.pc = "sent" /\ Becomes(p, h)
          /\ UNCHANGED <<chatRows, barred, crossed, accepted, seenBy, pushes>>
      BY <1>2 DEF ReadRecipients, chatHistory
    <2>2. h \in Talk
      BY <1>1, <2>1, TalkFields, RecipientsFacts, SameRows DEF Pushing, Talk
    <2>3. h.pc = "push" /\ h.text = q.text /\ h.by = q.by /\ h.left = {} /\ h.to = Recipients(q)
      BY DEF Pushing
    <2>4. /\ texts[q.text].state = "here" /\ texts[q.text].in = "room" /\ q.by \notin barred[q.text]
          /\ q.text \in Texts
      BY <1>1, <2>1, TalkFields DEF TalkRight
    <2>5. \A u \in InRoom : u \notin barred[q.text]
      BY <2>4, SameRows DEF InRoom
    <2>6. \A i \in DOMAIN Recipients(q) : Recipients(q)[i] \notin barred[q.text]
      BY <1>1, <2>1, <2>4, <2>5, RecipientsFacts, SameRows
    <2>7. TalkRight(h)
      BY <2>3, <2>4, <2>6 DEF TalkRight
    <2>. HIDE DEF h
    <2>. QED BY <2>1, <2>2, <2>3, <2>7, TalkMoves
  <1>3. CASE SendToUser(p)
    <2>. DEFINE to == Tail(q.to)
                left == {s \in connected : OwnerOf(s) = Head(q.to)}
                h == [q EXCEPT !.to = to, !.left = left]
    <2>1. /\ q.pc = "push" /\ Becomes(p, h) /\ q.to # <<>>
          /\ UNCHANGED <<chatRows, barred, crossed, accepted, seenBy, pushes>>
      BY <1>3 DEF SendToUser, chatHistory
    <2>2. /\ q.to \in Seq(People) /\ to \in Seq(People) /\ left \subseteq Sockets
          /\ Head(q.to) = q.to[1] /\ 1 \in DOMAIN q.to
          /\ \A i \in DOMAIN to : i + 1 \in DOMAIN q.to /\ to[i] = q.to[i + 1]
      BY <1>1, <2>1, TalkFields, SameRows DEF ChatTypeOK
    <2>3. /\ texts[q.text].state = "here" /\ q.by \notin barred[q.text]
          /\ \A i \in DOMAIN q.to : q.to[i] \notin barred[q.text]
      BY <1>1, <2>1 DEF TalkRight
    <2>4. /\ \A i \in DOMAIN to : to[i] \notin barred[q.text]
          /\ \A s \in left : OwnerOf(s) \notin barred[q.text]
      BY <2>2, <2>3
    <2>. HIDE DEF to, left
    <2>5. /\ h \in Talk /\ h.pc = "push" /\ h.text = q.text /\ h.by = q.by
          /\ h.to = to /\ h.left = left
      BY <1>1, <2>1, <2>2 DEF Talk
    <2>. HIDE DEF h
    <2>6. TalkRight(h)
      BY <2>3, <2>4, <2>5 DEF TalkRight
    <2>. QED BY <2>1, <2>5, <2>6, TalkMoves
  <1>4. CASE EndSend(p)
    <2>1. TalkRight(Quiet)
      BY QuietIsTalk DEF TalkRight
    <2>. QED BY <1>4, <2>1, QuietIsTalk, TalkMoves DEF EndSend
  <1>5. ASSUME NEW s \in Sockets, q.pc = "push"
        PROVE  LET h == [q EXCEPT !.left = @ \ {s}] IN
               h \in Talk /\ h.pc = "push" /\ TalkRight(h)
    <2>. DEFINE h == [q EXCEPT !.left = @ \ {s}]
    <2>1. /\ h \in Talk /\ h.pc = "push" /\ h.text = q.text /\ h.by = q.by /\ h.to = q.to
          /\ h.left = q.left \ {s}
      BY <1>1, <1>5 DEF Talk
    <2>. HIDE DEF h
    <2>2. TalkRight(h)
      BY <1>1, <1>5, <2>1 DEF TalkRight
    <2>. QED BY <2>1, <2>2 DEF h
  <1>6. ASSUME NEW s \in Sockets, PushFails(p, s) PROVE ChatInv'
    <2>. DEFINE h == [q EXCEPT !.left = @ \ {s}]
    <2>1. /\ q.pc = "push" /\ Becomes(p, h)
          /\ UNCHANGED <<chatRows, barred, crossed, accepted, seenBy, pushes>>
      BY <1>6 DEF PushFails, chatHistory
    <2>2. h \in Talk /\ h.pc = "push" /\ TalkRight(h)
      BY <1>5, <2>1
    <2>. HIDE DEF h
    <2>. QED BY <2>1, <2>2, TalkMoves
  <1>7. ASSUME NEW s \in Sockets, Push(p, s) PROVE ChatInv'
    <2>. DEFINE h == [q EXCEPT !.left = @ \ {s}]
    <2>1. /\ q.pc = "push" /\ s \in q.left /\ s \in logged /\ Becomes(p, h)
          /\ pushes' = pushes \cup {<<s, q.text>>}
          /\ seenBy' = [seenBy EXCEPT ![OwnerOf(s)] = seenBy[OwnerOf(s)] \cup {q.text}]
          /\ UNCHANGED <<chatRows, barred, crossed, accepted>>
      BY <1>7 DEF Push, Deliverable
    <2>2. h \in Talk /\ h.pc = "push" /\ TalkRight(h)
      BY <1>5, <2>1
    <2>. HIDE DEF h
    <2>3. talks'[p] = h /\ \A o \in Talkers : o # p => talks'[o] = talks[o]
      BY <2>1, <2>2, SameRows, BecomesFacts
    <2>4. UNCHANGED <<texts, logged, roster, coach, capacity, readBy>>
      BY <2>1 DEF chatRows
    <2>5. RightThen(h)
      BY <2>1, <2>2, <2>4, RightStays
    <2>6. /\ texts[q.text].state = "here" /\ OwnerOf(s) \notin barred[q.text] /\ q.text \in Texts
      BY <1>1, <2>1, TalkFields DEF TalkRight
    <2>7. s \notin barred[q.text]
      BY <2>1, <2>6 DEF ChatInv, MembersMay
    <2>8. \A u \in People : seenBy[u] \subseteq seenBy'[u]
      <3>1. seenBy \in [People -> SUBSET Texts]
        BY SameRows DEF ChatTypeOK
      <3>. HIDE DEF q
      <3>. QED BY <2>1, <3>1
    <2>9. \A push \in pushes' :
            \/ push \in pushes
            \/ /\ texts[push[2]].state = "here"
               /\ push[1] \notin barred[push[2]] /\ OwnerOf(push[1]) \notin barred[push[2]]
      BY <2>1, <2>6, <2>7
    <2>. QED BY <2>1, <2>2, <2>3, <2>4, <2>5, <2>8, <2>9, SameRows, SteadyKeeps
  <1>. QED BY <1>2, <1>3, <1>4, <1>6, <1>7

LEMMA ReadsKeep ==
  ASSUME ChatInv, ChatTypeOK', NEW p \in Talkers,
         \/ GetBatchChat(p) \/ GetMyBatchChat(p) \/ GetMessages(p) \/ ConversationHistory(p)
         \/ MarkRead(p)
  PROVE  ChatInv'
  <1>. DEFINE q == talks[p]
  <1>1. q \in Talk /\ TalkRight(q)
    BY SameRows
  <1>2. ASSUME NEW op, NEW c \in Channels, NEW who, who \subseteq People, Loads(p, op, c, who)
        PROVE  ChatInv'
    <2>1. PICK u \in who : Becomes(p, [pc |-> "load", in |-> c, by |-> u, rows |-> In(c)])
      BY <1>2 DEF Loads
    <2>. DEFINE h == [pc |-> "load", in |-> c, by |-> u, rows |-> In(c)]
    <2>2. h \in Talk /\ h.pc = "load" /\ h.in = c /\ h.rows = In(c)
      BY <1>2 DEF Talk, In
    <2>3. UNCHANGED <<chatRows, barred, crossed, accepted, seenBy, pushes>>
      BY <1>2 DEF Loads, chatHistory
    <2>. HIDE DEF h
    <2>4. TalkRight(h)
      BY <2>2 DEF TalkRight, In
    <2>. QED BY <2>1, <2>2, <2>3, <2>4, TalkMoves DEF h
  <1>3. /\ roster \subseteq People /\ ({coach} \cap Coaches) \subseteq People
        /\ (IF Pair \subseteq accounts THEN Pair ELSE {}) \subseteq People /\ convo \subseteq People
        /\ "room" \in Channels /\ "direct" \in Channels
    BY PairFacts, SameRows DEF ChatTypeOK, People, Channels
  <1>4. CASE GetBatchChat(p) \/ GetMyBatchChat(p) \/ GetMessages(p) \/ ConversationHistory(p)
    BY <1>2, <1>3, <1>4, Zenon DEF GetBatchChat, GetMyBatchChat, GetMessages, ConversationHistory
  <1>5. CASE MarkRead(p)
    <2>1. q.pc = "load" /\ q.in \in Channels /\ q.by \in People /\ q.rows \subseteq Texts
      BY <1>1, <1>5, TalkFields DEF MarkRead
    <2>2. /\ readBy' = [readBy EXCEPT ![q.in] = [readBy[q.in] EXCEPT ![q.by] = Stamped(q.in)]]
          /\ seenBy' = [seenBy EXCEPT ![q.by] = seenBy[q.by] \cup q.rows]
          /\ crossed' = crossed \cup
               {<<q.by, m>> : m \in {n \in Texts : texts[n].state = "sending" /\ texts[n].in = q.in}}
          /\ Becomes(p, Quiet)
          /\ UNCHANGED <<logged, roster, coach, capacity, texts, pushes, barred, accepted>>
      BY <1>5 DEF MarkRead, MarkedUser
    <2>3. talks'[p] = Quiet /\ \A o \in Talkers : o # p => talks'[o] = talks[o]
      BY <2>2, QuietIsTalk, SameRows, BecomesFacts
    <2>4. RightThen(Quiet)
      BY QuietIsTalk DEF RightThen
    <2>5. /\ \A u \in People : seenBy[u] \subseteq seenBy'[u]
          /\ q.rows \subseteq seenBy'[q.by]
      <3>1. seenBy \in [People -> SUBSET Texts]
        BY SameRows DEF ChatTypeOK
      <3>. HIDE DEF q
      <3>. QED BY <2>1, <2>2, <3>1
    <2>6. \A c \in Channels : \A u \in People : \A m \in readBy'[c][u] :
            m \in readBy[c][u] \/ (c = q.in /\ u = q.by /\ m \in Stamped(q.in))
      <3>1. readBy \in [Channels -> [People -> SUBSET Texts]]
        BY SameRows DEF ChatTypeOK
      <3>. HIDE DEF q
      <3>. QED BY <2>1, <2>2, <3>1
    <2>7. \A m \in Stamped(q.in) :
            /\ texts[m].state # "none"
            /\ texts[m].state # "lost" /\ m \notin seenBy'[q.by] => <<q.by, m>> \in crossed'
      <3>. TAKE m \in Stamped(q.in)
      <3>1. m \in Texts /\ texts[m].in = q.in /\ texts[m].state \in {"sending", "here", "lost"}
        BY SameRows, TextFields DEF Stamped
      <3>2. CASE texts[m].state = "here"
        <4>1. m \in q.rows \/ <<q.by, m>> \in crossed
          BY <1>1, <2>1, <3>1, <3>2 DEF TalkRight
        <4>. QED BY <2>2, <2>5, <3>2, <4>1
      <3>3. CASE texts[m].state = "sending"
        BY <2>2, <3>1, <3>3
      <3>. QED BY <3>1, <3>2, <3>3
    <2>8. \A c \in Channels : \A u \in People : \A m \in readBy'[c][u] :
            \/ m \in readBy[c][u]
            \/ /\ texts[m].state # "none"
               /\ texts[m].state # "lost" /\ m \notin seenBy'[u] => <<u, m>> \in crossed'
      BY <2>6, <2>7, Zenon
    <2>9. crossed \subseteq crossed'
      BY <2>2
    <2>10. \A o \in Talkers : talks'[o] = talks[o] \/ (talks'[o].pc # "send" /\ RightThen(talks'[o]))
      BY <2>3, <2>4, QuietIsTalk
    <2>. QED BY <2>2, <2>5, <2>8, <2>9, <2>10, SameRows, SteadyKeeps
  <1>. QED BY <1>4, <1>5

LEMMA MembersKeep ==
  ASSUME ChatInv, ChatTypeOK', NEW p \in Talkers,
         LoadAllocation(p) \/ AllocateStudents(p) \/ RemoveStudent(p) \/ UpdateBatch(p)
         \/ DeleteAccount(p)
  PROVE  ChatInv'
  <1>. DEFINE q == talks[p]
  <1>1. q \in Talk /\ ChatTypeOK /\ IsFiniteSet(roster) /\ IsFiniteSet(Students)
    BY SameRows, MembersFinite, ChatAssumption
  <1>2. CASE LoadAllocation(p)
    <2>1. PICK who \in SUBSET Students :
            Becomes(p, [pc |-> "allocate", who |-> who, saw |-> roster, limit |-> capacity])
      BY <1>2 DEF LoadAllocation
    <2>. DEFINE h == [pc |-> "allocate", who |-> who, saw |-> roster, limit |-> capacity]
    <2>2. h \in Talk /\ h.pc = "allocate"
      BY <1>1 DEF Talk, ChatTypeOK
    <2>3. UNCHANGED <<chatRows, barred, crossed, accepted, seenBy, pushes>>
      BY <1>2 DEF LoadAllocation, chatHistory
    <2>. HIDE DEF h
    <2>4. TalkRight(h)
      BY <2>2 DEF TalkRight
    <2>. QED BY <2>1, <2>2, <2>3, <2>4, TalkMoves DEF h
  <1>3. CASE AllocateStudents(p)
    <2>1. /\ q.pc = "allocate" /\ q.who \subseteq Students /\ q.saw \subseteq Students
          /\ q.limit \in Limits \cup {NoLimit}
      BY <1>1, <1>3, TalkFields DEF AllocateStudents
    <2>2. /\ RoomFor(q.saw, q.who, q.limit)
          /\ roster' = roster \cup (q.who \ q.saw)
          /\ barred' = [m \in Texts |-> barred[m] \ (roster' \ roster)]
          /\ Becomes(p, Quiet)
          /\ UNCHANGED <<logged, coach, capacity, texts, readBy, seenBy, pushes, crossed>>
      BY <1>3 DEF AllocateStudents
    <2>3. accepted' = IF Overtaken(q) THEN Cardinality(roster') ELSE accepted
      BY <1>3, Zenon DEF AllocateStudents
    <2>4. talks'[p] = Quiet /\ \A o \in Talkers : o # p => talks'[o] = talks[o]
      BY <2>2, QuietIsTalk, SameRows, BecomesFacts
    <2>5. RightThen(Quiet)
      BY QuietIsTalk DEF RightThen
    <2>6. \A o \in Talkers : talks'[o] = talks[o] \/ (talks'[o].pc # "send" /\ RightThen(talks'[o]))
      BY <2>4, <2>5, QuietIsTalk
    <2>7. \A m \in Texts : texts[m].state = "here" /\ texts[m].in = "room" =>
            barred'[m] \cap roster' = {} /\ coach' \notin barred'[m]
      BY <2>2, SameRows
    <2>8. Fits(Cardinality(roster'), capacity') \/ Cardinality(roster') <= accepted'
      <3>1. IsFiniteSet(q.saw \cup q.who)
        BY <1>1, <2>1, FS_Subset
      <3>2. IsFiniteSet(roster')
        BY <1>1, <2>1, <2>2, FS_Subset DEF ChatTypeOK
      <3>3. Cardinality(roster') \in Nat /\ Cardinality(q.saw \cup q.who) \in Nat
        BY <3>1, <3>2, FS_CardinalityType
      <3>4. CASE Overtaken(q)
        BY <2>3, <3>3, <3>4
      <3>5. CASE ~Overtaken(q)
        <4>1. roster \subseteq q.saw /\ capacity' = q.limit
          BY <2>2, <3>5 DEF Overtaken
        <4>2. roster' \subseteq q.saw \cup q.who
          BY <2>2, <4>1
        <4>3. Cardinality(roster') <= Cardinality(q.saw \cup q.who)
          BY <3>1, <4>2, FS_Subset
        <4>4. q.limit # NoLimit => Cardinality(q.saw \cup q.who) <= q.limit
          BY <2>2 DEF RoomFor, Fits
        <4>5. q.limit # NoLimit => q.limit \in Nat
          BY <2>1, ChatAssumption
        <4>. HIDE DEF q
        <4>. QED BY <3>3, <4>1, <4>3, <4>4, <4>5 DEF Fits
      <3>. QED BY <3>4, <3>5
    <2>9. \A m \in Texts : barred'[m] \subseteq barred[m]
      BY <2>2
    <2>. QED BY <2>2, <2>6, <2>7, <2>8, <2>9, SteadyKeeps
  <1>4. ASSUME roster' \subseteq roster, UNCHANGED <<capacity, accepted>>
        PROVE  Fits(Cardinality(roster'), capacity') \/ Cardinality(roster') <= accepted'
    <2>1. Cardinality(roster') <= Cardinality(roster) /\ IsFiniteSet(roster')
      BY <1>1, <1>4, FS_Subset
    <2>2. Cardinality(roster') \in Nat /\ Cardinality(roster) \in Nat
      BY <1>1, <2>1, FS_CardinalityType
    <2>3. Fits(Cardinality(roster), capacity) \/ Cardinality(roster) <= accepted
      BY SameRows
    <2>4. capacity # NoLimit => capacity \in Nat
      BY <1>1, ChatAssumption DEF ChatTypeOK
    <2>5. accepted \in Nat
      BY <1>1 DEF ChatTypeOK
    <2>. QED BY <1>4, <2>1, <2>2, <2>3, <2>4, <2>5 DEF Fits
  <1>5. CASE RemoveStudent(p)
    <2>1. /\ roster' \subseteq roster
          /\ UNCHANGED <<logged, coach, capacity, texts, readBy, talks, seenBy, pushes, barred, crossed, accepted>>
      BY <1>5 DEF RemoveStudent, chatHistory
    <2>2. Fits(Cardinality(roster'), capacity') \/ Cardinality(roster') <= accepted'
      BY <1>4, <2>1
    <2>. QED BY <2>1, <2>2, SameRows, SteadyKeeps
  <1>6. CASE DeleteAccount(p)
    <2>1. PICK u \in accounts \cap chatPlan.leaves :
            /\ logged' = {s \in logged : OwnerOf(s) # u}
            /\ roster' = roster \ {u}
            /\ coach' = IF coach = u THEN NoUser ELSE coach
            /\ texts' = [m \in Texts |->
                 IF texts[m].from = u /\ texts[m].state = "here"
                 THEN [texts[m] EXCEPT !.from = NoUser] ELSE texts[m]]
            /\ readBy' = [readBy EXCEPT !["room"] = [readBy["room"] EXCEPT ![u] = {}]]
      BY <1>6 DEF DeleteAccount
    <2>2. UNCHANGED <<talks, capacity, seenBy, pushes, barred, crossed, accepted>>
      BY <1>6 DEF DeleteAccount, chatHistory
    <2>3. \A m \in Texts : texts'[m].state = texts[m].state /\ texts'[m].in = texts[m].in
      <3>1. \A m \in Texts : /\ [texts[m] EXCEPT !.from = NoUser].state = texts[m].state
                             /\ [texts[m] EXCEPT !.from = NoUser].in = texts[m].in
        BY <1>1, TextFields DEF Text
      <3>. QED BY <2>1, <3>1
    <2>4. \A c \in Channels : \A v \in People : \A m \in readBy'[c][v] : m \in readBy[c][v]
      <3>1. readBy \in [Channels -> [People -> SUBSET Texts]]
        BY <1>1 DEF ChatTypeOK
      <3>. QED BY <2>1, <3>1
    <2>5. \A m \in Texts : NoUser \notin barred[m]
      BY <1>1, ChatAssumption DEF ChatTypeOK
    <2>6. \A m \in Texts : texts[m].state = "here" /\ texts[m].in = "room" =>
            barred'[m] \cap roster' = {} /\ coach' \notin barred'[m]
      BY <2>1, <2>2, <2>5, SameRows
    <2>7. Fits(Cardinality(roster'), capacity') \/ Cardinality(roster') <= accepted'
      BY <1>4, <2>1, <2>2
    <2>8. logged' \subseteq logged
      BY <2>1
    <2>. QED BY <2>2, <2>3, <2>4, <2>6, <2>7, <2>8, SteadyKeeps
  <1>7. CASE UpdateBatch(p)
    <2>1. PICK n \in Limits \cup {capacity}, v \in {coach, NoUser} \cup (Coaches \cap accounts) :
            /\ capacity' = n /\ coach' = v
            /\ barred' = [m \in Texts |-> barred[m] \ ({v} \ {coach})]
            /\ accepted' = IF Fits(Cardinality(roster), n) THEN accepted ELSE Cardinality(roster)
      BY <1>7 DEF UpdateBatch
    <2>2. UNCHANGED <<logged, roster, texts, readBy, talks, seenBy, pushes, crossed>>
      BY <1>7 DEF UpdateBatch
    <2>3. \A m \in Texts : texts[m].state = "here" /\ texts[m].in = "room" =>
            barred'[m] \cap roster' = {} /\ coach' \notin barred'[m]
      BY <2>1, <2>2, SameRows
    <2>4. \A m \in Texts : barred'[m] \subseteq barred[m]
      BY <2>1
    <2>5. Fits(Cardinality(roster'), capacity') \/ Cardinality(roster') <= accepted'
      <3>1. Cardinality(roster) \in Nat
        BY <1>1, FS_CardinalityType
      <3>. QED BY <2>1, <2>2, <3>1
    <2>. QED BY <2>2, <2>3, <2>4, <2>5, SameRows, SteadyKeeps
  <1>. QED BY <1>2, <1>3, <1>5, <1>6, <1>7

LEMMA BreaksKeeps ==
  ASSUME ChatInv, ChatTypeOK', NEW p \in Talkers, Breaks(p)
  PROVE  ChatInv'
  <1>. DEFINE q == talks[p]
  <1>1. q \in Talk /\ TalkRight(q) /\ ChatTypeOK /\ (q.pc = "send" => q.text \in Texts)
    BY SameRows, TalkFields
  <1>2. /\ Becomes(p, Quiet)
        /\ UNCHANGED <<logged, roster, coach, capacity, readBy, seenBy, pushes, barred, crossed, accepted>>
        /\ texts' = IF q.pc = "send"
                    THEN [texts EXCEPT ![q.text] = [texts[q.text] EXCEPT !.state = "lost"]] ELSE texts
    BY DEF Breaks, chatHistory
  <1>3. talks'[p] = Quiet /\ \A o \in Talkers : o # p => talks'[o] = talks[o]
    BY <1>1, <1>2, QuietIsTalk, BecomesFacts
  <1>4. RightThen(Quiet)
    BY QuietIsTalk DEF RightThen
  <1>5. CASE q.pc = "send"
    <2>1. /\ texts'[q.text].state = "lost" /\ texts'[q.text].in = texts[q.text].in
          /\ \A m \in Texts : m # q.text => texts'[m] = texts[m]
      BY <1>1, <1>2, <1>5, TextFields DEF ChatTypeOK, Text
    <2>2. texts[q.text].state = "sending"
      BY <1>1, <1>5 DEF TalkRight
    <2>3. barred'[q.text] \cap logged = {}
      BY <1>1, <1>2, <1>5 DEF ChatInv, MembersMay
    <2>. QED BY <1>1, <1>2, <1>3, <1>4, <1>5, <2>1, <2>2, <2>3, QuietIsTalk, TextKeeps
  <1>6. CASE q.pc # "send"
    <2>1. \A o \in Talkers : talks'[o] = talks[o] \/ (talks'[o].pc # "send" /\ RightThen(talks'[o]))
      BY <1>3, <1>4, QuietIsTalk
    <2>. QED BY <1>2, <1>6, <2>1, SameRows, SteadyKeeps
  <1>. QED BY <1>5, <1>6

LEMMA LoginsKeep ==
  ASSUME ChatInv, ChatTypeOK', NEW s \in Sockets, Connect(s) \/ Disconnect(s) \/ EndSession(s)
  PROVE  ChatInv'
  <1>1. /\ logged' \subseteq logged
        /\ UNCHANGED <<roster, coach, capacity, texts, readBy, talks, seenBy, pushes, barred, crossed, accepted>>
    BY DEF Connect, Disconnect, EndSession, chatRows, chatHistory
  <1>. QED BY <1>1, SameRows, SteadyKeeps

LEMMA ChatInvKeeps == ChatInv /\ [ChatNext]_chatVars => ChatInv'
  <1>. SUFFICES ASSUME ChatInv, [ChatNext]_chatVars PROVE ChatInv'
    OBVIOUS
  <1>1. ChatTypeOK'
    BY ChatTypeKeeps DEF ChatInv
  <1>2. CASE UNCHANGED chatVars
    <2>1. UNCHANGED <<logged, roster, coach, capacity, texts, readBy, talks, seenBy, pushes, barred, crossed, accepted>>
      BY <1>2 DEF chatVars, chatRows, chatHistory
    <2>. QED BY <1>1, <2>1, SameRows, SteadyKeeps
  <1>. QED BY <1>1, <1>2, BeginKeeps, CommitsKeep, PushesKeep, ReadsKeep, MembersKeep, BreaksKeeps,
              LoginsKeep DEF ChatNext

LEMMA ChatInvStarts == ChatInit => ChatInv
  <1>. SUFFICES ASSUME ChatInit PROVE ChatInv
    OBVIOUS
  <1>1. ChatTypeOK
    BY ChatTypeStarts
  <1>2. TalksRight /\ SentByOne
    BY QuietIsTalk DEF ChatInit, TalksRight, TalkRight, SentByOne
  <1>3. MarksCover /\ PushedThere /\ PushedToReaders
    BY DEF ChatInit, MarksCover, PushedThere, PushedToReaders
  <1>4. MembersMay
    BY DEF ChatInit, MembersMay
  <1>5. OverfullNeedsCause
    <2>1. Cardinality(roster) \in Nat
      BY <1>1, MembersFinite, FS_CardinalityType
    <2>. QED BY <2>1 DEF ChatInit, OverfullNeedsCause
  <1>. QED BY <1>1, <1>2, <1>3, <1>4, <1>5 DEF ChatInv

LEMMA ChatInvHolds == ChatSpec => []ChatInv
  BY ChatInvStarts, ChatInvKeeps, PTL DEF ChatSpec

(* A message that a mark covers and its user was never shown was on its    *)
(* way while the user's messages were being loaded                         *)
(* (routes_students.py:320-340, routes_chat.py:162-215).                   *)
THEOREM MarksMissOnlyCrossed == ChatSpec => []MissedNeedsOverlap
  <1>1. ChatInv => MissedNeedsOverlap
    BY DEF ChatInv, MarksCover, MissedNeedsOverlap
  <1>. QED BY <1>1, ChatInvHolds, PTL

(* A message reaches no login that had ended when it was committed, and    *)
(* no user who has not been among its readers since                        *)
(* (ws_manager.py:27-41, routes_staff.py:477-483).                         *)
THEOREM PushesReachReaders == ChatSpec => []PushedToReaders
  <1>1. ChatInv => PushedToReaders
    BY DEF ChatInv
  <1>. QED BY <1>1, ChatInvHolds, PTL

(* An allocation that no other request overtakes between its count and its *)
(* commit never takes a batch past its capacity: it holds no more students *)
(* than it takes, or than it was created with, held when its capacity was  *)
(* cut or was left with by an allocation that was overtaken                *)
(* (routes_admin_batches.py:184-185, :283-284, :345-361).                  *)
THEOREM AllocationsFit == ChatSpec => []OverfullNeedsCause
  <1>1. ChatInv => OverfullNeedsCause
    BY DEF ChatInv
  <1>. QED BY <1>1, ChatInvHolds, PTL

(* The composed instances behave as support and as chat do, so that what   *)
(* is proved of each component holds of them.                              *)
THEOREM ServicesAreBoth == ServicesSpec => SupSpec /\ ChatSpec
  <1>1. ServicesInit => SupInit /\ ChatInit
    BY DEF ServicesInit
  <1>2. [ServicesNext]_<<supVars, chatVars>> => [SupNext]_supVars /\ [ChatNext]_chatVars
    BY Zenon DEF ServicesNext
  <1>. QED BY <1>1, <1>2, PTL DEF ServicesSpec, SupSpec, ChatSpec
===============================================================================
