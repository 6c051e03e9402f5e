---------------------------- MODULE SignInProofs ----------------------------
(***************************************************************************)
(* Theorems about sign-ins, second factors, sessions and administrator     *)
(* accounts (SignIn), for every value of its constants.                    *)
(***************************************************************************)
EXTENDS SignIn, TLAPS

-------------------------------------------------------------------------------
(* What the operators make of the rows.                                    *)

LEMMA RowFacts ==
  ASSUME NEW old \in Row, NEW saw \in Row, NEW to \in Row
  PROVE  /\ Patch(old, saw, to) \in Row
         /\ Patch(old, saw, to).active = IF to.active # saw.active THEN to.active ELSE old.active
         /\ Patch(old, saw, to).role = IF to.role # saw.role THEN to.role ELSE old.role
         /\ Cleared(to) \in Row /\ Cleared(to).active = to.active /\ Cleared(to).role = to.role
  <1>1. Cleared(to) \in Row /\ Cleared(to).active = to.active /\ Cleared(to).role = to.role
    BY SignInAssumption DEF Cleared, Row
  <1>2. Patch(old, saw, to) \in Row
    BY DEF Patch, Row
  <1>. QED BY <1>1, <1>2 DEF Patch

LEMMA CredFacts ==
  ASSUME NEW cred \in Credential
  PROVE  /\ cred.secret \in Secrets /\ cred.pending \in Secrets /\ cred.made \in Secrets
         /\ cred.set \in Secrets /\ cred.last \in Steps /\ cred.codes \subseteq Codes
         /\ cred.made < MaxSecrets => WithPending(cred) \in Credential
         /\ cred.made < MaxSecrets => WithNewCodes(cred) \in Credential
         /\ cred.tries < MaxTries => WithTry(cred) \in Credential
         /\ WithTry(cred).secret = cred.secret /\ WithTry(cred).pending = cred.pending
         /\ WithTry(cred).made = cred.made /\ WithTry(cred).set = cred.set
         /\ WithTry(cred).last = cred.last /\ WithTry(cred).codes = cred.codes
         /\ \A n \in Steps : WithFactor(cred, n) \in Credential
         /\ WithoutFactor(cred) \in Credential
  <1>1. 0 \in 0..MaxSecrets /\ 0 \in 0..MaxTries /\ 0 \in 0..MaxStep + 1
    BY SignInAssumption
  <1>2. /\ cred.secret \in Secrets /\ cred.pending \in Secrets /\ cred.made \in Secrets
        /\ cred.set \in Secrets /\ cred.last \in Steps /\ cred.codes \subseteq Codes
        /\ cred.tries \in 0..MaxTries
    BY DEF Credential
  <1>3. ASSUME cred.made < MaxSecrets PROVE cred.made + 1 \in Secrets
    BY <1>2, <1>3, SignInAssumption DEF Secrets
  <1>4. ASSUME cred.tries < MaxTries PROVE WithTry(cred) \in Credential
    <2>1. cred.tries + 1 \in 0..MaxTries
      BY <1>2, <1>4, SignInAssumption
    <2>. QED BY <2>1 DEF WithTry, Credential
  <1>5. /\ WithTry(cred).secret = cred.secret /\ WithTry(cred).pending = cred.pending
        /\ WithTry(cred).made = cred.made /\ WithTry(cred).set = cred.set
        /\ WithTry(cred).last = cred.last /\ WithTry(cred).codes = cred.codes
    BY DEF WithTry, Credential
  <1>6. cred.made < MaxSecrets => WithPending(cred) \in Credential /\ WithNewCodes(cred) \in Credential
    BY <1>1, <1>2, <1>3 DEF WithPending, WithNewCodes, Credential, Secrets
  <1>7. \A n \in Steps : WithFactor(cred, n) \in Credential
    BY <1>1, <1>2 DEF WithFactor, Credential, Secrets
  <1>8. WithoutFactor(cred) \in Credential
    BY <1>1, <1>2 DEF WithoutFactor, Credential, Secrets, Steps
  <1>. QED BY <1>2, <1>4, <1>5, <1>6, <1>7, <1>8

LEMMA StepsFit ==
  ASSUME clock \in 1..MaxStep
  PROVE  clock - 1..clock + 1 \subseteq Steps
  BY SignInAssumption DEF Steps

(* A factor is a code of a later step, or a recovery code that is left.    *)
LEMMA FactorFacts ==
  ASSUME TypeOK, NEW u \in Users, NEW f \in Factors(u)
  PROVE  /\ HasFactor(creds[u]) /\ f.cred \in Credential /\ f.proof \in Proofs
         /\ f.cred.secret = creds[u].secret /\ f.cred.pending = creds[u].pending
         /\ f.cred.made = creds[u].made /\ f.cred.set = creds[u].set
         /\ \/ \E n \in Steps :
                 /\ n > creds[u].last /\ f.cred.last = n /\ f.cred.codes = creds[u].codes
                 /\ f.proof = [kind |-> "step", user |-> u, secret |-> creds[u].secret, step |-> n]
            \/ \E c \in creds[u].codes :
                 /\ f.cred.last = creds[u].last /\ f.cred.codes = creds[u].codes \ {c}
                 /\ f.proof = [kind |-> "code", user |-> u, set |-> creds[u].set, code |-> c]
  <1>. DEFINE cred == creds[u]
  <1>1. cred \in Credential /\ clock \in 1..MaxStep
    BY DEF TypeOK
  <1>2. HasFactor(cred)
    BY DEF Factors
  <1>3. CASE \E n \in StepsAfter(cred) :
          f = [cred |-> [cred EXCEPT !.last = n],
               proof |-> [kind |-> "step", user |-> u, secret |-> cred.secret, step |-> n]]
    <2>1. PICK n \in StepsAfter(cred) :
            f = [cred |-> [cred EXCEPT !.last = n],
                 proof |-> [kind |-> "step", user |-> u, secret |-> cred.secret, step |-> n]]
      BY <1>3
    <2>2. n \in Steps /\ n > cred.last
      BY <1>1, StepsFit DEF StepsAfter
    <2>. DEFINE to == [cred EXCEPT !.last = n]
    <2>3. /\ to \in Credential /\ to.last = n /\ to.secret = cred.secret /\ to.pending = cred.pending
          /\ to.made = cred.made /\ to.set = cred.set /\ to.codes = cred.codes
      BY <1>1, <2>2 DEF Credential
    <2>4. [kind |-> "step", user |-> u, secret |-> cred.secret, step |-> n] \in Proofs
      BY <1>1, <2>2 DEF Proofs, Credential
    <2>. HIDE DEF cred, to
    <2>. QED BY <1>2, <2>1, <2>2, <2>3, <2>4 DEF cred, to
  <1>4. CASE \E c \in cred.codes :
          f = [cred |-> [cred EXCEPT !.codes = cred.codes \ {c}],
               proof |-> [kind |-> "code", user |-> u, set |-> cred.set, code |-> c]]
    <2>1. PICK c \in cred.codes :
            f = [cred |-> [cred EXCEPT !.codes = cred.codes \ {c}],
                 proof |-> [kind |-> "code", user |-> u, set |-> cred.set, code |-> c]]
      BY <1>4
    <2>. DEFINE to == [cred EXCEPT !.codes = cred.codes \ {c}]
    <2>3. /\ to \in Credential /\ to.last = cred.last /\ to.secret = cred.secret
          /\ to.pending = cred.pending /\ to.made = cred.made /\ to.set = cred.set
          /\ to.codes = cred.codes \ {c}
      BY <1>1 DEF Credential
    <2>4. [kind |-> "code", user |-> u, set |-> cred.set, code |-> c] \in Proofs
      BY <1>1, <2>1 DEF Proofs, Credential
    <2>. HIDE DEF cred, to
    <2>. QED BY <1>2, <2>1, <2>3, <2>4 DEF cred, to
  <1>. QED BY <1>2, <1>3, <1>4 DEF Factors

(* Ending sessions opens none and changes none that stays open.            *)
LEMMA RevokingFacts ==
  ASSUME TypeOK, NEW which
  PROVE  /\ Revoking(which) \in [Sessions -> Session]
         /\ \A s \in Sessions :
              /\ Revoking(which)[s].status = "open" => Revoking(which)[s] = sessions[s] /\ s \notin which
              /\ Revoking(which)[s].user = sessions[s].user
  <1>1. ASSUME NEW s \in Sessions
        PROVE  /\ Ended(sessions[s]) \in Session /\ Ended(sessions[s]).status # "open"
               /\ Ended(sessions[s]).user = sessions[s].user
    BY DEF TypeOK, Ended, Session
  <1>. QED BY <1>1 DEF Revoking, TypeOK

LEMMA ChallengeFacts ==
  ASSUME TypeOK, NEW c \in Challenges
  PROVE  /\ Spent(c) \in [Challenges -> Challenge] /\ Spent(c)[c].status = "ended"
         /\ \A d \in Challenges : /\ d # c => Spent(c)[d] = challenges[d]
                                  /\ Spent(c)[d].user = challenges[d].user
         /\ OneMoreTry(c) \in [Challenges -> Challenge]
         /\ \A d \in Challenges : /\ OneMoreTry(c)[d].user = challenges[d].user
                                  /\ OneMoreTry(c)[d].status = challenges[d].status
  <1>. DEFINE ch == challenges[c]
              spent == [ch EXCEPT !.status = "ended"]
              n == IF ch.tries < MaxTries THEN ch.tries + 1 ELSE MaxTries
              tried == [ch EXCEPT !.tries = n]
  <1>1. ch \in Challenge /\ challenges \in [Challenges -> Challenge]
    BY DEF TypeOK
  <1>2. spent \in Challenge /\ spent.status = "ended" /\ spent.user = ch.user
    BY <1>1 DEF Challenge
  <1>3. n \in 0..MaxTries
    BY <1>1, SignInAssumption DEF Challenge
  <1>4. tried \in Challenge /\ tried.status = ch.status /\ tried.user = ch.user
    <2>. HIDE DEF n
    <2>. QED BY <1>1, <1>3 DEF Challenge
  <1>5. Spent(c) = [challenges EXCEPT ![c] = spent] /\ OneMoreTry(c) = [challenges EXCEPT ![c] = tried]
    BY DEF Spent, OneMoreTry
  <1>. HIDE DEF spent, tried
  <1>. QED BY <1>1, <1>2, <1>4, <1>5

(* What a thread's request holds.                                          *)
LEMMA ThreadFields ==
  ASSUME NEW q \in Thread
  PROVE  /\ q.pc \in {"idle", "denied", "checked", "opening", "linking", "claiming", "presented",
                      "refused", "acting"}
         /\ q.pc = "idle" => q = Idle
         /\ q.pc = "denied" => q.user \in Users /\ q.saw \in Row
         /\ q.pc = "checked" => q.user \in Users /\ q.saw \in Row \cup {None} /\ q.pol \in Policy \cup {None}
         /\ q.pc = "opening" => q.user \in Users /\ q.saw \in Row
         /\ q.pc = "linking" => q.user \in Users /\ q.sub \in Subs
         /\ q.pc = "claiming" => q.ticket \in Tickets
         /\ q.pc = "presented" => q.user \in Users /\ q.saw \in Row /\ q.challenge \in Challenges
         /\ q.pc = "refused" => q.challenge \in Challenges
         /\ q.pc = "acting" => q.user \in Users /\ q.saw \in Row /\ q.session \in Sessions /\ q.pol \in Policy
  BY DEF Thread, Idle

LEMMA IdleIsThread == Idle \in Thread /\ Idle.pc = "idle"
  BY DEF Thread, Idle

LEMMA BecomesFacts ==
  ASSUME TypeOK, NEW r \in Requests, NEW q \in Thread, Becomes(r, q)
  PROVE  /\ reqs' \in [Requests -> Thread] /\ reqs'[r] = q
         /\ \A o \in Requests : o # r => reqs'[o] = reqs[o]
  BY DEF Becomes, TypeOK

LEMMA AcceptsFacts ==
  ASSUME TypeOK, NEW S \in SUBSET Proofs, Accepts(S)
  PROVE  /\ accepted' \in [once: SUBSET Proofs, again: SUBSET Proofs]
         /\ accepted'.once = accepted.once \cup S
         /\ accepted'.again = accepted.again \cup (accepted.once \cap S)
  BY DEF Accepts, TypeOK

(* A sign-in opens a session and leaves everybody's role.                  *)
LEMMA FinishFacts ==
  ASSUME TypeOK, NEW u \in Users, NEW saw \in Row, NEW mfa \in BOOLEAN, NEW secret \in Secrets,
         FinishLogin(u, saw, mfa, secret)
  PROVE  /\ users' \in [Users -> Row]
         /\ \A v \in Users : users'[v].active = users[v].active /\ users'[v].role = users[v].role
         /\ sessions' \in [Sessions -> Session]
         /\ \E s \in Sessions :
              /\ sessions'[s] = [status |-> "open", user |-> u, mfa |-> mfa, secret |-> secret]
              /\ \A t \in Sessions : t # s => sessions'[t] = sessions[t]
  <1>1. users' = [users EXCEPT ![u] = Patch(users[u], saw, Cleared(saw))]
    BY DEF FinishLogin
  <1>2. users[u] \in Row /\ users \in [Users -> Row]
    BY DEF TypeOK
  <1>3. /\ Patch(users[u], saw, Cleared(saw)) \in Row
        /\ Patch(users[u], saw, Cleared(saw)).active = users[u].active
        /\ Patch(users[u], saw, Cleared(saw)).role = users[u].role
    BY <1>2, RowFacts
  <1>4. PICK s \in Sessions : sessions' = [sessions EXCEPT ![s] =
          [status |-> "open", user |-> u, mfa |-> mfa, secret |-> secret]]
    BY DEF FinishLogin, Unused, TypeOK
  <1>5. [status |-> "open", user |-> u, mfa |-> mfa, secret |-> secret] \in Session
    BY DEF Session
  <1>. QED BY <1>1, <1>2, <1>3, <1>4, <1>5 DEF TypeOK

(* A change of an administrator sets what differs from the row that was    *)
(* seen.                                                                   *)
LEMMA ChangeFacts ==
  ASSUME TypeOK, NEW q, q.saw \in Row, NEW t \in Users, NEW role \in Administrators,
         NEW active \in BOOLEAN, NEW reset \in BOOLEAN, ChangesAdmin(q, t, role, active, reset)
  PROVE  /\ users' \in [Users -> Row] /\ \A v \in Users : v # t => users'[v] = users[v]
         /\ SeenBy(q, t) \in Row
         /\ users'[t].active = IF active # SeenBy(q, t).active THEN active ELSE users[t].active
         /\ users'[t].role = IF role # SeenBy(q, t).role THEN role ELSE users[t].role
  <1>. DEFINE row == SeenBy(q, t)
              to == [active |-> active, role |-> role, fails |-> row.fails, lock |-> row.lock]
              new == IF reset THEN Cleared(to) ELSE to
  <1>1. row \in Row /\ users[t] \in Row /\ users \in [Users -> Row]
    BY DEF SeenBy, TypeOK
  <1>2. users' = [users EXCEPT ![t] = Patch(users[t], row, new)]
    BY DEF ChangesAdmin
  <1>. HIDE DEF row
  <1>3. to \in Row /\ to.active = active /\ to.role = role
    BY <1>1 DEF Row, Living
  <1>. HIDE DEF to
  <1>4. new \in Row /\ new.active = active /\ new.role = role
    BY <1>3, RowFacts
  <1>. HIDE DEF new
  <1>. DEFINE patched == Patch(users[t], row, new)
  <1>. new \in Row
    BY <1>4
  <1>5. /\ patched \in Row
        /\ patched.active = IF new.active # row.active THEN new.active ELSE users[t].active
        /\ patched.role = IF new.role # row.role THEN new.role ELSE users[t].role
    BY <1>1, RowFacts
  <1>6. users' = [users EXCEPT ![t] = patched]
    BY <1>2
  <1>. HIDE DEF patched
  <1>7. /\ patched.active = IF active # row.active THEN active ELSE users[t].active
        /\ patched.role = IF role # row.role THEN role ELSE users[t].role
    BY <1>4, <1>5, Zenon
  <1>8. users' \in [Users -> Row] /\ (\A v \in Users : v # t => users'[v] = users[v]) /\ users'[t] = patched
    BY <1>1, <1>5, <1>6
  <1>. QED BY <1>1, <1>7, <1>8, Zenon DEF row

-------------------------------------------------------------------------------
(* Types.                                                                  *)

LEMMA TypeStarts == Init => TypeOK
  <1>. SUFFICES ASSUME Init PROVE TypeOK
    OBVIOUS
  <1>1. /\ 0 \in Secrets /\ 1 \in Secrets /\ 0 \in Steps /\ 0 \in 0..MaxTries /\ 0 \in 0..MaxFails
        /\ 2 \in 1..MaxStep /\ AnyUser \in Users /\ plan \in Plans
    <2>1. AnyUser \in Users
      BY SignInAssumption DEF AnyUser
    <2>2. plan \in Plans
      BY DEF Init
    <2>. QED BY <2>1, <2>2, SignInAssumption DEF Secrets, Steps
  <1>2. users \in [Users -> Row]
    BY <1>1, SignInAssumption DEF Init, Row
  <1>3. creds \in [Users -> Credential]
    <2>1. ASSUME NEW n \in {0, 1}
          PROVE  [secret |-> n, pending |-> 0, tries |-> 0, last |-> 0, made |-> n, set |-> n,
                  codes |-> IF n = 1 THEN Codes ELSE {}] \in Credential
      BY <1>1 DEF Credential
    <2>2. ASSUME NEW u \in Users
          PROVE  creds[u] \in Credential
      BY <2>1 DEF Init
    <2>. QED BY <2>2 DEF Init
  <1>4. sessions \in [Sessions -> Session]
    <2>1. ASSUME NEW s \in Sessions, s \in DOMAIN plan.signed
          PROVE  [status |-> "open", user |-> plan.signed[s],
                  mfa |-> plan.signed[s] \in plan.factor,
                  secret |-> creds[plan.signed[s]].secret] \in Session
      <3>1. plan.signed[s] \in Users
        BY <1>1, <2>1, SignInAssumption
      <3>2. creds[plan.signed[s]].secret \in Secrets
        BY <1>3, <3>1, CredFacts
      <3>. QED BY <3>1, <3>2 DEF Session
    <2>2. [status |-> "none", user |-> AnyUser, mfa |-> FALSE, secret |-> 0] \in Session
      BY <1>1 DEF Session
    <2>3. sessions = [s \in Sessions |->
            IF s \in DOMAIN plan.signed
            THEN [status |-> "open", user |-> plan.signed[s],
                  mfa |-> plan.signed[s] \in plan.factor,
                  secret |-> creds[plan.signed[s]].secret]
            ELSE [status |-> "none", user |-> AnyUser, mfa |-> FALSE, secret |-> 0]]
      BY DEF Init
    <2>. QED BY <2>1, <2>2, <2>3
  <1>5. challenges \in [Challenges -> Challenge] /\ tickets \in [Tickets -> Ticket]
    BY <1>1 DEF Init, Challenge, Ticket
  <1>6. links \in [Users -> Subs \cup {None}] /\ policy \in Policy /\ clock \in 1..MaxStep
    BY <1>1, SignInAssumption DEF Init, Policy
  <1>7. reqs \in [Requests -> Thread] /\ accepted \in [once: SUBSET Proofs, again: SUBSET Proofs]
    BY IdleIsThread DEF Init
  <1>. QED BY <1>1, <1>2, <1>3, <1>4, <1>5, <1>6, <1>7 DEF TypeOK

LEMMA TypeKeeps == TypeOK /\ [Next]_vars => TypeOK'
  <1>. SUFFICES ASSUME TypeOK, [Next]_vars PROVE TypeOK'
    OBVIOUS
  <1>. /\ users \in [Users -> Row] /\ creds \in [Users -> Credential]
       /\ links \in [Users -> Subs \cup {None}] /\ sessions \in [Sessions -> Session]
       /\ challenges \in [Challenges -> Challenge] /\ tickets \in [Tickets -> Ticket]
       /\ policy \in Policy /\ clock \in 1..MaxStep /\ reqs \in [Requests -> Thread]
       /\ plan \in Plans /\ accepted \in [once: SUBSET Proofs, again: SUBSET Proofs]
    BY DEF TypeOK
  <1>. Idle \in Thread
    BY IdleIsThread
  <1>1. ASSUME NEW r \in Requests, NEW q \in Thread, Becomes(r, q), UNCHANGED <<tables, clock, plan, accepted>>
        PROVE  TypeOK'
    BY <1>1, BecomesFacts DEF TypeOK, tables
  <1>2. ASSUME NEW r \in Requests, NEW q \in Thread, Becomes(r, q), UNCHANGED <<clock, plan>>,
               users' \in [Users -> Row], creds' \in [Users -> Credential],
               links' \in [Users -> Subs \cup {None}], sessions' \in [Sessions -> Session],
               challenges' \in [Challenges -> Challenge], tickets' \in [Tickets -> Ticket],
               policy' \in Policy, accepted' \in [once: SUBSET Proofs, again: SUBSET Proofs]
        PROVE  TypeOK'
    BY <1>2, BecomesFacts DEF TypeOK
  <1>. clock - 1..clock + 1 \subseteq Steps
    BY StepsFit
  <1>3. ASSUME NEW r \in Requests, Login(r) PROVE TypeOK'
    <2>1. PICK u \in Users :
            \/ Becomes(r, [pc |-> "checked", user |-> u, saw |-> users[u], pol |-> policy])
            \/ Becomes(r, [pc |-> "denied", user |-> u, saw |-> users[u]])
      BY <1>3 DEF Login
    <2>2. /\ [pc |-> "checked", user |-> u, saw |-> users[u], pol |-> policy] \in Thread
          /\ [pc |-> "denied", user |-> u, saw |-> users[u]] \in Thread
      BY DEF Thread
    <2>. QED BY <1>1, <1>3, <2>1, <2>2 DEF Login
  <1>4. ASSUME NEW r \in Requests, CountFailure(r) PROVE TypeOK'
    <2>. DEFINE q == reqs[r]
                n == q.saw.fails + 1
                to == [active |-> q.saw.active, role |-> q.saw.role,
                       fails |-> IF n > MaxFails THEN MaxFails ELSE n,
                       lock |-> IF n >= MaxFails THEN "on" ELSE q.saw.lock]
    <2>1. q.user \in Users /\ q.saw \in Row
      BY <1>4, ThreadFields DEF CountFailure
    <2>2. to \in Row
      BY <2>1, SignInAssumption DEF Row
    <2>3. Patch(users[q.user], q.saw, to) \in Row
      BY <2>1, <2>2, RowFacts
    <2>4. users' = [users EXCEPT ![q.user] = Patch(users[q.user], q.saw, to)]
      BY <1>4 DEF CountFailure
    <2>5. users' \in [Users -> Row]
      BY <2>3, <2>4
    <2>. QED BY <1>2, <1>4, <2>5 DEF CountFailure
  <1>5. ASSUME NEW r \in Requests, Decide(r) PROVE TypeOK'
    <2>. DEFINE q == reqs[r]
                saw == IF q.saw = None THEN users[q.user] ELSE q.saw
    <2>1. q.user \in Users /\ saw \in Row
      BY <1>5, ThreadFields DEF Decide
    <2>2. PICK what \in {"session", "verify", "enroll"} :
            Becomes(r, [pc |-> "opening", user |-> q.user, saw |-> saw, what |-> what])
      BY <1>5 DEF Decide
    <2>3. [pc |-> "opening", user |-> q.user, saw |-> saw, what |-> what] \in Thread
      BY <2>1 DEF Thread
    <2>. QED BY <1>1, <1>5, <2>2, <2>3 DEF Decide
  <1>6. ASSUME NEW r \in Requests, OpenSession(r) PROVE TypeOK'
    <2>1. reqs[r].user \in Users /\ reqs[r].saw \in Row /\ 0 \in Secrets
      BY <1>6, ThreadFields, SignInAssumption DEF OpenSession, Secrets
    <2>2. users' \in [Users -> Row] /\ sessions' \in [Sessions -> Session]
      BY <1>6, <2>1, FinishFacts DEF OpenSession
    <2>. QED BY <1>2, <1>6, <2>2 DEF OpenSession
  <1>7. ASSUME NEW r \in Requests, OpenChallenge(r) PROVE TypeOK'
    <2>1. reqs[r].user \in Users /\ 0 \in 0..MaxTries
      BY <1>7, ThreadFields, SignInAssumption DEF OpenChallenge
    <2>2. \A enroll \in BOOLEAN :
            [status |-> "open", user |-> reqs[r].user, enroll |-> enroll, tries |-> 0] \in Challenge
      BY <2>1 DEF Challenge
    <2>3. PICK c \in Challenges, enroll \in BOOLEAN : challenges' = [challenges EXCEPT ![c] =
            [status |-> "open", user |-> reqs[r].user, enroll |-> enroll, tries |-> 0]]
      BY <1>7 DEF OpenChallenge, Unused
    <2>4. challenges' \in [Challenges -> Challenge]
      BY <2>2, <2>3
    <2>. QED BY <1>2, <1>7, <2>4 DEF OpenChallenge
  <1>8. ASSUME NEW r \in Requests, Callback(r) PROVE TypeOK'
    <2>1. PICK u \in Users, sub \in Subs :
            Becomes(r, [pc |-> "linking", user |-> u, sub |-> sub, linked |-> links[u] # None])
      BY <1>8 DEF Callback
    <2>2. [pc |-> "linking", user |-> u, sub |-> sub, linked |-> links[u] # None] \in Thread
      BY DEF Thread
    <2>. QED BY <1>1, <1>8, <2>1, <2>2 DEF Callback
  <1>9. ASSUME NEW r \in Requests, Link(r) PROVE TypeOK'
    <2>1. reqs[r].user \in Users /\ reqs[r].sub \in Subs
      BY <1>9, ThreadFields DEF Link
    <2>2. links' \in [Users -> Subs \cup {None}]
      BY <1>9, <2>1 DEF Link
    <2>3. tickets' \in [Tickets -> Ticket]
      BY <1>9, <2>1 DEF Link, Unused, Ticket
    <2>. QED BY <1>2, <1>9, <2>2, <2>3 DEF Link
  <1>10. ASSUME NEW r \in Requests, Exchange(r) PROVE TypeOK'
    <2>1. PICK t \in Tickets : Becomes(r, [pc |-> "claiming", ticket |-> t])
      BY <1>10 DEF Exchange
    <2>2. [pc |-> "claiming", ticket |-> t] \in Thread
      BY DEF Thread
    <2>. QED BY <1>1, <1>10, <2>1, <2>2 DEF Exchange
  <1>11. ASSUME NEW r \in Requests, Claim(r) PROVE TypeOK'
    <2>. DEFINE t == reqs[r].ticket
                u == tickets[t].user
    <2>1. t \in Tickets /\ u \in Users
      BY <1>11, ThreadFields DEF Claim, Ticket
    <2>2. PICK q \in {Idle, [pc |-> "checked", user |-> u, saw |-> None, pol |-> None]} : Becomes(r, q)
      BY <1>11 DEF Claim
    <2>3. q \in Thread
      BY <2>1 DEF Thread, Idle
    <2>4. tickets' \in [Tickets -> Ticket]
      BY <1>11, <2>1 DEF Claim, Ticket
    <2>5. accepted' \in [once: SUBSET Proofs, again: SUBSET Proofs]
      <3>1. {[kind |-> "ticket", id |-> t]} \in SUBSET Proofs
        BY <2>1 DEF Proofs
      <3>. QED BY <1>11, <3>1, AcceptsFacts DEF Claim
    <2>. QED BY <1>2, <1>11, <2>2, <2>3, <2>4, <2>5 DEF Claim
  <1>12. ASSUME NEW r \in Requests, NEW op \in ChallengeOps, Present(r, op) PROVE TypeOK'
    <2>1. PICK c \in Challenges :
            Becomes(r, [pc |-> "presented", op |-> op, challenge |-> c, user |-> challenges[c].user,
                        saw |-> users[challenges[c].user]])
      BY <1>12 DEF Present
    <2>2. challenges[c].user \in Users
      BY DEF Challenge
    <2>3. [pc |-> "presented", op |-> op, challenge |-> c, user |-> challenges[c].user,
           saw |-> users[challenges[c].user]] \in Thread
      BY <2>2 DEF Thread
    <2>. QED BY <1>1, <1>12, <2>1, <2>3 DEF Present
  <1>13. ASSUME NEW r \in Requests, reqs[r].pc = "presented"
         PROVE  /\ reqs[r].user \in Users /\ reqs[r].saw \in Row /\ reqs[r].challenge \in Challenges
                /\ [kind |-> "challenge", id |-> reqs[r].challenge] \in Proofs
    BY <1>13, ThreadFields DEF Proofs
  <1>14. ASSUME NEW r \in Requests, VerifyRight(r) PROVE TypeOK'
    <2>. DEFINE q == reqs[r]
    <2>1. q.pc = "presented" /\ FinishLogin(q.user, q.saw, TRUE, creds[q.user].secret)
      BY <1>14 DEF VerifyRight, Presented
    <2>2. creds[q.user].secret \in Secrets
      BY <1>13, <2>1, CredFacts
    <2>3. users' \in [Users -> Row] /\ sessions' \in [Sessions -> Session]
      BY <1>13, <2>1, <2>2, FinishFacts
    <2>4. PICK f \in Factors(q.user) :
            /\ creds' = [creds EXCEPT ![q.user] = f.cred]
            /\ Accepts({f.proof, [kind |-> "challenge", id |-> q.challenge]})
      BY <1>14 DEF VerifyRight
    <2>5. f.cred \in Credential /\ {f.proof, [kind |-> "challenge", id |-> q.challenge]} \in SUBSET Proofs
      BY <1>13, <2>1, FactorFacts
    <2>6. creds' \in [Users -> Credential]
      BY <1>13, <2>1, <2>4, <2>5
    <2>7. accepted' \in [once: SUBSET Proofs, again: SUBSET Proofs]
      BY <2>4, <2>5, AcceptsFacts
    <2>8. challenges' \in [Challenges -> Challenge]
      BY <1>13, <1>14, <2>1, ChallengeFacts DEF VerifyRight
    <2>. QED BY <1>2, <1>14, <2>3, <2>6, <2>7, <2>8 DEF VerifyRight
  <1>15. ASSUME NEW r \in Requests, VerifyWrong(r) PROVE TypeOK'
    <2>1. challenges' \in [Challenges -> Challenge]
      BY <1>13, <1>15, ChallengeFacts DEF VerifyWrong, Presented
    <2>. QED BY <1>2, <1>15, <2>1 DEF VerifyWrong
  <1>16. ASSUME NEW u \in Users, CanSetUp(u), creds' = [creds EXCEPT ![u] = WithPending(creds[u])]
         PROVE  creds' \in [Users -> Credential]
    <2>1. WithPending(creds[u]) \in Credential
      BY <1>16, CredFacts DEF CanSetUp
    <2>. QED BY <1>16, <2>1
  <1>17. ASSUME NEW r \in Requests, EnrollStart(r) PROVE TypeOK'
    <2>1. creds' \in [Users -> Credential]
      BY <1>13, <1>16, <1>17 DEF EnrollStart, Presented
    <2>. QED BY <1>2, <1>17, <2>1 DEF EnrollStart
  <1>18. ASSUME NEW u \in Users, NEW n \in clock - 1..clock + 1
         PROVE  /\ [creds EXCEPT ![u] = WithFactor(creds[u], n)] \in [Users -> Credential]
                /\ [kind |-> "step", user |-> u, secret |-> creds[u].pending, step |-> n] \in Proofs
    <2>1. n \in Steps
      OBVIOUS
    <2>2. WithFactor(creds[u], n) \in Credential /\ creds[u].pending \in Secrets
      BY <2>1, CredFacts
    <2>. QED BY <2>1, <2>2 DEF Proofs
  <1>19. ASSUME NEW r \in Requests, EnrollConfirm(r) PROVE TypeOK'
    <2>. DEFINE q == reqs[r]
    <2>1. q.pc = "presented" /\ FinishLogin(q.user, q.saw, TRUE, creds[q.user].pending)
      BY <1>19 DEF EnrollConfirm, Presented
    <2>2. creds[q.user].pending \in Secrets
      BY <1>13, <2>1, CredFacts
    <2>3. users' \in [Users -> Row] /\ sessions' \in [Sessions -> Session]
      BY <1>13, <2>1, <2>2, FinishFacts
    <2>4. PICK n \in clock - 1..clock + 1 :
            /\ creds' = [creds EXCEPT ![q.user] = WithFactor(creds[q.user], n)]
            /\ Accepts({[kind |-> "challenge", id |-> q.challenge],
                        [kind |-> "step", user |-> q.user, secret |-> creds[q.user].pending, step |-> n]})
      BY <1>19 DEF EnrollConfirm
    <2>5. creds' \in [Users -> Credential]
      BY <1>13, <1>18, <2>1, <2>4
    <2>6. {[kind |-> "challenge", id |-> q.challenge],
           [kind |-> "step", user |-> q.user, secret |-> creds[q.user].pending, step |-> n]} \in SUBSET Proofs
      BY <1>13, <1>18, <2>1
    <2>7. accepted' \in [once: SUBSET Proofs, again: SUBSET Proofs]
      BY <2>4, <2>6, AcceptsFacts
    <2>8. challenges' \in [Challenges -> Challenge]
      BY <1>13, <1>19, <2>1, ChallengeFacts DEF EnrollConfirm
    <2>. QED BY <1>2, <1>19, <2>3, <2>5, <2>7, <2>8 DEF EnrollConfirm
  <1>20. ASSUME NEW u \in Users, CanConfirm(u), creds' = [creds EXCEPT ![u] = WithTry(creds[u])]
         PROVE  creds' \in [Users -> Credential]
    <2>1. WithTry(creds[u]) \in Credential
      BY <1>20, CredFacts DEF CanConfirm
    <2>. QED BY <1>20, <2>1
  <1>21. ASSUME NEW r \in Requests, EnrollRefused(r) PROVE TypeOK'
    <2>1. reqs[r].pc = "presented"
      BY <1>21 DEF EnrollRefused, Presented
    <2>2. CASE CanConfirm(reqs[r].user)
      <3>1. creds' \in [Users -> Credential]
        BY <1>13, <1>20, <1>21, <2>1, <2>2 DEF EnrollRefused
      <3>2. [pc |-> "refused", challenge |-> reqs[r].challenge] \in Thread
        BY <1>13, <2>1 DEF Thread
      <3>3. Becomes(r, [pc |-> "refused", challenge |-> reqs[r].challenge]) /\ UNCHANGED challenges
        BY <1>21, <2>2 DEF EnrollRefused
      <3>. QED BY <1>2, <1>21, <3>1, <3>2, <3>3 DEF EnrollRefused
    <2>3. CASE ~CanConfirm(reqs[r].user)
      <3>2. challenges' = OneMoreTry(reqs[r].challenge) /\ Becomes(r, Idle) /\ UNCHANGED creds
        BY <1>21, <2>3 DEF EnrollRefused
      <3>1. challenges' \in [Challenges -> Challenge]
        BY <1>13, <2>1, <3>2, ChallengeFacts
      <3>. QED BY <1>2, <1>21, <3>1, <3>2 DEF EnrollRefused
    <2>. QED BY <2>2, <2>3
  <1>22. ASSUME NEW r \in Requests, CountRefusal(r) PROVE TypeOK'
    <2>1. reqs[r].challenge \in Challenges
      BY <1>22, ThreadFields DEF CountRefusal
    <2>2. challenges' \in [Challenges -> Challenge]
      BY <1>22, <2>1, ChallengeFacts DEF CountRefusal
    <2>. QED BY <1>2, <1>22, <2>2 DEF CountRefusal
  <1>23. ASSUME NEW r \in Requests, NEW op \in SessionOps, Act(r, op) PROVE TypeOK'
    <2>1. PICK s \in Sessions :
            Becomes(r, [pc |-> "acting", op |-> op, session |-> s, user |-> sessions[s].user,
                        saw |-> users[sessions[s].user], pol |-> policy])
      BY <1>23 DEF Act
    <2>2. sessions[s].user \in Users
      BY DEF Session
    <2>3. [pc |-> "acting", op |-> op, session |-> s, user |-> sessions[s].user,
           saw |-> users[sessions[s].user], pol |-> policy] \in Thread
      BY <2>2 DEF Thread
    <2>. QED BY <1>1, <1>23, <2>1, <2>3 DEF Act
  <1>24. ASSUME NEW r \in Requests, NEW op, Acting(r, op)
         PROVE  /\ reqs[r].user \in Users /\ reqs[r].saw \in Row /\ reqs[r].session \in Sessions
                /\ reqs[r].pol \in Policy
    BY <1>24, ThreadFields DEF Acting
  <1>25. ASSUME NEW r \in Requests, SetupStart(r) PROVE TypeOK'
    <2>1. creds' \in [Users -> Credential]
      BY <1>16, <1>24, <1>25 DEF SetupStart
    <2>. QED BY <1>2, <1>25, <2>1 DEF SetupStart
  <1>26. ASSUME NEW r \in Requests, SetupConfirm(r) PROVE TypeOK'
    <2>. DEFINE q == reqs[r]
                u == q.user
                was == Revoking(SessionsOf(u) \ {q.session})
                row == [status |-> was[q.session].status, user |-> u, mfa |-> TRUE,
                        secret |-> creds[u].pending]
    <2>1. u \in Users /\ q.session \in Sessions
      BY <1>24, <1>26 DEF SetupConfirm
    <2>2. PICK n \in clock - 1..clock + 1 :
            /\ creds' = [creds EXCEPT ![u] = WithFactor(creds[u], n)]
            /\ Accepts({[kind |-> "step", user |-> u, secret |-> creds[u].pending, step |-> n]})
      BY <1>26 DEF SetupConfirm
    <2>3. /\ creds' \in [Users -> Credential]
          /\ {[kind |-> "step", user |-> u, secret |-> creds[u].pending, step |-> n]} \in SUBSET Proofs
      BY <1>18, <2>1, <2>2
    <2>4. accepted' \in [once: SUBSET Proofs, again: SUBSET Proofs]
      BY <2>2, <2>3, AcceptsFacts
    <2>5. sessions' \in [Sessions -> Session]
      <3>1. was \in [Sessions -> Session] /\ creds[u].pending \in Secrets
        BY <2>1, RevokingFacts, CredFacts
      <3>2. sessions' = [was EXCEPT ![q.session] = row]
        BY <1>26 DEF SetupConfirm
      <3>. HIDE DEF was
      <3>3. row \in Session
        BY <2>1, <3>1 DEF Session
      <3>. HIDE DEF row
      <3>. QED BY <2>1, <3>1, <3>2, <3>3
    <2>. QED BY <1>2, <1>26, <2>3, <2>4, <2>5 DEF SetupConfirm
  <1>27. ASSUME NEW r \in Requests, SetupWrong(r) PROVE TypeOK'
    <2>1. creds' \in [Users -> Credential]
      BY <1>20, <1>24, <1>27 DEF SetupWrong
    <2>. QED BY <1>2, <1>27, <2>1 DEF SetupWrong
  <1>28. ASSUME NEW u \in Users, NEW f \in Factors(u), Accepts({f.proof})
         PROVE  accepted' \in [once: SUBSET Proofs, again: SUBSET Proofs]
    BY <1>28, FactorFacts, AcceptsFacts
  <1>29. ASSUME NEW r \in Requests, Disable(r) PROVE TypeOK'
    <2>1. reqs[r].user \in Users
      BY <1>24, <1>29 DEF Disable
    <2>2. creds' \in [Users -> Credential]
      BY <1>29, <2>1, CredFacts DEF Disable
    <2>3. sessions' \in [Sessions -> Session]
      BY <1>29, RevokingFacts DEF Disable, EndAllWithFactor
    <2>4. accepted' \in [once: SUBSET Proofs, again: SUBSET Proofs]
      BY <1>28, <1>29, <2>1 DEF Disable
    <2>. QED BY <1>2, <1>29, <2>2, <2>3, <2>4 DEF Disable
  <1>30. ASSUME NEW r \in Requests, Regenerate(r) PROVE TypeOK'
    <2>. DEFINE u == reqs[r].user
    <2>1. u \in Users /\ creds[u].made < MaxSecrets
      BY <1>24, <1>30 DEF Regenerate
    <2>2. PICK f \in Factors(u) :
            creds' = [creds EXCEPT ![u] = WithNewCodes(f.cred)] /\ Accepts({f.proof})
      BY <1>30 DEF Regenerate
    <2>3. WithNewCodes(f.cred) \in Credential
      BY <2>1, <2>2, FactorFacts, CredFacts
    <2>4. creds' \in [Users -> Credential]
      BY <2>1, <2>2, <2>3
    <2>5. sessions' \in [Sessions -> Session]
      BY <1>30, RevokingFacts DEF Regenerate
    <2>6. accepted' \in [once: SUBSET Proofs, again: SUBSET Proofs]
      BY <1>28, <2>1, <2>2
    <2>. QED BY <1>2, <1>30, <2>4, <2>5, <2>6 DEF Regenerate
  <1>31. ASSUME NEW r \in Requests, UpdatePolicy(r) PROVE TypeOK'
    <2>. DEFINE u == reqs[r].user
    <2>1. u \in Users
      BY <1>24, <1>31 DEF UpdatePolicy
    <2>2. PICK f \in Factors(u) : creds' = [creds EXCEPT ![u] = f.cred] /\ Accepts({f.proof})
      BY <1>31 DEF UpdatePolicy
    <2>3. creds' \in [Users -> Credential]
      BY <2>1, <2>2, FactorFacts
    <2>4. sessions' \in [Sessions -> Session]
      BY <1>31, RevokingFacts DEF UpdatePolicy
    <2>5. accepted' \in [once: SUBSET Proofs, again: SUBSET Proofs]
      BY <1>28, <2>1, <2>2
    <2>6. policy' \in Policy
      BY <1>31 DEF UpdatePolicy, Policy
    <2>. QED BY <1>2, <1>31, <2>3, <2>4, <2>5, <2>6 DEF UpdatePolicy
  <1>32. ASSUME NEW r \in Requests, EditSettings(r) PROVE TypeOK'
    <2>1. policy' \in Policy
      BY <1>32 DEF EditSettings, Policy
    <2>. QED BY <1>2, <1>32, <2>1 DEF EditSettings
  <1>33. ASSUME NEW r \in Requests, NEW which, EndsOwn(r, which) PROVE TypeOK'
    <2>1. sessions' \in [Sessions -> Session]
      BY <1>33, RevokingFacts DEF EndsOwn
    <2>. QED BY <1>2, <1>33, <2>1 DEF EndsOwn
  <1>34. ASSUME NEW r \in Requests,
                Logout(r) \/ RevokeMySession(r) \/ RevokeOtherSessions(r) \/ ChangePassword(r)
         PROVE  TypeOK'
    BY <1>33, <1>34 DEF Logout, RevokeMySession, RevokeOtherSessions, ChangePassword
  <1>35. ASSUME NEW r \in Requests, UpdateAdmin(r) PROVE TypeOK'
    <2>1. PICK t \in Users, role \in Administrators, active \in BOOLEAN, reset \in BOOLEAN :
            ChangesAdmin(reqs[r], t, role, active, reset)
      BY <1>35 DEF UpdateAdmin
    <2>2. reqs[r].saw \in Row
      BY <1>24, <1>35 DEF UpdateAdmin
    <2>3. users' \in [Users -> Row]
      BY <2>1, <2>2, ChangeFacts
    <2>4. sessions' \in [Sessions -> Session]
      BY <2>1, RevokingFacts DEF ChangesAdmin
    <2>. QED BY <1>2, <1>35, <2>3, <2>4 DEF UpdateAdmin
  <1>36. ASSUME NEW r \in Requests, RevokeAdminSessions(r) PROVE TypeOK'
    <2>1. sessions' \in [Sessions -> Session]
      BY <1>36, RevokingFacts DEF RevokeAdminSessions
    <2>. QED BY <1>2, <1>36, <2>1 DEF RevokeAdminSessions
  <1>37. ASSUME NEW r \in Requests, CreateAdmin(r) PROVE TypeOK'
    <2>1. users' \in [Users -> Row]
      BY <1>37, SignInAssumption DEF CreateAdmin, Row, Living
    <2>. QED BY <1>2, <1>37, <2>1 DEF CreateAdmin
  <1>38. ASSUME NEW r \in Requests, DeleteAdmin(r) PROVE TypeOK'
    <2>. DEFINE Without(rows, t) == [i \in DOMAIN rows |->
                  IF rows[i].user = t /\ rows[i].status = "open"
                  THEN [rows[i] EXCEPT !.status = "ended"] ELSE rows[i]]
    <2>1. PICK t \in Users :
            /\ users' = [users EXCEPT ![t] = [active |-> FALSE, role |-> "gone", fails |-> 0, lock |-> "no"]]
            /\ creds' = [creds EXCEPT ![t] = WithoutFactor(creds[t])]
            /\ links' = [links EXCEPT ![t] = None]
            /\ sessions' = Without(sessions, t)
            /\ challenges' = Without(challenges, t)
            /\ tickets' = Without(tickets, t)
      BY <1>38 DEF DeleteAdmin
    <2>2. users' \in [Users -> Row]
      BY <2>1, SignInAssumption DEF Row
    <2>3. creds' \in [Users -> Credential]
      BY <2>1, CredFacts
    <2>4. links' \in [Users -> Subs \cup {None}]
      BY <2>1
    <2>5. sessions' \in [Sessions -> Session]
      <3>1. \A i \in Sessions : [sessions[i] EXCEPT !.status = "ended"] \in Session
        BY DEF Session
      <3>. QED BY <2>1, <3>1
    <2>6. challenges' \in [Challenges -> Challenge]
      <3>1. \A i \in Challenges : [challenges[i] EXCEPT !.status = "ended"] \in Challenge
        BY DEF Challenge
      <3>. QED BY <2>1, <3>1
    <2>7. tickets' \in [Tickets -> Ticket]
      <3>1. \A i \in Tickets : [tickets[i] EXCEPT !.status = "ended"] \in Ticket
        BY DEF Ticket
      <3>. QED BY <2>1, <3>1
    <2>. QED BY <1>2, <1>38, <2>2, <2>3, <2>4, <2>5, <2>6, <2>7 DEF DeleteAdmin
  <1>39. ASSUME NEW r \in Requests, Abort(r) PROVE TypeOK'
    BY <1>1, <1>39 DEF Abort
  <1>40. CASE Tick
    BY <1>40, SignInAssumption DEF Tick, tables, TypeOK
  <1>41. CASE Expire
    <2>1. UNCHANGED <<links, policy, clock, reqs, plan, accepted>>
      BY <1>41 DEF Expire
    <2>2. users' \in [Users -> Row]
      <3>1. \A u \in Users : [users[u] EXCEPT !.lock = "over"] \in Row
        BY DEF Row
      <3>2. users' = users \/ \E u \in Users : users' = [users EXCEPT ![u] = [users[u] EXCEPT !.lock = "over"]]
        BY <1>41 DEF Expire
      <3>. QED BY <3>1, <3>2
    <2>3. creds' \in [Users -> Credential]
      <3>1. \A u \in Users : [creds[u] EXCEPT !.pending = 0] \in Credential
        <4>1. 0 \in Secrets
          BY SignInAssumption DEF Secrets
        <4>2. \A u \in Users : creds[u] \in Credential
          OBVIOUS
        <4>. QED BY <4>1, <4>2 DEF Credential
      <3>2. creds' = creds \/ \E u \in Users : creds' = [creds EXCEPT ![u] = [creds[u] EXCEPT !.pending = 0]]
        BY <1>41 DEF Expire
      <3>. QED BY <3>1, <3>2
    <2>4. sessions' \in [Sessions -> Session]
      <3>1. sessions' = sessions \/ \E s \in Sessions : sessions' = Revoking({s})
        BY <1>41 DEF Expire
      <3>2. CASE \E s \in Sessions : sessions' = Revoking({s})
        BY <3>2, RevokingFacts
      <3>. QED BY <3>1, <3>2
    <2>5. challenges' \in [Challenges -> Challenge]
      BY <1>41, ChallengeFacts DEF Expire
    <2>6. tickets' \in [Tickets -> Ticket]
      <3>1. \A t \in Tickets : [tickets[t] EXCEPT !.status = "ended"] \in Ticket
        BY DEF Ticket
      <3>2. tickets' = tickets
            \/ \E t \in Tickets : tickets' = [tickets EXCEPT ![t] = [tickets[t] EXCEPT !.status = "ended"]]
        BY <1>41 DEF Expire
      <3>. QED BY <3>1, <3>2
    <2>. QED BY <2>1, <2>2, <2>3, <2>4, <2>5, <2>6 DEF TypeOK
  <1>42. CASE UNCHANGED vars
    BY <1>42 DEF vars, tables, TypeOK
  <1>. QED
    BY <1>3, <1>4, <1>5, <1>6, <1>7, <1>8, <1>9, <1>10, <1>11, <1>12, <1>14, <1>15, <1>17, <1>19,
       <1>21, <1>22, <1>23, <1>25, <1>26, <1>27, <1>29, <1>30, <1>31, <1>32, <1>34, <1>35, <1>36,
       <1>37, <1>38, <1>39, <1>40, <1>41, <1>42 DEF Next

(* Every variable of SignIn keeps its type.                                *)
THEOREM SignInTypeCorrect == Spec => []TypeOK
  <1>. QED BY TypeStarts, TypeKeeps, PTL DEF Spec

-------------------------------------------------------------------------------
(* Administrators.                                                         *)

(* Only a change or a deletion takes a role away.                          *)
LEMMA RolesOutside ==
  ASSUME TypeOK, [Next]_vars,
         \A r \in Requests : ~UpdateAdmin(r) /\ ~DeleteAdmin(r),
         NEW v \in Users, users[v].role \in Living
  PROVE  users'[v].active = users[v].active /\ users'[v].role = users[v].role
  <1>. users \in [Users -> Row]
    BY DEF TypeOK
  <1>1. CASE users' = users
    BY <1>1
  <1>2. ASSUME NEW r \in Requests, CountFailure(r)
        PROVE  users'[v].active = users[v].active /\ users'[v].role = users[v].role
    <2>. DEFINE q == reqs[r]
                n == q.saw.fails + 1
                to == [active |-> q.saw.active, role |-> q.saw.role,
                       fails |-> IF n > MaxFails THEN MaxFails ELSE n,
                       lock |-> IF n >= MaxFails THEN "on" ELSE q.saw.lock]
                patched == Patch(users[q.user], q.saw, to)
    <2>1. q.user \in Users /\ q.saw \in Row
      BY <1>2, ThreadFields DEF CountFailure, TypeOK
    <2>2. to \in Row /\ to.active = q.saw.active /\ to.role = q.saw.role
      BY <2>1, SignInAssumption DEF Row
    <2>. HIDE DEF to
    <2>5. /\ patched.active = IF to.active # q.saw.active THEN to.active ELSE users[q.user].active
          /\ patched.role = IF to.role # q.saw.role THEN to.role ELSE users[q.user].role
      BY DEF Patch
    <2>3. patched.active = users[q.user].active /\ patched.role = users[q.user].role
      BY <2>2, <2>5, Zenon
    <2>4. users' = [users EXCEPT ![q.user] = patched]
      BY <1>2 DEF CountFailure, to
    <2>. HIDE DEF patched
    <2>. QED BY <2>1, <2>3, <2>4
  <1>3. ASSUME NEW r \in Requests, OpenSession(r) \/ VerifyRight(r) \/ EnrollConfirm(r)
        PROVE  users'[v].active = users[v].active /\ users'[v].role = users[v].role
    <2>. DEFINE q == reqs[r]
    <2>1. q.user \in Users /\ q.saw \in Row
      BY <1>3, ThreadFields DEF OpenSession, VerifyRight, EnrollConfirm, Presented, TypeOK
    <2>2. 0 \in Secrets /\ creds[q.user].secret \in Secrets /\ creds[q.user].pending \in Secrets
      BY <2>1, CredFacts, SignInAssumption DEF TypeOK, Secrets
    <2>3. PICK mfa \in BOOLEAN, secret \in Secrets : FinishLogin(q.user, q.saw, mfa, secret)
      BY <1>3, <2>2 DEF OpenSession, VerifyRight, EnrollConfirm
    <2>. QED BY <2>1, <2>3, FinishFacts
  <1>4. ASSUME NEW r \in Requests, CreateAdmin(r)
        PROVE  users'[v].active = users[v].active /\ users'[v].role = users[v].role
    <2>1. PICK t \in Users : \E row : users[t].role = "new" /\ users' = [users EXCEPT ![t] = row]
      BY <1>4 DEF CreateAdmin
    <2>2. t # v
      BY <2>1 DEF Living, Administrators
    <2>. QED BY <2>1, <2>2
  <1>5. CASE Expire
    <2>1. users' = users
          \/ \E u \in Users : users' = [users EXCEPT ![u] = [users[u] EXCEPT !.lock = "over"]]
      BY <1>5 DEF Expire
    <2>2. \A u \in Users : /\ [users[u] EXCEPT !.lock = "over"].active = users[u].active
                           /\ [users[u] EXCEPT !.lock = "over"].role = users[u].role
      BY DEF Row
    <2>. QED BY <2>1, <2>2
  <1>6. ASSUME NEW r \in Requests,
               \/ Login(r) \/ Decide(r) \/ OpenChallenge(r) \/ Callback(r) \/ Link(r)
               \/ Exchange(r) \/ Claim(r) \/ VerifyWrong(r) \/ EnrollStart(r)
               \/ EnrollRefused(r) \/ CountRefusal(r) \/ SetupStart(r) \/ SetupConfirm(r)
               \/ SetupWrong(r) \/ Disable(r) \/ Regenerate(r) \/ UpdatePolicy(r)
               \/ EditSettings(r) \/ Logout(r) \/ RevokeMySession(r) \/ RevokeOtherSessions(r)
               \/ ChangePassword(r) \/ RevokeAdminSessions(r) \/ Abort(r)
               \/ (\E op \in ChallengeOps : Present(r, op)) \/ (\E op \in SessionOps : Act(r, op))
        PROVE  users' = users
    BY <1>6
    DEF Login, Decide, OpenChallenge, Callback, Link, Exchange, Claim, VerifyWrong, EnrollStart,
        EnrollRefused, CountRefusal, SetupStart, SetupConfirm, SetupWrong, Disable, Regenerate,
        UpdatePolicy, EditSettings, Logout, RevokeMySession, RevokeOtherSessions, ChangePassword,
        EndsOwn, RevokeAdminSessions, Abort, Present, Act, tables
  <1>7. CASE Tick \/ UNCHANGED vars
    BY <1>1, <1>7 DEF Tick, vars, tables
  <1>. QED BY <1>1, <1>2, <1>3, <1>4, <1>5, <1>6, <1>7 DEF Next

(* The last active Super Admin is lost to an administrator's own change of *)
(* role only, authenticated before somebody promoted that administrator.   *)
THEOREM LastSuperStays == Spec => LastSuperNeedsStale
  <1>. DEFINE Kept == ActiveSupers # {} /\ ActiveSupers' = {} => StaleSelfChange
  <1>1. TypeOK /\ [Next]_vars => [Kept]_vars
    <2>. SUFFICES ASSUME TypeOK, [Next]_vars, ActiveSupers # {}, ActiveSupers' = {}
                  PROVE  StaleSelfChange
      OBVIOUS
    <2>1. PICK v \in Users : users[v].active /\ users[v].role = "super"
      BY DEF ActiveSupers
    <2>2. \A u \in Users : ~(users'[u].active /\ users'[u].role = "super")
      BY DEF ActiveSupers
    <2>3. \E r \in Requests : UpdateAdmin(r) \/ DeleteAdmin(r)
      BY <2>1, <2>2, RolesOutside DEF Living, Administrators
    <2>4. ASSUME NEW t \in Users, OthersRemain(t), \A u \in Users : u # t => users'[u] = users[u]
          PROVE  FALSE
      BY <2>2, <2>4 DEF OthersRemain, ActiveSupers
    <2>5. ASSUME NEW r \in Requests, DeleteAdmin(r) PROVE FALSE
      <3>1. PICK t \in Users :
              /\ users[t].role = "super" => OthersRemain(t)
              /\ \E row : users' = [users EXCEPT ![t] = row]
        BY <2>5 DEF DeleteAdmin
      <3>2. \A u \in Users : u # t => users'[u] = users[u]
        BY <3>1 DEF TypeOK
      <3>3. t = v
        BY <2>1, <2>2, <3>2
      <3>. QED BY <2>1, <2>4, <3>1, <3>2, <3>3
    <2>6. ASSUME NEW r \in Requests, UpdateAdmin(r) PROVE StaleSelfChange
      <3>. DEFINE q == reqs[r]
      <3>1. Acting(r, "manage") /\ Becomes(r, Idle)
        BY <2>6 DEF UpdateAdmin
      <3>2. q.saw \in Row /\ q.user \in Users
        BY <3>1, ThreadFields DEF Acting, TypeOK
      <3>3. reqs'[r] = Idle
        BY <3>1, IdleIsThread, BecomesFacts
      <3>4. PICK t \in Users, role \in Administrators, active \in BOOLEAN, reset \in BOOLEAN :
              ChangesAdmin(q, t, role, active, reset)
        BY <2>6 DEF UpdateAdmin
      <3>. DEFINE row == SeenBy(q, t)
      <3>5. /\ \A u \in Users : u # t => users'[u] = users[u]
            /\ users'[t].active = IF active # row.active THEN active ELSE users[t].active
            /\ users'[t].role = IF role # row.role THEN role ELSE users[t].role
        BY <3>2, <3>4, ChangeFacts
      <3>6. t = v
        BY <2>1, <2>2, <3>5
      <3>7. /\ role # row.role /\ row.role = "super" => OthersRemain(t)
            /\ active # row.active => t # q.user
            /\ ~active /\ row.active /\ row.role = "super" => OthersRemain(t)
        BY <3>4 DEF ChangesAdmin
      <3>8. ~OthersRemain(t)
        BY <2>4, <3>5
      <3>9. t = q.user
        <4>. SUFFICES ASSUME t # q.user PROVE FALSE
          OBVIOUS
        <4>1. row = users[t]
          BY DEF SeenBy
        <4>2. row.active /\ row.role = "super" /\ active /\ role = "super"
          BY <2>1, <3>6, <3>7, <3>8, <4>1, Zenon
        <4>. HIDE DEF row
        <4>3. users'[t].role = "super"
          BY <2>1, <3>5, <3>6, <4>2, Zenon
        <4>4. users'[t].active
          BY <2>1, <3>5, <3>6, <4>2, Zenon
        <4>. QED BY <2>2, <4>3, <4>4
      <3>10. row = q.saw
        BY <3>9 DEF SeenBy
      <3>11. users'[t].active
        <4>. HIDE DEF row
        <4>1. active = row.active
          BY <3>7, <3>9, Zenon
        <4>. QED BY <2>1, <3>5, <3>6, <4>1, Zenon
      <3>12. q.saw.role # "super"
        <4>. SUFFICES ASSUME q.saw.role = "super" PROVE FALSE
          OBVIOUS
        <4>1. role = "super" /\ role = row.role
          BY <3>7, <3>8, <3>10
        <4>2. users'[t].role = "super"
          BY <2>1, <3>5, <3>6, <4>1, Zenon
        <4>. QED BY <2>2, <3>11, <4>2
      <3>. QED BY <2>1, <3>1, <3>3, <3>6, <3>9, <3>12 DEF StaleSelfChange
    <2>. QED BY <2>3, <2>5, <2>6
  <1>2. LastSuperNeedsStale <=> [][Kept]_vars
    BY DEF LastSuperNeedsStale
  <1>. HIDE DEF Kept
  <1>. QED BY <1>1, <1>2, SignInTypeCorrect, PTL DEF Spec

-------------------------------------------------------------------------------
(* Second factors.                                                         *)

(* An open session that counts as verified has proven the factor its       *)
(* account has now: an account without one has no such session.            *)
FactorsProven ==
  \A s \in Sessions :
    sessions[s].status = "open" /\ sessions[s].mfa =>
      /\ HasFactor(creds[sessions[s].user])
      /\ sessions[s].secret = creds[sessions[s].user].secret

LEMMA FactorsStart == Init => FactorsProven
  <1>. SUFFICES ASSUME Init, NEW s \in Sessions, sessions[s].status = "open", sessions[s].mfa
                PROVE  /\ HasFactor(creds[sessions[s].user])
                       /\ sessions[s].secret = creds[sessions[s].user].secret
    BY DEF FactorsProven
  <1>1. plan \in Plans
    BY DEF Init
  <1>2. sessions = [t \in Sessions |->
          IF t \in DOMAIN plan.signed
          THEN [status |-> "open", user |-> plan.signed[t],
                mfa |-> plan.signed[t] \in plan.factor, secret |-> creds[plan.signed[t]].secret]
          ELSE [status |-> "none", user |-> AnyUser, mfa |-> FALSE, secret |-> 0]]
    BY DEF Init
  <1>3. /\ s \in DOMAIN plan.signed /\ sessions[s].user = plan.signed[s]
        /\ sessions[s].user \in plan.factor
        /\ sessions[s].secret = creds[plan.signed[s]].secret
    BY <1>2
  <1>4. plan.signed[s] \in Users
    BY <1>1, <1>3, SignInAssumption
  <1>5. \A u \in Users : u \in plan.factor => creds[u].secret = 1
    BY DEF Init
  <1>. QED BY <1>3, <1>4, <1>5 DEF HasFactor

(* It is enough to look at one account: the others keep their secret, and  *)
(* a session that is verified was so before, or has proven the secret.     *)
LEMMA FactorsOfOne ==
  ASSUME TypeOK, FactorsProven, NEW u \in Users,
         \A v \in Users : v # u => creds'[v].secret = creds[v].secret,
         \A s \in Sessions :
           sessions'[s].status = "open" /\ sessions'[s].mfa =>
             \/ /\ sessions'[s] = sessions[s]
                /\ sessions[s].user = u => creds'[u].secret = creds[u].secret
             \/ /\ sessions'[s].user = u /\ sessions'[s].secret = creds'[u].secret
                /\ HasFactor(creds'[u])
  PROVE  FactorsProven'
  <1>1. \A s \in Sessions : sessions[s].user \in Users
    BY DEF TypeOK, Session
  <1>. QED BY <1>1 DEF FactorsProven, HasFactor

LEMMA FactorsAlone ==
  ASSUME TypeOK, FactorsProven,
         \A v \in Users : creds'[v].secret = creds[v].secret,
         \A s \in Sessions :
           sessions'[s].status = "open" /\ sessions'[s].mfa => sessions'[s] = sessions[s]
  PROVE  FactorsProven'
  <1>1. PICK u \in Users : TRUE
    BY SignInAssumption
  <1>. QED BY <1>1, FactorsOfOne

LEMMA FactorsKeep == TypeOK /\ FactorsProven /\ [Next]_vars => FactorsProven'
  <1>. SUFFICES ASSUME TypeOK, FactorsProven, [Next]_vars PROVE FactorsProven'
    OBVIOUS
  <1>. /\ creds \in [Users -> Credential] /\ sessions \in [Sessions -> Session]
       /\ reqs \in [Requests -> Thread] /\ clock \in 1..MaxStep
    BY DEF TypeOK
  <1>1. ASSUME creds' = creds, sessions' = sessions PROVE FactorsProven'
    BY <1>1, FactorsAlone
  <1>2. ASSUME creds' = creds, NEW which, sessions' = Revoking(which) PROVE FactorsProven'
    BY <1>2, RevokingFacts, FactorsAlone
  <1>3. ASSUME NEW u \in Users, NEW cred \in Credential, creds' = [creds EXCEPT ![u] = cred],
               cred.secret = creds[u].secret, NEW which,
               sessions' = sessions \/ sessions' = Revoking(which)
        PROVE  FactorsProven'
    <2>1. \A v \in Users : creds'[v].secret = creds[v].secret
      BY <1>3
    <2>2. CASE sessions' = sessions
      BY <2>1, <2>2, FactorsAlone
    <2>3. CASE sessions' = Revoking(which)
      BY <2>1, <2>3, RevokingFacts, FactorsAlone
    <2>. QED BY <1>3, <2>2, <2>3
  <1>4. ASSUME NEW r \in Requests, OpenSession(r) PROVE FactorsProven'
    <2>1. /\ reqs[r].user \in Users /\ reqs[r].saw \in Row /\ 0 \in Secrets
          /\ creds' = creds
      BY <1>4, ThreadFields, SignInAssumption DEF OpenSession, Secrets
    <2>3. FinishLogin(reqs[r].user, reqs[r].saw, FALSE, 0)
      BY <1>4 DEF OpenSession
    <2>2. PICK s \in Sessions :
            /\ sessions'[s] = [status |-> "open", user |-> reqs[r].user, mfa |-> FALSE, secret |-> 0]
            /\ \A t \in Sessions : t # s => sessions'[t] = sessions[t]
      BY <2>1, <2>3, FinishFacts
    <2>. QED BY <2>1, <2>2, FactorsAlone
  <1>5. ASSUME NEW r \in Requests, reqs[r].pc = "presented"
        PROVE  reqs[r].user \in Users /\ reqs[r].saw \in Row
    BY <1>5, ThreadFields
  <1>6. ASSUME NEW r \in Requests, VerifyRight(r) PROVE FactorsProven'
    <2>. DEFINE u == reqs[r].user
    <2>1. /\ u \in Users /\ reqs[r].saw \in Row
          /\ FinishLogin(u, reqs[r].saw, TRUE, creds[u].secret)
      BY <1>5, <1>6 DEF VerifyRight, Presented
    <2>2. creds[u].secret \in Secrets
      BY <2>1, CredFacts
    <2>3. PICK f \in Factors(u) : creds' = [creds EXCEPT ![u] = f.cred]
      BY <1>6 DEF VerifyRight
    <2>4. HasFactor(creds[u]) /\ f.cred.secret = creds[u].secret
      BY <2>1, FactorFacts
    <2>5. PICK s \in Sessions :
            /\ sessions'[s] = [status |-> "open", user |-> u, mfa |-> TRUE, secret |-> creds[u].secret]
            /\ \A t \in Sessions : t # s => sessions'[t] = sessions[t]
      BY <2>1, <2>2, FinishFacts
    <2>6. creds'[u].secret = creds[u].secret /\ HasFactor(creds'[u])
      BY <2>1, <2>3, <2>4 DEF HasFactor
    <2>7. \A v \in Users : v # u => creds'[v].secret = creds[v].secret
      BY <2>3
    <2>. HIDE DEF u
    <2>. QED BY <2>1, <2>5, <2>6, <2>7, FactorsOfOne
  <1>7. ASSUME NEW u \in Users, CanSetUp(u), creds' = [creds EXCEPT ![u] = WithPending(creds[u])],
               sessions' = sessions
        PROVE  FactorsProven'
    <2>1. WithPending(creds[u]) \in Credential /\ WithPending(creds[u]).secret = creds[u].secret
      BY <1>7, CredFacts DEF CanSetUp, HasFactor, WithPending
    <2>. QED BY <1>3, <1>7, <2>1
  <1>8. ASSUME NEW u \in Users, CanConfirm(u), creds' = [creds EXCEPT ![u] = WithTry(creds[u])],
               sessions' = sessions
        PROVE  FactorsProven'
    <2>1. WithTry(creds[u]) \in Credential /\ WithTry(creds[u]).secret = creds[u].secret
      BY <1>8, CredFacts DEF CanConfirm
    <2>. QED BY <1>3, <1>8, <2>1
  <1>9. ASSUME NEW r \in Requests, EnrollStart(r) PROVE FactorsProven'
    BY <1>5, <1>7, <1>9 DEF EnrollStart, Presented
  <1>10. ASSUME NEW u \in Users, CanConfirm(u), creds'[u].secret = creds[u].pending,
                \A v \in Users : v # u => creds'[v].secret = creds[v].secret,
                NEW s \in Sessions,
                sessions'[s].user = u /\ sessions'[s].secret = creds[u].pending,
                \A t \in Sessions : t # s /\ sessions'[t].status = "open" => sessions'[t] = sessions[t]
         PROVE  FactorsProven'
    <2>1. creds'[u].secret = creds[u].pending /\ HasFactor(creds'[u])
      BY <1>10 DEF CanConfirm, HasFactor
    <2>2. \A t \in Sessions : sessions[t].status = "open" /\ sessions[t].mfa => sessions[t].user # u
      BY <1>10 DEF CanConfirm, FactorsProven
    <2>4. ASSUME NEW t \in Sessions, sessions'[t].status = "open", sessions'[t].mfa
          PROVE  \/ /\ sessions'[t] = sessions[t]
                    /\ sessions[t].user = u => creds'[u].secret = creds[u].secret
                 \/ /\ sessions'[t].user = u /\ sessions'[t].secret = creds'[u].secret
                    /\ HasFactor(creds'[u])
      BY <1>10, <2>1, <2>2, <2>4
    <2>. QED BY <1>10, <2>4, FactorsOfOne
  <1>11. ASSUME NEW r \in Requests, EnrollConfirm(r) PROVE FactorsProven'
    <2>. DEFINE u == reqs[r].user
    <2>1. /\ u \in Users /\ reqs[r].saw \in Row /\ CanConfirm(u)
          /\ FinishLogin(u, reqs[r].saw, TRUE, creds[u].pending)
      BY <1>5, <1>11 DEF EnrollConfirm, Presented
    <2>2. creds[u].pending \in Secrets
      BY <2>1, CredFacts
    <2>3. \E n : creds' = [creds EXCEPT ![u] = WithFactor(creds[u], n)]
      BY <1>11 DEF EnrollConfirm
    <2>5. /\ creds'[u].secret = creds[u].pending
          /\ \A v \in Users : v # u => creds'[v].secret = creds[v].secret
      BY <2>1, <2>3 DEF WithFactor
    <2>4. PICK s \in Sessions :
            /\ sessions'[s] = [status |-> "open", user |-> u, mfa |-> TRUE, secret |-> creds[u].pending]
            /\ \A t \in Sessions : t # s => sessions'[t] = sessions[t]
      BY <2>1, <2>2, FinishFacts
    <2>. HIDE DEF u
    <2>. QED BY <1>10, <2>1, <2>4, <2>5
  <1>12. ASSUME NEW r \in Requests, EnrollRefused(r) PROVE FactorsProven'
    <2>1. reqs[r].user \in Users /\ sessions' = sessions
      BY <1>5, <1>12 DEF EnrollRefused, Presented
    <2>2. CASE CanConfirm(reqs[r].user)
      BY <1>8, <1>12, <2>1, <2>2 DEF EnrollRefused
    <2>3. CASE ~CanConfirm(reqs[r].user)
      <3>1. creds' = creds
        BY <1>12, <2>3 DEF EnrollRefused
      <3>. QED BY <1>1, <2>1, <3>1
    <2>. QED BY <2>2, <2>3
  <1>13. ASSUME NEW r \in Requests, NEW op, Acting(r, op)
         PROVE  reqs[r].user \in Users /\ reqs[r].session \in Sessions
    BY <1>13, ThreadFields DEF Acting
  <1>14. ASSUME NEW r \in Requests, SetupStart(r) PROVE FactorsProven'
    BY <1>7, <1>13, <1>14 DEF SetupStart
  <1>15. ASSUME NEW r \in Requests, SetupConfirm(r) PROVE FactorsProven'
    <2>. DEFINE q == reqs[r]
                u == q.user
                was == Revoking(SessionsOf(u) \ {q.session})
                row == [status |-> was[q.session].status, user |-> u, mfa |-> TRUE,
                        secret |-> creds[u].pending]
    <2>1. u \in Users /\ q.session \in Sessions /\ CanConfirm(u)
      BY <1>13, <1>15 DEF SetupConfirm
    <2>7. \E n : creds' = [creds EXCEPT ![u] = WithFactor(creds[u], n)]
      BY <1>15 DEF SetupConfirm
    <2>2. /\ creds'[u].secret = creds[u].pending
          /\ \A v \in Users : v # u => creds'[v].secret = creds[v].secret
      BY <2>1, <2>7 DEF WithFactor
    <2>3. sessions' = [was EXCEPT ![q.session] = row]
      BY <1>15 DEF SetupConfirm
    <2>4. /\ was \in [Sessions -> Session]
          /\ \A t \in Sessions : was[t].status = "open" => was[t] = sessions[t]
      BY RevokingFacts
    <2>5. row.user = u /\ row.secret = creds[u].pending
      OBVIOUS
    <2>. HIDE DEF was, row, u, q
    <2>6. /\ sessions'[q.session] = row
          /\ \A t \in Sessions : t # q.session => sessions'[t] = was[t]
      BY <2>1, <2>3, <2>4
    <2>. QED BY <1>10, <2>1, <2>2, <2>4, <2>5, <2>6
  <1>16. ASSUME NEW r \in Requests, SetupWrong(r) PROVE FactorsProven'
    BY <1>8, <1>13, <1>16 DEF SetupWrong
  <1>17. ASSUME NEW u \in Users,
                \A v \in Users : v # u => creds'[v] = creds[v],
                \A s \in Sessions : sessions'[s].status = "open" => sessions'[s] = sessions[s] /\ sessions[s].user # u
         PROVE  FactorsProven'
    BY <1>17, FactorsOfOne
  <1>18. ASSUME NEW r \in Requests, Disable(r) PROVE FactorsProven'
    <2>1. reqs[r].user \in Users
      BY <1>13, <1>18 DEF Disable
    <2>2. /\ \A v \in Users : v # reqs[r].user => creds'[v] = creds[v]
          /\ sessions' = Revoking(SessionsOf(reqs[r].user))
      BY <1>18, <2>1 DEF Disable, EndAllWithFactor
    <2>. QED BY <1>17, <2>1, <2>2, RevokingFacts DEF SessionsOf
  <1>19. ASSUME NEW r \in Requests, Regenerate(r) PROVE FactorsProven'
    <2>. DEFINE u == reqs[r].user
    <2>1. u \in Users /\ creds[u].made < MaxSecrets
      BY <1>13, <1>19 DEF Regenerate
    <2>2. PICK f \in Factors(u) : creds' = [creds EXCEPT ![u] = WithNewCodes(f.cred)]
      BY <1>19 DEF Regenerate
    <2>3. WithNewCodes(f.cred) \in Credential
      BY <2>1, <2>2, FactorFacts, CredFacts
    <2>4. WithNewCodes(f.cred).secret = creds[u].secret
      BY <2>1, FactorFacts DEF WithNewCodes
    <2>5. sessions' = Revoking(SessionsOf(u) \ {reqs[r].session})
      BY <1>19 DEF Regenerate
    <2>. HIDE DEF u
    <2>. QED BY <1>3, <2>1, <2>2, <2>3, <2>4, <2>5
  <1>20. ASSUME NEW r \in Requests, UpdatePolicy(r) PROVE FactorsProven'
    <2>. DEFINE u == reqs[r].user
    <2>1. u \in Users
      BY <1>13, <1>20 DEF UpdatePolicy
    <2>2. PICK f \in Factors(u) : creds' = [creds EXCEPT ![u] = f.cred]
      BY <1>20 DEF UpdatePolicy
    <2>3. f.cred \in Credential /\ f.cred.secret = creds[u].secret
      BY <2>1, FactorFacts
    <2>4. sessions' = sessions \/ sessions' = Revoking({s \in Sessions : ~sessions[s].mfa})
      BY <1>20 DEF UpdatePolicy
    <2>. HIDE DEF u
    <2>. QED BY <1>3, <2>1, <2>2, <2>3, <2>4
  <1>21. ASSUME NEW r \in Requests,
                Logout(r) \/ RevokeMySession(r) \/ RevokeOtherSessions(r) \/ ChangePassword(r)
                \/ RevokeAdminSessions(r)
         PROVE  FactorsProven'
    <2>1. creds' = creds /\ \E which : sessions' = Revoking(which)
      BY <1>21 DEF Logout, RevokeMySession, RevokeOtherSessions, ChangePassword, EndsOwn,
                   RevokeAdminSessions
    <2>. QED BY <1>2, <2>1
  <1>22. ASSUME NEW r \in Requests, UpdateAdmin(r) PROVE FactorsProven'
    <2>1. /\ creds' = creds
          /\ \/ sessions' = sessions
             \/ \E t \in Users : sessions' = Revoking(SessionsOf(t))
      BY <1>22 DEF UpdateAdmin, ChangesAdmin
    <2>2. CASE sessions' = sessions
      BY <1>1, <2>1, <2>2
    <2>3. CASE \E t \in Users : sessions' = Revoking(SessionsOf(t))
      BY <1>2, <2>1, <2>3
    <2>. QED BY <2>1, <2>2, <2>3
  <1>23. ASSUME NEW r \in Requests, DeleteAdmin(r) PROVE FactorsProven'
    <2>1. PICK t \in Users :
            /\ creds' = [creds EXCEPT ![t] = WithoutFactor(creds[t])]
            /\ sessions' = [i \in DOMAIN sessions |->
                 IF sessions[i].user = t /\ sessions[i].status = "open"
                 THEN [sessions[i] EXCEPT !.status = "ended"] ELSE sessions[i]]
      BY <1>23 DEF DeleteAdmin
    <2>2. \A i \in Sessions : [sessions[i] EXCEPT !.status = "ended"].status = "ended"
      BY DEF Session
    <2>3. \A v \in Users : v # t => creds'[v] = creds[v]
      BY <2>1
    <2>4. \A s \in Sessions : sessions'[s].status = "open" =>
            sessions'[s] = sessions[s] /\ sessions[s].user # t
      BY <2>1, <2>2
    <2>. QED BY <1>17, <2>3, <2>4
  <1>24. CASE Expire
    <2>1. CASE creds' = creds /\ sessions' = sessions
      BY <1>1, <2>1
    <2>2. CASE creds' = creds /\ \E s \in Sessions : sessions' = Revoking({s})
      BY <1>2, <2>2
    <2>3. CASE sessions' = sessions /\ \E u \in Users : creds' = [creds EXCEPT ![u].pending = 0]
      <3>1. PICK u \in Users : creds' = [creds EXCEPT ![u] = [creds[u] EXCEPT !.pending = 0]]
        BY <2>3
      <3>2. [creds[u] EXCEPT !.pending = 0].secret = creds[u].secret
        BY DEF Credential
      <3>. QED BY <2>3, <3>1, <3>2, FactorsAlone
    <2>. QED BY <1>24, <2>1, <2>2, <2>3 DEF Expire
  <1>25. ASSUME NEW r \in Requests,
               \/ Login(r) \/ CountFailure(r) \/ Decide(r) \/ OpenChallenge(r) \/ Callback(r)
               \/ Link(r) \/ Exchange(r) \/ Claim(r) \/ VerifyWrong(r) \/ CountRefusal(r)
               \/ EditSettings(r) \/ CreateAdmin(r) \/ Abort(r)
               \/ (\E op \in ChallengeOps : Present(r, op)) \/ (\E op \in SessionOps : Act(r, op))
        PROVE  FactorsProven'
    <2>1. creds' = creds /\ sessions' = sessions
      BY <1>25
      DEF Login, CountFailure, Decide, OpenChallenge, Callback, Link, Exchange, Claim, VerifyWrong,
          CountRefusal, EditSettings, CreateAdmin, Abort, Present, Act, tables
    <2>. QED BY <1>1, <2>1
  <1>26. CASE Tick \/ UNCHANGED vars
    BY <1>1, <1>26 DEF Tick, vars, tables
  <1>. QED
    BY <1>4, <1>6, <1>9, <1>11, <1>12, <1>14, <1>15, <1>16, <1>18, <1>19, <1>20, <1>21, <1>22,
       <1>23, <1>24, <1>25, <1>26 DEF Next

(* No session outlives the factor it proved.                               *)
THEOREM FactorsAreCurrent == Spec => []SecondFactorCurrent
  <1>1. FactorsProven => SecondFactorCurrent
    BY DEF FactorsProven, SecondFactorCurrent
  <1>. QED BY <1>1, FactorsStart, FactorsKeep, SignInTypeCorrect, PTL DEF Spec

-------------------------------------------------------------------------------
(* Proofs are accepted once.                                               *)

StepProof(u, x, n) == [kind |-> "step", user |-> u, secret |-> x, step |-> n]
CodeProof(u, x, c) == [kind |-> "code", user |-> u, set |-> x, code |-> c]
ChallengeProof(c) == [kind |-> "challenge", id |-> c]
TicketProof(t) == [kind |-> "ticket", id |-> t]

(* A user's secrets and sets are numbered as they are made; a step that    *)
(* was accepted is not later than the last, and a code is no longer there. *)
SpentOf(u, cred, once) ==
  /\ cred.secret <= cred.made /\ cred.pending <= cred.made /\ cred.set <= cred.made
  /\ cred.pending # 0 => cred.pending # cred.set /\ cred.pending # cred.secret
  /\ \A x \in Secrets, n \in Steps :
       StepProof(u, x, n) \in once =>
         /\ x # 0 /\ x <= cred.made /\ x # cred.pending
         /\ x = cred.secret => n <= cred.last
  /\ \A x \in Secrets, c \in Codes :
       CodeProof(u, x, c) \in once =>
         /\ x <= cred.made /\ (cred.pending # 0 => x # cred.pending)
         /\ x = cred.set => c \notin cred.codes
CredsSpent == \A u \in Users : SpentOf(u, creds[u], accepted.once)
(* What was claimed is ended for good.                                     *)
GoneSpent ==
  /\ \A c \in Challenges : ChallengeProof(c) \in accepted.once => challenges[c].status = "ended"
  /\ \A t \in Tickets : TicketProof(t) \in accepted.once => tickets[t].status = "ended"
(* A challenge somebody has locked is open, and locked by nobody else.     *)
ChallengesHeld ==
  \A r \in Requests :
    reqs[r].pc = "presented" =>
      /\ challenges[reqs[r].challenge].status = "open"
      /\ challenges[reqs[r].challenge].user = reqs[r].user
HeldByOne ==
  \A r, o \in Requests :
    reqs[r].pc = "presented" /\ reqs[o].pc = "presented" /\ reqs[r].challenge = reqs[o].challenge
      => r = o
SingleInv ==
  TypeOK /\ CredsSpent /\ GoneSpent /\ ChallengesHeld /\ HeldByOne /\ ProofsAreSingleUse

LEMMA CredNumbers ==
  ASSUME NEW cred \in Credential
  PROVE  /\ cred.secret \in Nat /\ cred.pending \in Nat /\ cred.made \in Nat /\ cred.set \in Nat
         /\ cred.last \in Nat
  <1>1. Secrets \subseteq Nat /\ Steps \subseteq Nat
    BY SignInAssumption DEF Secrets, Steps
  <1>. QED BY <1>1, CredFacts

LEMMA SpentPending ==
  ASSUME NEW u, NEW cred \in Credential, NEW once, SpentOf(u, cred, once), ~HasFactor(cred)
  PROVE  SpentOf(u, WithPending(cred), once)
  <1>1. Secrets \subseteq Nat
    BY SignInAssumption DEF Secrets
  <1>. QED BY <1>1, CredNumbers DEF SpentOf, WithPending, HasFactor

LEMMA SpentCodes ==
  ASSUME NEW u, NEW cred \in Credential, NEW once, SpentOf(u, cred, once)
  PROVE  SpentOf(u, WithNewCodes(cred), once)
  <1>1. Secrets \subseteq Nat
    BY SignInAssumption DEF Secrets
  <1>. QED BY <1>1, CredNumbers DEF SpentOf, WithNewCodes

LEMMA SpentOff ==
  ASSUME NEW u, NEW cred \in Credential, NEW to \in Credential, NEW once, SpentOf(u, cred, once),
         to.made = cred.made, to.set = cred.set,
         \/ to.secret = 0 /\ to.pending = 0 /\ to.codes = {}
         \/ /\ to.secret = cred.secret /\ to.last = cred.last /\ to.codes = cred.codes
            /\ to.pending \in {0, cred.pending}
  PROVE  SpentOf(u, to, once)
  <1>1. Secrets \subseteq Nat
    BY SignInAssumption DEF Secrets
  <1>2. /\ cred.made \in Nat /\ cred.secret \in Nat /\ cred.pending \in Nat /\ cred.set \in Nat
        /\ cred.last \in Nat
    BY CredNumbers
  <1>3. CASE to.secret = 0 /\ to.pending = 0 /\ to.codes = {}
    <2>1. /\ to.secret <= to.made /\ to.pending <= to.made /\ to.set <= to.made
          /\ to.pending = 0
      BY <1>2, <1>3 DEF SpentOf
    <2>2. ASSUME NEW x \in Secrets, NEW n \in Steps, StepProof(u, x, n) \in once
          PROVE  x # 0 /\ x <= to.made /\ x # to.secret
      BY <1>3, <2>2 DEF SpentOf
    <2>3. ASSUME NEW x \in Secrets, NEW c \in Codes, CodeProof(u, x, c) \in once
          PROVE  x <= to.made /\ c \notin to.codes
      BY <1>3, <2>3 DEF SpentOf
    <2>. QED BY <2>1, <2>2, <2>3 DEF SpentOf
  <1>4. CASE /\ to.secret = cred.secret /\ to.last = cred.last /\ to.codes = cred.codes
             /\ to.pending \in {0, cred.pending}
    <2>1. CASE to.pending = 0
      BY <1>1, <1>2, <1>4, <2>1 DEF SpentOf
    <2>2. CASE to.pending = cred.pending
      BY <1>1, <1>2, <1>4, <2>2 DEF SpentOf
    <2>. QED BY <1>4, <2>1, <2>2
  <1>. QED BY <1>3, <1>4

(* A secret that waits was never used; confirming it uses one step.        *)
LEMMA SpentFactor ==
  ASSUME NEW u, NEW cred \in Credential, NEW once, NEW more, SpentOf(u, cred, once),
         cred.pending # 0, NEW n \in Steps,
         \A p \in more \ once : p.kind \in {"challenge", "ticket"} \/ p = StepProof(u, cred.pending, n)
  PROVE  /\ StepProof(u, cred.pending, n) \notin once
         /\ SpentOf(u, WithFactor(cred, n), more)
  <1>1. Secrets \subseteq Nat /\ Steps \subseteq Nat /\ cred.pending \in Secrets
    BY SignInAssumption, CredFacts DEF Secrets, Steps
  <1>2. StepProof(u, cred.pending, n) \notin once
    BY <1>1 DEF SpentOf
  <1>3. ASSUME NEW x \in Secrets, NEW m \in Steps, StepProof(u, x, m) \in more
        PROVE  x # 0 /\ x <= cred.made /\ (x = cred.pending => m <= n)
    <2>1. CASE StepProof(u, x, m) \in once
      BY <2>1 DEF SpentOf
    <2>2. CASE StepProof(u, x, m) \notin once
      <3>1. x = cred.pending /\ m = n
        BY <1>3, <2>2 DEF StepProof
      <3>. QED BY <1>1, <3>1 DEF SpentOf
    <2>. QED BY <2>1, <2>2
  <1>4. ASSUME NEW x \in Secrets, NEW c \in Codes, CodeProof(u, x, c) \in more
        PROVE  x <= cred.made /\ x # cred.pending
    <2>1. CodeProof(u, x, c) \in once
      BY <1>4 DEF CodeProof, StepProof
    <2>. QED BY <2>1 DEF SpentOf
  <1> DEFINE to == WithFactor(cred, n)
  <1>5. /\ to.made = cred.made /\ to.set = cred.pending /\ to.pending = 0
        /\ to.secret = cred.pending /\ to.last = n
    BY DEF WithFactor
  <1>6. cred.pending <= cred.made /\ cred.pending \in Nat /\ cred.made \in Nat
    BY CredNumbers DEF SpentOf
  <1> HIDE DEF to
  <1>8. SpentOf(u, to, more)
    BY <1>3, <1>4, <1>5, <1>6 DEF SpentOf
  <1>. QED BY <1>2, <1>8 DEF to

(* The proof of a factor is a step or a recovery code of its account.      *)
LEMMA FactorProof ==
  ASSUME TypeOK, NEW u \in Users, NEW f \in Factors(u)
  PROVE  f.proof.kind \in {"step", "code"} /\ f.proof.user = u
  <1>1. CASE \E n \in Steps :
          f.proof = [kind |-> "step", user |-> u, secret |-> creds[u].secret, step |-> n]
    BY <1>1
  <1>2. CASE \E c \in creds[u].codes :
          f.proof = [kind |-> "code", user |-> u, set |-> creds[u].set, code |-> c]
    BY <1>2
  <1>3. \/ \E n \in Steps :
             f.proof = [kind |-> "step", user |-> u, secret |-> creds[u].secret, step |-> n]
        \/ \E c \in creds[u].codes :
             f.proof = [kind |-> "code", user |-> u, set |-> creds[u].set, code |-> c]
    BY FactorFacts
  <1>. QED BY <1>1, <1>2, <1>3

(* A factor is a proof that was not accepted before.                       *)
LEMMA SpentUse ==
  ASSUME TypeOK, NEW u \in Users, NEW once, NEW more, SpentOf(u, creds[u], once), NEW f \in Factors(u),
         \A p \in more \ once : p.kind \in {"challenge", "ticket"} \/ p = f.proof
  PROVE  f.proof \notin once /\ SpentOf(u, f.cred, more)
  <1>. DEFINE cred == creds[u]
  <1>1. cred \in Credential /\ Secrets \subseteq Nat /\ Steps \subseteq Nat
    BY SignInAssumption DEF TypeOK, Secrets, Steps
  <1>2. /\ HasFactor(cred) /\ f.cred \in Credential
        /\ f.cred.secret = cred.secret /\ f.cred.pending = cred.pending
        /\ f.cred.made = cred.made /\ f.cred.set = cred.set
    BY FactorFacts
  <1>3. cred.secret \in Secrets /\ cred.set \in Secrets /\ cred.codes \subseteq Codes
    BY <1>1, CredFacts
  <1>4. \/ \E n \in Steps : /\ n > cred.last /\ f.cred.last = n /\ f.cred.codes = cred.codes
                            /\ f.proof = StepProof(u, cred.secret, n)
        \/ \E c \in cred.codes : /\ f.cred.last = cred.last /\ f.cred.codes = cred.codes \ {c}
                                 /\ f.proof = CodeProof(u, cred.set, c)
    BY FactorFacts DEF StepProof, CodeProof
  <1>. HIDE DEF cred
  <1>5. CASE \E n \in Steps : /\ n > cred.last /\ f.cred.last = n /\ f.cred.codes = cred.codes
                              /\ f.proof = StepProof(u, cred.secret, n)
    <2>1. PICK n \in Steps : /\ n > cred.last /\ f.cred.last = n /\ f.cred.codes = cred.codes
                             /\ f.proof = StepProof(u, cred.secret, n)
      BY <1>5
    <2>2. f.proof \notin once
      BY <1>1, <1>3, <2>1, CredNumbers DEF SpentOf, cred
    <2>3. ASSUME NEW x \in Secrets, NEW m \in Steps, StepProof(u, x, m) \in more
          PROVE  x # 0 /\ x <= cred.made /\ x # cred.pending /\ (x = cred.secret => m <= n)
      <3>1. CASE StepProof(u, x, m) \in once
        BY <1>1, <2>1, <3>1, CredNumbers DEF SpentOf, cred
      <3>2. CASE StepProof(u, x, m) \notin once
        <4>1. x = cred.secret /\ m = n
          BY <2>1, <2>3, <3>2 DEF StepProof
        <4>. QED BY <1>1, <1>2, <4>1, CredNumbers DEF SpentOf, HasFactor, cred
      <3>. QED BY <3>1, <3>2
    <2>4. ASSUME NEW x \in Secrets, NEW c \in Codes, CodeProof(u, x, c) \in more
          PROVE  CodeProof(u, x, c) \in once
      BY <2>1, <2>4 DEF CodeProof, StepProof
    <2>. QED BY <1>2, <2>1, <2>2, <2>3, <2>4 DEF SpentOf, cred
  <1>6. CASE \E c \in cred.codes : /\ f.cred.last = cred.last /\ f.cred.codes = cred.codes \ {c}
                                   /\ f.proof = CodeProof(u, cred.set, c)
    <2>1. PICK c \in cred.codes : /\ f.cred.last = cred.last /\ f.cred.codes = cred.codes \ {c}
                                  /\ f.proof = CodeProof(u, cred.set, c)
      BY <1>6
    <2>2. f.proof \notin once
      BY <1>3, <2>1 DEF SpentOf, cred
    <2>3. ASSUME NEW x \in Secrets, NEW m \in Steps, StepProof(u, x, m) \in more
          PROVE  StepProof(u, x, m) \in once
      BY <2>1, <2>3 DEF CodeProof, StepProof
    <2>4. ASSUME NEW x \in Secrets, NEW d \in Codes, CodeProof(u, x, d) \in more
          PROVE  /\ x <= cred.made /\ (cred.pending # 0 => x # cred.pending)
                 /\ x = cred.set => d \notin cred.codes \ {c}
      <3>1. CASE CodeProof(u, x, d) \in once
        BY <3>1 DEF SpentOf, cred
      <3>2. CASE CodeProof(u, x, d) \notin once
        <4>1. x = cred.set /\ d = c
          BY <2>1, <2>4, <3>2 DEF CodeProof
        <4>. QED BY <4>1 DEF SpentOf, cred
      <3>. QED BY <3>1, <3>2
    <2>. QED BY <1>2, <2>1, <2>2, <2>3, <2>4 DEF SpentOf, cred
  <1>. QED BY <1>4, <1>5, <1>6

(* Proofs of nobody's factor spend none.                                   *)
LEMMA SpentElsewhere ==
  ASSUME NEW u, NEW cred, NEW once, NEW more, SpentOf(u, cred, once),
         \A p \in more \ once : p.kind \in {"challenge", "ticket"} \/ p.user # u
  PROVE  SpentOf(u, cred, more)
  <1>1. \A x, n : StepProof(u, x, n) \in more => StepProof(u, x, n) \in once
    BY DEF StepProof
  <1>2. \A x, c : CodeProof(u, x, c) \in more => CodeProof(u, x, c) \in once
    BY DEF CodeProof
  <1>. QED BY <1>1, <1>2 DEF SpentOf

(* It is enough to look at the account that changes.                       *)
LEMMA CredsOfOne ==
  ASSUME CredsSpent, NEW u \in Users, \A v \in Users : v # u => creds'[v] = creds[v],
         \A p \in accepted'.once \ accepted.once : p.kind \in {"challenge", "ticket"} \/ p.user = u,
         SpentOf(u, creds'[u], accepted'.once)
  PROVE  CredsSpent'
  <1>1. ASSUME NEW v \in Users, v # u PROVE SpentOf(v, creds'[v], accepted'.once)
    BY <1>1, SpentElsewhere DEF CredsSpent
  <1>. QED BY <1>1 DEF CredsSpent

LEMMA SingleStarts == Init => SingleInv
  <1>. SUFFICES ASSUME Init PROVE SingleInv
    OBVIOUS
  <1>1. TypeOK
    BY TypeStarts
  <1>2. \A r \in Requests : reqs[r].pc = "idle"
    BY IdleIsThread DEF Init
  <1>3. accepted.once = {} /\ accepted.again = {}
    BY DEF Init
  <1>4. \A u \in Users : creds[u].pending = 0 /\ creds[u].secret = creds[u].made /\ creds[u].set = creds[u].made
    BY DEF Init
  <1>5. \A u \in Users : creds[u].made \in Nat
    BY <1>1, CredNumbers DEF TypeOK
  <1>6. CredsSpent
    BY <1>3, <1>4, <1>5 DEF CredsSpent, SpentOf
  <1>. QED
    BY <1>1, <1>2, <1>3, <1>6
    DEF SingleInv, GoneSpent, ChallengesHeld, HeldByOne, ProofsAreSingleUse

(* What a step must leave: the challenges others have locked, and what has *)
(* ended.                                                                  *)
LEMMA SingleStep ==
  ASSUME SingleInv, TypeOK', CredsSpent', accepted'.again = {},
         \A r \in Requests :
           reqs'[r].pc = "presented" =>
             /\ reqs'[r] = reqs[r]
             /\ challenges'[reqs[r].challenge].status = challenges[reqs[r].challenge].status
             /\ challenges'[reqs[r].challenge].user = challenges[reqs[r].challenge].user,
         \A c \in Challenges :
           /\ challenges[c].status = "ended" => challenges'[c].status = "ended"
           /\ ChallengeProof(c) \in accepted'.once =>
                ChallengeProof(c) \in accepted.once \/ challenges'[c].status = "ended",
         \A t \in Tickets :
           /\ tickets[t].status = "ended" => tickets'[t].status = "ended"
           /\ TicketProof(t) \in accepted'.once =>
                TicketProof(t) \in accepted.once \/ tickets'[t].status = "ended"
  PROVE  SingleInv'
  <1>1. GoneSpent'
    BY DEF SingleInv, GoneSpent
  <1>2. ChallengesHeld'
    BY DEF SingleInv, ChallengesHeld
  <1>3. HeldByOne'
    BY DEF SingleInv, HeldByOne
  <1>. QED BY <1>1, <1>2, <1>3 DEF SingleInv, ProofsAreSingleUse

(* Accepting what was not accepted before accepts nothing twice.           *)
LEMMA FreshAccepted ==
  ASSUME TypeOK, ProofsAreSingleUse, NEW S \in SUBSET Proofs, Accepts(S), S \cap accepted.once = {}
  PROVE  accepted'.again = {} /\ accepted'.once = accepted.once \cup S
  BY AcceptsFacts DEF ProofsAreSingleUse

LEMMA SingleKeeps == SingleInv /\ TypeOK' /\ [Next]_vars => SingleInv'
  <1>. SUFFICES ASSUME SingleInv, TypeOK', [Next]_vars PROVE SingleInv'
    OBVIOUS
  <1>. TypeOK /\ CredsSpent /\ GoneSpent /\ ChallengesHeld /\ HeldByOne /\ ProofsAreSingleUse
    BY DEF SingleInv
  <1>. /\ creds \in [Users -> Credential] /\ challenges \in [Challenges -> Challenge]
       /\ tickets \in [Tickets -> Ticket] /\ reqs \in [Requests -> Thread]
       /\ clock \in 1..MaxStep /\ accepted.again = {}
    BY DEF TypeOK, ProofsAreSingleUse
  <1>. Idle \in Thread /\ Idle.pc # "presented"
    BY IdleIsThread
  <1>1. ASSUME accepted' = accepted,
               \A u \in Users : creds'[u] = creds[u]
        PROVE  CredsSpent'
    BY <1>1 DEF CredsSpent
  <1>2. ASSUME NEW r \in Requests, Becomes(r, Idle)
        PROVE  \A o \in Requests : reqs'[o].pc = "presented" => o # r /\ reqs'[o] = reqs[o]
    BY <1>2, BecomesFacts
  (* A request that touches no proof and no challenge. *)
  <1>3. ASSUME UNCHANGED <<creds, challenges, tickets, accepted>>,
               \A o \in Requests : reqs'[o].pc = "presented" => reqs'[o] = reqs[o]
        PROVE  SingleInv'
    BY <1>1, <1>3, SingleStep
  <1>4. ASSUME NEW r \in Requests, NEW q \in Thread, q.pc # "presented", Becomes(r, q),
               UNCHANGED <<creds, challenges, tickets, accepted>>
        PROVE  SingleInv'
    BY <1>3, <1>4, BecomesFacts
  <1>5. ASSUME NEW r \in Requests,
               Login(r) \/ Decide(r) \/ Callback(r) \/ Exchange(r)
               \/ (\E op \in SessionOps : Act(r, op))
        PROVE  SingleInv'
    <2>1. UNCHANGED <<creds, challenges, tickets, accepted>>
      BY <1>5 DEF Login, Decide, Callback, Exchange, Act, tables
    <2>2. \E q : q.pc # "presented" /\ Becomes(r, q)
      <3>1. CASE Login(r)
        <4>1. PICK u \in Users :
                \/ Becomes(r, [pc |-> "checked", user |-> u, saw |-> users[u], pol |-> policy])
                \/ Becomes(r, [pc |-> "denied", user |-> u, saw |-> users[u]])
          BY <3>1 DEF Login
        <4>. QED BY <4>1
      <3>2. CASE Decide(r)
        <4>1. PICK u, saw, what :
                Becomes(r, [pc |-> "opening", user |-> u, saw |-> saw, what |-> what])
          BY <3>2 DEF Decide
        <4>. QED BY <4>1
      <3>3. CASE Callback(r)
        <4>1. PICK u, sub :
                Becomes(r, [pc |-> "linking", user |-> u, sub |-> sub, linked |-> links[u] # None])
          BY <3>3 DEF Callback
        <4>. QED BY <4>1
      <3>4. CASE Exchange(r)
        <4>1. PICK t : Becomes(r, [pc |-> "claiming", ticket |-> t])
          BY <3>4 DEF Exchange
        <4>. QED BY <4>1
      <3>5. CASE \E op \in SessionOps : Act(r, op)
        <4>1. PICK op, s, u, saw, pol :
                Becomes(r, [pc |-> "acting", op |-> op, session |-> s, user |-> u, saw |-> saw, pol |-> pol])
          BY <3>5 DEF Act
        <4>. QED BY <4>1
      <3>. QED BY <1>5, <3>1, <3>2, <3>3, <3>4, <3>5
    <2>3. \A o \in Requests : reqs'[o].pc = "presented" => reqs'[o] = reqs[o]
      BY <2>2 DEF Becomes
    <2>. QED BY <1>3, <2>1, <2>3
  <1>6. ASSUME NEW r \in Requests,
               CountFailure(r) \/ OpenSession(r) \/ EditSettings(r) \/ Logout(r) \/ RevokeMySession(r)
               \/ RevokeOtherSessions(r) \/ ChangePassword(r) \/ UpdateAdmin(r)
               \/ RevokeAdminSessions(r) \/ CreateAdmin(r) \/ Abort(r)
        PROVE  SingleInv'
    <2>1. Becomes(r, Idle) /\ UNCHANGED <<creds, challenges, tickets, accepted>>
      BY <1>6
      DEF CountFailure, OpenSession, EditSettings, Logout, RevokeMySession, RevokeOtherSessions,
          ChangePassword, EndsOwn, UpdateAdmin, RevokeAdminSessions, CreateAdmin, Abort, tables
    <2>. QED BY <1>4, <2>1
  <1>7. ASSUME NEW r \in Requests, OpenChallenge(r) PROVE SingleInv'
    <2>1. PICK c \in Challenges :
            /\ challenges[c].status = "none"
            /\ \E row : challenges' = [challenges EXCEPT ![c] = row]
      <3>1. PICK c \in Unused(challenges) :
              challenges' = [challenges EXCEPT ![c] = [status |-> "open", user |-> reqs[r].user,
                               enroll |-> reqs[r].what = "enroll", tries |-> 0]]
        BY <1>7 DEF OpenChallenge
      <3>2. c \in Challenges /\ challenges[c].status = "none"
        BY <3>1 DEF Unused
      <3>. QED BY <3>1, <3>2
    <2>2. Becomes(r, Idle) /\ UNCHANGED <<creds, tickets, accepted>>
      BY <1>7 DEF OpenChallenge
    <2>3. \A d \in Challenges : d # c => challenges'[d] = challenges[d]
      BY <2>1
    <2>4. \A o \in Requests : reqs[o].pc = "presented" => reqs[o].challenge \in Challenges \ {c}
      BY <2>1, ThreadFields DEF ChallengesHeld
    <2>5. CredsSpent' /\ accepted'.again = {}
      BY <1>1, <2>2
    <2>6. ASSUME NEW o \in Requests, reqs'[o].pc = "presented"
          PROVE  /\ reqs'[o] = reqs[o]
                 /\ challenges'[reqs[o].challenge].status = challenges[reqs[o].challenge].status
                 /\ challenges'[reqs[o].challenge].user = challenges[reqs[o].challenge].user
      <3>1. reqs'[o] = reqs[o]
        BY <1>2, <2>2, <2>6
      <3>2. challenges'[reqs[o].challenge] = challenges[reqs[o].challenge]
        BY <2>3, <2>4, <2>6, <3>1
      <3>. QED BY <3>1, <3>2
    <2>7. ASSUME NEW d \in Challenges
          PROVE  /\ challenges[d].status = "ended" => challenges'[d].status = "ended"
                 /\ ChallengeProof(d) \in accepted'.once =>
                      ChallengeProof(d) \in accepted.once \/ challenges'[d].status = "ended"
      BY <2>1, <2>2, <2>3
    <2>8. ASSUME NEW t \in Tickets
          PROVE  /\ tickets[t].status = "ended" => tickets'[t].status = "ended"
                 /\ TicketProof(t) \in accepted'.once =>
                      TicketProof(t) \in accepted.once \/ tickets'[t].status = "ended"
      BY <2>2
    <2>. QED BY <2>5, <2>6, <2>7, <2>8, SingleStep
  <1>8. ASSUME NEW r \in Requests, Link(r) PROVE SingleInv'
    <2>1. PICK t \in Tickets :
            /\ tickets[t].status = "none"
            /\ \E row : tickets' = [tickets EXCEPT ![t] = row]
      BY <1>8 DEF Link, Unused
    <2>2. Becomes(r, Idle) /\ UNCHANGED <<creds, challenges, accepted>>
      BY <1>8 DEF Link
    <2>3. \A d \in Tickets : d # t => tickets'[d] = tickets[d]
      BY <2>1
    <2>. QED BY <1>1, <1>2, <2>1, <2>2, <2>3, SingleStep
  <1>9. ASSUME NEW r \in Requests, Claim(r) PROVE SingleInv'
    <2>. DEFINE t == reqs[r].ticket
    <2>1. t \in Tickets /\ tickets[t].status = "open" /\ UNCHANGED <<creds, challenges>>
      BY <1>9, ThreadFields DEF Claim, StillUnused
    <2>2. /\ tickets'[t].status = "ended"
          /\ \A d \in Tickets : d # t => tickets'[d] = tickets[d]
      BY <1>9, <2>1 DEF Claim
    <2>3. /\ Accepts({TicketProof(t)}) /\ {TicketProof(t)} \in SUBSET Proofs
          /\ {TicketProof(t)} \cap accepted.once = {}
      BY <1>9, <2>1 DEF Claim, TicketProof, Proofs, GoneSpent
    <2>4. accepted'.again = {} /\ accepted'.once = accepted.once \cup {TicketProof(t)}
      BY <2>3, FreshAccepted
    <2>5. \A o \in Requests : reqs'[o].pc = "presented" => reqs'[o] = reqs[o]
      <3>1. PICK q \in {Idle, [pc |-> "checked", user |-> tickets[t].user, saw |-> None, pol |-> None]} :
              Becomes(r, q)
        BY <1>9 DEF Claim
      <3>2. q.pc # "presented"
        BY <3>1
      <3>. QED BY <3>1, <3>2 DEF Becomes
    <2>6. CredsSpent'
      <3>1. \A p \in accepted'.once \ accepted.once : p.kind \in {"challenge", "ticket"}
        BY <2>4 DEF TicketProof
      <3>. QED BY <2>1, <3>1, SpentElsewhere DEF CredsSpent
    <2>7. \A c \in Challenges : ChallengeProof(c) \in accepted'.once => ChallengeProof(c) \in accepted.once
      BY <2>4 DEF ChallengeProof, TicketProof
    <2>8. \A d \in Tickets : TicketProof(d) \in accepted'.once => TicketProof(d) \in accepted.once \/ d = t
      BY <2>4 DEF TicketProof
    <2>. HIDE DEF t
    <2>. QED BY <2>1, <2>2, <2>4, <2>5, <2>6, <2>7, <2>8, SingleStep
  <1>10. ASSUME NEW r \in Requests, NEW op \in ChallengeOps, Present(r, op) PROVE SingleInv'
    <2>1. PICK c \in Challenges :
            /\ Unlocked(c) /\ Presentable(c)
            /\ Becomes(r, [pc |-> "presented", op |-> op, challenge |-> c, user |-> challenges[c].user,
                           saw |-> users[challenges[c].user]])
      BY <1>10 DEF Present
    <2>2. UNCHANGED <<creds, challenges, tickets, accepted>>
      BY <1>10 DEF Present, tables
    <2>3. /\ reqs'[r].pc = "presented" /\ reqs'[r].challenge = c /\ reqs'[r].user = challenges[c].user
          /\ \A o \in Requests : o # r => reqs'[o] = reqs[o]
      BY <2>1 DEF Becomes
    <2>4. \A o \in Requests : o # r /\ reqs[o].pc = "presented" => reqs[o].challenge # c
      BY <2>1 DEF Unlocked
    <2>5. ChallengesHeld'
      BY <2>1, <2>2, <2>3 DEF ChallengesHeld, Presentable
    <2>6. HeldByOne'
      BY <2>3, <2>4 DEF HeldByOne
    <2>7. CredsSpent' /\ GoneSpent' /\ ProofsAreSingleUse'
      BY <1>1, <2>2 DEF GoneSpent, ProofsAreSingleUse
    <2>. QED BY <2>5, <2>6, <2>7 DEF SingleInv
  <1>11. ASSUME NEW r \in Requests, reqs[r].pc = "presented"
         PROVE  /\ reqs[r].user \in Users /\ reqs[r].challenge \in Challenges
                /\ ChallengeProof(reqs[r].challenge) \in Proofs
                /\ ChallengeProof(reqs[r].challenge) \notin accepted.once
                /\ \A o \in Requests : reqs[o].pc = "presented" /\ o # r =>
                     reqs[o].challenge \in Challenges /\ reqs[o].challenge # reqs[r].challenge
    <2>1. reqs[r].user \in Users /\ reqs[r].challenge \in Challenges
      BY <1>11, ThreadFields
    <2>2. challenges[reqs[r].challenge].status = "open"
      BY <1>11 DEF ChallengesHeld
    <2>3. ChallengeProof(reqs[r].challenge) \in Proofs
      BY <2>1 DEF ChallengeProof, Proofs
    <2>4. ChallengeProof(reqs[r].challenge) \notin accepted.once
      BY <2>1, <2>2 DEF GoneSpent
    <2>5. \A o \in Requests : reqs[o].pc = "presented" => reqs[o].challenge \in Challenges
      BY ThreadFields
    <2>6. \A o \in Requests : reqs[o].pc = "presented" /\ o # r => reqs[o].challenge # reqs[r].challenge
      BY <1>11 DEF HeldByOne
    <2>. QED BY <2>1, <2>3, <2>4, <2>5, <2>6
  (* A right answer: the challenge is spent together with a proof of u. *)
  <1>12. ASSUME NEW r \in Requests, reqs[r].pc = "presented", NEW p \in Proofs, p \notin accepted.once,
                p.kind \in {"step", "code"}, p.user = reqs[r].user,
                Accepts({p, ChallengeProof(reqs[r].challenge)}),
                challenges' = Spent(reqs[r].challenge), tickets' = tickets, Becomes(r, Idle),
                \A v \in Users : v # reqs[r].user => creds'[v] = creds[v],
                SpentOf(reqs[r].user, creds'[reqs[r].user],
                        accepted.once \cup {p, ChallengeProof(reqs[r].challenge)})
         PROVE  SingleInv'
    <2>. DEFINE c == reqs[r].challenge
    <2>1. /\ c \in Challenges /\ reqs[r].user \in Users
          /\ {p, ChallengeProof(c)} \in SUBSET Proofs /\ {p, ChallengeProof(c)} \cap accepted.once = {}
      BY <1>11, <1>12
    <2>2. accepted'.again = {} /\ accepted'.once = accepted.once \cup {p, ChallengeProof(c)}
      BY <1>12, <2>1, FreshAccepted
    <2>3. ChallengeProof(c).kind = "challenge"
      BY DEF ChallengeProof
    <2>4. CredsSpent'
      BY <1>12, <2>1, <2>2, <2>3, CredsOfOne
    <2>5. /\ challenges'[c].status = "ended"
          /\ \A d \in Challenges : d # c => challenges'[d] = challenges[d]
      BY <1>12, <2>1, ChallengeFacts
    <2>6. \A o \in Requests : reqs'[o].pc = "presented" =>
            reqs'[o] = reqs[o] /\ challenges'[reqs[o].challenge] = challenges[reqs[o].challenge]
      BY <1>2, <1>11, <1>12, <2>5
    <2>7. \A d \in Challenges : ChallengeProof(d) \in accepted'.once => ChallengeProof(d) \in accepted.once \/ d = c
      BY <1>12, <2>2 DEF ChallengeProof
    <2>8. \A t \in Tickets : TicketProof(t) \in accepted'.once => TicketProof(t) \in accepted.once
      BY <1>12, <2>2 DEF ChallengeProof, TicketProof
    <2>. HIDE DEF c
    <2>. QED BY <1>12, <2>2, <2>4, <2>5, <2>6, <2>7, <2>8, SingleStep
  <1>13. ASSUME NEW u \in Users, NEW f \in Factors(u)
         PROVE  /\ f.proof \in Proofs /\ f.proof.kind \in {"step", "code"} /\ f.proof.user = u
                /\ f.proof \notin accepted.once /\ f.cred \in Credential
                /\ \A more : (\A p \in more \ accepted.once : p.kind \in {"challenge", "ticket"} \/ p = f.proof)
                     => SpentOf(u, f.cred, more)
    <2>1. f.proof \in Proofs /\ f.proof.kind \in {"step", "code"} /\ f.proof.user = u /\ f.cred \in Credential
      BY FactorFacts, FactorProof
    <2>2. SpentOf(u, creds[u], accepted.once)
      BY DEF CredsSpent
    <2>3. f.proof \notin accepted.once
      BY <2>2, SpentUse
    <2>. QED BY <2>1, <2>2, <2>3, SpentUse
  <1>14. ASSUME NEW r \in Requests, VerifyRight(r) PROVE SingleInv'
    <2>. DEFINE u == reqs[r].user
                cp == ChallengeProof(reqs[r].challenge)
    <2>1. reqs[r].pc = "presented" /\ u \in Users
      BY <1>11, <1>14 DEF VerifyRight, Presented
    <2>2. PICK f \in Factors(u) : creds' = [creds EXCEPT ![u] = f.cred] /\ Accepts({f.proof, cp})
      BY <1>14 DEF VerifyRight, ChallengeProof
    <2>3. challenges' = Spent(reqs[r].challenge) /\ tickets' = tickets /\ Becomes(r, Idle)
      BY <1>14 DEF VerifyRight
    <2>4. SpentOf(u, f.cred, accepted.once \cup {f.proof, cp})
      <3>1. cp.kind = "challenge"
        BY DEF ChallengeProof
      <3>. QED BY <1>13, <2>1, <3>1
    <2>5. creds'[u] = f.cred /\ \A v \in Users : v # u => creds'[v] = creds[v]
      BY <2>1, <2>2
    <2>. QED BY <1>12, <1>13, <2>1, <2>2, <2>3, <2>4, <2>5
  <1>15. ASSUME NEW u \in Users, CanConfirm(u), NEW n \in clock - 1..clock + 1
         PROVE  /\ StepProof(u, creds[u].pending, n) \in Proofs
                /\ StepProof(u, creds[u].pending, n) \notin accepted.once
                /\ \A more : (\A p \in more \ accepted.once :
                                p.kind \in {"challenge", "ticket"} \/ p = StepProof(u, creds[u].pending, n))
                     => SpentOf(u, WithFactor(creds[u], n), more)
    <2>1. n \in Steps /\ creds[u].pending \in Secrets /\ creds[u].pending # 0
      BY <1>15, StepsFit, CredFacts DEF CanConfirm
    <2>2. SpentOf(u, creds[u], accepted.once)
      BY DEF CredsSpent
    <2>3. StepProof(u, creds[u].pending, n) \in Proofs
      BY <2>1 DEF StepProof, Proofs
    <2>4. StepProof(u, creds[u].pending, n) \notin accepted.once
      BY <2>1, <2>2, SpentFactor
    <2>. QED BY <2>1, <2>2, <2>3, <2>4, SpentFactor
  <1>16. ASSUME NEW r \in Requests, EnrollConfirm(r) PROVE SingleInv'
    <2>. DEFINE u == reqs[r].user
                cp == ChallengeProof(reqs[r].challenge)
    <2>1. reqs[r].pc = "presented" /\ u \in Users /\ CanConfirm(u)
      BY <1>11, <1>16 DEF EnrollConfirm, Presented
    <2>2. PICK n \in clock - 1..clock + 1 :
            /\ creds' = [creds EXCEPT ![u] = WithFactor(creds[u], n)]
            /\ Accepts({cp, StepProof(u, creds[u].pending, n)})
      BY <1>16 DEF EnrollConfirm, ChallengeProof, StepProof
    <2>. DEFINE p == StepProof(u, creds[u].pending, n)
    <2>3. challenges' = Spent(reqs[r].challenge) /\ tickets' = tickets /\ Becomes(r, Idle)
      BY <1>16 DEF EnrollConfirm
    <2>4. SpentOf(u, WithFactor(creds[u], n), accepted.once \cup {p, cp})
      <3>1. cp.kind = "challenge"
        BY DEF ChallengeProof
      <3>. QED BY <1>15, <2>1, <3>1
    <2>5. creds'[u] = WithFactor(creds[u], n) /\ \A v \in Users : v # u => creds'[v] = creds[v]
      BY <2>1, <2>2
    <2>6. p.kind = "step" /\ p.user = u
      BY DEF StepProof
    <2>7. p \in Proofs /\ p \notin accepted.once
      BY <1>15, <2>1
    <2>8. {cp, p} = {p, cp}
      OBVIOUS
    <2>. HIDE DEF p
    <2>. QED BY <1>12, <2>1, <2>2, <2>3, <2>4, <2>5, <2>6, <2>7, <2>8 DEF p
  (* A proof of u, with no challenge. *)
  <1>17. ASSUME NEW r \in Requests, Becomes(r, Idle), UNCHANGED <<challenges, tickets>>,
                NEW u \in Users, NEW p \in Proofs, p \notin accepted.once,
                p.kind \in {"step", "code"}, p.user = u, Accepts({p}),
                \A v \in Users : v # u => creds'[v] = creds[v],
                SpentOf(u, creds'[u], accepted.once \cup {p})
         PROVE  SingleInv'
    <2>1. {p} \in SUBSET Proofs /\ {p} \cap accepted.once = {}
      BY <1>17
    <2>2. accepted'.again = {} /\ accepted'.once = accepted.once \cup {p}
      BY <1>17, <2>1, FreshAccepted
    <2>3. CredsSpent'
      BY <1>17, <2>2, CredsOfOne
    <2>4. /\ \A d \in Challenges : ChallengeProof(d) \in accepted'.once => ChallengeProof(d) \in accepted.once
          /\ \A t \in Tickets : TicketProof(t) \in accepted'.once => TicketProof(t) \in accepted.once
      BY <1>17, <2>2 DEF ChallengeProof, TicketProof
    <2>. QED BY <1>2, <1>17, <2>2, <2>3, <2>4, SingleStep
  <1>18. ASSUME NEW r \in Requests, NEW op, Acting(r, op) PROVE reqs[r].user \in Users
    BY <1>18, ThreadFields DEF Acting
  <1>19. ASSUME NEW r \in Requests, SetupConfirm(r) PROVE SingleInv'
    <2>. DEFINE u == reqs[r].user
    <2>1. u \in Users /\ CanConfirm(u) /\ Becomes(r, Idle) /\ UNCHANGED <<challenges, tickets>>
      BY <1>18, <1>19 DEF SetupConfirm
    <2>2. PICK n \in clock - 1..clock + 1 :
            /\ creds' = [creds EXCEPT ![u] = WithFactor(creds[u], n)]
            /\ Accepts({StepProof(u, creds[u].pending, n)})
      BY <1>19 DEF SetupConfirm, StepProof
    <2>. DEFINE p == StepProof(u, creds[u].pending, n)
    <2>3. SpentOf(u, WithFactor(creds[u], n), accepted.once \cup {p})
      BY <1>15, <2>1
    <2>4. creds'[u] = WithFactor(creds[u], n) /\ \A v \in Users : v # u => creds'[v] = creds[v]
      BY <2>1, <2>2
    <2>5. p.kind = "step" /\ p.user = u
      BY DEF StepProof
    <2>6. p \in Proofs /\ p \notin accepted.once
      BY <1>15, <2>1
    <2>. HIDE DEF p, u
    <2>. QED BY <1>17, <2>1, <2>2, <2>3, <2>4, <2>5, <2>6 DEF p
  <1>20. ASSUME NEW r \in Requests, UpdatePolicy(r) PROVE SingleInv'
    <2>. DEFINE u == reqs[r].user
    <2>1. u \in Users /\ Becomes(r, Idle) /\ UNCHANGED <<challenges, tickets>>
      BY <1>18, <1>20 DEF UpdatePolicy
    <2>2. PICK f \in Factors(u) : creds' = [creds EXCEPT ![u] = f.cred] /\ Accepts({f.proof})
      BY <1>20 DEF UpdatePolicy
    <2>3. creds'[u] = f.cred /\ \A v \in Users : v # u => creds'[v] = creds[v]
      BY <2>1, <2>2
    <2>4. SpentOf(u, f.cred, accepted.once \cup {f.proof})
      BY <1>13, <2>1
    <2>. HIDE DEF u
    <2>. QED BY <1>13, <1>17, <2>1, <2>2, <2>3, <2>4
  <1>21. ASSUME NEW r \in Requests, Regenerate(r) PROVE SingleInv'
    <2>. DEFINE u == reqs[r].user
    <2>1. u \in Users /\ Becomes(r, Idle) /\ UNCHANGED <<challenges, tickets>>
      BY <1>18, <1>21 DEF Regenerate
    <2>2. PICK f \in Factors(u) : creds' = [creds EXCEPT ![u] = WithNewCodes(f.cred)] /\ Accepts({f.proof})
      BY <1>21 DEF Regenerate
    <2>3. creds'[u] = WithNewCodes(f.cred) /\ \A v \in Users : v # u => creds'[v] = creds[v]
      BY <2>1, <2>2
    <2>4. SpentOf(u, f.cred, accepted.once \cup {f.proof}) /\ f.cred \in Credential
      BY <1>13, <2>1
    <2>5. SpentOf(u, WithNewCodes(f.cred), accepted.once \cup {f.proof})
      BY <2>4, SpentCodes
    <2>. HIDE DEF u
    <2>. QED BY <1>13, <1>17, <2>1, <2>2, <2>3, <2>5
  <1>22. ASSUME NEW r \in Requests, Disable(r) PROVE SingleInv'
    <2>. DEFINE u == reqs[r].user
    <2>1. u \in Users /\ Becomes(r, Idle) /\ UNCHANGED <<challenges, tickets>>
      BY <1>18, <1>22 DEF Disable
    <2>2. creds' = [creds EXCEPT ![u] = WithoutFactor(creds[u])]
      BY <1>22 DEF Disable
    <2>3. PICK f \in Factors(u) : Accepts({f.proof})
      BY <1>22 DEF Disable
    <2>4. creds'[u] = WithoutFactor(creds[u]) /\ \A v \in Users : v # u => creds'[v] = creds[v]
      BY <2>1, <2>2
    <2>5. SpentOf(u, f.cred, accepted.once \cup {f.proof}) /\ f.cred \in Credential
      BY <1>13, <2>1
    <2>6. /\ WithoutFactor(creds[u]) \in Credential /\ WithoutFactor(creds[u]).made = f.cred.made
          /\ WithoutFactor(creds[u]).set = f.cred.set /\ WithoutFactor(creds[u]).secret = 0
          /\ WithoutFactor(creds[u]).pending = 0 /\ WithoutFactor(creds[u]).codes = {}
      BY <2>1, CredFacts, FactorFacts DEF WithoutFactor
    <2>7. SpentOf(u, WithoutFactor(creds[u]), accepted.once \cup {f.proof})
      BY <2>5, <2>6, SpentOff
    <2>8. /\ f.proof \in Proofs /\ f.proof.kind \in {"step", "code"} /\ f.proof.user = u
          /\ f.proof \notin accepted.once
      BY <1>13, <2>1
    <2>. DEFINE p == f.proof
    <2>. HIDE DEF u, p
    <2>9. SpentOf(u, creds'[u], accepted.once \cup {p})
      BY <2>4, <2>7 DEF p
    <2>. QED BY <1>17, <2>1, <2>3, <2>4, <2>8, <2>9 DEF p
  (* Nothing is accepted, and one credential changes. *)
  <1>23. ASSUME accepted' = accepted, NEW u \in Users, NEW cred,
                creds' = [creds EXCEPT ![u] = cred], SpentOf(u, cred, accepted.once)
         PROVE  CredsSpent'
    BY <1>23, CredsOfOne
  <1>24. ASSUME NEW r \in Requests, NEW u \in Users, CanSetUp(u), Becomes(r, Idle),
                creds' = [creds EXCEPT ![u] = WithPending(creds[u])],
                UNCHANGED <<challenges, tickets, accepted>>
         PROVE  SingleInv'
    <2>1. SpentOf(u, WithPending(creds[u]), accepted.once)
      BY <1>24, SpentPending DEF CanSetUp, CredsSpent
    <2>2. CredsSpent'
      BY <1>23, <1>24, <2>1
    <2>. QED BY <1>2, <1>24, <2>2, SingleStep
  <1>25. ASSUME NEW r \in Requests, EnrollStart(r) PROVE SingleInv'
    <2>1. reqs[r].user \in Users
      BY <1>11, <1>25 DEF EnrollStart, Presented
    <2>. QED BY <1>24, <1>25, <2>1 DEF EnrollStart
  <1>26. ASSUME NEW r \in Requests, SetupStart(r) PROVE SingleInv'
    <2>1. reqs[r].user \in Users
      BY <1>18, <1>26 DEF SetupStart
    <2>. QED BY <1>24, <1>26, <2>1 DEF SetupStart
  <1>27. ASSUME NEW r \in Requests, NEW u \in Users, CanConfirm(u), NEW q, q.pc # "presented",
                Becomes(r, q), creds' = [creds EXCEPT ![u] = WithTry(creds[u])],
                UNCHANGED <<challenges, tickets, accepted>>
         PROVE  SingleInv'
    <2>1. WithTry(creds[u]) \in Credential
      BY <1>27, CredFacts DEF CanConfirm
    <2>2. SpentOf(u, WithTry(creds[u]), accepted.once)
      BY <2>1, SpentOff, CredFacts DEF CredsSpent
    <2>3. CredsSpent'
      BY <1>23, <1>27, <2>2
    <2>4. \A o \in Requests : reqs'[o].pc = "presented" => reqs'[o] = reqs[o]
      BY <1>27 DEF Becomes
    <2>. QED BY <1>27, <2>3, <2>4, SingleStep
  <1>28. ASSUME NEW r \in Requests, SetupWrong(r) PROVE SingleInv'
    <2>1. reqs[r].user \in Users
      BY <1>18, <1>28 DEF SetupWrong
    <2>. QED BY <1>27, <1>28, <2>1 DEF SetupWrong
  <1>29. ASSUME NEW r \in Requests, NEW c \in Challenges, challenges' = OneMoreTry(c), Becomes(r, Idle),
                UNCHANGED <<creds, tickets, accepted>>
         PROVE  SingleInv'
    <2>1. \A d \in Challenges : /\ challenges'[d].user = challenges[d].user
                                /\ challenges'[d].status = challenges[d].status
      BY <1>29, ChallengeFacts
    <2>2. \A o \in Requests : reqs[o].pc = "presented" => reqs[o].challenge \in Challenges
      BY ThreadFields
    <2>. QED BY <1>1, <1>2, <1>29, <2>1, <2>2, SingleStep
  <1>30. ASSUME NEW r \in Requests, VerifyWrong(r) PROVE SingleInv'
    <2>1. reqs[r].challenge \in Challenges
      BY <1>11, <1>30 DEF VerifyWrong, Presented
    <2>. QED BY <1>29, <1>30, <2>1 DEF VerifyWrong
  <1>31. ASSUME NEW r \in Requests, CountRefusal(r) PROVE SingleInv'
    <2>1. reqs[r].challenge \in Challenges
      BY <1>31, ThreadFields DEF CountRefusal
    <2>. QED BY <1>29, <1>31, <2>1 DEF CountRefusal
  <1>32. ASSUME NEW r \in Requests, EnrollRefused(r) PROVE SingleInv'
    <2>. DEFINE q == [pc |-> "refused", challenge |-> reqs[r].challenge]
    <2>1. /\ reqs[r].user \in Users /\ reqs[r].challenge \in Challenges
          /\ UNCHANGED <<tickets, accepted>>
      BY <1>11, <1>32 DEF EnrollRefused, Presented
    <2>2. CASE CanConfirm(reqs[r].user)
      <3>1. /\ creds' = [creds EXCEPT ![reqs[r].user] = WithTry(creds[reqs[r].user])]
            /\ Becomes(r, q) /\ challenges' = challenges
        BY <1>32, <2>2 DEF EnrollRefused
      <3>2. q.pc # "presented"
        OBVIOUS
      <3>. HIDE DEF q
      <3>. QED BY <1>27, <2>1, <2>2, <3>1, <3>2
    <2>3. CASE ~CanConfirm(reqs[r].user)
      <3>1. challenges' = OneMoreTry(reqs[r].challenge) /\ Becomes(r, Idle) /\ creds' = creds
        BY <1>32, <2>3 DEF EnrollRefused
      <3>. QED BY <1>29, <2>1, <3>1
    <2>. QED BY <2>2, <2>3
  <1>33. ASSUME NEW r \in Requests, DeleteAdmin(r) PROVE SingleInv'
    <2>1. PICK t \in Users :
            /\ \A c \in Challenges : challenges[c].user = t => Unlocked(c)
            /\ creds' = [creds EXCEPT ![t] = WithoutFactor(creds[t])]
            /\ challenges' = [i \in DOMAIN challenges |->
                 IF challenges[i].user = t /\ challenges[i].status = "open"
                 THEN [challenges[i] EXCEPT !.status = "ended"] ELSE challenges[i]]
            /\ tickets' = [i \in DOMAIN tickets |->
                 IF tickets[i].user = t /\ tickets[i].status = "open"
                 THEN [tickets[i] EXCEPT !.status = "ended"] ELSE tickets[i]]
      BY <1>33 DEF DeleteAdmin
    <2>2. Becomes(r, Idle) /\ accepted' = accepted
      BY <1>33 DEF DeleteAdmin
    <2>3. /\ \A c \in Challenges : challenges[c].user # t => challenges'[c] = challenges[c]
          /\ \A c \in Challenges : challenges[c].status # "open" => challenges'[c] = challenges[c]
          /\ \A d \in Tickets : tickets[d].status # "open" => tickets'[d] = tickets[d]
      BY <2>1
    <2>4. \A o \in Requests : reqs[o].pc = "presented" =>
            reqs[o].challenge \in Challenges /\ challenges'[reqs[o].challenge] = challenges[reqs[o].challenge]
      BY <2>1, <2>3, ThreadFields DEF Unlocked
    <2>5. SpentOf(t, WithoutFactor(creds[t]), accepted.once)
      <3>1. /\ WithoutFactor(creds[t]) \in Credential /\ WithoutFactor(creds[t]).made = creds[t].made
            /\ WithoutFactor(creds[t]).set = creds[t].set /\ WithoutFactor(creds[t]).secret = 0
            /\ WithoutFactor(creds[t]).pending = 0 /\ WithoutFactor(creds[t]).codes = {}
        BY CredFacts DEF WithoutFactor
      <3>. QED BY <3>1, SpentOff DEF CredsSpent
    <2>6. CredsSpent'
      BY <1>23, <2>1, <2>2, <2>5
    <2>. QED BY <1>2, <2>2, <2>3, <2>4, <2>6, SingleStep
  <1>34. CASE Expire
    <2>1. reqs' = reqs /\ accepted' = accepted
      BY <1>34 DEF Expire
    <2>2. CASE UNCHANGED <<creds, challenges, tickets>>
      BY <1>3, <2>1, <2>2
    <2>3. CASE UNCHANGED <<challenges, tickets>> /\ \E u \in Users : creds' = [creds EXCEPT ![u].pending = 0]
      <3>1. PICK u \in Users : creds' = [creds EXCEPT ![u] = [creds[u] EXCEPT !.pending = 0]]
        BY <2>3
      <3>. DEFINE to == [creds[u] EXCEPT !.pending = 0]
      <3>2. /\ to.secret = creds[u].secret /\ to.last = creds[u].last /\ to.codes = creds[u].codes
            /\ to.made = creds[u].made /\ to.set = creds[u].set /\ to.pending = 0
        BY DEF Credential
      <3>3. creds' = [creds EXCEPT ![u] = to]
        BY <3>1
      <3>4. to \in Credential
        BY SignInAssumption DEF Credential, Secrets
      <3>. HIDE DEF to
      <3>5. SpentOf(u, to, accepted.once)
        BY <3>2, <3>4, SpentOff DEF CredsSpent
      <3>6. CredsSpent'
        BY <1>23, <2>1, <3>3, <3>5
      <3>. QED BY <2>1, <2>3, <3>6, SingleStep
    <2>4. CASE UNCHANGED <<creds, tickets>> /\ \E c \in Challenges : Unlocked(c) /\ challenges' = Spent(c)
      <3>1. PICK c \in Challenges : Unlocked(c) /\ challenges' = Spent(c)
        BY <2>4
      <3>2. challenges'[c].status = "ended" /\ \A d \in Challenges : d # c => challenges'[d] = challenges[d]
        BY <3>1, ChallengeFacts
      <3>3. \A o \in Requests : reqs[o].pc = "presented" => reqs[o].challenge \in Challenges /\ reqs[o].challenge # c
        BY <3>1, ThreadFields DEF Unlocked
      <3>4. CredsSpent'
        BY <1>1, <2>1, <2>4
      <3>. QED BY <2>1, <2>4, <3>2, <3>3, <3>4, SingleStep
    <2>5. CASE UNCHANGED <<creds, challenges>>
               /\ \E t \in Tickets : tickets' = [tickets EXCEPT ![t].status = "ended"]
      <3>1. PICK t \in Tickets : tickets' = [tickets EXCEPT ![t] = [tickets[t] EXCEPT !.status = "ended"]]
        BY <2>5
      <3>2. \A d \in Tickets : tickets'[d].status = "ended" \/ tickets'[d] = tickets[d]
        BY <3>1 DEF Ticket
      <3>3. CredsSpent'
        BY <1>1, <2>1, <2>5
      <3>. QED BY <2>1, <2>5, <3>2, <3>3, SingleStep
    <2>. QED BY <1>34, <2>2, <2>3, <2>4, <2>5 DEF Expire
  <1>35. CASE Tick \/ UNCHANGED vars
    BY <1>3, <1>35 DEF Tick, vars, tables
  <1>. QED
    BY <1>5, <1>6, <1>7, <1>8, <1>9, <1>10, <1>14, <1>16, <1>19, <1>20, <1>21, <1>22, <1>25, <1>26,
       <1>28, <1>30, <1>31, <1>32, <1>33, <1>34, <1>35 DEF Next

(* Every challenge, ticket, code and recovery code is accepted once.       *)
THEOREM ProofsAcceptedOnce == Spec => []ProofsAreSingleUse
  <1>1. SingleInv => ProofsAreSingleUse
    BY DEF SingleInv
  <1>. QED BY <1>1, SingleStarts, SingleKeeps, SignInTypeCorrect, PTL DEF Spec
=============================================================================
