-------------------------------- MODULE SignIn --------------------------------
(***************************************************************************)
(* Signing in, second factors, sessions and administrator accounts         *)
(* (api/routes_auth.py, routes_mfa.py, routes_google_auth.py,              *)
(* routes_sessions.py, routes_admin_users.py with core/mfa.py,             *)
(* core/google_auth.py, core/rate_limit.py, core/deps.py).                 *)
(*                                                                         *)
(* A request is a thread with a transaction of its own.  What it reads     *)
(* before it waits for a row it keeps as it was; from its last lock to its *)
(* commit it decides on rows nobody else can change, so that is one step.  *)
(* A challenge's lock is held longer, while the account is read.           *)
(*                                                                         *)
(* Passwords and codes are right or wrong; a time step stands for its      *)
(* code, a number for a secret.  A plan says which requests a thread runs. *)
(***************************************************************************)
EXTENDS Naturals, FiniteSets

CONSTANTS
  Users, Sessions, Challenges, Tickets,
  Subs,          \* Google accounts
  Codes,         \* the recovery codes of one set
  Requests,      \* request threads
  Plans,         \* which requests each thread may run, and the first state
  MaxFails,      \* max_login_attempts
  MaxTries,      \* MAX_CHALLENGE_ATTEMPTS, and the limit on a setup's codes
  MaxStep,       \* bound on the time steps
  MaxSecrets,    \* bound on the secrets and code sets ever made for a user
  None

VARIABLES
  users,      \* the users' rows
  creds,      \* their MFA credentials and recovery codes
  links,      \* the Google account linked to each user
  sessions, challenges, tickets,
  policy,     \* the settings row: MFA required, maintenance
  clock,      \* the current time step
  reqs,       \* the request each thread is running
  plan,       \* the plan of this behaviour
  accepted    \* history: the proofs accepted, and those accepted again

tables == <<users, creds, links, sessions, challenges, tickets, policy>>
vars == <<tables, clock, reqs, plan, accepted>>

Administrators == {"super", "admin", "clerk"}
(* A row that has not been created, or is deleted, is no living account.   *)
Living == Administrators \cup {"student"}
Row ==
  [active: BOOLEAN, role: Living \cup {"new", "gone"},
   fails: 0..MaxFails, lock: {"no", "on", "over"}]
Secrets == 0..MaxSecrets
Steps == 0..MaxStep + 1
(* No secret is 0: the factor is off, or nothing is being set up.          *)
Credential ==
  [secret: Secrets, pending: Secrets, tries: 0..MaxTries, last: Steps,
   made: Secrets, set: Secrets, codes: SUBSET Codes]
Session ==
  [status: {"none", "open", "ended"}, user: Users, mfa: BOOLEAN, secret: Secrets]
Challenge ==
  [status: {"none", "open", "ended"}, user: Users, enroll: BOOLEAN, tries: 0..MaxTries]
Ticket == [status: {"none", "open", "ended"}, user: Users]
Policy == [required: BOOLEAN, maintenance: BOOLEAN]
(* What is accepted once: a challenge, a ticket, the code of a time step   *)
(* for a secret, a recovery code of a set.                                 *)
Proofs ==
  [kind: {"challenge"}, id: Challenges] \cup [kind: {"ticket"}, id: Tickets]
  \cup [kind: {"step"}, user: Users, secret: Secrets, step: Steps]
  \cup [kind: {"code"}, user: Users, set: Secrets, code: Codes]

ChallengeOps == {"verify", "enroll", "confirm"}
SessionOps ==
  {"setup", "enable", "disable", "regenerate", "require", "end", "manage", "maintain"}
SuperOps == {"require"}
AdminOps == {"manage", "maintain"}
Thread ==
  [pc: {"idle"}]
  \cup [pc: {"denied"}, user: Users, saw: Row]
  \cup [pc: {"checked"}, user: Users, saw: Row \cup {None}, pol: Policy \cup {None}]
  \cup [pc: {"opening"}, user: Users, saw: Row, what: {"session", "verify", "enroll"}]
  \cup [pc: {"linking"}, user: Users, sub: Subs, linked: BOOLEAN]
  \cup [pc: {"claiming"}, ticket: Tickets]
  \cup [pc: {"presented"}, op: ChallengeOps, challenge: Challenges, user: Users, saw: Row]
  \cup [pc: {"refused"}, challenge: Challenges]
  \cup [pc: {"acting"}, op: SessionOps, session: Sessions, user: Users, saw: Row,
        pol: Policy]

(* The settings leave a sign-in one secret and one later step at least; a  *)
(* plan's users exist or are still to be created.                          *)
ASSUME SignInAssumption ==
  /\ Users # {} /\ MaxFails \in Nat /\ MaxTries \in Nat
  /\ MaxStep \in Nat \ {0, 1} /\ MaxSecrets \in Nat \ {0}
  /\ \A p \in Plans :
       /\ p.roles \in [Users -> Living \cup {"new"}] /\ p.required \in BOOLEAN
       /\ \A s \in DOMAIN p.signed : p.signed[s] \in Users

TypeOK ==
  /\ users \in [Users -> Row]
  /\ creds \in [Users -> Credential]
  /\ links \in [Users -> Subs \cup {None}]
  /\ sessions \in [Sessions -> Session]
  /\ challenges \in [Challenges -> Challenge]
  /\ tickets \in [Tickets -> Ticket]
  /\ policy \in Policy
  /\ clock \in 1..MaxStep
  /\ reqs \in [Requests -> Thread]
  /\ plan \in Plans
  /\ accepted \in [once: SUBSET Proofs, again: SUBSET Proofs]

Idle == [pc |-> "idle"]
AnyUser == CHOOSE u \in Users : TRUE
(* The users of the plan exist, some with a factor and a session; nobody   *)
(* is signing in.                                                          *)
Init ==
  /\ plan \in Plans
  /\ users = [u \in Users |->
       [active |-> TRUE, role |-> plan.roles[u], fails |-> 0, lock |-> "no"]]
  /\ creds = [u \in Users |->
       LET n == IF u \in plan.factor THEN 1 ELSE 0 IN
       [secret |-> n, pending |-> 0, tries |-> 0, last |-> 0, made |-> n, set |-> n,
        codes |-> IF n = 1 THEN Codes ELSE {}]]
  /\ links = [u \in Users |-> None]
  /\ sessions = [s \in Sessions |->
       IF s \in DOMAIN plan.signed
       THEN [status |-> "open", user |-> plan.signed[s],
             mfa |-> plan.signed[s] \in plan.factor,
             secret |-> creds[plan.signed[s]].secret]
       ELSE [status |-> "none", user |-> AnyUser, mfa |-> FALSE, secret |-> 0]]
  /\ challenges = [c \in Challenges |->
       [status |-> "none", user |-> AnyUser, enroll |-> FALSE, tries |-> 0]]
  /\ tickets = [t \in Tickets |-> [status |-> "none", user |-> AnyUser]]
  /\ policy = [required |-> plan.required, maintenance |-> FALSE]
  /\ clock = 2
  /\ reqs = [r \in Requests |-> Idle]
  /\ accepted = [once |-> {}, again |-> {}]

-------------------------------------------------------------------------------
(* What the handlers share.                                                *)

May(r, op) == reqs[r].pc = "idle" /\ op \in plan.runs[r]
Becomes(r, q) == reqs' = [reqs EXCEPT ![r] = q]
Accepts(proofs) ==
  accepted' = [once |-> accepted.once \cup proofs,
               again |-> accepted.again \cup (accepted.once \cap proofs)]

Exists(u) == users[u].role \in Living
Eligible(row, pol) ==
  /\ row.active /\ row.role \in Living /\ row.lock # "on"
  /\ pol.maintenance => row.role \in Administrators
HasFactor(cred) == cred.secret # 0
(* get_current_user accepts the session's token.                           *)
Authenticates(s) ==
  LET u == sessions[s].user IN
  /\ sessions[s].status = "open" /\ Exists(u) /\ users[u].active
  /\ HasFactor(creds[u]) \/ policy.required => sessions[s].mfa

(* Columns a request did not change keep what others have committed.       *)
Patch(old, saw, to) ==
  [active |-> IF to.active # saw.active THEN to.active ELSE old.active,
   role |-> IF to.role # saw.role THEN to.role ELSE old.role,
   fails |-> IF to.fails # saw.fails THEN to.fails ELSE old.fails,
   lock |-> IF to.lock # saw.lock THEN to.lock ELSE old.lock]
Cleared(row) == [active |-> row.active, role |-> row.role, fails |-> 0, lock |-> "no"]

Unused(rows) == {i \in DOMAIN rows : rows[i].status = "none"}
(* The end of every sign-in: the counter and the lock are cleared and a    *)
(* session opens.                                                          *)
FinishLogin(u, saw, mfa, secret) ==
  /\ Exists(u)
  /\ users' = [users EXCEPT ![u] = Patch(@, saw, Cleared(saw))]
  /\ \E s \in Unused(sessions) :
       sessions' = [sessions EXCEPT ![s] =
         [status |-> "open", user |-> u, mfa |-> mfa, secret |-> secret]]
Ended(s) ==
  [status |-> IF s.status = "open" THEN "ended" ELSE s.status,
   user |-> s.user, mfa |-> s.mfa, secret |-> s.secret]
(* One statement revokes the open sessions of a set.                       *)
Revoking(which) ==
  [s \in Sessions |-> IF s \in which THEN Ended(sessions[s]) ELSE sessions[s]]
SessionsOf(u) == {s \in Sessions : sessions[s].user = u}

(* consume_factor: a code of a later step than the last one used, or a     *)
(* recovery code that is still there; with what the credential becomes.    *)
(* Mutant: the step that was used last is accepted again.                  *)
StepsSince(cred) == {n \in clock - 1..clock + 1 : n >= cred.last}
StepsAfter(cred) == {n \in clock - 1..clock + 1 : n > cred.last}
Factors(u) ==
  LET cred == creds[u] IN
  IF ~HasFactor(cred) THEN {}
  ELSE {[cred |-> [cred EXCEPT !.last = n],
         proof |-> [kind |-> "step", user |-> u, secret |-> cred.secret, step |-> n]] :
          n \in StepsAfter(cred)}
       \cup {[cred |-> [cred EXCEPT !.codes = @ \ {c}],
              proof |-> [kind |-> "code", user |-> u, set |-> cred.set, code |-> c]] :
               c \in cred.codes}

(* _begin_setup: a new secret waits for its first code.                    *)
WithPending(cred) ==
  [secret |-> 0, pending |-> cred.made + 1, tries |-> 0, last |-> cred.last,
   made |-> cred.made + 1, set |-> cred.set, codes |-> cred.codes]
(* Mutant: a factor that is on is set up again.                            *)
SetsUpAgain(u) == creds[u].made < MaxSecrets
CanSetUp(u) == ~HasFactor(creds[u]) /\ creds[u].made < MaxSecrets
(* Mutant: a setup is confirmed after one wrong code too many.             *)
ConfirmsOnceMore(u) ==
  ~HasFactor(creds[u]) /\ creds[u].pending # 0 /\ creds[u].tries <= MaxTries
(* _confirm_setup: the waiting secret becomes the factor, with new codes.  *)
CanConfirm(u) ==
  ~HasFactor(creds[u]) /\ creds[u].pending # 0 /\ creds[u].tries < MaxTries
WithFactor(cred, step) ==
  [secret |-> cred.pending, pending |-> 0, tries |-> 0, last |-> step,
   made |-> cred.made, set |-> cred.pending, codes |-> Codes]
WithTry(cred) == [cred EXCEPT !.tries = @ + 1]
WithoutFactor(cred) ==
  [secret |-> 0, pending |-> 0, tries |-> cred.tries, last |-> 0, made |-> cred.made,
   set |-> cred.set, codes |-> {}]
WithNewCodes(cred) ==
  [secret |-> cred.secret, pending |-> cred.pending, tries |-> cred.tries,
   last |-> cred.last, made |-> cred.made + 1, set |-> cred.made + 1, codes |-> Codes]

-------------------------------------------------------------------------------
(* Passwords and Google.                                                   *)

(* The account and the settings are read; the password is right or wrong.  *)
Login(r) ==
  /\ \E u \in Users :
       /\ Eligible(users[u], policy)
       /\ \/ May(r, "login")
             /\ Becomes(r, [pc |-> "checked", user |-> u, saw |-> users[u], pol |-> policy])
          \/ May(r, "mistype")
             /\ Becomes(r, [pc |-> "denied", user |-> u, saw |-> users[u]])
  /\ UNCHANGED <<tables, clock, plan, accepted>>

(* The failure is added to the count that was loaded.                      *)
CountFailure(r) ==
  LET q == reqs[r]
      n == q.saw.fails + 1
  IN
  /\ q.pc = "denied" /\ Exists(q.user)
  /\ users' = [users EXCEPT ![q.user] =
       Patch(@, q.saw, [active |-> q.saw.active, role |-> q.saw.role,
                        fails |-> IF n > MaxFails THEN MaxFails ELSE n,
                        lock |-> IF n >= MaxFails THEN "on" ELSE q.saw.lock])]
  /\ Becomes(r, Idle)
  /\ UNCHANGED <<creds, links, sessions, challenges, tickets, policy, clock, plan, accepted>>

(* The credential is read; whether a session or a challenge opens is       *)
(* decided.  After Google's commit everything is read again.               *)
Decide(r) ==
  LET q == reqs[r]
      u == q.user
      saw == IF q.saw = None THEN users[u] ELSE q.saw
      pol == IF q.pol = None THEN policy ELSE q.pol
  IN
  /\ q.pc = "checked" /\ Exists(u)
  /\ Becomes(r, [pc |-> "opening", user |-> u, saw |-> saw,
       what |-> IF HasFactor(creds[u]) THEN "verify"
                ELSE IF pol.required THEN "enroll" ELSE "session"])
  /\ UNCHANGED <<tables, clock, plan, accepted>>

OpenSession(r) ==
  LET q == reqs[r] IN
  /\ q.pc = "opening" /\ q.what = "session"
  /\ FinishLogin(q.user, q.saw, FALSE, 0)
  /\ Becomes(r, Idle)
  /\ UNCHANGED <<creds, links, challenges, tickets, policy, clock, plan, accepted>>

OpenChallenge(r) ==
  LET q == reqs[r] IN
  /\ q.pc = "opening" /\ q.what # "session" /\ Exists(q.user)
  /\ \E c \in Unused(challenges) :
       challenges' = [challenges EXCEPT ![c] =
         [status |-> "open", user |-> q.user, enroll |-> q.what = "enroll", tries |-> 0]]
  /\ Becomes(r, Idle)
  /\ UNCHANGED <<users, creds, links, sessions, tickets, policy, clock, plan, accepted>>

(* The account with Google's address is found, and whether it is linked.   *)
Callback(r) ==
  /\ May(r, "google")
  /\ \E u \in Users, sub \in Subs :
       /\ Eligible(users[u], policy)
       /\ links[u] = None => \A v \in Users : links[v] # sub
       /\ links[u] # None => links[u] = sub
       /\ Becomes(r, [pc |-> "linking", user |-> u, sub |-> sub,
                      linked |-> links[u] # None])
  /\ UNCHANGED <<tables, clock, plan, accepted>>

(* The link is inserted, once per account and per Google account, with a   *)
(* ticket.                                                                 *)
Link(r) ==
  LET q == reqs[r] IN
  /\ q.pc = "linking" /\ Exists(q.user)
  /\ ~q.linked => links[q.user] = None /\ \A v \in Users : links[v] # q.sub
  /\ links' = IF q.linked THEN links ELSE [links EXCEPT ![q.user] = q.sub]
  /\ \E t \in Unused(tickets) :
       tickets' = [tickets EXCEPT ![t] = [status |-> "open", user |-> q.user]]
  /\ Becomes(r, Idle)
  /\ UNCHANGED <<users, creds, sessions, challenges, policy, clock, plan, accepted>>

Exchange(r) ==
  /\ May(r, "google")
  /\ \E t \in Tickets : tickets[t].status = "open" /\ Becomes(r, [pc |-> "claiming", ticket |-> t])
  /\ UNCHANGED <<tables, clock, plan, accepted>>

StillUnused(t) == tickets[t].status = "open"
(* The ticket is claimed by one update; an account that may no longer sign *)
(* in has spent it all the same.                                           *)
Claim(r) ==
  LET t == reqs[r].ticket
      u == tickets[t].user
  IN
  /\ reqs[r].pc = "claiming" /\ StillUnused(t)
  /\ tickets' = [tickets EXCEPT ![t] = [status |-> "ended", user |-> u]]
  /\ Accepts({[kind |-> "ticket", id |-> t]})
  /\ Becomes(r, IF Eligible(users[u], policy)
                THEN [pc |-> "checked", user |-> u, saw |-> None, pol |-> None]
                ELSE Idle)
  /\ UNCHANGED <<users, creds, links, sessions, challenges, policy, clock, plan>>

-------------------------------------------------------------------------------
(* Challenges.                                                             *)

Unlocked(c) ==
  \A o \in Requests : reqs[o].pc = "presented" => reqs[o].challenge # c
(* locked_challenge: what it still accepts.                                *)
Presentable(c) == challenges[c].status = "open" /\ challenges[c].tries < MaxTries

(* The challenge is locked and its account read.                           *)
Present(r, op) ==
  /\ May(r, op)
  /\ \E c \in Challenges :
       LET u == challenges[c].user IN
       /\ Unlocked(c) /\ Presentable(c)
       /\ challenges[c].enroll = (op # "verify")
       /\ Eligible(users[u], policy)
       /\ op = "enroll" => policy.required
       /\ Becomes(r, [pc |-> "presented", op |-> op, challenge |-> c, user |-> u,
                      saw |-> users[u]])
  /\ UNCHANGED <<tables, clock, plan, accepted>>

Presented(r, op) == reqs[r].pc = "presented" /\ reqs[r].op = op
Spent(c) == [challenges EXCEPT ![c] = [@ EXCEPT !.status = "ended"]]
OneMoreTry(c) ==
  [challenges EXCEPT ![c].tries = IF @ < MaxTries THEN @ + 1 ELSE MaxTries]

VerifyRight(r) ==
  LET q == reqs[r] IN
  /\ Presented(r, "verify")
  /\ \E f \in Factors(q.user) :
       /\ creds' = [creds EXCEPT ![q.user] = f.cred]
       /\ Accepts({f.proof, [kind |-> "challenge", id |-> q.challenge]})
  /\ challenges' = Spent(q.challenge)
  /\ FinishLogin(q.user, q.saw, TRUE, creds[q.user].secret)
  /\ Becomes(r, Idle)
  /\ UNCHANGED <<links, tickets, policy, clock, plan>>

VerifyWrong(r) ==
  LET q == reqs[r] IN
  /\ Presented(r, "verify") /\ HasFactor(creds[q.user])
  /\ challenges' = OneMoreTry(q.challenge)
  /\ Becomes(r, Idle)
  /\ UNCHANGED <<users, creds, links, sessions, tickets, policy, clock, plan, accepted>>

EnrollStart(r) ==
  LET u == reqs[r].user IN
  /\ Presented(r, "enroll") /\ CanSetUp(u)
  /\ creds' = [creds EXCEPT ![u] = WithPending(@)]
  /\ Becomes(r, Idle)
  /\ UNCHANGED <<users, links, sessions, challenges, tickets, policy, clock, plan, accepted>>

EnrollConfirm(r) ==
  LET q == reqs[r] IN
  /\ Presented(r, "confirm") /\ CanConfirm(q.user)
  /\ \E n \in clock - 1..clock + 1 :
       /\ creds' = [creds EXCEPT ![q.user] = WithFactor(@, n)]
       /\ Accepts({[kind |-> "challenge", id |-> q.challenge],
                   [kind |-> "step", user |-> q.user, secret |-> creds[q.user].pending,
                    step |-> n]})
  /\ challenges' = Spent(q.challenge)
  /\ FinishLogin(q.user, q.saw, TRUE, creds[q.user].pending)
  /\ Becomes(r, Idle)
  /\ UNCHANGED <<links, tickets, policy, clock, plan>>

(* A wrong code is counted and committed, which lets go of the challenge;  *)
(* a setup that cannot be confirmed leaves it locked.  The attempt is then *)
(* added to the challenge.                                                 *)
EnrollRefused(r) ==
  LET q == reqs[r] IN
  /\ Presented(r, "confirm")
  /\ IF CanConfirm(q.user)
     THEN creds' = [creds EXCEPT ![q.user] = WithTry(@)]
          /\ Becomes(r, [pc |-> "refused", challenge |-> q.challenge])
          /\ UNCHANGED challenges
     ELSE challenges' = OneMoreTry(q.challenge) /\ Becomes(r, Idle) /\ UNCHANGED creds
  /\ UNCHANGED <<users, links, sessions, tickets, policy, clock, plan, accepted>>

CountRefusal(r) ==
  LET c == reqs[r].challenge IN
  /\ reqs[r].pc = "refused" /\ Unlocked(c)
  /\ challenges' = OneMoreTry(c)
  /\ Becomes(r, Idle)
  /\ UNCHANGED <<users, creds, links, sessions, tickets, policy, clock, plan, accepted>>

-------------------------------------------------------------------------------
(* Requests of a session.                                                  *)

Act(r, op) ==
  /\ May(r, op)
  /\ \E s \in Sessions :
       LET u == sessions[s].user IN
       /\ Authenticates(s)
       /\ op \in SuperOps => users[u].role = "super"
       /\ op \in AdminOps => users[u].role \in {"super", "admin"}
       /\ Becomes(r, [pc |-> "acting", op |-> op, session |-> s, user |-> u,
                      saw |-> users[u], pol |-> policy])
  /\ UNCHANGED <<tables, clock, plan, accepted>>

Acting(r, op) == reqs[r].pc = "acting" /\ reqs[r].op = op

SetupStart(r) ==
  LET u == reqs[r].user IN
  /\ Acting(r, "setup") /\ Exists(u) /\ CanSetUp(u)
  /\ creds' = [creds EXCEPT ![u] = WithPending(@)]
  /\ Becomes(r, Idle)
  /\ UNCHANGED <<users, links, sessions, challenges, tickets, policy, clock, plan, accepted>>

(* The session that confirms a factor has proven it; the others end.       *)
SetupConfirm(r) ==
  LET q == reqs[r]
      u == q.user
      secret == creds[u].pending
  IN
  /\ Acting(r, "enable") /\ Exists(u) /\ CanConfirm(u)
  /\ \E n \in clock - 1..clock + 1 :
       /\ creds' = [creds EXCEPT ![u] = WithFactor(@, n)]
       /\ Accepts({[kind |-> "step", user |-> u, secret |-> secret, step |-> n]})
  /\ sessions' = [Revoking(SessionsOf(u) \ {q.session}) EXCEPT ![q.session] =
       [status |-> @.status, user |-> u, mfa |-> TRUE, secret |-> secret]]
  /\ Becomes(r, Idle)
  /\ UNCHANGED <<users, links, challenges, tickets, policy, clock, plan>>

SetupWrong(r) ==
  LET u == reqs[r].user IN
  /\ Acting(r, "enable") /\ Exists(u) /\ CanConfirm(u)
  /\ creds' = [creds EXCEPT ![u] = WithTry(@)]
  /\ Becomes(r, Idle)
  /\ UNCHANGED <<users, links, sessions, challenges, tickets, policy, clock, plan, accepted>>

EndAllWithFactor(r) == Revoking(SessionsOf(reqs[r].user))
Disable(r) ==
  LET q == reqs[r] IN
  /\ Acting(r, "disable") /\ ~q.pol.required
  /\ \E f \in Factors(q.user) : Accepts({f.proof})
  /\ creds' = [creds EXCEPT ![q.user] = WithoutFactor(@)]
  /\ sessions' = EndAllWithFactor(r)
  /\ Becomes(r, Idle)
  /\ UNCHANGED <<users, links, challenges, tickets, policy, clock, plan>>

Regenerate(r) ==
  LET q == reqs[r] IN
  /\ Acting(r, "regenerate") /\ creds[q.user].made < MaxSecrets
  /\ \E f \in Factors(q.user) :
       /\ creds' = [creds EXCEPT ![q.user] = WithNewCodes(f.cred)]
       /\ Accepts({f.proof})
  /\ sessions' = Revoking(SessionsOf(q.user) \ {q.session})
  /\ Becomes(r, Idle)
  /\ UNCHANGED <<users, links, challenges, tickets, policy, clock, plan>>

(* The policy is set; every session without a factor ends with it.         *)
UpdatePolicy(r) ==
  LET q == reqs[r] IN
  /\ Acting(r, "require")
  /\ \E f \in Factors(q.user) :
       /\ creds' = [creds EXCEPT ![q.user] = f.cred]
       /\ Accepts({f.proof})
  /\ \E required \in BOOLEAN :
       /\ policy' = [policy EXCEPT !.required = required]
       /\ sessions' = IF required THEN Revoking({s \in Sessions : ~sessions[s].mfa})
                      ELSE sessions
  /\ Becomes(r, Idle)
  /\ UNCHANGED <<users, links, challenges, tickets, clock, plan>>

EditSettings(r) ==
  /\ Acting(r, "maintain")
  /\ \E m \in BOOLEAN : policy' = [policy EXCEPT !.maintenance = m]
  /\ Becomes(r, Idle)
  /\ UNCHANGED <<users, creds, links, sessions, challenges, tickets, clock, plan, accepted>>

(* Sessions are ended by their users; a new password ends the others too.  *)
OtherSessions(r) == SessionsOf(reqs[r].user) \ {reqs[r].session}
EndsOwn(r, which) ==
  /\ sessions' = Revoking(which)
  /\ Becomes(r, Idle)
  /\ UNCHANGED <<users, creds, links, challenges, tickets, policy, clock, plan, accepted>>
Logout(r) == Acting(r, "end") /\ EndsOwn(r, {reqs[r].session})
RevokeMySession(r) ==
  /\ Acting(r, "end")
  /\ \E s \in OtherSessions(r) : sessions[s].status = "open" /\ EndsOwn(r, {s})
RevokeOtherSessions(r) == Acting(r, "end") /\ EndsOwn(r, OtherSessions(r))
ChangePassword(r) == Acting(r, "end") /\ EndsOwn(r, OtherSessions(r))

-------------------------------------------------------------------------------
(* Administrator accounts.                                                 *)

(* _require_delegable_role, with clerk a role of fewer permissions.        *)
Delegable(actor, role) == actor = "super" \/ role # "super"
ActiveSupers == {u \in Users : users[u].active /\ users[u].role = "super"}
(* Mutant: the count of active super administrators includes the target.   *)
AnyRemains(t) == ActiveSupers # {}
OthersRemain(t) == ActiveSupers \ {t} # {}

(* The role's row is locked, then the target's.  An administrator's own    *)
(* row stays as it was when the request was authenticated.                 *)
SeenBy(q, t) == IF t = q.user THEN q.saw ELSE users[t]
ChangesAdmin(q, t, role, active, reset) ==
  LET row == SeenBy(q, t)
      to == [active |-> active, role |-> role, fails |-> row.fails, lock |-> row.lock]
  IN
  /\ Exists(t) /\ row.role \in Administrators
  /\ Delegable(q.saw.role, row.role) /\ Delegable(q.saw.role, role)
  /\ role # row.role /\ row.role = "super" => OthersRemain(t)
  /\ active # row.active => t # q.user
  /\ ~active /\ row.active /\ row.role = "super" => OthersRemain(t)
  /\ users' = [users EXCEPT ![t] = Patch(@, row, IF reset THEN Cleared(to) ELSE to)]
  /\ sessions' = IF reset \/ (row.active /\ ~active) THEN Revoking(SessionsOf(t))
                 ELSE sessions
UpdateAdmin(r) ==
  /\ Acting(r, "manage")
  /\ \E t \in Users, role \in Administrators, active, reset \in BOOLEAN :
       ChangesAdmin(reqs[r], t, role, active, reset)
  /\ Becomes(r, Idle)
  /\ UNCHANGED <<creds, links, challenges, tickets, policy, clock, plan, accepted>>

RevokeAdminSessions(r) ==
  /\ Acting(r, "manage")
  /\ \E t \in Users :
       /\ users[t].role \in Administrators /\ Delegable(reqs[r].saw.role, users[t].role)
       /\ sessions' = Revoking(SessionsOf(t))
  /\ Becomes(r, Idle)
  /\ UNCHANGED <<users, creds, links, challenges, tickets, policy, clock, plan, accepted>>

CreateAdmin(r) ==
  /\ Acting(r, "manage")
  /\ \E t \in Users, role \in Administrators :
       /\ users[t].role = "new" /\ Delegable(reqs[r].saw.role, role)
       /\ users' = [users EXCEPT ![t] = [active |-> TRUE, role |-> role, fails |-> 0, lock |-> "no"]]
  /\ Becomes(r, Idle)
  /\ UNCHANGED <<creds, links, sessions, challenges, tickets, policy, clock, plan, accepted>>

(* What belongs to the account goes with it; a challenge somebody has      *)
(* locked is waited for.                                                   *)
DeleteAdmin(r) ==
  LET Without(rows, t) ==
        [i \in DOMAIN rows |->
           IF rows[i].user = t /\ rows[i].status = "open"
           THEN [rows[i] EXCEPT !.status = "ended"] ELSE rows[i]]
  IN
  /\ Acting(r, "manage")
  /\ \E t \in Users \ {reqs[r].user} :
       /\ users[t].role \in Administrators /\ Delegable(reqs[r].saw.role, users[t].role)
       /\ users[t].role = "super" => OthersRemain(t)
       /\ \A c \in Challenges : challenges[c].user = t => Unlocked(c)
       /\ users' = [users EXCEPT ![t] = [active |-> FALSE, role |-> "gone", fails |-> 0, lock |-> "no"]]
       /\ creds' = [creds EXCEPT ![t] = WithoutFactor(@)]
       /\ links' = [links EXCEPT ![t] = None]
       /\ sessions' = Without(sessions, t)
       /\ challenges' = Without(challenges, t)
       /\ tickets' = Without(tickets, t)
  /\ Becomes(r, Idle)
  /\ UNCHANGED <<policy, clock, plan, accepted>>

-------------------------------------------------------------------------------
(* A request fails, or its server stops: nothing more of it is committed.  *)
Abort(r) ==
  /\ reqs[r] # Idle
  /\ Becomes(r, Idle)
  /\ UNCHANGED <<tables, clock, plan, accepted>>

Tick ==
  /\ clock < MaxStep
  /\ clock' = clock + 1
  /\ UNCHANGED <<tables, reqs, plan, accepted>>

(* Locks, setups, sessions, challenges and tickets run out, of the kinds   *)
(* the plan lets run out.                                                  *)
Expire ==
  /\ \/ /\ "lock" \in plan.ends
        /\ \E u \in Users : users[u].lock = "on" /\ users' = [users EXCEPT ![u].lock = "over"]
        /\ UNCHANGED <<creds, sessions, challenges, tickets>>
     \/ /\ "setup" \in plan.ends
        /\ \E u \in Users : creds[u].pending # 0 /\ creds' = [creds EXCEPT ![u].pending = 0]
        /\ UNCHANGED <<users, sessions, challenges, tickets>>
     \/ /\ "session" \in plan.ends
        /\ \E s \in Sessions : sessions[s].status = "open" /\ sessions' = Revoking({s})
        /\ UNCHANGED <<users, creds, challenges, tickets>>
     \/ /\ "challenge" \in plan.ends
        /\ \E c \in Challenges : Presentable(c) /\ Unlocked(c) /\ challenges' = Spent(c)
        /\ UNCHANGED <<users, creds, sessions, tickets>>
     \/ /\ "ticket" \in plan.ends
        /\ \E t \in Tickets : tickets[t].status = "open"
             /\ tickets' = [tickets EXCEPT ![t].status = "ended"]
        /\ UNCHANGED <<users, creds, sessions, challenges>>
  /\ UNCHANGED <<links, policy, clock, reqs, plan, accepted>>

Next ==
  \/ \E r \in Requests :
       \/ Login(r) \/ CountFailure(r) \/ Decide(r) \/ OpenSession(r) \/ OpenChallenge(r)
       \/ Callback(r) \/ Link(r) \/ Exchange(r) \/ Claim(r)
       \/ \E op \in ChallengeOps : Present(r, op)
       \/ VerifyRight(r) \/ VerifyWrong(r) \/ EnrollStart(r) \/ EnrollConfirm(r)
       \/ EnrollRefused(r) \/ CountRefusal(r)
       \/ \E op \in SessionOps : Act(r, op)
       \/ SetupStart(r) \/ SetupConfirm(r) \/ SetupWrong(r) \/ Disable(r) \/ Regenerate(r)
       \/ UpdatePolicy(r) \/ EditSettings(r)
       \/ Logout(r) \/ RevokeMySession(r) \/ RevokeOtherSessions(r) \/ ChangePassword(r)
       \/ UpdateAdmin(r) \/ RevokeAdminSessions(r) \/ CreateAdmin(r) \/ DeleteAdmin(r)
       \/ Abort(r)
  \/ Tick
  \/ Expire

Spec == Init /\ [][Next]_vars

-------------------------------------------------------------------------------
(* Properties.                                                             *)

(* A challenge, a Google ticket, the code of a time step and a recovery    *)
(* code each sign in or confirm once, whichever two requests present it    *)
(* together, and whatever is disabled, set up again or regenerated between *)
(* them (core/mfa.py:95-112, routes_google_auth.py:154-163).               *)
ProofsAreSingleUse == accepted.again = {}

(* A session that counts as verified for an account with a factor has      *)
(* proven the factor the account has now: none outlives the one it proved, *)
(* through disabling and setting up again in any order with sign-ins       *)
(* (deps.py:60-64, routes_mfa.py:242-257, 177-194).                        *)
SecondFactorCurrent ==
  \A s \in Sessions :
    sessions[s].status = "open" /\ sessions[s].mfa
      /\ Exists(sessions[s].user) /\ HasFactor(creds[sessions[s].user])
    => sessions[s].secret = creds[sessions[s].user].secret

(* The last active super administrator is lost to one kind of request      *)
(* only: an administrator's own change of role that was authenticated      *)
(* before somebody made that administrator a super administrator           *)
(* (routes_admin_users.py:68-77, 165-209).                                 *)
StaleSelfChange ==
  \E r \in Requests :
    /\ Acting(r, "manage") /\ reqs'[r] = Idle
    /\ reqs[r].saw.role # "super" /\ users[reqs[r].user].role = "super"
LastSuperNeedsStale ==
  [][ActiveSupers # {} /\ ActiveSupers' = {} => StaleSelfChange]_vars
===============================================================================
