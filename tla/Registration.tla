----------------------------- MODULE Registration -----------------------------
(***************************************************************************)
(* Community registration (api/routes_community_auth.py, core/otp.py,      *)
(* routes_admin_community.py): start, resend, verify, set a password.      *)
(*                                                                         *)
(* Only starts for one address wait for each other.  Every request reads   *)
(* its registration, mails or checks a code, and commits the columns it    *)
(* changed since it read them; several requests may be between the two.    *)
(* Codes and tokens are numbers, a token the number of the code it was     *)
(* given for.                                                              *)
(***************************************************************************)
EXTENDS Naturals, FiniteSets

CONSTANTS
  Emails, Mobiles,
  Registrants,  \* request threads
  MaxSends,     \* OTP_MAX_SENDS_PER_WINDOW
  MaxOtpTries,  \* OTP_MAX_ATTEMPTS
  MaxCodes      \* bound on the codes ever mailed

ASSUME RegAssumption ==
  /\ Mobiles # {}
  /\ MaxSends \in Nat /\ MaxOtpTries \in Nat /\ MaxCodes \in Nat

VARIABLES
  regs,       \* community_registrations, a row per address
  members,    \* the accounts: users with their community profile
  lapsed,     \* the codes whose ten minutes are over
  mailed,     \* the codes mailed so far, 1..mailed
  asks,       \* the request each thread is running
  begun,      \* history: the codes that were mailed for a start
  doubled     \* history: a plain start mailed a code beside a start's valid one

regVars == <<regs, members, lapsed, mailed, asks, begun, doubled>>

OtpCodes == 0..MaxCodes
Reg ==
  [status: {"none", "pending", "verified"}, mobile: Mobiles, code: OtpCodes,
   window: BOOLEAN, sends: 0..MaxSends, tries: 0..MaxOtpTries, token: OtpCodes]
Member == [status: {"none", "active", "off"}, mobile: Mobiles]
Ask ==
  [pc: {"idle"}]
  \cup [pc: {"starting"}, email: Emails, saw: Reg, mobile: Mobiles, plain: BOOLEAN]
  \cup [pc: {"listed"}, email: Emails, plain: BOOLEAN]
  \cup [pc: {"mailed"}, email: Emails, saw: Reg, why: {"start", "resend"},
        code: OtpCodes, ok: BOOLEAN]
  \cup [pc: {"checking"}, email: Emails, saw: Reg, right: BOOLEAN]
  \cup [pc: {"creating"}, email: Emails, saw: Reg]

RegTypeOK ==
  /\ regs \in [Emails -> Reg]
  /\ members \in [Emails -> Member]
  /\ lapsed \subseteq OtpCodes
  /\ mailed \in OtpCodes
  /\ asks \in [Registrants -> Ask]
  /\ begun \subseteq 1..mailed
  /\ doubled \in BOOLEAN

Waiting == [pc |-> "idle"]
AnyMobile == CHOOSE m \in Mobiles : TRUE
NoReg ==
  [status |-> "none", mobile |-> AnyMobile, code |-> 0, window |-> FALSE,
   sends |-> 0, tries |-> 0, token |-> 0]
RegInit ==
  /\ regs = [e \in Emails |-> NoReg]
  /\ members = [e \in Emails |-> [status |-> "none", mobile |-> AnyMobile]]
  /\ lapsed = {} /\ mailed = 0
  /\ asks = [p \in Registrants |-> Waiting]
  /\ begun = {} /\ doubled = FALSE

-------------------------------------------------------------------------------
Asks(p, q) == asks' = [asks EXCEPT ![p] = q]
(* Columns a request did not change keep what others have committed.       *)
Written(old, saw, to) ==
  [f \in DOMAIN old |-> IF to[f] # saw[f] THEN to[f] ELSE old[f]]
(* Mutant: the whole row is written.                                       *)
WrittenWhole(old, saw, to) == to
Committed(old, saw, to) == Written(old, saw, to)
Writes(e, saw, to) ==
  /\ regs[e].status # "none"
  /\ regs' = [regs EXCEPT ![e] = Committed(@, saw, to)]

Registered(e, mobile) ==
  \/ members[e].status # "none"
  \/ \E f \in Emails : members[f].status # "none" /\ members[f].mobile = mobile
ValidCode(reg) == reg.code # 0 /\ reg.code \notin lapsed

(* A code that was mailed for a start would be accepted.                   *)
MailedByStart(reg) == reg.status = "pending" /\ ValidCode(reg) /\ reg.code \in begun

(* A start holds its address from its first check to its answer.           *)
Starts(q, e) ==
  \/ q.pc \in {"starting", "listed"} /\ q.email = e
  \/ q.pc = "mailed" /\ q.why = "start" /\ q.email = e
(* Mutant: starts for one address do not wait for each other.              *)
NoLock(p, e) == TRUE
RegistrationLock(p, e) == \A o \in Registrants \ {p} : ~Starts(asks[o], e)

(* What is registered or already on its way is refused.                    *)
StartRegistration(p) ==
  /\ asks[p] = Waiting
  /\ \E e \in Emails, mobile \in Mobiles, plain \in BOOLEAN :
       /\ RegistrationLock(p, e)
       /\ ~Registered(e, mobile)
       /\ ~(regs[e].status = "pending" /\ plain /\ ValidCode(regs[e]))
       /\ Asks(p, [pc |-> "starting", email |-> e, saw |-> regs[e], mobile |-> mobile,
                  plain |-> plain])
  /\ UNCHANGED <<regs, members, lapsed, mailed, begun, doubled>>

(* The row is inserted, or given the new details, and committed.           *)
ListRegistration(p) ==
  LET q == asks[p]
      e == q.email
  IN
  /\ q.pc = "starting"
  /\ IF q.saw.status = "none"
     THEN regs[e].status = "none"
          /\ regs' = [regs EXCEPT ![e] = [NoReg EXCEPT !.status = "pending", !.mobile = q.mobile]]
     ELSE Writes(e, q.saw, [q.saw EXCEPT !.mobile = q.mobile])
  /\ Asks(p, [pc |-> "listed", email |-> e, plain |-> q.plain])
  /\ UNCHANGED <<members, lapsed, mailed, begun, doubled>>

(* _issue_otp: the row is read, the limit of the window respected, and a   *)
(* new code mailed, or not.                                                *)
Sends(reg) == IF reg.window THEN reg.sends ELSE 0
Issue(p, e, why) ==
  /\ regs[e].status # "none"
  /\ IF Sends(regs[e]) >= MaxSends
     THEN Asks(p, Waiting) /\ UNCHANGED mailed
     ELSE /\ mailed < MaxCodes /\ mailed' = mailed + 1
          /\ \E ok \in BOOLEAN :
               Asks(p, [pc |-> "mailed", email |-> e, saw |-> regs[e], why |-> why,
                        code |-> mailed', ok |-> ok])
  /\ UNCHANGED <<regs, members, lapsed>>

IssueForStart(p) ==
  LET q == asks[p] IN
  /\ q.pc = "listed"
  /\ Issue(p, q.email, "start")
  /\ begun' = begun \cup (mailed + 1)..mailed'
  /\ doubled' = (doubled \/ (q.plain /\ mailed' # mailed /\ MailedByStart(regs[q.email])))

ResendOtp(p) ==
  /\ asks[p] = Waiting
  /\ \E e \in Emails : regs[e].status = "pending" /\ Issue(p, e, "resend")
  /\ UNCHANGED <<begun, doubled>>

(* A send counts, and its code is stored if it went out.                   *)
StoreOtp(p) ==
  LET q == asks[p]
      counted == [q.saw EXCEPT !.window = TRUE, !.sends = Sends(q.saw) + 1]
  IN
  /\ q.pc = "mailed"
  /\ Writes(q.email, q.saw,
       IF q.ok THEN [counted EXCEPT !.code = q.code, !.tries = 0, !.status = "pending"]
       ELSE counted)
  /\ Asks(p, Waiting)
  /\ UNCHANGED <<members, lapsed, mailed, begun, doubled>>

VerifyOtp(p) ==
  /\ asks[p] = Waiting
  /\ \E e \in Emails, right \in BOOLEAN :
       /\ regs[e].status = "pending" /\ ValidCode(regs[e])
       /\ Asks(p, [pc |-> "checking", email |-> e, saw |-> regs[e], right |-> right])
  /\ UNCHANGED <<regs, members, lapsed, mailed, begun, doubled>>

(* The right code is spent for a token; a wrong one is counted, and the    *)
(* last one allowed spends the code.                                       *)
AnswerOtp(p) ==
  LET q == asks[p]
      spent == [q.saw EXCEPT !.code = 0]
      tries == q.saw.tries + 1
  IN
  /\ q.pc = "checking"
  /\ Writes(q.email, q.saw,
       IF q.saw.tries >= MaxOtpTries THEN spent
       ELSE IF q.right
       THEN [spent EXCEPT !.status = "verified", !.tries = 0, !.token = q.saw.code]
       ELSE IF tries >= MaxOtpTries THEN [spent EXCEPT !.tries = tries]
       ELSE [q.saw EXCEPT !.tries = tries])
  /\ Asks(p, Waiting)
  /\ UNCHANGED <<members, lapsed, mailed, begun, doubled>>

SetPassword(p) ==
  /\ asks[p] = Waiting
  /\ \E e \in Emails :
       /\ regs[e].status = "verified" /\ ~Registered(e, regs[e].mobile)
       /\ Asks(p, [pc |-> "creating", email |-> e, saw |-> regs[e]])
  /\ UNCHANGED <<regs, members, lapsed, mailed, begun, doubled>>

(* The account and its profile are inserted, once per address and per      *)
(* number, and the registration is deleted.                                *)
CreateMember(p) ==
  LET q == asks[p] IN
  /\ q.pc = "creating"
  /\ regs[q.email].status # "none" /\ ~Registered(q.email, q.saw.mobile)
  /\ members' = [members EXCEPT ![q.email] = [status |-> "active", mobile |-> q.saw.mobile]]
  /\ regs' = [regs EXCEPT ![q.email] = NoReg]
  /\ Asks(p, Waiting)
  /\ UNCHANGED <<lapsed, mailed, begun, doubled>>

UpdateMember ==
  /\ \E e \in Emails, to \in {"active", "off"} :
       /\ members[e].status \notin {"none", to}
       /\ members' = [members EXCEPT ![e] = [status |-> to, mobile |-> @.mobile]]
  /\ UNCHANGED <<regs, lapsed, mailed, asks, begun, doubled>>

(* A request fails, loses a race for a unique column, or its server stops. *)
GiveUp(p) ==
  /\ asks[p] # Waiting
  /\ Asks(p, Waiting)
  /\ UNCHANGED <<regs, members, lapsed, mailed, begun, doubled>>

Lapse ==
  /\ \/ \E c \in 1..mailed : c \notin lapsed /\ lapsed' = lapsed \cup {c} /\ UNCHANGED regs
     \/ \E e \in Emails : regs[e].window /\ regs' = [regs EXCEPT ![e] = [@ EXCEPT !.window = FALSE]]
                         /\ UNCHANGED lapsed
  /\ UNCHANGED <<members, mailed, asks, begun, doubled>>

RegNext ==
  \/ \E p \in Registrants :
       \/ StartRegistration(p) \/ ListRegistration(p) \/ IssueForStart(p) \/ ResendOtp(p)
       \/ StoreOtp(p) \/ VerifyOtp(p) \/ AnswerOtp(p) \/ SetPassword(p) \/ CreateMember(p)
       \/ GiveUp(p)
  \/ UpdateMember
  \/ Lapse

RegSpec == RegInit /\ [][RegNext]_regVars

-------------------------------------------------------------------------------
(* Two starts for one address, however they meet, do not both mail a code  *)
(* unless the second asks to start again: a plain start mails none while   *)
(* a code an earlier start mailed is valid (routes_community_auth.py:      *)
(* 217-227, 265-275).                                                      *)
StartsMailOnce == ~doubled

(* An address that has been verified is only made unverified by a start    *)
(* for it: a resend that was mailing when the code was accepted, or a      *)
(* second check of the same code, does not take the verification back      *)
(* (routes_community_auth.py:208-213, 359-380).                            *)
StartCommits(e) ==
  \E p \in Registrants :
    asks[p].pc = "mailed" /\ asks[p].why = "start" /\ asks[p].email = e /\ asks'[p] = Waiting
VerifiedStays ==
  [][\A e \in Emails :
       regs[e].status = "verified" /\ regs'[e].status = "pending" => StartCommits(e)]_regVars
===============================================================================
