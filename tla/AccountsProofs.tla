---------------------------- MODULE AccountsProofs ----------------------------
(***************************************************************************)
(* Theorems about who has an account and what it may do: Registration,     *)
(* Students, Jobs and AdminRoles, each for every value of its constants.   *)
(***************************************************************************)
EXTENDS SignInProofs, MCSignIn, WellFoundedInduction

-------------------------------------------------------------------------------
(* Registration.                                                           *)

(* A flush leaves a row a row, and decides each column by itself.          *)
LEMMA WrittenRow ==
  ASSUME NEW old \in Reg, NEW saw \in Reg, NEW to \in Reg
  PROVE  /\ Committed(old, saw, to) \in Reg
         /\ Committed(old, saw, to).status = IF to.status # saw.status THEN to.status ELSE old.status
         /\ Committed(old, saw, to).code = IF to.code # saw.code THEN to.code ELSE old.code
  BY DEF Committed, Written, Reg

(* What a request in flight knows.                                         *)
LEMMA AskFields ==
  ASSUME NEW q \in Ask
  PROVE  /\ q.pc \in {"idle", "starting", "listed", "mailed", "checking", "creating"}
         /\ q.pc = "idle" => q = Waiting
         /\ q.pc # "idle" => q.email \in Emails
         /\ q.pc = "starting" => q.saw \in Reg /\ q.mobile \in Mobiles /\ q.plain \in BOOLEAN
         /\ q.pc = "listed" => q.plain \in BOOLEAN
         /\ q.pc = "mailed" => /\ q.saw \in Reg /\ q.why \in {"start", "resend"}
                               /\ q.code \in OtpCodes /\ q.ok \in BOOLEAN
         /\ q.pc = "checking" => q.saw \in Reg /\ q.right \in BOOLEAN
         /\ q.pc = "creating" => q.saw \in Reg
  BY DEF Ask, Waiting

(* A request that will store a code has a send left and a code of its own, *)
(* which a resend did not mail for a start; whoever resends or checks a    *)
(* code read a registration that was pending.                              *)
RequestsKnow ==
  \A p \in Registrants :
    LET q == asks[p] IN
    /\ q.pc = "mailed" =>
         /\ Sends(q.saw) < MaxSends /\ q.code \in 1..mailed
         /\ q.why = "resend" => q.saw.status = "pending" /\ q.code \notin begun
    /\ q.pc = "checking" => q.saw.status = "pending"
CodesMailed == \A e \in Emails : regs[e].code \in 0..mailed
(* Starts for one address take turns.                                      *)
StartsTakeTurns ==
  \A p, o \in Registrants, e \in Emails :
    p # o => ~Starts(asks[p], e) \/ ~Starts(asks[o], e)
(* Until a plain start mails its code, no start's code is valid.           *)
PlainStartsAlone ==
  \A p \in Registrants :
    asks[p].pc \in {"starting", "listed"} /\ asks[p].plain
      => ~MailedByStart(regs[asks[p].email])
RegInv ==
  /\ RegTypeOK /\ RequestsKnow /\ CodesMailed
  /\ StartsTakeTurns /\ PlainStartsAlone /\ StartsMailOnce

LEMMA RegRows ==
  /\ NoReg \in Reg /\ AnyMobile \in Mobiles
  /\ \A mobile \in Mobiles : [NoReg EXCEPT !.status = "pending", !.mobile = mobile] \in Reg
  <1>1. AnyMobile \in Mobiles
    BY RegAssumption DEF AnyMobile
  <1>2. NoReg \in Reg
    BY <1>1, RegAssumption DEF NoReg, Reg, OtpCodes
  <1>3. ASSUME NEW mobile \in Mobiles
        PROVE  [NoReg EXCEPT !.status = "pending", !.mobile = mobile] \in Reg
    <2>. DEFINE row == [NoReg EXCEPT !.status = "pending"]
    <2>1. row \in Reg
      BY <1>2 DEF Reg
    <2>2. [row EXCEPT !.mobile = mobile] \in Reg
      BY <2>1 DEF Reg
    <2>. QED BY <2>2
  <1>. QED BY <1>1, <1>2, <1>3

LEMMA RegStarts == RegInit => RegInv
  <1>. SUFFICES ASSUME RegInit PROVE RegInv
    OBVIOUS
  <1>1. RegTypeOK
    <2>1. Waiting \in Ask
      BY DEF Waiting, Ask
    <2>2. \A m \in Mobiles : [status |-> "none", mobile |-> m] \in Member
      BY DEF Member
    <2>3. doubled \in BOOLEAN
      BY Zenon DEF RegInit
    <2>4. regs \in [Emails -> Reg] /\ members \in [Emails -> Member]
      BY <2>2, RegRows DEF RegInit
    <2>5. asks \in [Registrants -> Ask]
      BY <2>1 DEF RegInit
    <2>6. mailed \in OtpCodes /\ lapsed \subseteq OtpCodes /\ begun \subseteq 1..mailed
      BY RegAssumption DEF RegInit, OtpCodes
    <2>. QED
      BY <2>3, <2>4, <2>5, <2>6 DEF RegTypeOK
  <1>2. \A p \in Registrants : asks[p] = Waiting
    BY DEF RegInit
  <1>. QED
    BY <1>1, <1>2 DEF RegInit, RegInv, RequestsKnow, CodesMailed, NoReg,
      StartsTakeTurns, PlainStartsAlone,
      StartsMailOnce, Starts, Waiting

(* What a request stores is a registration.                                *)
LEMMA StoredRow ==
  ASSUME NEW q, q \in Ask, q.pc = "mailed", Sends(q.saw) < MaxSends
  PROVE  /\ [q.saw EXCEPT !.window = TRUE, !.sends = Sends(q.saw) + 1] \in Reg
         /\ [[q.saw EXCEPT !.window = TRUE, !.sends = Sends(q.saw) + 1]
               EXCEPT !.code = q.code, !.tries = 0, !.status = "pending"] \in Reg
  <1>. DEFINE opened == [q.saw EXCEPT !.window = TRUE]
              counted == [opened EXCEPT !.sends = Sends(q.saw) + 1]
              coded == [counted EXCEPT !.code = q.code]
              fresh == [coded EXCEPT !.tries = 0]
  <1>1. q.saw \in Reg /\ q.code \in OtpCodes
    BY AskFields
  <1>. 0 \in 0..MaxOtpTries
    BY RegAssumption
  <1>2. opened \in Reg
    BY <1>1 DEF Reg
  <1>3. Sends(q.saw) + 1 \in 0..MaxSends
    BY <1>1, RegAssumption DEF Sends, Reg
  <1>4. counted \in Reg
    BY <1>2, <1>3 DEF Reg
  <1>5. coded \in Reg
    BY <1>1, <1>4 DEF Reg
  <1>6. fresh \in Reg
    BY <1>5 DEF Reg
  <1>7. [fresh EXCEPT !.status = "pending"] \in Reg
    BY <1>6 DEF Reg
  <1>. QED BY <1>4, <1>7

LEMMA AnsweredRow ==
  ASSUME NEW q, q \in Ask, q.pc = "checking"
  PROVE  /\ [q.saw EXCEPT !.code = 0] \in Reg
         /\ [[q.saw EXCEPT !.code = 0]
               EXCEPT !.status = "verified", !.tries = 0, !.token = q.saw.code] \in Reg
         /\ q.saw.tries < MaxOtpTries =>
              /\ [[q.saw EXCEPT !.code = 0] EXCEPT !.tries = q.saw.tries + 1] \in Reg
              /\ [q.saw EXCEPT !.tries = q.saw.tries + 1] \in Reg
  <1>. DEFINE spent == [q.saw EXCEPT !.code = 0]
              verified == [spent EXCEPT !.status = "verified"]
              fresh == [verified EXCEPT !.tries = 0]
  <1>1. q.saw \in Reg /\ 0 \in OtpCodes
    BY AskFields, RegAssumption DEF OtpCodes
  <1>. 0 \in 0..MaxOtpTries
    BY RegAssumption
  <1>2. spent \in Reg
    BY <1>1 DEF Reg
  <1>3. verified \in Reg
    BY <1>2 DEF Reg
  <1>4. fresh \in Reg
    BY <1>3 DEF Reg
  <1>5. [fresh EXCEPT !.token = q.saw.code] \in Reg
    BY <1>1, <1>4 DEF Reg
  <1>6. ASSUME q.saw.tries < MaxOtpTries
        PROVE  /\ [spent EXCEPT !.tries = q.saw.tries + 1] \in Reg
               /\ [q.saw EXCEPT !.tries = q.saw.tries + 1] \in Reg
    <2>1. q.saw.tries + 1 \in 0..MaxOtpTries
      BY <1>1, <1>6, RegAssumption DEF Reg
    <2>. QED BY <1>1, <1>2, <2>1 DEF Reg
  <1>. QED BY <1>2, <1>5, <1>6

(* A flush of one registration changes no other.                           *)
LEMMA FlushedRow ==
  ASSUME RegTypeOK, NEW e \in Emails, NEW saw \in Reg, NEW to \in Reg, Writes(e, saw, to)
  PROVE  /\ regs' \in [Emails -> Reg]
         /\ \A f \in Emails : f # e => regs'[f] = regs[f]
         /\ regs'[e].status = IF to.status # saw.status THEN to.status ELSE regs[e].status
         /\ regs'[e].code = IF to.code # saw.code THEN to.code ELSE regs[e].code
  <1>1. regs[e] \in Reg
    BY DEF RegTypeOK
  <1>2. regs' = [regs EXCEPT ![e] = Committed(regs[e], saw, to)]
    BY DEF Writes
  <1>. QED BY <1>1, <1>2, WrittenRow DEF RegTypeOK

(* What one request's step needs to show: that it knows what it must, that *)
(* it starts nothing another start holds, and that it makes no start's     *)
(* code valid but for an address it is starting.                           *)
LEMMA RegRequestStep ==
  ASSUME RegInv, NEW p \in Registrants, NEW q \in Ask, Asks(p, q),
         regs' \in [Emails -> Reg], members' \in [Emails -> Member], lapsed' = lapsed,
         mailed' \in OtpCodes, mailed' \in {mailed, mailed + 1},
         begun' \in {begun, begun \cup (mailed + 1)..mailed'}, doubled' = FALSE,
         \A e \in Emails : regs'[e].code \in 0..mailed',
         q.pc = "mailed" =>
           /\ Sends(q.saw) < MaxSends /\ q.code \in 1..mailed'
           /\ q.why = "resend" => q.saw.status = "pending" /\ q.code \notin begun',
         q.pc = "checking" => q.saw.status = "pending",
         \A e \in Emails : Starts(q, e) => Starts(asks[p], e) \/ RegistrationLock(p, e),
         \A e \in Emails : MailedByStart(regs[e])' => MailedByStart(regs[e]) \/ Starts(asks[p], e),
         \A e \in Emails :
           q.pc \in {"starting", "listed"} /\ q.plain /\ q.email = e => ~MailedByStart(regs[e])'
  PROVE  RegInv'
  <1>1. asks' \in [Registrants -> Ask] /\ asks'[p] = q
        /\ \A o \in Registrants : o # p => asks'[o] = asks[o]
    BY DEF Asks, RegInv, RegTypeOK
  <1>2. begun' \subseteq 1..mailed'
    <2>1. mailed \in Nat /\ begun \subseteq 1..mailed
      BY RegAssumption DEF RegInv, RegTypeOK, OtpCodes
    <2>. QED BY <2>1
  <1>3. doubled' \in BOOLEAN
    OBVIOUS
  <1>4. RegTypeOK'
    BY <1>1, <1>2, <1>3 DEF RegInv, RegTypeOK
  <1>5. RequestsKnow'
    <2>. SUFFICES ASSUME NEW o \in Registrants, o # p
                  PROVE /\ asks[o].pc = "mailed" =>
                             /\ Sends(asks[o].saw) < MaxSends /\ asks[o].code \in 1..mailed'
                             /\ asks[o].why = "resend" =>
                                  asks[o].saw.status = "pending" /\ asks[o].code \notin begun'
                        /\ asks[o].pc = "checking" => asks[o].saw.status = "pending"
      BY <1>1 DEF RequestsKnow, Sends
    <2>. QED
      BY <1>2, RegAssumption DEF RegInv, RequestsKnow, RegTypeOK, OtpCodes
  <1>6. CodesMailed'
    BY DEF CodesMailed
  <1>7. StartsTakeTurns'
    <2>. SUFFICES ASSUME NEW one \in Registrants, NEW two \in Registrants, NEW e \in Emails, one # two,
                         Starts(asks'[one], e), Starts(asks'[two], e)
                  PROVE FALSE
      BY DEF StartsTakeTurns, Starts
    <2>1. CASE one # p /\ two # p
      BY <1>1, <2>1 DEF RegInv, StartsTakeTurns
    <2>2. CASE one = p \/ two = p
      <3>1. PICK o \in {one, two} : o # p /\ Starts(asks[o], e) /\ Starts(q, e)
        BY <1>1, <2>2
      <3>. QED BY <3>1 DEF RegInv, StartsTakeTurns, RegistrationLock
    <2>. QED BY <2>1, <2>2
  <1>8. PlainStartsAlone'
    <2>. SUFFICES ASSUME NEW o \in Registrants, NEW e \in Emails, asks'[o].email = e,
                         asks'[o].pc \in {"starting", "listed"}, asks'[o].plain
                  PROVE  ~MailedByStart(regs[e])'
      <3>1. \A o \in Registrants : asks'[o].pc \in {"starting", "listed"} => asks'[o].email \in Emails
        BY <1>1, AskFields
      <3>. QED BY <3>1 DEF PlainStartsAlone
    <2>1. CASE o = p
      BY <1>1, <2>1
    <2>2. CASE o # p
      <3>1. Starts(asks[o], e) /\ ~MailedByStart(regs[e])
        BY <1>1, <2>2 DEF RegInv, PlainStartsAlone, Starts
      <3>2. ~Starts(asks[p], e)
        BY <2>2, <3>1 DEF RegInv, StartsTakeTurns
      <3>. QED BY <3>1, <3>2
    <2>. QED BY <2>1, <2>2
  <1>9. StartsMailOnce'
    BY DEF StartsMailOnce
  <1>. QED BY <1>4, <1>5, <1>6, <1>7, <1>8, <1>9 DEF RegInv

(* What the answer to a code stores.                                       *)
LEMMA AnswerStores ==
  ASSUME RegTypeOK, NEW p \in Registrants, AnswerOtp(p)
  PROVE  \E to \in Reg :
           /\ Writes(asks[p].email, asks[p].saw, to)
           /\ to.code \in {0, asks[p].saw.code} /\ to.status \in {asks[p].saw.status, "verified"}
  <1>. DEFINE saw == asks[p].saw
              spent == [saw EXCEPT !.code = 0]
              verified == [spent EXCEPT !.status = "verified", !.tries = 0, !.token = saw.code]
              counted == [spent EXCEPT !.tries = saw.tries + 1]
              tried == [saw EXCEPT !.tries = saw.tries + 1]
  <1>1. asks[p] \in Ask /\ asks[p].pc = "checking" /\ saw \in Reg
    BY AskFields DEF RegTypeOK, AnswerOtp
  <1>2. /\ spent \in Reg /\ verified \in Reg
        /\ saw.tries < MaxOtpTries => counted \in Reg /\ tried \in Reg
    BY <1>1, AnsweredRow
  <1>3. /\ spent.code = 0 /\ spent.status = saw.status
        /\ verified.code = 0 /\ verified.status = "verified"
        /\ counted.code = 0 /\ counted.status = saw.status
        /\ tried.code = saw.code /\ tried.status = saw.status
    BY <1>1 DEF Reg
  <1>4. saw.tries \in Nat /\ MaxOtpTries \in Nat
    BY <1>1, RegAssumption DEF Reg
  <1>5. Writes(asks[p].email, saw,
          IF saw.tries >= MaxOtpTries THEN spent
          ELSE IF asks[p].right THEN verified
          ELSE IF saw.tries + 1 >= MaxOtpTries THEN counted ELSE tried)
    BY DEF AnswerOtp
  <1>. HIDE DEF saw, spent, verified, counted, tried
  <1>6. CASE saw.tries >= MaxOtpTries
    BY <1>2, <1>3, <1>5, <1>6 DEF saw
  <1>7. CASE ~(saw.tries >= MaxOtpTries)
    <2>1. spent \in Reg /\ verified \in Reg /\ counted \in Reg /\ tried \in Reg
      BY <1>2, <1>4, <1>7
    <2>2. PICK to \in {verified, counted, tried} : Writes(asks[p].email, saw, to)
      BY <1>5, <1>7
    <2>. QED BY <1>3, <2>1, <2>2 DEF saw
  <1>. QED BY <1>6, <1>7

LEMMA RegKeeps == RegInv /\ [RegNext]_regVars => RegInv'
  <1>. SUFFICES ASSUME RegInv, [RegNext]_regVars PROVE RegInv'
    OBVIOUS
  <1>. /\ RegTypeOK /\ RequestsKnow /\ CodesMailed /\ PlainStartsAlone
       /\ mailed \in Nat /\ MaxCodes \in Nat /\ doubled = FALSE
    BY RegAssumption DEF RegInv, RegTypeOK, OtpCodes, StartsMailOnce
  <1>. DEFINE TheSame == /\ regs' = regs /\ members' = members /\ lapsed' = lapsed
                         /\ mailed' = mailed /\ begun' = begun /\ doubled' = doubled
  <1>0. ASSUME NEW p \in Registrants, NEW q \in Ask, Asks(p, q), TheSame,
               q.pc \notin {"listed", "mailed"},
               q.pc = "checking" => q.saw.status = "pending",
               \A e \in Emails : Starts(q, e) => RegistrationLock(p, e),
               q.pc = "starting" /\ q.plain => ~MailedByStart(regs[q.email])
        PROVE  RegInv'
    <2>1. \A e \in Emails : MailedByStart(regs[e])' <=> MailedByStart(regs[e])
      BY <1>0 DEF MailedByStart, ValidCode
    <2>. QED BY <1>0, <2>1, RegRequestStep DEF RegTypeOK, CodesMailed
  <1>1. ASSUME NEW p \in Registrants, StartRegistration(p) PROVE RegInv'
    <2>1. PICK e \in Emails, mobile \in Mobiles, plain \in BOOLEAN :
            /\ RegistrationLock(p, e)
            /\ ~(regs[e].status = "pending" /\ plain /\ ValidCode(regs[e]))
            /\ Asks(p, [pc |-> "starting", email |-> e, saw |-> regs[e], mobile |-> mobile,
                        plain |-> plain])
      BY <1>1 DEF StartRegistration
    <2>. DEFINE q == [pc |-> "starting", email |-> e, saw |-> regs[e], mobile |-> mobile,
                      plain |-> plain]
    <2>2. q \in Ask
      BY DEF RegTypeOK, Ask
    <2>3. \A f \in Emails : Starts(q, f) => f = e
      BY DEF Starts
    <2>4. plain => ~MailedByStart(regs[e])
      BY <2>1 DEF MailedByStart
    <2>5. TheSame
      BY <1>1 DEF StartRegistration
    <2>. QED BY <1>0, <2>1, <2>2, <2>3, <2>4, <2>5
  <1>2. ASSUME NEW p \in Registrants, ListRegistration(p) PROVE RegInv'
    <2>. DEFINE e == asks[p].email
                q == [pc |-> "listed", email |-> e, plain |-> asks[p].plain]
    <2>1. /\ asks[p] \in Ask /\ asks[p].pc = "starting" /\ e \in Emails
          /\ asks[p].saw \in Reg /\ asks[p].mobile \in Mobiles /\ asks[p].plain \in BOOLEAN
      BY <1>2, AskFields DEF RegTypeOK, ListRegistration
    <2>2. q \in Ask /\ Asks(p, q)
      BY <1>2, <2>1 DEF Ask, ListRegistration
    <2>3. /\ members' = members /\ lapsed' = lapsed /\ mailed' = mailed /\ begun' = begun
          /\ doubled' = doubled
      BY <1>2 DEF ListRegistration
    <2>4. /\ regs' \in [Emails -> Reg]
          /\ \A f \in Emails : f # e => regs'[f] = regs[f]
          /\ \/ regs'[e].code = 0
             \/ regs'[e].code = regs[e].code /\ regs'[e].status = regs[e].status
      <3>1. CASE asks[p].saw.status = "none"
        <4>1. regs' = [regs EXCEPT ![e] =
                         [NoReg EXCEPT !.status = "pending", !.mobile = asks[p].mobile]]
          BY <1>2, <3>1 DEF ListRegistration
        <4>2. [NoReg EXCEPT !.status = "pending", !.mobile = asks[p].mobile].code = 0
          BY DEF NoReg
        <4>. QED BY <2>1, <4>1, <4>2, RegRows DEF RegTypeOK
      <3>2. CASE asks[p].saw.status # "none"
        <4>. DEFINE to == [asks[p].saw EXCEPT !.mobile = asks[p].mobile]
        <4>1. Writes(e, asks[p].saw, to)
          BY <1>2, <3>2 DEF ListRegistration
        <4>2. to \in Reg /\ to.status = asks[p].saw.status /\ to.code = asks[p].saw.code
          BY <2>1 DEF Reg
        <4>. HIDE DEF to
        <4>3. /\ regs' \in [Emails -> Reg]
              /\ \A f \in Emails : f # e => regs'[f] = regs[f]
              /\ regs'[e].status = regs[e].status /\ regs'[e].code = regs[e].code
          BY <2>1, <4>1, <4>2, FlushedRow
        <4>. QED BY <4>3
      <3>. QED BY <3>1, <3>2
    <2>5. \A f \in Emails : Starts(q, f) <=> Starts(asks[p], f)
      BY <2>1 DEF Starts
    <2>6. \A f \in Emails : MailedByStart(regs[f])' => MailedByStart(regs[f])
      BY <2>3, <2>4 DEF MailedByStart, ValidCode
    <2>7. asks[p].plain => ~MailedByStart(regs[e])
      BY <2>1 DEF PlainStartsAlone
    <2>8. \A f \in Emails : regs'[f].code \in 0..mailed'
      BY <2>3, <2>4 DEF CodesMailed
    <2>9. members' \in [Emails -> Member] /\ mailed' \in OtpCodes
      BY <2>3 DEF RegTypeOK
    <2>10. /\ q.pc \notin {"mailed", "checking"}
           /\ \A f \in Emails :
                q.pc \in {"starting", "listed"} /\ q.plain /\ q.email = f => ~MailedByStart(regs[f])'
      BY <2>6, <2>7
    <2>. HIDE DEF q
    <2>. QED BY <2>2, <2>3, <2>4, <2>5, <2>6, <2>8, <2>9, <2>10, RegRequestStep
  <1>3. ASSUME NEW p \in Registrants, NEW e \in Emails, NEW why \in {"start", "resend"},
               Issue(p, e, why), doubled' = FALSE,
               begun' = IF why = "start" THEN begun \cup (mailed + 1)..mailed' ELSE begun,
               why = "start" => Starts(asks[p], e), why = "resend" => regs[e].status = "pending"
        PROVE  RegInv'
    <2>1. regs' = regs /\ members' = members /\ lapsed' = lapsed /\ regs[e] \in Reg
      BY <1>3 DEF Issue, RegTypeOK
    <2>2. CASE Asks(p, Waiting) /\ mailed' = mailed
      <3>1. Waiting \in Ask /\ \A f \in Emails : ~Starts(Waiting, f)
        BY DEF Ask, Waiting, Starts
      <3>2. begun' = begun
        BY <1>3, <2>2
      <3>. QED
        BY <1>0, <1>3, <2>1, <2>2, <3>1, <3>2 DEF Waiting
    <2>3. CASE \E ok \in BOOLEAN :
                 /\ Sends(regs[e]) < MaxSends /\ mailed < MaxCodes /\ mailed' = mailed + 1
                 /\ Asks(p, [pc |-> "mailed", email |-> e, saw |-> regs[e], why |-> why,
                             code |-> mailed', ok |-> ok])
      <3>1. PICK ok \in BOOLEAN :
              /\ Sends(regs[e]) < MaxSends /\ mailed < MaxCodes /\ mailed' = mailed + 1
              /\ Asks(p, [pc |-> "mailed", email |-> e, saw |-> regs[e], why |-> why,
                          code |-> mailed', ok |-> ok])
        BY <2>3
      <3>. DEFINE q == [pc |-> "mailed", email |-> e, saw |-> regs[e], why |-> why,
                        code |-> mailed + 1, ok |-> ok]
      <3>2. mailed' \in OtpCodes /\ mailed' \in 1..mailed'
        BY <3>1 DEF OtpCodes
      <3>3. q \in Ask /\ Asks(p, q)
        BY <1>3, <2>1, <3>1, <3>2 DEF Ask
      <3>4. \A f \in Emails : Starts(q, f) => Starts(asks[p], f)
        BY <1>3 DEF Starts
      <3>5. \A f \in Emails : regs[f].code \in 0..mailed /\ regs'[f].code \in 0..mailed'
        BY <2>1, <3>1 DEF CodesMailed
      <3>6. \A f \in Emails : MailedByStart(regs[f])' => MailedByStart(regs[f])
        BY <1>3, <2>1, <3>1, <3>5 DEF MailedByStart, ValidCode
      <3>7. why = "resend" => mailed + 1 \notin begun'
        BY <1>3 DEF RegTypeOK
      <3>8. q.pc = "mailed" =>
              /\ Sends(q.saw) < MaxSends /\ q.code \in 1..mailed'
              /\ q.why = "resend" => q.saw.status = "pending" /\ q.code \notin begun'
        <4>1. why = "resend" => regs[e].status = "pending"
          BY <1>3
        <4>. QED BY <3>1, <3>2, <3>7, <4>1
      <3>9. q.pc = "mailed"
        OBVIOUS
      <3>10. regs' \in [Emails -> Reg] /\ members' \in [Emails -> Member]
             /\ begun' \in {begun, begun \cup (mailed + 1)..mailed'}
        BY <1>3, <2>1 DEF RegTypeOK
      <3>. HIDE DEF q
      <3>. QED
        BY <1>3, <2>1, <3>1, <3>2, <3>3, <3>4, <3>5, <3>6, <3>8, <3>9, <3>10, RegRequestStep
    <2>4. Sends(regs[e]) \in Nat
      BY <2>1, RegAssumption DEF Sends, Reg
    <2>. QED BY <1>3, <2>2, <2>3, <2>4, RegAssumption DEF Issue
  <1>4. ASSUME NEW p \in Registrants, IssueForStart(p) PROVE RegInv'
    <2>1. /\ asks[p] \in Ask /\ asks[p].pc = "listed" /\ asks[p].email \in Emails
          /\ asks[p].plain \in BOOLEAN
      BY <1>4, AskFields DEF RegTypeOK, IssueForStart
    <2>2. asks[p].plain => ~MailedByStart(regs[asks[p].email])
      BY <2>1 DEF PlainStartsAlone
    <2>3. doubled' = FALSE
      BY <1>4, <2>2 DEF IssueForStart
    <2>4. Starts(asks[p], asks[p].email)
      BY <2>1 DEF Starts
    <2>5. Issue(p, asks[p].email, "start") /\ begun' = begun \cup (mailed + 1)..mailed'
      BY <1>4 DEF IssueForStart
    <2>. QED BY <1>3, <2>1, <2>3, <2>4, <2>5
  <1>5. ASSUME NEW p \in Registrants, ResendOtp(p) PROVE RegInv'
    BY <1>3, <1>5 DEF ResendOtp
  <1>6. ASSUME NEW p \in Registrants, NEW to \in Reg, NEW why \in {"start", "resend", "check"},
               asks[p].pc = IF why = "check" THEN "checking" ELSE "mailed",
               Writes(asks[p].email, asks[p].saw, to), Asks(p, Waiting),
               why \in {"start", "resend"} => asks[p].why = why,
               to.code \in {0, asks[p].saw.code} \/ (why # "check" /\ to.code = asks[p].code),
               to.status \in {asks[p].saw.status, "verified"} \/ why = "start",
               UNCHANGED <<members, lapsed, mailed, begun, doubled>>
        PROVE  RegInv'
    <2>. DEFINE e == asks[p].email
                saw == asks[p].saw
    <2>1. asks[p] \in Ask /\ e \in Emails /\ saw \in Reg
      BY <1>6, AskFields DEF RegTypeOK
    <2>2. /\ regs' \in [Emails -> Reg]
          /\ \A f \in Emails : f # e => regs'[f] = regs[f]
          /\ regs'[e].status = IF to.status # saw.status THEN to.status ELSE regs[e].status
          /\ regs'[e].code = IF to.code # saw.code THEN to.code ELSE regs[e].code
      BY <1>6, <2>1, FlushedRow
    <2>3. \A f \in Emails : regs'[f].code \in 0..mailed'
      <3>1. asks[p].pc = "mailed" => asks[p].code \in 1..mailed
        BY DEF RequestsKnow
      <3>. QED BY <1>6, <2>2, <3>1 DEF CodesMailed
    <2>4. \A f \in Emails : MailedByStart(regs[f])' => MailedByStart(regs[f]) \/ Starts(asks[p], f)
      <3>1. CASE why = "start"
        BY <1>6, <2>2, <3>1 DEF MailedByStart, ValidCode, Starts
      <3>2. CASE why # "start"
        <4>1. asks[p].pc = "mailed" => asks[p].code \notin begun
          BY <1>6, <3>2 DEF RequestsKnow
        <4>2. to.code # saw.code => to.code = 0 \/ to.code \notin begun
          BY <1>6, <4>1
        <4>3. regs'[e].status = "pending" => regs[e].status = "pending"
          BY <1>6, <2>2, <3>2
        <4>. QED BY <1>6, <2>2, <4>2, <4>3 DEF MailedByStart, ValidCode
      <3>. QED BY <3>1, <3>2
    <2>5. Waiting \in Ask /\ Waiting.pc = "idle" /\ \A f \in Emails : ~Starts(Waiting, f)
      BY DEF Ask, Waiting, Starts
    <2>6. members' \in [Emails -> Member] /\ mailed' \in OtpCodes
      BY <1>6 DEF RegTypeOK
    <2>. HIDE DEF e, saw
    <2>. QED BY <1>6, <2>2, <2>3, <2>4, <2>5, <2>6, RegRequestStep
  <1>7. ASSUME NEW p \in Registrants, StoreOtp(p) PROVE RegInv'
    <2>. DEFINE saw == asks[p].saw
                counted == [saw EXCEPT !.window = TRUE, !.sends = Sends(saw) + 1]
                coded == [counted EXCEPT !.code = asks[p].code, !.tries = 0, !.status = "pending"]
    <2>1. /\ asks[p] \in Ask /\ asks[p].pc = "mailed" /\ asks[p].email \in Emails
          /\ saw \in Reg /\ asks[p].why \in {"start", "resend"}
      BY <1>7, AskFields DEF RegTypeOK, StoreOtp
    <2>2. counted \in Reg /\ coded \in Reg
      BY <2>1, StoredRow DEF RequestsKnow
    <2>3. counted.code = saw.code /\ counted.status = saw.status
      BY <2>1 DEF Reg
    <2>4. coded.code = asks[p].code /\ coded.status = "pending"
      BY <2>1 DEF Reg
    <2>5. asks[p].why = "resend" => saw.status = "pending"
      BY <2>1 DEF RequestsKnow
    <2>6. \/ Writes(asks[p].email, saw, coded)
          \/ Writes(asks[p].email, saw, counted)
      BY <1>7 DEF StoreOtp
    <2>7. Asks(p, Waiting) /\ UNCHANGED <<members, lapsed, mailed, begun, doubled>>
      BY <1>7 DEF StoreOtp
    <2>. HIDE DEF counted, coded
    <2>. QED BY <1>6, <2>1, <2>2, <2>3, <2>4, <2>5, <2>6, <2>7
  <1>8. ASSUME NEW p \in Registrants, AnswerOtp(p) PROVE RegInv'
    <2>1. PICK to \in Reg :
            /\ Writes(asks[p].email, asks[p].saw, to)
            /\ to.code \in {0, asks[p].saw.code} /\ to.status \in {asks[p].saw.status, "verified"}
      BY <1>8, AnswerStores
    <2>2. asks[p].pc = "checking" /\ Asks(p, Waiting)
          /\ UNCHANGED <<members, lapsed, mailed, begun, doubled>>
      BY <1>8 DEF AnswerOtp
    <2>. QED BY <1>6, <2>1, <2>2
  <1>9. ASSUME NEW p \in Registrants, VerifyOtp(p) \/ SetPassword(p) \/ GiveUp(p) PROVE RegInv'
    <2>1. TheSame
      BY <1>9 DEF VerifyOtp, SetPassword, GiveUp
    <2>2. PICK q \in Ask : /\ Asks(p, q) /\ q.pc \in {"idle", "checking", "creating"}
                           /\ q.pc = "checking" => q.saw.status = "pending"
      <3>1. CASE VerifyOtp(p)
        BY <3>1 DEF VerifyOtp, RegTypeOK, Ask
      <3>2. CASE SetPassword(p)
        BY <3>2 DEF SetPassword, RegTypeOK, Ask
      <3>3. CASE GiveUp(p)
        BY <3>3 DEF GiveUp, Ask, Waiting
      <3>. QED BY <1>9, <3>1, <3>2, <3>3
    <2>3. \A e \in Emails : ~Starts(q, e)
      BY <2>2 DEF Starts
    <2>. QED BY <1>0, <2>1, <2>2, <2>3
  <1>10. ASSUME NEW p \in Registrants, CreateMember(p) PROVE RegInv'
    <2>. DEFINE e == asks[p].email
    <2>1. asks[p] \in Ask /\ asks[p].pc = "creating" /\ e \in Emails /\ asks[p].saw \in Reg
      BY <1>10, AskFields DEF RegTypeOK, CreateMember
    <2>2. /\ Asks(p, Waiting) /\ regs' = [regs EXCEPT ![e] = NoReg]
          /\ members' = [members EXCEPT ![e] = [status |-> "active", mobile |-> asks[p].saw.mobile]]
          /\ UNCHANGED <<lapsed, mailed, begun, doubled>>
      BY <1>10 DEF CreateMember
    <2>3. regs' \in [Emails -> Reg] /\ members' \in [Emails -> Member]
      BY <2>1, <2>2, RegRows DEF RegTypeOK, Reg, Member
    <2>4. \A f \in Emails : regs'[f] = regs[f] \/ (regs'[f].code = 0 /\ regs'[f].status = "none")
      BY <2>1, <2>2 DEF NoReg, RegTypeOK
    <2>5. \A f \in Emails : MailedByStart(regs[f])' => MailedByStart(regs[f])
      BY <2>2, <2>4 DEF MailedByStart, ValidCode
    <2>6. \A f \in Emails : regs'[f].code \in 0..mailed'
      BY <2>2, <2>4 DEF CodesMailed
    <2>7. Waiting \in Ask /\ Waiting.pc = "idle" /\ \A f \in Emails : ~Starts(Waiting, f)
      BY DEF Ask, Waiting, Starts
    <2>8. mailed' \in OtpCodes
      BY <2>2 DEF RegTypeOK
    <2>. HIDE DEF e
    <2>. QED BY <2>2, <2>3, <2>5, <2>6, <2>7, <2>8, RegRequestStep
  <1>11. ASSUME asks' = asks, mailed' = mailed, begun' = begun, doubled' = doubled,
                members' \in [Emails -> Member], regs' \in [Emails -> Reg],
                lapsed \subseteq lapsed', lapsed' \subseteq OtpCodes,
                \A e \in Emails : regs'[e].status = regs[e].status /\ regs'[e].code = regs[e].code
         PROVE  RegInv'
    <2>1. RegTypeOK'
      BY <1>11 DEF RegTypeOK
    <2>2. RequestsKnow'
      BY <1>11 DEF RequestsKnow, Sends
    <2>3. CodesMailed'
      BY <1>11 DEF CodesMailed
    <2>4. StartsTakeTurns'
      BY <1>11 DEF RegInv, StartsTakeTurns, Starts
    <2>5. \A e \in Emails : MailedByStart(regs[e])' => MailedByStart(regs[e])
      BY <1>11 DEF MailedByStart, ValidCode
    <2>6. PlainStartsAlone'
      <3>. SUFFICES ASSUME NEW o \in Registrants, NEW e \in Emails, asks'[o].email = e,
                           asks'[o].pc \in {"starting", "listed"}, asks'[o].plain
                    PROVE  ~MailedByStart(regs[e])'
        <4>1. \A o \in Registrants : asks'[o].pc \in {"starting", "listed"} => asks'[o].email \in Emails
          BY <1>11, AskFields DEF RegTypeOK
        <4>. QED BY <4>1 DEF PlainStartsAlone
      <3>. QED BY <1>11, <2>5 DEF PlainStartsAlone
    <2>7. StartsMailOnce'
      BY <1>11 DEF StartsMailOnce
    <2>. QED BY <2>1, <2>2, <2>3, <2>4, <2>6, <2>7 DEF RegInv
  <1>12. CASE UpdateMember
    <2>1. members' \in [Emails -> Member]
      <3>1. PICK e \in Emails, to \in {"active", "off"} :
              members' = [members EXCEPT ![e] = [status |-> to, mobile |-> @.mobile]]
        BY <1>12 DEF UpdateMember
      <3>2. [status |-> to, mobile |-> members[e].mobile] \in Member
        BY DEF RegTypeOK, Member
      <3>. QED BY <3>1, <3>2 DEF RegTypeOK
    <2>. QED BY <1>11, <1>12, <2>1 DEF UpdateMember, RegTypeOK
  <1>13. CASE Lapse
    <2>1. lapsed \subseteq lapsed' /\ lapsed' \subseteq OtpCodes
      BY <1>13 DEF Lapse, RegTypeOK, OtpCodes
    <2>2. /\ regs' \in [Emails -> Reg]
          /\ \A e \in Emails : regs'[e].status = regs[e].status /\ regs'[e].code = regs[e].code
      <3>1. CASE regs' = regs
        BY <3>1 DEF RegTypeOK
      <3>2. CASE \E e \in Emails : regs' = [regs EXCEPT ![e] = [@ EXCEPT !.window = FALSE]]
        <4>1. PICK e \in Emails : regs' = [regs EXCEPT ![e] = [regs[e] EXCEPT !.window = FALSE]]
          BY <3>2
        <4>2. regs[e] \in Reg
          BY DEF RegTypeOK
        <4>3. /\ [regs[e] EXCEPT !.window = FALSE] \in Reg
              /\ [regs[e] EXCEPT !.window = FALSE].status = regs[e].status
              /\ [regs[e] EXCEPT !.window = FALSE].code = regs[e].code
          BY <4>2 DEF Reg
        <4>. QED BY <4>1, <4>3 DEF RegTypeOK
      <3>. QED BY <1>13, <3>1, <3>2 DEF Lapse
    <2>. QED BY <1>11, <1>13, <2>1, <2>2 DEF Lapse, RegTypeOK
  <1>14. CASE UNCHANGED regVars
    BY <1>11, <1>14 DEF regVars, RegTypeOK
  <1>. QED
    BY <1>1, <1>2, <1>4, <1>5, <1>7, <1>8, <1>9, <1>10, <1>12, <1>13, <1>14 DEF RegNext

(* Every variable of Registration keeps its type.                          *)
THEOREM RegTypeCorrect == RegSpec => []RegTypeOK
  <1>1. RegInv => RegTypeOK
    BY DEF RegInv
  <1>. QED BY <1>1, RegStarts, RegKeeps, PTL DEF RegSpec

(* However many starts for one address meet, resends between them, a plain *)
(* start mails no code beside a valid one of an earlier start.             *)
THEOREM StartsAreSingle == RegSpec => []StartsMailOnce
  <1>1. RegInv => StartsMailOnce
    BY DEF RegInv
  <1>. QED BY <1>1, RegStarts, RegKeeps, PTL DEF RegSpec

(* A verified address is made unverified by nothing but a start that       *)
(* commits: a resend or a check that read it while it was pending does not *)
(* write its status back.                                                  *)
THEOREM VerifiedLasts == RegSpec => VerifiedStays
  <1>. DEFINE Stays == \A e \in Emails :
         regs[e].status = "verified" /\ regs'[e].status = "pending" => StartCommits(e)
  <1>1. RegInv /\ [RegNext]_regVars => [Stays]_regVars
    <2>. SUFFICES ASSUME RegInv, [RegNext]_regVars, NEW e \in Emails,
                         regs[e].status = "verified", regs'[e].status = "pending"
                  PROVE  StartCommits(e)
      OBVIOUS
    <2>. RegTypeOK /\ RequestsKnow
      BY DEF RegInv
    <2>1. ASSUME NEW p \in Registrants, NEW to \in Reg, asks[p] \in Ask, asks[p].pc # "idle",
                 asks[p].saw \in Reg, Writes(asks[p].email, asks[p].saw, to),
                 to.status \in {asks[p].saw.status, "verified"}
          PROVE  FALSE
      <3>1. asks[p].email \in Emails
        BY <2>1, AskFields
      <3>2. \A f \in Emails : f # asks[p].email => regs'[f] = regs[f]
        BY <2>1, <3>1, FlushedRow
      <3>3. regs'[asks[p].email].status \in {regs[asks[p].email].status, "verified"}
        BY <2>1, <3>1, FlushedRow
      <3>. QED BY <3>2, <3>3
    <2>2. ASSUME NEW p \in Registrants, ListRegistration(p) PROVE StartCommits(e)
      <3>1. /\ asks[p] \in Ask /\ asks[p].pc = "starting" /\ asks[p].saw \in Reg
            /\ asks[p].mobile \in Mobiles /\ asks[p].email \in Emails
        BY <2>2, AskFields DEF RegTypeOK, ListRegistration
      <3>2. CASE asks[p].saw.status = "none"
        <4>1. regs[asks[p].email].status = "none"
              /\ \A f \in Emails : f # asks[p].email => regs'[f] = regs[f]
          BY <2>2, <3>1, <3>2 DEF ListRegistration, RegTypeOK
        <4>. QED BY <4>1
      <3>3. CASE asks[p].saw.status # "none"
        <4>. DEFINE to == [asks[p].saw EXCEPT !.mobile = asks[p].mobile]
        <4>1. to \in Reg /\ to.status = asks[p].saw.status
          BY <3>1 DEF Reg
        <4>2. Writes(asks[p].email, asks[p].saw, to)
          BY <2>2, <3>3 DEF ListRegistration
        <4>. HIDE DEF to
        <4>. QED BY <2>1, <3>1, <4>1, <4>2
      <3>. QED BY <3>2, <3>3
    <2>3. ASSUME NEW p \in Registrants, StoreOtp(p) PROVE StartCommits(e)
      <3>. DEFINE saw == asks[p].saw
                  counted == [saw EXCEPT !.window = TRUE, !.sends = Sends(saw) + 1]
                  coded == [counted EXCEPT !.code = asks[p].code, !.tries = 0, !.status = "pending"]
      <3>1. /\ asks[p] \in Ask /\ asks[p].pc = "mailed" /\ saw \in Reg /\ asks[p].email \in Emails
            /\ asks[p].why \in {"start", "resend"}
        BY <2>3, AskFields DEF RegTypeOK, StoreOtp
      <3>2. counted \in Reg /\ coded \in Reg
        BY <3>1, StoredRow DEF RequestsKnow
      <3>3. counted.status = saw.status /\ coded.status = "pending"
        BY <3>1 DEF Reg
      <3>4. Writes(asks[p].email, saw, coded) \/ Writes(asks[p].email, saw, counted)
        BY <2>3 DEF StoreOtp
      <3>5. asks'[p] = Waiting
        BY <2>3 DEF StoreOtp, Asks, RegTypeOK
      <3>6. CASE asks[p].why = "start" /\ asks[p].email = e
        BY <3>1, <3>5, <3>6 DEF StartCommits
      <3>7. CASE asks[p].email # e
        <4>1. \A f \in Emails : f # asks[p].email => regs'[f] = regs[f]
          BY <3>1, <3>2, <3>4, FlushedRow
        <4>. QED BY <3>7, <4>1
      <3>8. CASE asks[p].why = "resend"
        <4>1. saw.status = "pending"
          BY <3>1, <3>8 DEF RequestsKnow
        <4>. HIDE DEF saw, counted, coded
        <4>. QED BY <2>1, <3>1, <3>2, <3>3, <3>4, <4>1 DEF saw
      <3>. QED BY <3>1, <3>6, <3>7, <3>8
    <2>4. ASSUME NEW p \in Registrants, AnswerOtp(p) PROVE StartCommits(e)
      <3>1. asks[p] \in Ask /\ asks[p].pc = "checking" /\ asks[p].saw \in Reg
        BY <2>4, AskFields DEF RegTypeOK, AnswerOtp
      <3>. QED BY <2>1, <2>4, <3>1, AnswerStores
    <2>5. ASSUME NEW p \in Registrants, CreateMember(p) PROVE StartCommits(e)
      <3>1. regs' = [regs EXCEPT ![asks[p].email] = NoReg] /\ NoReg.status # "pending"
        BY <2>5 DEF CreateMember, NoReg
      <3>. QED BY <3>1 DEF RegTypeOK
    <2>6. CASE Lapse
      <3>1. \A f \in Emails : regs'[f].status = regs[f].status
        <4>1. CASE regs' = regs
          BY <4>1
        <4>2. ASSUME NEW f \in Emails, regs' = [regs EXCEPT ![f] = [regs[f] EXCEPT !.window = FALSE]]
              PROVE  \A g \in Emails : regs'[g].status = regs[g].status
          <5>1. [regs[f] EXCEPT !.window = FALSE].status = regs[f].status
            BY DEF RegTypeOK, Reg
          <5>. QED BY <4>2, <5>1 DEF RegTypeOK
        <4>. QED BY <2>6, <4>1, <4>2 DEF Lapse
      <3>. QED BY <3>1
    <2>7. CASE UNCHANGED regs
      BY <2>7
    <2>. QED
      BY <2>2, <2>3, <2>4, <2>5, <2>6, <2>7
      DEF RegNext, StartRegistration, IssueForStart, ResendOtp, Issue, VerifyOtp, SetPassword,
        GiveUp, UpdateMember, regVars
  <1>2. VerifiedStays <=> [][Stays]_regVars
    BY DEF VerifiedStays
  <1>. QED BY <1>1, <1>2, RegStarts, RegKeeps, PTL DEF RegSpec

-------------------------------------------------------------------------------
(* Student and staff accounts.                                             *)

LEMMA MaxOfCodes ==
  ASSUME NEW n \in Nat, NEW S, S \subseteq 0..n, S # {}
  PROVE  Max(S) \in S
  <1>. DEFINE T == {m \in Nat : \E x \in S : x + m = n}
  <1>1. T \subseteq Nat /\ T # {}
    <2>1. PICK x \in S : TRUE
      OBVIOUS
    <2>2. n - x \in T
      BY <2>1
    <2>. QED BY <2>2
  <1>2. PICK m \in T : \A i \in T : ~ (<<i, m>> \in OpToRel(<, Nat))
    BY <1>1, NatLessThanWellFounded, WFMin
  <1>3. PICK x \in S : x + m = n
    BY <1>2
  <1>4. ASSUME NEW y \in S PROVE x >= y
    <2>1. n - y \in T
      OBVIOUS
    <2>2. ~(n - y < m)
      BY <1>2, <2>1 DEF OpToRel
    <2>. QED BY <1>3, <2>2
  <1>. QED BY <1>3, <1>4 DEF Max

LEMMA ErrandFields ==
  ASSUME NEW q \in Errand
  PROVE  /\ q.pc \in {"idle", "create", "update", "delete", "dismiss", "enroll"}
         /\ q.pc = "idle" => q = Unoccupied
         /\ q.pc = "create" => /\ q.login \in Logins /\ q.program \in Programs /\ q.code \in 1..MaxCode
                               /\ q.role \in {"student", "staff"}
         /\ q.pc = "update" => /\ q.who \in Pupils /\ q.saw \in Roll /\ q.had \in [Programs -> Place]
                               /\ q.change \in Change
         /\ q.pc = "delete" => q.who \in Pupils /\ q.saw \in Roll /\ q.related \in BOOLEAN
         /\ q.pc = "dismiss" => q.who \in Pupils /\ q.related \in BOOLEAN
         /\ q.pc = "enroll" => q.program \in Programs /\ q.who \subseteq Pupils /\ q.status \in Place
  BY DEF Errand, Unoccupied

LEMMA EntryFields ==
  ASSUME NEW e \in Entry
  PROVE  \/ e = Out /\ e.pc = "out"
         \/ /\ e # Out /\ e.pc \in {"checked", "in"} /\ e.who \in Pupils /\ e.key \in 0..MaxResets
            /\ e.late \in BOOLEAN
  BY DEF Entry, Out

(* Only a trainer has records of one's own, and only an account has any.   *)
RecordsFit ==
  \A u \in Pupils :
    /\ "own" \in records[u] => rolls[u].role = "staff"
    /\ records[u] # {} => rolls[u].at # "none"
(* What a deletion is about; a trainer's row is locked from the look at    *)
(* its records.                                                            *)
DesksKnow ==
  \A d \in Desks :
    LET q == desks[d] IN
    /\ q.pc = "delete" => rolls[q.who].at # "none" /\ rolls[q.who].role = "student"
    /\ q.pc = "dismiss" /\ ~q.related => records[q.who] \subseteq GoingAlong
(* Every login that is not late has the account as it is.                  *)
EntriesCurrent ==
  \A l \in Entrances :
    LET e == entries[l] IN
    e # Out /\ ~e.late =>
      LET u == rolls[e.who] IN u.at = "here" /\ u.active /\ u.key = e.key
RollInv ==
  /\ RollTypeOK /\ rollPlan \in RollPlans
  /\ RecordsFit /\ DesksKnow /\ EntriesCurrent /\ DeletionKeepsRecords

LEMMA RollStarts == RollInit => RollInv
  <1>. SUFFICES ASSUME RollInit PROVE RollInv
    OBVIOUS
  <1>1. Unoccupied \in Errand /\ Unoccupied.pc = "idle" /\ Out \in Entry
    BY DEF Unoccupied, Errand, Out, Entry
  <1>2. rollPlan \in RollPlans /\ rolls \in [Pupils -> Roll] /\ places \in [Pupils -> [Programs -> Place]]
    BY RollAssumption DEF RollInit
  <1>3. /\ catalog \subseteq Programs /\ records \in [Pupils -> SUBSET Kinds]
        /\ desks \in [Desks -> Errand] /\ entries \in [Entrances -> Entry]
        /\ losses \subseteq {"student", "staff"} \X Kinds
    BY <1>1 DEF RollInit
  <1>4. RollTypeOK
    BY <1>2, <1>3 DEF RollTypeOK
  <1>. QED
    BY <1>1, <1>2, <1>4
    DEF RollInit, RollInv, RecordsFit, DesksKnow, EntriesCurrent, DeletionKeepsRecords

(* A request only looks.                                                   *)
LEMMA RollLooks ==
  ASSUME RollInv, NEW d \in Desks, NEW q \in Errand, Holds(d, q),
         UNCHANGED <<rollRows, entries, rollPlan, losses>>,
         q.pc = "delete" => rolls[q.who].at # "none" /\ rolls[q.who].role = "student",
         q.pc = "dismiss" /\ ~q.related => records[q.who] \subseteq GoingAlong
  PROVE  RollInv'
  <1>1. UNCHANGED <<rolls, catalog, places, records>>
    BY DEF rollRows
  <1>2. /\ desks' \in [Desks -> Errand]
        /\ \A c \in Desks : desks'[c] = IF c = d THEN q ELSE desks[c]
    BY DEF Holds, RollInv, RollTypeOK
  <1>3. RollTypeOK'
    BY <1>1, <1>2 DEF RollInv, RollTypeOK
  <1>4. DesksKnow'
    BY <1>1, <1>2 DEF RollInv, DesksKnow, GoingAlong
  <1>5. RecordsFit' /\ EntriesCurrent' /\ DeletionKeepsRecords'
    BY <1>1 DEF RollInv, RecordsFit, EntriesCurrent, DeletionKeepsRecords
  <1>. QED BY <1>3, <1>4, <1>5 DEF RollInv

(* A commit: accounts are not forgotten, records only disappear.           *)
LEMMA RollCommits ==
  ASSUME RollInv, NEW d \in Desks, Holds(d, Unoccupied) \/ desks' = desks, rollPlan' = rollPlan,
         rolls' \in [Pupils -> Roll], catalog' \subseteq Programs,
         places' \in [Pupils -> [Programs -> Place]], records' \in [Pupils -> SUBSET Kinds],
         entries' \in [Entrances -> Entry], losses' \subseteq Cascaded,
         \A u \in Pupils : rolls[u].at # "none" => rolls'[u].at # "none" /\ rolls'[u].role = rolls[u].role,
         \A u \in Pupils : records'[u] \subseteq records[u],
         EntriesCurrent'
  PROVE  RollInv'
  <1>1. Unoccupied \in Errand /\ Unoccupied.pc = "idle"
    BY DEF Errand, Unoccupied
  <1>2. /\ desks' \in [Desks -> Errand]
        /\ \A c \in Desks : desks'[c] = Unoccupied \/ desks'[c] = desks[c]
    BY <1>1 DEF Holds, RollInv, RollTypeOK
  <1>3. RollTypeOK'
    BY <1>2 DEF RollInv, RollTypeOK, Kinds, Cascaded
  <1>4. DesksKnow'
    <2>. SUFFICES ASSUME NEW c \in Desks, desks'[c] = desks[c]
                  PROVE  /\ desks[c].pc = "delete" =>
                              rolls'[desks[c].who].at # "none" /\ rolls'[desks[c].who].role = "student"
                         /\ desks[c].pc = "dismiss" /\ ~desks[c].related =>
                              records'[desks[c].who] \subseteq GoingAlong
      BY <1>1, <1>2 DEF DesksKnow, GoingAlong
    <2>1. desks[c].pc \in {"delete", "dismiss"} => desks[c].who \in Pupils
      BY ErrandFields DEF RollInv, RollTypeOK
    <2>. QED BY <2>1 DEF RollInv, DesksKnow
  <1>5. RecordsFit'
    <2>. SUFFICES ASSUME NEW u \in Pupils, records'[u] # {}
                  PROVE  /\ "own" \in records'[u] => rolls'[u].role = "staff"
                         /\ rolls'[u].at # "none"
      BY DEF RecordsFit
    <2>. QED BY DEF RollInv, RecordsFit
  <1>. QED BY <1>3, <1>4, <1>5 DEF RollInv, DeletionKeepsRecords

(* Ending the sessions leaves no login of the account that is not late.    *)
LEMMA RevokedEntries ==
  ASSUME RollTypeOK, NEW u \in Pupils, NEW found
  PROVE  /\ RevokedOf(u, found) \in [Entrances -> Entry]
         /\ \A l \in Entrances :
              /\ RevokedOf(u, found)[l] # Out /\ ~RevokedOf(u, found)[l].late => RevokedOf(u, found)[l] = entries[l]
              /\ RevokedOf(u, found)[l] # Out /\ ~RevokedOf(u, found)[l].late => entries[l].who # u
  <1>1. ASSUME NEW l \in Entrances
        PROVE  /\ RevokedOf(u, found)[l] \in Entry
               /\ RevokedOf(u, found)[l] # Out /\ ~RevokedOf(u, found)[l].late =>
                    RevokedOf(u, found)[l] = entries[l] /\ entries[l].who # u
    <2>. DEFINE e == entries[l]
                late == [e EXCEPT !.late = TRUE]
    <2>1. e \in Entry /\ Out \in Entry
      BY DEF RollTypeOK, Entry, Out
    <2>2. e # Out => late \in Entry /\ late.late
      BY <2>1 DEF Entry, Out
    <2>3. RevokedOf(u, found)[l] = IF e = Out \/ e.who # u THEN e
                               ELSE IF l \in found THEN Out ELSE late
      BY DEF RevokedOf
    <2>. HIDE DEF e, late
    <2>. QED BY <2>1, <2>2, <2>3 DEF e
  <1>. QED BY <1>1 DEF RevokedOf

(* Revoking lets the account change as it will.                            *)
LEMMA RevokingKeepsCurrent ==
  ASSUME RollInv, NEW u \in Pupils, NEW found, entries' = RevokedOf(u, found),
         \A v \in Pupils : v # u => rolls'[v] = rolls[v]
  PROVE  entries' \in [Entrances -> Entry] /\ EntriesCurrent'
  <1>1. entries' \in [Entrances -> Entry]
    BY RevokedEntries DEF RollInv
  <1>2. ASSUME NEW l \in Entrances, entries'[l] # Out, ~entries'[l].late
        PROVE  LET r == rolls'[entries'[l].who] IN r.at = "here" /\ r.active /\ r.key = entries'[l].key
    <2>1. entries'[l] = entries[l] /\ entries[l].who # u
      BY <1>2, RevokedEntries DEF RollInv
    <2>2. entries[l].who \in Pupils
      BY <1>2, <2>1, EntryFields DEF RollInv, RollTypeOK
    <2>. QED BY <1>2, <2>1, <2>2 DEF RollInv, EntriesCurrent
  <1>. QED BY <1>1, <1>2 DEF EntriesCurrent

LEMMA StayingKeepsCurrent ==
  ASSUME RollInv, entries' = entries,
         \A u \in Pupils :
           rolls[u].at = "here" /\ rolls[u].active =>
             rolls'[u].at = "here" /\ rolls'[u].active /\ rolls'[u].key = rolls[u].key
  PROVE  entries' \in [Entrances -> Entry] /\ EntriesCurrent'
  <1>1. \A l \in Entrances : entries[l] # Out => entries[l].who \in Pupils
    BY EntryFields DEF RollInv, RollTypeOK
  <1>. QED BY <1>1 DEF RollInv, RollTypeOK, EntriesCurrent

LEMMA NextCodeFits ==
  ASSUME RollTypeOK, NEW role
  PROVE  NextCode(role) \in Nat \ {0}
  <1>. DEFINE S == {0} \cup {rolls[u].code : u \in AccountsOf(role)}
  <1>1. S \subseteq 0..MaxCode /\ MaxCode \in Nat
    BY RollAssumption DEF RollTypeOK, Roll, AccountsOf
  <1>2. Max(S) \in S
    BY <1>1, MaxOfCodes
  <1>. QED BY <1>1, <1>2 DEF NextCode

LEMMA RollKeeps == RollInv /\ [RollNext]_rollVars => RollInv'
  <1>. SUFFICES ASSUME RollInv, [RollNext]_rollVars PROVE RollInv'
    OBVIOUS
  <1>. /\ RollTypeOK /\ rollPlan \in RollPlans /\ RecordsFit /\ DesksKnow /\ EntriesCurrent
       /\ losses \subseteq Cascaded
    BY DEF RollInv, DeletionKeepsRecords
  <1>. Unoccupied \in Errand /\ Unoccupied.pc = "idle"
    BY DEF Errand, Unoccupied
  <1>1. ASSUME NEW d \in Desks, NEW role \in {"student", "staff"}, NEW programs \in SUBSET Programs,
               AssignsCode(d, role, programs)
        PROVE  RollInv'
    <2>1. PICK n \in Logins, g \in programs :
            Holds(d, [pc |-> "create", login |-> n, program |-> g, code |-> NextCode(role), role |-> role])
      BY <1>1 DEF AssignsCode
    <2>. DEFINE q == [pc |-> "create", login |-> n, program |-> g, code |-> NextCode(role), role |-> role]
    <2>2. NextCode(role) \in 1..MaxCode
      BY <1>1, NextCodeFits, RollAssumption DEF AssignsCode
    <2>3. q \in Errand
      BY <2>2 DEF Errand
    <2>. QED BY <1>1, <2>1, <2>3, RollLooks DEF AssignsCode
  <1>2. ASSUME NEW d \in Desks, AssignCode(d) \/ AssignStaffCode(d) PROVE RollInv'
    <2>1. catalog \in SUBSET Programs /\ {CHOOSE g \in Programs : TRUE} \in SUBSET Programs
      BY RollAssumption DEF RollTypeOK
    <2>. QED BY <1>1, <1>2, <2>1 DEF AssignCode, AssignStaffCode
  <1>3. ASSUME NEW d \in Desks, CreateAccount(d) PROVE RollInv'
    <2>. DEFINE q == desks[d]
                row == [at |-> "here", login |-> q.login, code |-> q.code, active |-> TRUE,
                        key |-> 0, program |-> q.program, role |-> q.role]
    <2>1. q \in Errand /\ q.pc = "create"
      BY <1>3 DEF CreateAccount, RollTypeOK
    <2>2. row \in Roll
      <3>1. q.code \in 0..MaxCode /\ 0 \in 0..MaxResets
        BY <2>1, ErrandFields, RollAssumption
      <3>. QED BY <2>1, <3>1, ErrandFields DEF Roll
    <2>3. PICK u \in Pupils :
            /\ rolls[u].at = "none" /\ (rolls' = rolls \/ rolls' = [rolls EXCEPT ![u] = row])
            /\ places' = places \/ places' = [places EXCEPT ![u] = [places[u] EXCEPT ![q.program] = "current"]]
      BY <1>3 DEF CreateAccount
    <2>4. rolls' \in [Pupils -> Roll] /\ places' \in [Pupils -> [Programs -> Place]]
      <3>1. rolls' \in [Pupils -> Roll]
        <4>. HIDE DEF row, q
        <4>. QED BY <2>2, <2>3 DEF RollTypeOK
      <3>2. q.program \in Programs /\ "current" \in Place
        BY <2>1, ErrandFields DEF Place
      <3>. HIDE DEF q, row
      <3>3. [places[u] EXCEPT ![q.program] = "current"] \in [Programs -> Place]
        BY <3>2 DEF RollTypeOK
      <3>. QED BY <2>3, <3>1, <3>3 DEF RollTypeOK
    <2>5. \A v \in Pupils : rolls[v].at # "none" => rolls'[v] = rolls[v]
      BY <2>3 DEF RollTypeOK
    <2>6. Holds(d, Unoccupied) /\ UNCHANGED <<catalog, records, entries, rollPlan, losses>>
      BY <1>3 DEF CreateAccount
    <2>7. entries' \in [Entrances -> Entry] /\ EntriesCurrent'
      BY <2>5, <2>6, StayingKeepsCurrent
    <2>. QED BY <2>4, <2>5, <2>6, <2>7, RollCommits DEF RollTypeOK
  <1>4. ASSUME NEW d \in Desks, LoadStudent(d) \/ LoadStaff(d) PROVE RollInv'
    <2>1. PICK u \in Pupils, change \in rollPlan.changes :
            Holds(d, [pc |-> "update", who |-> u, saw |-> rolls[u], had |-> places[u],
                      change |-> change, ended |-> FALSE, found |-> {}])
      BY <1>4 DEF LoadStudent, LoadStaff, LoadsAccount, Enrolled, AccountsOf
    <2>. DEFINE q == [pc |-> "update", who |-> u, saw |-> rolls[u], had |-> places[u],
                      change |-> change, ended |-> FALSE, found |-> {}]
    <2>2. q \in Errand
      BY RollAssumption DEF Errand, RollTypeOK
    <2>3. UNCHANGED <<rollRows, entries, rollPlan, losses>>
      BY <1>4 DEF LoadStudent, LoadStaff, LoadsAccount
    <2>. QED BY <2>1, <2>2, <2>3, RollLooks
  <1>5. ASSUME NEW d \in Desks, UpdateAccount(d) PROVE RollInv'
    <2>. DEFINE q == desks[d]
                u == q.who
                to == q.change.to
                now == rolls[u]
                moved == [now EXCEPT !.program = Sets(to, q.saw.program, now.program)]
                set == [moved EXCEPT !.active = Sets(q.change.active, q.saw.active, now.active)]
                row == [set EXCEPT !.key = IF q.change.reset THEN now.key + 1 ELSE now.key]
    <2>1. /\ q \in Errand /\ q.pc = "update" /\ u \in Pupils /\ q.saw \in Roll /\ q.change \in Change
          /\ now \in Roll /\ now.at = "here" /\ (q.change.reset => now.key < MaxResets)
          /\ rolls' = [rolls EXCEPT ![u] = row]
          /\ Holds(d, Unoccupied) /\ UNCHANGED <<catalog, records, rollPlan, losses>>
      BY <1>5, ErrandFields DEF UpdateAccount, RollTypeOK
    <2>2. /\ Sets(to, q.saw.program, now.program) \in Programs
          /\ Sets(q.change.active, q.saw.active, now.active) \in BOOLEAN
          /\ q.change.active # FALSE /\ now.active => Sets(q.change.active, q.saw.active, now.active)
      BY <2>1 DEF Sets, Change, Roll
    <2>3. moved \in Roll /\ moved.at = "here" /\ moved.role = now.role /\ moved.key = now.key
      BY <2>1, <2>2 DEF Roll
    <2>4. /\ set \in Roll /\ set.at = "here" /\ set.role = now.role /\ set.key = now.key
          /\ set.active = Sets(q.change.active, q.saw.active, now.active)
      BY <2>2, <2>3 DEF Roll
    <2>5. (IF q.change.reset THEN now.key + 1 ELSE now.key) \in 0..MaxResets
      BY <2>1, RollAssumption DEF Roll
    <2>6. /\ row \in Roll /\ row.at = "here" /\ row.role = now.role /\ row.active = set.active
          /\ row.key = IF q.change.reset THEN now.key + 1 ELSE now.key
      BY <2>4, <2>5 DEF Roll
    <2>7. places' \in [Pupils -> [Programs -> Place]]
      <3>1. places' = places \/ places' = [places EXCEPT ![u] = [places[u] EXCEPT ![to] =
                                             PlaceAfter(q.had[to], places[u][to])]]
        BY <1>5 DEF UpdateAccount
      <3>2. \A g \in Programs : PlaceAfter(q.had[g], places[u][g]) \in Place
        BY <2>1 DEF PlaceAfter, RollTypeOK, Place
      <3>3. CASE to \in Programs
        <4>. DEFINE p == PlaceAfter(q.had[to], places[u][to])
        <4>1. p \in Place /\ places[u] \in [Programs -> Place]
          BY <2>1, <3>2, <3>3 DEF RollTypeOK
        <4>2. places' = places \/ places' = [places EXCEPT ![u] = [places[u] EXCEPT ![to] = p]]
          BY <3>1
        <4>. HIDE DEF p, u, to
        <4>3. [places[u] EXCEPT ![to] = p] \in [Programs -> Place]
          BY <4>1
        <4>. QED BY <4>2, <4>3 DEF RollTypeOK
      <3>4. CASE to \notin Programs
        BY <2>1, <3>1, <3>4 DEF RollTypeOK
      <3>. QED BY <3>3, <3>4
    <2>8. /\ rolls' \in [Pupils -> Roll] /\ rolls'[u] = row
          /\ \A v \in Pupils : v # u => rolls'[v] = rolls[v]
      BY <2>1, <2>6 DEF RollTypeOK
    <2>9. entries' \in [Entrances -> Entry] /\ EntriesCurrent'
      <3>1. CASE EndsSessions(q.change)
        <4>1. entries' = RevokedOf(u, q.found)
          BY <1>5, <3>1 DEF UpdateAccount
        <4>. QED BY <2>1, <2>8, <4>1, RevokingKeepsCurrent
      <3>2. CASE ~EndsSessions(q.change)
        <4>1. entries' = entries /\ ~q.change.reset /\ q.change.active # FALSE
          BY <1>5, <3>2 DEF UpdateAccount, EndsSessions
        <4>2. rolls'[u].at = "here" /\ rolls'[u].key = rolls[u].key
              /\ (rolls[u].active => rolls'[u].active)
          BY <2>2, <2>4, <2>6, <2>8, <4>1
        <4>. HIDE DEF u
        <4>. QED BY <2>8, <4>1, <4>2, StayingKeepsCurrent
      <3>. QED BY <3>1, <3>2
    <2>10. \A v \in Pupils : rolls[v].at # "none" => rolls'[v].at # "none" /\ rolls'[v].role = rolls[v].role
      <3>. HIDE DEF row, u
      <3>. QED BY <2>6, <2>8
    <2>. QED BY <2>1, <2>7, <2>8, <2>9, <2>10, RollCommits DEF RollTypeOK
  <1>6. ASSUME NEW d \in Desks, RevokeStudentSessions(d) PROVE RollInv'
    <2>1. PICK u \in Pupils : entries' = [l \in Entrances |-> IF l \in EntriesOf(u) THEN Out ELSE entries[l]]
      BY <1>6 DEF RevokeStudentSessions, Enrolled, AccountsOf
    <2>2. UNCHANGED <<rolls, catalog, places, records, desks, rollPlan, losses>>
      BY <1>6 DEF RevokeStudentSessions, rollRows
    <2>3. Out \in Entry
      BY DEF Entry, Out
    <2>4. entries' \in [Entrances -> Entry] /\ EntriesCurrent'
      BY <2>1, <2>2, <2>3 DEF EntriesCurrent, RollTypeOK
    <2>. QED BY <2>2, <2>4, RollCommits DEF RollTypeOK
  <1>7. ASSUME NEW d \in Desks, CheckRecords(d) PROVE RollInv'
    <2>1. PICK u \in Enrolled :
            Holds(d, [pc |-> "delete", who |-> u, saw |-> rolls[u], related |-> HasRelatedRecords(u),
                      ended |-> FALSE, found |-> {}])
      BY <1>7 DEF CheckRecords
    <2>. DEFINE q == [pc |-> "delete", who |-> u, saw |-> rolls[u], related |-> HasRelatedRecords(u),
                      ended |-> FALSE, found |-> {}]
    <2>2. u \in Pupils /\ rolls[u].at = "here" /\ rolls[u].role = "student"
      BY DEF Enrolled, AccountsOf
    <2>3. HasRelatedRecords(u) \in BOOLEAN
      BY DEF HasRelatedRecords
    <2>4. q \in Errand
      BY <2>2, <2>3 DEF Errand, RollTypeOK
    <2>. QED BY <1>7, <2>1, <2>2, <2>4, RollLooks DEF CheckRecords
  <1>8. ASSUME NEW d \in Desks, CheckStaffRecords(d) PROVE RollInv'
    <2>1. PICK u \in AccountsOf("staff") :
            Holds(d, [pc |-> "dismiss", who |-> u, related |-> ~(records[u] \subseteq GoingAlong)])
      BY <1>8 DEF CheckStaffRecords
    <2>. DEFINE q == [pc |-> "dismiss", who |-> u, related |-> ~(records[u] \subseteq GoingAlong)]
    <2>2. u \in Pupils
      BY DEF AccountsOf
    <2>3. q \in Errand
      BY <2>2 DEF Errand
    <2>. QED BY <1>8, <2>1, <2>3, RollLooks DEF CheckStaffRecords
  <1>9. ASSUME NEW d \in Desks, LoadEnrollment(d) PROVE RollInv'
    <2>1. PICK g \in catalog, who \in SUBSET Enrolled, s \in {"current", "lapsed"} :
            Holds(d, [pc |-> "enroll", program |-> g, status |-> s,
                      who |-> {u \in who : places[u][g] = "none"}])
      BY <1>9 DEF LoadEnrollment
    <2>. DEFINE q == [pc |-> "enroll", program |-> g, status |-> s,
                      who |-> {u \in who : places[u][g] = "none"}]
    <2>2. q \in Errand
      BY DEF Errand, Place, Enrolled, AccountsOf, RollTypeOK
    <2>. QED BY <1>9, <2>1, <2>2, RollLooks DEF LoadEnrollment
  <1>10. ASSUME NEW d \in Desks, GivesUp(d) PROVE RollInv'
    BY <1>10, RollLooks DEF GivesUp
  <1>11. ASSUME NEW d \in Desks, NEW u \in Pupils, NEW row \in Roll,
                rolls' = [rolls EXCEPT ![u] = row], row.at \in {"here", "gone"},
                row.role = rolls[u].role, NEW found, entries' = RevokedOf(u, found),
                Holds(d, Unoccupied) \/ desks' = desks, UNCHANGED <<catalog, rollPlan>>,
                places' \in [Pupils -> [Programs -> Place]],
                records' = records \/ records' = [records EXCEPT ![u] = {}],
                losses' \subseteq Cascaded
         PROVE  RollInv'
    <2>1. /\ rolls' \in [Pupils -> Roll] /\ rolls'[u] = row
          /\ \A v \in Pupils : v # u => rolls'[v] = rolls[v]
      BY <1>11 DEF RollTypeOK
    <2>2. entries' \in [Entrances -> Entry] /\ EntriesCurrent'
      BY <1>11, <2>1, RevokingKeepsCurrent
    <2>3. /\ records' \in [Pupils -> SUBSET Kinds]
          /\ \A v \in Pupils : records'[v] \subseteq records[v]
      BY <1>11 DEF RollTypeOK
    <2>. QED BY <1>11, <2>1, <2>2, <2>3, RollCommits DEF RollTypeOK
  <1>12. ASSUME NEW d \in Desks, Deactivate(d) PROVE RollInv'
    <2>. DEFINE q == desks[d]
                row == [rolls[q.who] EXCEPT !.active = Sets(FALSE, q.saw.active, rolls[q.who].active)]
    <2>1. /\ q \in Errand /\ q.who \in Pupils /\ q.saw \in Roll /\ rolls[q.who] \in Roll
          /\ rolls[q.who].at = "here" /\ rolls' = [rolls EXCEPT ![q.who] = row]
          /\ entries' = RevokedOf(q.who, q.found) /\ Holds(d, Unoccupied)
          /\ UNCHANGED <<catalog, places, records, rollPlan, losses>>
      BY <1>12, ErrandFields DEF Deactivate, RollTypeOK
    <2>2. Sets(FALSE, q.saw.active, rolls[q.who].active) \in BOOLEAN
      BY <2>1 DEF Sets, Roll
    <2>3. row \in Roll /\ row.at = "here" /\ row.role = rolls[q.who].role
      BY <2>1, <2>2 DEF Roll
    <2>. HIDE DEF row
    <2>. QED BY <1>11, <2>1, <2>3 DEF RollTypeOK
  <1>13. ASSUME NEW d \in Desks, NEW u \in Pupils, Without(u),
                Holds(d, Unoccupied) \/ desks' = desks, UNCHANGED <<catalog, rollPlan>>,
                places' \in [Pupils -> [Programs -> Place]], losses' \subseteq Cascaded
         PROVE  RollInv'
    <2>. DEFINE row == [rolls[u] EXCEPT !.at = "gone"]
    <2>1. row \in Roll /\ row.at = "gone" /\ row.role = rolls[u].role
      BY DEF RollTypeOK, Roll
    <2>2. /\ rolls' = [rolls EXCEPT ![u] = row] /\ records' = [records EXCEPT ![u] = {}]
          /\ entries' = RevokedOf(u, Entrances)
      BY <1>13 DEF Without
    <2>. HIDE DEF row
    <2>. QED BY <1>11, <1>13, <2>1, <2>2
  <1>14. ASSUME NEW d \in Desks, DeleteStudentRow(d) PROVE RollInv'
    <2>. DEFINE u == desks[d].who
    <2>1. /\ desks[d] \in Errand /\ desks[d].pc = "delete" /\ u \in Pupils /\ rolls[u].at = "here"
          /\ records[u] \cap Restricting = {} /\ losses' = losses \cup ({"student"} \X records[u])
          /\ Without(u)
          /\ Holds(d, Unoccupied) /\ UNCHANGED <<catalog, places, rollPlan>>
      BY <1>14, ErrandFields DEF DeleteStudentRow, RollTypeOK
    <2>2. rolls[u].role = "student"
      BY <2>1 DEF DesksKnow
    <2>3. records[u] \subseteq {"reaction", "factor"}
      BY <2>1, <2>2 DEF RecordsFit, RollTypeOK, Kinds, Restricting
    <2>. HIDE DEF u
    <2>4. losses' \subseteq Cascaded
      BY <2>1, <2>3 DEF Cascaded
    <2>. QED BY <1>13, <2>1, <2>4 DEF RollTypeOK
  <1>15. ASSUME NEW d \in Desks, PermanentlyDeleteStudent(d) PROVE RollInv'
    <2>1. PICK u \in Enrolled :
            /\ places' = [places EXCEPT ![u] = [g \in Programs |-> "none"]] /\ Without(u)
      BY <1>15 DEF PermanentlyDeleteStudent
    <2>2. u \in Pupils /\ rolls[u].at = "here"
      BY DEF Enrolled, AccountsOf
    <2>3. places' \in [Pupils -> [Programs -> Place]]
      BY <2>1, <2>2 DEF RollTypeOK, Place
    <2>. QED BY <1>13, <1>15, <2>1, <2>2, <2>3 DEF PermanentlyDeleteStudent
  <1>16. ASSUME NEW d \in Desks, DeleteStaff(d) PROVE RollInv'
    <2>. DEFINE u == desks[d].who
    <2>1. /\ desks[d] \in Errand /\ desks[d].pc = "dismiss" /\ u \in Pupils /\ ~desks[d].related
          /\ losses' = losses \cup ({"staff"} \X records[u]) /\ Without(u)
          /\ Holds(d, Unoccupied) /\ UNCHANGED <<catalog, places, rollPlan>>
      BY <1>16, ErrandFields DEF DeleteStaff, RollTypeOK
    <2>2. records[u] \subseteq GoingAlong
      BY <2>1 DEF DesksKnow
    <2>. HIDE DEF u
    <2>3. losses' \subseteq Cascaded
      BY <2>1, <2>2 DEF Cascaded, GoingAlong
    <2>. QED BY <1>13, <2>1, <2>3 DEF RollTypeOK
  <1>17. ASSUME NEW u \in Pupils, NEW k \in Kinds, StoreRecord(u, k) PROVE RollInv'
    <2>1. /\ rolls[u].at = "here" /\ rolls[u].role \in {"student", "staff"}
          /\ \A c \in Desks : desks[c].pc = "dismiss" => desks[c].who # u
          /\ k = "own" => rolls[u].role = "staff"
          /\ records' = [records EXCEPT ![u] = records[u] \cup {k}]
          /\ UNCHANGED <<rolls, catalog, places, desks, entries, rollPlan, losses>>
      BY <1>17 DEF StoreRecord, Everyone, Enrolled, AccountsOf, RowUnlocked
    <2>2. /\ records' \in [Pupils -> SUBSET Kinds] /\ records'[u] = records[u] \cup {k}
          /\ \A v \in Pupils : v # u => records'[v] = records[v]
      BY <2>1 DEF RollTypeOK
    <2>3. RollTypeOK'
      BY <2>1, <2>2 DEF RollTypeOK
    <2>4. RecordsFit'
      BY <2>1, <2>2 DEF RecordsFit
    <2>5. DesksKnow'
      <3>1. \A c \in Desks : desks[c].pc = "dismiss" => desks[c].who \in Pupils
        BY ErrandFields DEF RollTypeOK
      <3>. QED BY <2>1, <2>2, <3>1 DEF DesksKnow, GoingAlong
    <2>6. EntriesCurrent' /\ DeletionKeepsRecords'
      BY <2>1 DEF RollInv, EntriesCurrent, DeletionKeepsRecords
    <2>. QED BY <2>1, <2>3, <2>4, <2>5, <2>6 DEF RollInv
  <1>18. ASSUME NEW d \in Desks, UNCHANGED <<rolls, records, entries, rollPlan, losses>>,
                Holds(d, Unoccupied) \/ desks' = desks, catalog' \subseteq Programs,
                places' \in [Pupils -> [Programs -> Place]]
         PROVE  RollInv'
    <2>1. entries' \in [Entrances -> Entry] /\ EntriesCurrent'
      BY <1>18, StayingKeepsCurrent
    <2>. QED BY <1>18, <2>1, RollCommits DEF RollTypeOK
  <1>19. ASSUME NEW d \in Desks, UpdateProgram(d) PROVE RollInv'
    <2>1. catalog' \subseteq Programs
      BY <1>19 DEF UpdateProgram, RollTypeOK
    <2>. QED BY <1>18, <1>19, <2>1 DEF UpdateProgram, RollTypeOK
  <1>20. ASSUME NEW d \in Desks, EnrollStudents(d) PROVE RollInv'
    <2>1. /\ desks[d].program \in Programs /\ desks[d].status \in Place
          /\ places' = [u \in Pupils |-> IF u \in desks[d].who
                          THEN [places[u] EXCEPT ![desks[d].program] = desks[d].status] ELSE places[u]]
      BY <1>20, ErrandFields DEF EnrollStudents, RollTypeOK
    <2>2. places' \in [Pupils -> [Programs -> Place]]
      BY <2>1 DEF RollTypeOK
    <2>. QED BY <1>18, <1>20, <2>2 DEF EnrollStudents, RollTypeOK
  <1>21. ASSUME NEW d \in Desks, UpdateEnrollment(d) \/ RemoveEnrollment(d) PROVE RollInv'
    <2>1. PICK u \in Pupils, g \in Programs, s \in Place :
            places' = [places EXCEPT ![u] = [places[u] EXCEPT ![g] = s]]
      BY <1>21 DEF UpdateEnrollment, RemoveEnrollment, ChangesPlace, Place
    <2>2. places' \in [Pupils -> [Programs -> Place]]
      BY <2>1 DEF RollTypeOK
    <2>. QED
      BY <1>18, <1>21, <2>2 DEF UpdateEnrollment, RemoveEnrollment, ChangesPlace, RollTypeOK
  <1>22. ASSUME UNCHANGED <<rolls, catalog, places, records, desks, rollPlan, losses>>,
                entries' \in [Entrances -> Entry], EntriesCurrent'
         PROVE  RollInv'
    <2>1. RollTypeOK'
      BY <1>22 DEF RollTypeOK
    <2>. QED BY <1>22, <2>1 DEF RollInv, RecordsFit, DesksKnow, GoingAlong, DeletionKeepsRecords
  <1>23. ASSUME NEW l \in Entrances, NEW e \in Entry, entries' = [entries EXCEPT ![l] = e],
                e # Out /\ ~e.late =>
                  rolls[e.who].at = "here" /\ rolls[e.who].active /\ rolls[e.who].key = e.key,
                UNCHANGED <<rollRows, desks, rollPlan, losses>>
         PROVE  RollInv'
    <2>1. UNCHANGED <<rolls, catalog, places, records>>
      BY <1>23 DEF rollRows
    <2>2. /\ entries' \in [Entrances -> Entry]
          /\ \A m \in Entrances : entries'[m] = IF m = l THEN e ELSE entries[m]
      BY <1>23 DEF RollTypeOK
    <2>3. EntriesCurrent'
      BY <1>23, <2>1, <2>2 DEF EntriesCurrent
    <2>. QED BY <1>22, <1>23, <2>1, <2>2, <2>3
  <1>24. ASSUME NEW l \in Entrances, CheckPassword(l) PROVE RollInv'
    <2>1. PICK u \in Everyone :
            /\ rolls[u].active
            /\ entries' = [entries EXCEPT ![l] =
                 [pc |-> "checked", who |-> u, key |-> rolls[u].key, late |-> FALSE]]
      BY <1>24 DEF CheckPassword
    <2>. DEFINE e == [pc |-> "checked", who |-> u, key |-> rolls[u].key, late |-> FALSE]
    <2>2. u \in Pupils /\ rolls[u].at = "here" /\ rolls[u].key \in 0..MaxResets
      BY DEF Everyone, Enrolled, AccountsOf, RollTypeOK, Roll
    <2>3. e \in Entry
      BY <2>2 DEF Entry
    <2>. QED BY <1>23, <1>24, <2>1, <2>2, <2>3 DEF CheckPassword
  <1>25. ASSUME NEW l \in Entrances, InsertSession(l) PROVE RollInv'
    <2>. DEFINE e == [entries[l] EXCEPT !.pc = "in"]
    <2>1. entries[l] \in Entry /\ entries[l].pc = "checked" /\ entries[l] # Out
      BY <1>25 DEF InsertSession, RollTypeOK, Out
    <2>2. /\ e \in Entry /\ e.who = entries[l].who /\ e.key = entries[l].key
          /\ e.late = entries[l].late
      BY <2>1 DEF Entry, Out
    <2>. HIDE DEF e
    <2>3. entries' = [entries EXCEPT ![l] = e]
      BY <1>25 DEF InsertSession, e
    <2>4. UNCHANGED <<rollRows, desks, rollPlan, losses>>
      BY <1>25 DEF InsertSession
    <2>5. entries[l].who \in Pupils /\ (e # Out /\ ~e.late =>
            rolls[e.who].at = "here" /\ rolls[e.who].active /\ rolls[e.who].key = e.key)
      BY <2>1, <2>2, EntryFields DEF EntriesCurrent
    <2>. QED BY <1>23, <2>2, <2>3, <2>4, <2>5
  <1>26. ASSUME NEW l \in Entrances, LeaveEntry(l) PROVE RollInv'
    <2>1. Out \in Entry
      BY DEF Entry, Out
    <2>. QED BY <1>23, <1>26, <2>1 DEF LeaveEntry
  <1>27. ASSUME NEW d \in Desks, EndSessions(d) PROVE RollInv'
    <2>. DEFINE q == desks[d]
                mine == EntriesOf(q.who)
                next == [q EXCEPT !.ended = TRUE, !.found = mine]
    <2>1. q \in Errand /\ q.pc \in {"update", "delete"} /\ mine \subseteq Entrances /\ Holds(d, next)
      BY <1>27 DEF EndSessions, EntriesOf, RollTypeOK
    <2>2. next \in Errand /\ next.pc = q.pc /\ next.who = q.who
      <3>. HIDE DEF q, mine
      <3>. QED BY <2>1 DEF Errand
    <2>3. next.pc = "delete" => rolls[next.who].at # "none" /\ rolls[next.who].role = "student"
      BY <2>2 DEF DesksKnow
    <2>4. UNCHANGED <<rollRows, entries, rollPlan, losses>>
      BY <1>27 DEF EndSessions
    <2>. HIDE DEF next
    <2>. QED BY <2>1, <2>2, <2>3, <2>4, RollLooks
  <1>28. CASE UNCHANGED rollVars
    <2>1. UNCHANGED <<rolls, catalog, places, records, desks, entries, rollPlan, losses>>
      BY <1>28 DEF rollVars, rollRows
    <2>2. EntriesCurrent'
      BY <2>1 DEF EntriesCurrent
    <2>. QED BY <1>22, <2>1, <2>2 DEF RollTypeOK
  <1>. QED
    BY <1>2, <1>3, <1>4, <1>5, <1>6, <1>7, <1>8, <1>9, <1>10, <1>12, <1>14, <1>15, <1>16, <1>17,
       <1>19, <1>20, <1>21, <1>24, <1>25, <1>26, <1>27, <1>28 DEF RollNext

(* Every variable of Students keeps its type.                              *)
THEOREM RollTypeCorrect == RollSpec => []RollTypeOK
  <1>1. RollInv => RollTypeOK
    BY DEF RollInv
  <1>. QED BY <1>1, RollStarts, RollKeeps, PTL DEF RollSpec

(* A trainer's deletion takes only the trainer's own records, although it  *)
(* deletes whatever it finds: nothing was stored since it looked.  A       *)
(* student's takes only reactions and second factors, whatever was stored  *)
(* since it looked.                                                        *)
THEOREM RecordsSurvive == RollSpec => []DeletionKeepsRecords
  <1>1. RollInv => DeletionKeepsRecords
    BY DEF RollInv
  <1>. QED BY <1>1, RollStarts, RollKeeps, PTL DEF RollSpec

(* A session that does not fit its account belongs to a login that was     *)
(* under way when the account changed.                                     *)
THEOREM SessionsFit == RollSpec => []SessionsNeedOverlap
  <1>1. RollInv => SessionsNeedOverlap
    BY DEF RollInv, EntriesCurrent, SessionsNeedOverlap, Out
  <1>. QED BY <1>1, RollStarts, RollKeeps, PTL DEF RollSpec

-------------------------------------------------------------------------------
(* Reactions to job announcements.                                         *)

(* Whoever holds the batch entered through it, and nothing it was let in   *)
(* for is taken away but the enrolment, which it is marked with.           *)
LetIn ==
  \A p \in Clickers :
    LET q == clicks[p] IN
    q # AtRest => /\ GivesAccess(q.via) /\ (q.who \in classes[q.via] \/ q.left)
                  /\ q.pc = "section" => sectionOn
JobInv == JobTypeOK /\ LetIn

LEMMA ClickFields ==
  ASSUME NEW q \in Click
  PROVE  \/ q = AtRest /\ q.pc = "rest"
         \/ /\ q # AtRest /\ q.pc \in {"batch", "section"} /\ q.who \in Learners
            /\ q.job \in Vacancies /\ q.to \in Answers /\ q.via \in Groups /\ q.left \in BOOLEAN
  BY DEF Click, AtRest

LEMMA JobStarts == JobInit => JobInv
  <1>. SUFFICES ASSUME JobInit PROVE JobInv
    OBVIOUS
  <1>1. NoVacancy \in Vacancy /\ ~NoVacancy.enabled /\ AtRest \in Click
    BY DEF NoVacancy, Vacancy, AtRest, Click
  <1>2. [here |-> TRUE, open |-> TRUE, access |-> TRUE] \in Gate
    BY DEF Gate
  <1>3. jobs \in [Vacancies -> Vacancy] /\ \A j \in Vacancies : jobs[j] = NoVacancy
    BY <1>1 DEF JobInit
  <1>4. /\ gates \in [Groups -> Gate] /\ classes \in [Groups -> SUBSET Learners]
        /\ clicks \in [Clickers -> Click] /\ \A p \in Clickers : clicks[p] = AtRest
    BY <1>1, <1>2 DEF JobInit
  <1>5. answers \in [Vacancies -> [Learners -> Answers]]
    BY DEF JobInit, Answers
  <1>6. sectionOn \in BOOLEAN
    BY DEF JobInit
  <1>. QED BY <1>1, <1>3, <1>4, <1>5, <1>6 DEF JobInv, JobTypeOK, LetIn

LEMMA JobKeeps == JobInv /\ [JobNext]_jobVars => JobInv'
  <1>. SUFFICES ASSUME JobInv, [JobNext]_jobVars PROVE JobInv'
    OBVIOUS
  <1>. JobTypeOK /\ LetIn
    BY DEF JobInv
  <1>1. ASSUME UNCHANGED <<jobs, answers, sectionOn, gates, classes>>,
               NEW p \in Clickers, NEW q \in Click, clicks' = [clicks EXCEPT ![p] = q],
               q # AtRest => /\ GivesAccess(q.via) /\ (q.who \in classes[q.via] \/ q.left)
                             /\ q.pc = "section" => sectionOn
        PROVE  JobInv'
    <2>1. JobTypeOK'
      BY <1>1 DEF JobTypeOK
    <2>2. \A o \in Clickers : clicks'[o] = IF o = p THEN q ELSE clicks[o]
      BY <1>1 DEF JobTypeOK
    <2>3. LetIn'
      BY <1>1, <2>2 DEF LetIn, GivesAccess
    <2>. QED BY <2>1, <2>3 DEF JobInv
  <1>2. ASSUME NEW p \in Clickers, EnterThroughBatch(p) PROVE JobInv'
    <2>1. PICK u \in Learners, j \in Vacancies, g \in Groups, k \in Answers :
            /\ u \in classes[g] /\ GivesAccess(g)
            /\ Clicked(p, [pc |-> "batch", who |-> u, job |-> j, to |-> k, via |-> g, left |-> FALSE])
      BY <1>2 DEF EnterThroughBatch
    <2>. DEFINE q == [pc |-> "batch", who |-> u, job |-> j, to |-> k, via |-> g, left |-> FALSE]
    <2>2. q \in Click
      BY DEF Click
    <2>3. clicks' = [clicks EXCEPT ![p] = q]
      BY <2>1 DEF Clicked
    <2>4. q.via = g /\ q.who = u /\ q.pc # "section"
      OBVIOUS
    <2>. HIDE DEF q
    <2>. QED BY <1>1, <1>2, <2>1, <2>2, <2>3, <2>4 DEF EnterThroughBatch, jobRows
  <1>3. ASSUME NEW p \in Clickers, EnterSection(p) PROVE JobInv'
    <2>. DEFINE q == [clicks[p] EXCEPT !.pc = "section"]
    <2>1. clicks[p] \in Click /\ clicks[p] # AtRest /\ clicks[p].pc = "batch" /\ sectionOn
      BY <1>3 DEF EnterSection, JobTypeOK, AtRest
    <2>2. /\ q \in Click /\ q.via = clicks[p].via /\ q.who = clicks[p].who
          /\ q.left = clicks[p].left
      BY <2>1 DEF Click, AtRest
    <2>3. clicks' = [clicks EXCEPT ![p] = q]
      BY <1>3 DEF EnterSection, Clicked
    <2>. HIDE DEF q
    <2>. QED BY <1>1, <1>3, <2>1, <2>2, <2>3 DEF EnterSection, jobRows, LetIn
  <1>4. ASSUME NEW p \in Clickers, SetReaction(p) \/ RemoveReaction(p) PROVE JobInv'
    <2>. DEFINE q == clicks[p]
    <2>1. /\ q \in Click /\ q.pc = "section" /\ clicks' = [clicks EXCEPT ![p] = AtRest]
          /\ answers' = [answers EXCEPT ![q.job] = [answers[q.job] EXCEPT ![q.who] = q.to]]
          /\ UNCHANGED <<jobs, sectionOn, gates, classes>>
      BY <1>4 DEF SetReaction, RemoveReaction, Answer, Clicked, JobTypeOK
    <2>2. q.job \in Vacancies /\ q.who \in Learners /\ q.to \in Answers
      BY <2>1, ClickFields
    <2>3. answers' \in [Vacancies -> [Learners -> Answers]]
      BY <2>1, <2>2 DEF JobTypeOK
    <2>4. AtRest \in Click
      BY DEF AtRest, Click
    <2>5. JobTypeOK'
      BY <2>1, <2>3, <2>4 DEF JobTypeOK
    <2>6. \A o \in Clickers : clicks'[o] = AtRest \/ clicks'[o] = clicks[o]
      BY <2>1 DEF JobTypeOK
    <2>7. LetIn'
      BY <2>1, <2>6 DEF LetIn, GivesAccess
    <2>. QED BY <2>5, <2>7 DEF JobInv
  <1>5. ASSUME NEW p \in Clickers, TurnedAway(p) PROVE JobInv'
    <2>1. AtRest \in Click
      BY DEF AtRest, Click
    <2>. QED BY <1>1, <1>5, <2>1 DEF TurnedAway, Clicked, jobRows
  <1>6. ASSUME jobs' \in [Vacancies -> Vacancy],
               \A j \in Vacancies : jobs'[j].enabled => jobs'[j].status = "published",
               UNCHANGED <<answers, sectionOn, gates, classes, clicks>>
        PROVE  JobInv'
    <2>1. JobTypeOK'
      BY <1>6 DEF JobTypeOK
    <2>. QED BY <1>6, <2>1 DEF JobInv, LetIn, GivesAccess
  <1>7. ASSUME NEW p, NEW op, NEW j \in Vacancies, NEW row \in Vacancy,
               row.enabled => row.status = "published", EditsJob(p, op, j, row)
        PROVE  JobInv'
    <2>1. jobs' = [jobs EXCEPT ![j] = row]
      BY <1>7 DEF EditsJob
    <2>. QED BY <1>6, <1>7, <2>1 DEF EditsJob, JobTypeOK
  <1>8. ASSUME NEW p \in Clickers, CreateJob(p) \/ UpdateJob(p) \/ ChangeJobStatus(p) PROVE JobInv'
    <2>1. \A j \in Editable : j \in Vacancies /\ jobs[j] \in Vacancy
      BY DEF Editable, JobTypeOK
    <2>2. CASE CreateJob(p)
      <3>1. [status |-> "draft", enabled |-> FALSE, due |-> FALSE] \in Vacancy
        BY DEF Vacancy
      <3>. QED BY <1>7, <2>2, <3>1 DEF CreateJob
    <2>3. CASE UpdateJob(p)
      <3>1. PICK j \in Editable, d \in BOOLEAN : EditsJob(p, "edit", j, [jobs[j] EXCEPT !.due = d])
        BY <2>3 DEF UpdateJob
      <3>2. /\ [jobs[j] EXCEPT !.due = d] \in Vacancy
            /\ [jobs[j] EXCEPT !.due = d].enabled => [jobs[j] EXCEPT !.due = d].status = "published"
        BY <2>1 DEF Vacancy, JobTypeOK
      <3>. QED BY <1>7, <2>1, <3>1, <3>2
    <2>4. CASE ChangeJobStatus(p)
      <3>1. PICK j \in Editable, row \in Vacancy :
              EditsJob(p, "status", j, row) /\ (row.enabled => row.status = "published")
        <4>. DEFINE Sound(row) == row \in Vacancy /\ (row.enabled => row.status = "published")
        <4>1. ASSUME NEW j \in Editable
              PROVE  /\ Sound([jobs[j] EXCEPT !.status = "published", !.enabled = TRUE])
                     /\ Sound([jobs[j] EXCEPT !.status = "draft", !.enabled = FALSE])
                     /\ Sound([jobs[j] EXCEPT !.status = "archived", !.enabled = FALSE])
                     /\ Sound([jobs[j] EXCEPT !.enabled = FALSE])
                     /\ MayEnable(j) => Sound([jobs[j] EXCEPT !.enabled = TRUE])
          BY <2>1, <4>1 DEF Vacancy, MayEnable
        <4>. HIDE DEF Sound
        <4>2. \E j \in Editable : \E row : EditsJob(p, "status", j, row) /\ Sound(row)
          BY <2>4, <4>1 DEF ChangeJobStatus, Publish, Unpublish, Enable, DisableJob, Archive
        <4>. QED BY <4>2 DEF Sound
      <3>. QED BY <1>7, <2>1, <3>1
    <2>. QED BY <1>8, <2>2, <2>3, <2>4
  <1>9. ASSUME NEW j \in Vacancies, DeadlinePasses(j) PROVE JobInv'
    <2>1. /\ [jobs[j] EXCEPT !.due = TRUE] \in Vacancy
          /\ [jobs[j] EXCEPT !.due = TRUE].enabled = jobs[j].enabled
          /\ [jobs[j] EXCEPT !.due = TRUE].status = jobs[j].status
      BY DEF Vacancy, JobTypeOK
    <2>2. jobs' = [jobs EXCEPT ![j] = [jobs[j] EXCEPT !.due = TRUE]]
      BY <1>9 DEF DeadlinePasses
    <2>. QED BY <1>6, <1>9, <2>1, <2>2 DEF DeadlinePasses, JobTypeOK
  <1>10. ASSUME NEW p \in Clickers, EditJobApplicationsSection(p) PROVE JobInv'
    <2>1. JobTypeOK'
      BY <1>10 DEF EditJobApplicationsSection, JobTypeOK
    <2>2. \A o \in Clickers : clicks[o].pc # "section"
      BY <1>10 DEF EditJobApplicationsSection, SectionFree, LocksSection
    <2>. QED
      BY <1>10, <2>1, <2>2 DEF EditJobApplicationsSection, JobInv, LetIn, GivesAccess
  <1>11. ASSUME NEW g \in Groups, BatchFree(g), NEW row \in Gate, gates' = [gates EXCEPT ![g] = row],
                classes' = classes \/ classes' = [classes EXCEPT ![g] = {}],
                UNCHANGED <<jobs, answers, sectionOn, clicks>>
         PROVE  JobInv'
    <2>1. JobTypeOK'
      BY <1>11 DEF JobTypeOK
    <2>2. \A o \in Clickers : clicks[o] # AtRest => clicks[o].via # g /\ clicks[o].via \in Groups
      BY <1>11, ClickFields DEF BatchFree, LocksBatch, JobTypeOK
    <2>3. \A h \in Groups : h # g => gates'[h] = gates[h] /\ classes'[h] = classes[h]
      BY <1>11 DEF JobTypeOK
    <2>4. LetIn'
      BY <1>11, <2>2, <2>3 DEF LetIn, GivesAccess
    <2>. QED BY <2>1, <2>4 DEF JobInv
  <1>12. ASSUME NEW p \in Clickers,
                UpdateStudentSectionAccess(p) \/ UpdateBatchStatus(p) \/ DeleteBatch(p)
         PROVE  JobInv'
    <2>1. \A g \in Groups, on \in BOOLEAN :
            /\ [gates[g] EXCEPT !.access = on] \in Gate /\ [gates[g] EXCEPT !.open = on] \in Gate
            /\ [gates[g] EXCEPT !.here = FALSE] \in Gate
      BY DEF JobTypeOK, Gate
    <2>. QED
      BY <1>11, <1>12, <2>1 DEF UpdateStudentSectionAccess, UpdateBatchStatus, DeleteBatch, CanLock
  <1>13. ASSUME NEW p \in Clickers, AllocateToBatch(p) PROVE JobInv'
    <2>1. JobTypeOK'
      BY <1>13 DEF AllocateToBatch, JobTypeOK
    <2>2. \A g \in Groups : classes[g] \subseteq classes'[g]
      BY <1>13 DEF AllocateToBatch, JobTypeOK
    <2>3. \A o \in Clickers : clicks[o] # AtRest => clicks[o].via \in Groups
      BY ClickFields DEF JobTypeOK
    <2>. QED BY <1>13, <2>1, <2>2, <2>3 DEF AllocateToBatch, JobInv, LetIn, GivesAccess
  <1>14. ASSUME NEW p \in Clickers, RemoveFromBatch(p) PROVE JobInv'
    <2>1. PICK g \in Groups, u \in Learners :
            /\ classes' = [classes EXCEPT ![g] = classes[g] \ {u}]
            /\ clicks' = [c \in Clickers |->
                 IF clicks[c] # AtRest /\ clicks[c].who = u /\ clicks[c].via = g
                 THEN [clicks[c] EXCEPT !.left = TRUE] ELSE clicks[c]]
      BY <1>14 DEF RemoveFromBatch
    <2>2. UNCHANGED <<jobs, answers, sectionOn, gates>>
      BY <1>14 DEF RemoveFromBatch
    <2>3. ASSUME NEW c \in Clickers
          PROVE  /\ clicks'[c] \in Click
                 /\ clicks[c] = AtRest => clicks'[c] = AtRest
                 /\ clicks[c] # AtRest =>
                      /\ clicks'[c].via = clicks[c].via /\ clicks'[c].who = clicks[c].who
                      /\ clicks'[c].pc = clicks[c].pc
                      /\ clicks'[c].left = clicks[c].left \/ clicks'[c].left
                      /\ clicks[c].who = u /\ clicks[c].via = g => clicks'[c].left
      <3>1. clicks[c] \in Click
        BY DEF JobTypeOK
      <3>2. clicks[c] # AtRest =>
              LET to == [clicks[c] EXCEPT !.left = TRUE] IN
              /\ to \in Click /\ to.via = clicks[c].via /\ to.who = clicks[c].who
              /\ to.pc = clicks[c].pc /\ to.left = TRUE
        BY <3>1 DEF Click, AtRest
      <3>. QED BY <2>1, <3>1, <3>2
    <2>4. JobTypeOK'
      BY <2>1, <2>2, <2>3 DEF JobTypeOK
    <2>5. LetIn'
      <3>. SUFFICES ASSUME NEW c \in Clickers, clicks'[c] # AtRest
                    PROVE  /\ GivesAccess(clicks[c].via) /\ (clicks[c].pc = "section" => sectionOn)
                           /\ clicks[c].who \in classes'[clicks[c].via] \/ clicks'[c].left
        BY <2>2, <2>3 DEF LetIn, GivesAccess
      <3>1. clicks[c] # AtRest /\ clicks[c].via \in Groups
        BY <2>3, ClickFields DEF JobTypeOK
      <3>. QED BY <2>1, <2>3, <3>1 DEF LetIn, JobTypeOK
    <2>. QED BY <2>4, <2>5 DEF JobInv
  <1>15. CASE UNCHANGED jobVars
    <2>1. UNCHANGED <<jobs, answers, sectionOn, gates, classes, clicks>>
      BY <1>15 DEF jobVars, jobRows
    <2>. QED BY <1>6, <2>1 DEF JobTypeOK
  <1>. QED
    BY <1>2, <1>3, <1>4, <1>5, <1>8, <1>9, <1>10, <1>12, <1>13, <1>14, <1>15 DEF JobNext

(* Every variable of Jobs keeps its type; in particular only published     *)
(* jobs are enabled.                                                       *)
THEOREM JobTypeCorrect == JobSpec => []JobTypeOK
  <1>1. JobInv => JobTypeOK
    BY DEF JobInv
  <1>. QED BY <1>1, JobStarts, JobKeeps, PTL DEF JobSpec

(* A reaction commits only while its job, the section and the batch that   *)
(* let the student in are open: what it checked is locked until then, but  *)
(* for the enrolment.                                                      *)
THEOREM ReactionsHaveAccess == JobSpec => ReactionsNeedAccess
  <1>. DEFINE Allowed == \A j \in Vacancies, u \in Learners :
       answers'[j][u] # answers[j][u] =>
         /\ Visible(j) /\ sectionOn
         /\ \E p \in Clickers :
              LET q == clicks[p] IN
              /\ q # AtRest /\ clicks'[p] = AtRest /\ q.who = u /\ q.job = j
              /\ GivesAccess(q.via) /\ (u \in classes[q.via] \/ q.left)
  <1>1. JobInv /\ [JobNext]_jobVars => [Allowed]_jobVars
    <2>. SUFFICES ASSUME JobInv, [JobNext]_jobVars, NEW j \in Vacancies, NEW u \in Learners,
                         answers'[j][u] # answers[j][u]
                  PROVE  /\ Visible(j) /\ sectionOn
                         /\ \E p \in Clickers :
                              LET q == clicks[p] IN
                              /\ q # AtRest /\ clicks'[p] = AtRest /\ q.who = u /\ q.job = j
                              /\ GivesAccess(q.via) /\ (u \in classes[q.via] \/ q.left)
      OBVIOUS
    <2>. JobTypeOK /\ LetIn
      BY DEF JobInv
    <2>1. PICK p \in Clickers : Answer(p)
      BY DEF JobNext, SetReaction, RemoveReaction, EnterThroughBatch, EnterSection, TurnedAway,
        CreateJob, UpdateJob, ChangeJobStatus, Publish, Unpublish, Enable, DisableJob, Archive,
        EditsJob, DeadlinePasses, EditJobApplicationsSection, UpdateStudentSectionAccess,
        UpdateBatchStatus, DeleteBatch, AllocateToBatch, RemoveFromBatch, jobVars, jobRows
    <2>2. /\ clicks[p] \in Click /\ clicks[p].pc = "section" /\ Visible(clicks[p].job)
          /\ clicks' = [clicks EXCEPT ![p] = AtRest]
          /\ answers' = [answers EXCEPT ![clicks[p].job] =
                           [answers[clicks[p].job] EXCEPT ![clicks[p].who] = clicks[p].to]]
      BY <2>1 DEF Answer, Clicked, JobTypeOK
    <2>3. clicks[p] # AtRest /\ clicks'[p] = AtRest
      BY <2>2 DEF AtRest, JobTypeOK
    <2>4. clicks[p].job = j /\ clicks[p].who = u
      BY <2>2 DEF JobTypeOK
    <2>. QED BY <2>2, <2>3, <2>4 DEF LetIn
  <1>2. ReactionsNeedAccess <=> [][Allowed]_jobVars
    BY DEF ReactionsNeedAccess
  <1>. QED BY <1>1, <1>2, JobStarts, JobKeeps, PTL DEF JobSpec

-------------------------------------------------------------------------------
(* The roles of administrators.                                            *)

(* What a request would pass on.                                           *)
PassedOn(q) == IF q.pc = "post" THEN KeysOf(q.role) ELSE q.keys
(* A request of an administrator who is no Super Admin, which no commit    *)
(* has met since its check, passes on what some such administrator holds.  *)
StillInScope ==
  \A p \in Clerks :
    saves[p] # Off /\ ~saves[p].super /\ ~saves[p].met =>
      \E o \in Officers :
        /\ posts[o] # Super /\ PassedOn(saves[p]) \subseteq KeysOf(posts[o])
        /\ saves[p].pc = "post" => saves[p].role # Super
SavesName ==
  \A p \in Clerks :
    saves[p] # Off =>
      IF saves[p].pc = "post" THEN saves[p].who \in Officers ELSE saves[p].role \in RoleIds
RolesInv == RolesTypeOK /\ rolePlan \in RolePlans /\ SavesName /\ StillInScope

LEMMA SaveFields ==
  ASSUME NEW q \in Save
  PROVE  \/ q = Off /\ q.pc = "off"
         \/ /\ q # Off /\ q.pc \in {"create", "update", "save", "delete", "post"}
            /\ q.super \in BOOLEAN /\ q.role \in RoleIds \cup {Super} /\ q.keys \subseteq Keys
            /\ q.doomed \subseteq Keys /\ q.who \in Officers \cup {NoRole} /\ q.met \in BOOLEAN
  BY DEF Save, Off

LEMMA RolesStart == RolesInit => RolesInv
  <1>. SUFFICES ASSUME RolesInit PROVE RolesInv
    OBVIOUS
  <1>. DEFINE x == rolePlan
  <1>1. /\ DOMAIN x.roles \subseteq RoleIds /\ x.roles \in [DOMAIN x.roles -> SUBSET Keys]
        /\ x.posts \in [Officers -> DOMAIN x.roles \cup {Super, NoRole}]
        /\ x.permissions \subseteq Keys /\ x \in RolePlans
    BY RolesAssumption DEF RolesInit
  <1>2. \A p \in Clerks : saves[p] = Off
    BY DEF RolesInit
  <1>3. saves \in [Clerks -> Save]
    BY DEF RolesInit, Save, Off
  <1>4. adminRoles \in [RoleIds -> AdminRole]
    BY <1>1 DEF RolesInit, AdminRole
  <1>5. \A y \in RoleIds : ~adminRoles[y].here => adminRoles[y].keys = {}
    BY DEF RolesInit
  <1>6. /\ posts \in [Officers -> RoleIds \cup {Super, NoRole}] /\ permissions \subseteq Keys
        /\ \A o \in Officers : posts[o] \in RoleIds => adminRoles[posts[o]].here
    BY <1>1, RolesAssumption DEF RolesInit
  <1>. QED
    BY <1>1, <1>2, <1>3, <1>4, <1>5, <1>6 DEF RolesInv, RolesTypeOK, SavesName, StillInScope

(* The rows stay, and one request becomes q.                               *)
LEMMA RolesRequestStep ==
  ASSUME RolesInv, NEW p \in Clerks, NEW q \in Save, saves' = [saves EXCEPT ![p] = q],
         UNCHANGED <<roleRows, rolePlan>>,
         q # Off => IF q.pc = "post" THEN q.who \in Officers ELSE q.role \in RoleIds,
         q # Off /\ ~q.super /\ ~q.met =>
           \E o \in Officers :
             /\ posts[o] # Super /\ PassedOn(q) \subseteq KeysOf(posts[o])
             /\ q.pc = "post" => q.role # Super
  PROVE  RolesInv'
  <1>1. /\ adminRoles' = adminRoles /\ posts' = posts /\ permissions' = permissions
        /\ rolePlan' = rolePlan
    BY DEF roleRows
  <1>2. /\ saves' \in [Clerks -> Save] /\ saves'[p] = q
        /\ \A o \in Clerks : o # p => saves'[o] = saves[o]
    BY DEF RolesInv, RolesTypeOK
  <1>3. RolesTypeOK' /\ rolePlan' \in RolePlans
    BY <1>1, <1>2 DEF RolesInv, RolesTypeOK
  <1>4. SavesName'
    BY <1>2 DEF RolesInv, SavesName
  <1>5. StillInScope'
    BY <1>1, <1>2 DEF RolesInv, StillInScope, PassedOn, KeysOf
  <1>. QED BY <1>3, <1>4, <1>5 DEF RolesInv

(* A commit, which every other request has met.                            *)
LEMMA RolesCommitStep ==
  ASSUME RolesInv, NEW p \in Clerks, NEW x, NEW deleted, Ends(p, x, deleted),
         rolePlan' = rolePlan, permissions' \subseteq Keys,
         adminRoles' \in [RoleIds -> AdminRole],
         \A y \in RoleIds : ~adminRoles'[y].here => adminRoles'[y].keys = {},
         posts' \in [Officers -> RoleIds \cup {Super, NoRole}],
         \A o \in Officers : posts'[o] \in RoleIds => adminRoles'[posts'[o]].here
  PROVE  RolesInv'
  <1>1. ASSUME NEW o \in Clerks
        PROVE  /\ saves'[o] \in Save
               /\ saves'[o] # Off =>
                    /\ saves[o] # Off /\ saves'[o].pc = saves[o].pc /\ saves'[o].role = saves[o].role
                    /\ saves'[o].who = saves[o].who /\ saves'[o].met = TRUE
    <2>. DEFINE q == saves[o]
                met == [q EXCEPT !.met = TRUE]
                less == [met EXCEPT !.doomed = q.doomed \ deleted]
    <2>1. q \in Save
      BY DEF RolesInv, RolesTypeOK
    <2>2. Off \in Save
      BY DEF Save, Off
    <2>3. CASE q # Off
      <3>1. /\ met \in Save /\ met.pc = q.pc /\ met.role = q.role /\ met.who = q.who
            /\ met.met = TRUE /\ met.doomed = q.doomed
        BY <2>1, <2>3 DEF Save, Off
      <3>2. /\ less \in Save /\ less.pc = q.pc /\ less.role = q.role /\ less.who = q.who
            /\ less.met = TRUE
        BY <2>1, <2>3, <3>1 DEF Save, Off
      <3>3. saves'[o] = Off \/ saves'[o] = met \/ saves'[o] = less
        BY <2>3, <3>1, <3>2 DEF Ends
      <3>. QED BY <2>2, <2>3, <3>1, <3>2, <3>3
    <2>4. CASE q = Off
      BY <2>2, <2>4 DEF Ends
    <2>. QED BY <2>3, <2>4
  <1>2. saves' \in [Clerks -> Save]
    BY <1>1 DEF Ends
  <1>3. RolesTypeOK' /\ rolePlan' \in RolePlans
    BY <1>2 DEF RolesInv, RolesTypeOK
  <1>4. SavesName'
    BY <1>1 DEF RolesInv, SavesName
  <1>5. StillInScope'
    BY <1>1 DEF StillInScope
  <1>. QED BY <1>3, <1>4, <1>5 DEF RolesInv

LEMMA CheckedSave ==
  ASSUME RolesInv, NEW p \in Clerks, NEW op \in {"create", "update", "delete", "post"},
         NEW o \in Officers, NEW x \in RoleIds \cup {Super}, NEW keys \in SUBSET Keys,
         NEW who \in Officers \cup {NoRole}, Checked(p, op, o, x, keys, who),
         IF op = "post" THEN who \in Officers /\ MayHandOut(o, x)
         ELSE x \in RoleIds /\ InScope(o, keys)
  PROVE  RolesInv'
  <1>. DEFINE q == [pc |-> op, super |-> IsSuperAdmin(o), role |-> x, keys |-> keys, doomed |-> {},
                    who |-> who, met |-> FALSE]
  <1>1. /\ saves' = [saves EXCEPT ![p] = q] /\ UNCHANGED <<roleRows, rolePlan>>
    BY DEF Checked
  <1>2. IsSuperAdmin(o) \in BOOLEAN
    BY DEF IsSuperAdmin
  <1>3. q \in Save
    BY <1>2 DEF Save
  <1>4. /\ q # Off /\ q.pc = op /\ q.role = x /\ q.keys = keys /\ q.who = who
        /\ q.super = IsSuperAdmin(o)
    BY DEF Off
  <1>. HIDE DEF q
  <1>5. ASSUME ~q.super
        PROVE  /\ posts[o] # Super /\ PassedOn(q) \subseteq KeysOf(posts[o])
               /\ q.pc = "post" => q.role # Super
    <2>1. posts[o] # Super
      BY <1>4, <1>5 DEF IsSuperAdmin
    <2>. QED
      BY <1>4, <2>1 DEF PassedOn, MayHandOut, InScope, IsSuperAdmin, EffectivePermissions
  <1>. QED BY <1>1, <1>3, <1>4, <1>5, RolesRequestStep

LEMMA RolesKeep == RolesInv /\ [RolesNext]_roleVars => RolesInv'
  <1>. SUFFICES ASSUME RolesInv, [RolesNext]_roleVars PROVE RolesInv'
    OBVIOUS
  <1>. RolesTypeOK /\ SavesName /\ StillInScope /\ rolePlan \in RolePlans
    BY DEF RolesInv
  <1>0. rolePlan.choices \subseteq SUBSET Keys /\ rolePlan.moved \subseteq Officers
    BY RolesAssumption
  <1>1. ASSUME NEW p \in Clerks, CreateRole(p) PROVE RolesInv'
    BY <1>0, <1>1, CheckedSave DEF CreateRole
  <1>2. ASSUME NEW p \in Clerks, UpdateRole(p) PROVE RolesInv'
    BY <1>0, <1>2, CheckedSave DEF UpdateRole
  <1>3. ASSUME NEW p \in Clerks, DeleteRole(p) PROVE RolesInv'
    <2>1. PICK o \in Officers, x \in RoleIds : Checked(p, "delete", o, x, {}, NoRole)
      BY <1>3 DEF DeleteRole
    <2>2. InScope(o, {})
      BY DEF InScope
    <2>. QED BY <2>1, <2>2, CheckedSave
  <1>4. ASSUME NEW p \in Clerks, CreateAdminUser(p) \/ UpdateAdminUser(p) PROVE RolesInv'
    <2>1. PICK o \in Officers, t \in Officers, x \in RoleIds \cup {Super} :
            MayHandOut(o, x) /\ Checked(p, "post", o, x, {}, t)
      BY <1>0, <1>4 DEF CreateAdminUser, UpdateAdminUser
    <2>. QED BY <2>1, CheckedSave
  <1>5. ASSUME NEW p \in Clerks, DeleteGrants(p) PROVE RolesInv'
    <2>. DEFINE old == saves[p]
                saving == [old EXCEPT !.pc = "save"]
                q == [saving EXCEPT !.doomed = adminRoles[old.role].keys]
    <2>1. /\ saves' = [saves EXCEPT ![p] = q] /\ UNCHANGED <<roleRows, rolePlan>>
          /\ old \in Save /\ old.pc = "update" /\ old # Off
      BY <1>5 DEF DeleteGrants, RolesTypeOK, Off
    <2>2. old.role \in RoleIds /\ adminRoles[old.role].keys \subseteq Keys
      BY <2>1 DEF SavesName, RolesTypeOK, AdminRole
    <2>3. /\ saving \in Save /\ saving.role = old.role /\ saving.keys = old.keys
          /\ saving.super = old.super /\ saving.met = old.met /\ saving.pc = "save"
      BY <2>1 DEF Save, Off
    <2>4. /\ q \in Save /\ q.role = old.role /\ q.keys = old.keys
          /\ q.super = old.super /\ q.met = old.met /\ q.pc = "save"
      BY <2>2, <2>3 DEF Save, Off
    <2>. HIDE DEF q, saving
    <2>5. PassedOn(q) = PassedOn(old)
      BY <2>1, <2>4 DEF PassedOn
    <2>. QED BY <2>1, <2>2, <2>4, <2>5, RolesRequestStep DEF StillInScope
  <1>6. ASSUME NEW p \in Clerks, RollsBack(p) PROVE RolesInv'
    <2>1. Off \in Save
      BY DEF Off, Save
    <2>. QED BY <1>6, <2>1, RolesRequestStep DEF RollsBack
  <1>7. ASSUME NEW p \in Clerks, InsertRole(p) PROVE RolesInv'
    <2>. DEFINE q == saves[p]
                row == [here |-> TRUE, keys |-> q.keys]
    <2>1. /\ q \in Save /\ q.pc = "create" /\ q # Off /\ q.role \in RoleIds
          /\ adminRoles' = [adminRoles EXCEPT ![q.role] = row]
          /\ Ends(p, NoRole, {}) /\ UNCHANGED <<posts, permissions, rolePlan>>
      BY <1>7 DEF InsertRole, RolesTypeOK, SavesName, Off
    <2>2. row \in AdminRole
      BY <2>1, SaveFields DEF AdminRole
    <2>3. /\ adminRoles' \in [RoleIds -> AdminRole] /\ adminRoles'[q.role] = row
          /\ \A y \in RoleIds : y # q.role => adminRoles'[y] = adminRoles[y]
      BY <2>1, <2>2 DEF RolesTypeOK
    <2>. QED BY <2>1, <2>3, RolesCommitStep DEF RolesTypeOK
  <1>8. ASSUME NEW p \in Clerks, InsertGrants(p) PROVE RolesInv'
    <2>. DEFINE q == saves[p]
                keys == (adminRoles[q.role].keys \ q.doomed) \cup q.keys
                row == [adminRoles[q.role] EXCEPT !.keys = keys]
    <2>1. /\ q \in Save /\ q.pc = "save" /\ q # Off /\ q.role \in RoleIds
          /\ adminRoles' = [adminRoles EXCEPT ![q.role] = row] /\ adminRoles[q.role].here
          /\ Ends(p, q.role, q.doomed) /\ UNCHANGED <<posts, permissions, rolePlan>>
      BY <1>8 DEF InsertGrants, RolesTypeOK, SavesName, Off
    <2>2. adminRoles[q.role] \in AdminRole /\ q.keys \subseteq Keys
      BY <2>1, SaveFields DEF RolesTypeOK
    <2>3. row \in AdminRole /\ row.here
      BY <2>1, <2>2 DEF AdminRole
    <2>4. /\ adminRoles' \in [RoleIds -> AdminRole] /\ adminRoles'[q.role].here
          /\ \A y \in RoleIds : y # q.role => adminRoles'[y] = adminRoles[y]
      BY <2>1, <2>3 DEF RolesTypeOK
    <2>. QED BY <2>1, <2>4, RolesCommitStep DEF RolesTypeOK
  <1>9. ASSUME NEW p \in Clerks, DropRole(p) PROVE RolesInv'
    <2>. DEFINE q == saves[p]
                row == [here |-> FALSE, keys |-> {}]
    <2>1. /\ q \in Save /\ q.pc = "delete" /\ q # Off /\ q.role \in RoleIds
          /\ adminRoles' = [adminRoles EXCEPT ![q.role] = row] /\ HasRole(q.role) = {}
          /\ Ends(p, q.role, adminRoles[q.role].keys) /\ UNCHANGED <<posts, permissions, rolePlan>>
      BY <1>9 DEF DropRole, RolesTypeOK, SavesName, Off
    <2>2. row \in AdminRole
      BY DEF AdminRole
    <2>3. /\ adminRoles' \in [RoleIds -> AdminRole] /\ adminRoles'[q.role] = row
          /\ \A y \in RoleIds : y # q.role => adminRoles'[y] = adminRoles[y]
      BY <2>1, <2>2 DEF RolesTypeOK
    <2>4. \A o \in Officers : posts[o] # q.role
      BY <2>1 DEF HasRole
    <2>. QED BY <2>1, <2>3, <2>4, RolesCommitStep DEF RolesTypeOK
  <1>10. ASSUME NEW p \in Clerks, PostOfficer(p) PROVE RolesInv'
    <2>. DEFINE q == saves[p]
    <2>1. /\ q \in Save /\ q.pc = "post" /\ q # Off /\ q.who \in Officers /\ Assignable(q.role)
          /\ posts' = [posts EXCEPT ![q.who] = q.role]
          /\ Ends(p, NoRole, {}) /\ UNCHANGED <<adminRoles, permissions, rolePlan>>
      BY <1>10 DEF PostOfficer, RolesTypeOK, SavesName, Off
    <2>2. q.role = Super \/ (q.role \in RoleIds /\ adminRoles[q.role].here)
      BY <2>1 DEF Assignable
    <2>3. /\ posts' \in [Officers -> RoleIds \cup {Super, NoRole}]
          /\ \A o \in Officers : posts'[o] \in RoleIds => adminRoles[posts'[o]].here
      BY <2>1, <2>2, RolesAssumption DEF RolesTypeOK
    <2>. QED BY <2>1, <2>3, RolesCommitStep DEF RolesTypeOK
  <1>11. ASSUME NEW p \in Clerks, DeleteAdminUser(p) PROVE RolesInv'
    <2>1. PICK t : /\ posts' = [posts EXCEPT ![t] = NoRole]
                   /\ Ends(p, NoRole, {}) /\ UNCHANGED <<adminRoles, permissions, rolePlan>>
      BY <1>11 DEF DeleteAdminUser
    <2>2. /\ posts' \in [Officers -> RoleIds \cup {Super, NoRole}]
          /\ \A o \in Officers : posts'[o] \in RoleIds => adminRoles[posts'[o]].here
      BY <2>1, RolesAssumption DEF RolesTypeOK
    <2>. QED BY <2>1, <2>2, RolesCommitStep DEF RolesTypeOK
  <1>12. CASE SeedRbac
    <2>1. /\ saves' = saves /\ posts' = posts /\ permissions' = Keys /\ rolePlan' = rolePlan
          /\ \A p \in Clerks : saves[p] = Off
      BY <1>12 DEF SeedRbac
    <2>2. \A x \in RoleIds : [adminRoles[x] EXCEPT !.keys = adminRoles[x].keys \cup DefaultGrants[x]].here
                               = adminRoles[x].here
      BY DEF RolesTypeOK, AdminRole
    <2>3. \A x \in SystemRoles :
            [adminRoles[x] EXCEPT !.keys = adminRoles[x].keys \cup DefaultGrants[x]] \in AdminRole
      BY RolesAssumption DEF RolesTypeOK, AdminRole
    <2>4. /\ adminRoles' \in [RoleIds -> AdminRole]
          /\ \A x \in RoleIds : /\ adminRoles'[x].here = adminRoles[x].here
                                /\ ~adminRoles[x].here => adminRoles'[x] = adminRoles[x]
      BY <1>12, <2>2, <2>3 DEF SeedRbac, RolesTypeOK
    <2>5. RolesTypeOK'
      BY <2>1, <2>4 DEF RolesTypeOK
    <2>. QED BY <2>1, <2>5 DEF RolesInv, SavesName, StillInScope
  <1>13. CASE UNCHANGED roleVars
    <2>1. /\ adminRoles' = adminRoles /\ posts' = posts /\ permissions' = permissions
          /\ saves' = saves /\ rolePlan' = rolePlan
      BY <1>13 DEF roleVars, roleRows
    <2>2. RolesTypeOK'
      BY <2>1 DEF RolesTypeOK
    <2>. QED BY <2>1, <2>2 DEF RolesInv, SavesName, StillInScope, PassedOn, KeysOf
  <1>. QED
    BY <1>1, <1>2, <1>3, <1>4, <1>5, <1>6, <1>7, <1>8, <1>9, <1>10, <1>11, <1>12, <1>13
    DEF RolesNext

(* Every variable of AdminRoles keeps its type; in particular nobody has a *)
(* role that is not there.                                                 *)
THEOREM RolesTypeCorrect == RolesSpec => []RolesTypeOK
  <1>1. RolesInv => RolesTypeOK
    BY DEF RolesInv
  <1>. QED BY <1>1, RolesStart, RolesKeep, PTL DEF RolesSpec

LEMMA HeldBySome ==
  /\ \A k : k \in Held <=> \E o \in Officers : posts[o] # Super /\ k \in KeysOf(posts[o])
  /\ \A k : k \in Held' <=> \E o \in Officers : posts'[o] # Super /\ k \in KeysOf(posts[o])'
  BY DEF Held, EffectivePermissions, HasRole

(* What the administrators who are no Super Admin are allowed, taken       *)
(* together, grows only by what a Super Admin or an overtaken request      *)
(* commits, or by the default grants of a deployment.                      *)
THEOREM DelegationInScope == RolesSpec => DelegationStaysInScope
  <1>. DEFINE Bounded ==
         Held' \subseteq Held
         \/ /\ saves' = saves /\ permissions' = Keys
            /\ Held' \subseteq Held \cup UNION {DefaultGrants[x] : x \in SystemRoles}
         \/ \E p \in Clerks : saves[p] # Off /\ saves'[p] = Off /\ (saves[p].super \/ saves[p].met)
  <1>1. RolesInv /\ [RolesNext]_roleVars => [Bounded]_roleVars
    <2>. SUFFICES ASSUME RolesInv, [RolesNext]_roleVars PROVE Bounded
      OBVIOUS
    <2>. RolesTypeOK /\ SavesName /\ StillInScope
      BY DEF RolesInv
    <2>1. ASSUME adminRoles' = adminRoles, posts' = posts PROVE Bounded
      <3>1. \A o \in Officers : KeysOf(posts[o])' = KeysOf(posts[o])
        BY <2>1 DEF KeysOf
      <3>. QED BY <2>1, <3>1, HeldBySome
    <2>2. ASSUME NEW p \in Clerks, InsertRole(p) PROVE Bounded
      <3>1. /\ saves[p].role \in RoleIds /\ ~adminRoles[saves[p].role].here /\ posts' = posts
            /\ \A y \in RoleIds : y # saves[p].role => adminRoles'[y] = adminRoles[y]
        BY <2>2 DEF InsertRole, SavesName, RolesTypeOK, Off
      <3>2. \A o \in Officers : posts[o] # saves[p].role
        BY <3>1 DEF RolesTypeOK
      <3>3. \A o \in Officers : KeysOf(posts[o])' = KeysOf(posts[o])
        BY <3>1, <3>2 DEF KeysOf, RolesTypeOK
      <3>. QED BY <3>1, <3>3, HeldBySome
    <2>3. ASSUME NEW p \in Clerks, InsertGrants(p) PROVE Bounded
      <3>. DEFINE q == saves[p]
                  keys == (adminRoles[q.role].keys \ q.doomed) \cup q.keys
      <3>1. /\ q # Off /\ q.pc = "save" /\ q.role \in RoleIds /\ posts' = posts
            /\ adminRoles' = [adminRoles EXCEPT ![q.role] = [adminRoles[q.role] EXCEPT !.keys = keys]]
            /\ saves'[p] = Off
        <4>1. q.pc = "save" /\ Ends(p, q.role, q.doomed)
          BY <2>3 DEF InsertGrants
        <4>2. q # Off
          BY <4>1 DEF Off
        <4>3. saves'[p] = Off
          BY <4>1 DEF Ends
        <4>. QED BY <2>3, <4>1, <4>2, <4>3 DEF InsertGrants, SavesName
      <3>2. CASE q.super \/ q.met
        BY <3>1, <3>2
      <3>3. CASE ~q.super /\ ~q.met
        <4>1. PICK o \in Officers : posts[o] # Super /\ q.keys \subseteq KeysOf(posts[o])
          BY <3>1, <3>3 DEF StillInScope, PassedOn
        <4>2. q.keys \subseteq Held
          BY <4>1, HeldBySome
        <4>3. adminRoles'[q.role].keys = keys
          BY <3>1 DEF RolesTypeOK, AdminRole
        <4>4. \A y \in RoleIds : y # q.role => adminRoles'[y] = adminRoles[y]
          BY <3>1 DEF RolesTypeOK
        <4>5. \A i \in Officers : posts[i] # Super =>
                KeysOf(posts[i])' \subseteq KeysOf(posts[i]) \cup q.keys
          <5>. SUFFICES ASSUME NEW i \in Officers, posts[i] # Super
                        PROVE  KeysOf(posts[i])' \subseteq KeysOf(posts[i]) \cup q.keys
            OBVIOUS
          <5>1. CASE posts[i] = NoRole
            BY <3>1, <5>1, RolesAssumption DEF KeysOf
          <5>2. CASE posts[i] = q.role
            BY <3>1, <4>3, <5>2, RolesAssumption DEF KeysOf
          <5>3. CASE posts[i] \in RoleIds /\ posts[i] # q.role
            BY <3>1, <4>4, <5>3, RolesAssumption DEF KeysOf
          <5>. QED BY <5>1, <5>2, <5>3 DEF RolesTypeOK
        <4>. HIDE DEF q
        <4>. QED BY <3>1, <4>2, <4>5, HeldBySome
      <3>. QED BY <3>2, <3>3
    <2>4. ASSUME NEW p \in Clerks, DropRole(p) PROVE Bounded
      <3>1. /\ saves[p].role \in RoleIds /\ HasRole(saves[p].role) = {} /\ posts' = posts
            /\ \A y \in RoleIds : y # saves[p].role => adminRoles'[y] = adminRoles[y]
        BY <2>4 DEF DropRole, SavesName, RolesTypeOK, Off
      <3>2. \A o \in Officers : posts[o] # saves[p].role
        BY <3>1 DEF HasRole
      <3>3. \A o \in Officers : KeysOf(posts[o])' = KeysOf(posts[o])
        BY <3>1, <3>2 DEF KeysOf, RolesTypeOK
      <3>. QED BY <3>1, <3>3, HeldBySome
    <2>5. ASSUME NEW p \in Clerks, PostOfficer(p) PROVE Bounded
      <3>. DEFINE q == saves[p]
      <3>1. /\ q # Off /\ q.pc = "post" /\ q.who \in Officers /\ adminRoles' = adminRoles
            /\ posts' = [posts EXCEPT ![q.who] = q.role]
            /\ saves'[p] = Off
        <4>1. q.pc = "post" /\ Ends(p, NoRole, {})
          BY <2>5 DEF PostOfficer
        <4>2. q # Off
          BY <4>1 DEF Off
        <4>3. saves'[p] = Off
          BY <4>1 DEF Ends
        <4>. QED BY <2>5, <4>1, <4>2, <4>3 DEF PostOfficer, SavesName
      <3>2. CASE q.super \/ q.met
        BY <3>1, <3>2
      <3>3. CASE ~q.super /\ ~q.met
        <4>1. PICK o \in Officers : posts[o] # Super /\ KeysOf(q.role) \subseteq KeysOf(posts[o])
          BY <3>1, <3>3 DEF StillInScope, PassedOn
        <4>2. KeysOf(q.role) \subseteq Held
          BY <4>1, HeldBySome
        <4>3. \A i \in Officers : posts'[i] = posts[i] \/ posts'[i] = q.role
          BY <3>1 DEF RolesTypeOK
        <4>4. \A i \in Officers : KeysOf(posts[i])' = IF posts'[i] = q.role THEN KeysOf(q.role)
                                                      ELSE KeysOf(posts[i])
          BY <3>1, <4>3 DEF KeysOf
        <4>. HIDE DEF q
        <4>. QED BY <4>2, <4>3, <4>4, HeldBySome
      <3>. QED BY <3>2, <3>3
    <2>6. ASSUME NEW p \in Clerks, DeleteAdminUser(p) PROVE Bounded
      <3>1. PICK t : posts' = [posts EXCEPT ![t] = NoRole] /\ adminRoles' = adminRoles
        BY <2>6 DEF DeleteAdminUser
      <3>2. \A i \in Officers : posts'[i] = posts[i] \/ posts'[i] = NoRole
        BY <3>1 DEF RolesTypeOK
      <3>3. \A i \in Officers : posts'[i] # NoRole => KeysOf(posts[i])' = KeysOf(posts[i])
        BY <3>1, <3>2 DEF KeysOf
      <3>4. \A i \in Officers : posts'[i] = NoRole => KeysOf(posts[i])' = {}
        BY RolesAssumption DEF KeysOf
      <3>. QED BY <3>2, <3>3, <3>4, HeldBySome
    <2>7. CASE SeedRbac
      <3>. DEFINE all == UNION {DefaultGrants[x] : x \in SystemRoles}
      <3>1. saves' = saves /\ permissions' = Keys /\ posts' = posts
        BY <2>7 DEF SeedRbac
      <3>2. \A x \in RoleIds : adminRoles'[x].keys \subseteq adminRoles[x].keys \cup all
        <4>1. \A x \in SystemRoles :
                [adminRoles[x] EXCEPT !.keys = adminRoles[x].keys \cup DefaultGrants[x]].keys
                  = adminRoles[x].keys \cup DefaultGrants[x]
          BY RolesAssumption DEF RolesTypeOK, AdminRole
        <4>. QED BY <2>7, <4>1 DEF SeedRbac
      <3>3. \A i \in Officers : posts[i] # Super =>
              KeysOf(posts[i])' \subseteq KeysOf(posts[i]) \cup all
        <4>. SUFFICES ASSUME NEW i \in Officers, posts[i] # Super
                      PROVE  KeysOf(posts[i])' \subseteq KeysOf(posts[i]) \cup all
          OBVIOUS
        <4>1. CASE posts[i] = NoRole
          BY <3>1, <4>1, RolesAssumption DEF KeysOf
        <4>2. CASE posts[i] \in RoleIds
          BY <3>1, <3>2, <4>2, RolesAssumption DEF KeysOf
        <4>. QED BY <4>1, <4>2 DEF RolesTypeOK
      <3>. HIDE DEF all
      <3>4. Held' \subseteq Held \cup all
        BY <3>1, <3>3, HeldBySome
      <3>. QED BY <3>1, <3>4 DEF all
    <2>8. ASSUME NEW p \in Clerks,
                 CreateRole(p) \/ UpdateRole(p) \/ DeleteRole(p) \/ CreateAdminUser(p)
                 \/ UpdateAdminUser(p) \/ DeleteGrants(p) \/ RollsBack(p)
          PROVE  adminRoles' = adminRoles /\ posts' = posts
      BY <2>8 DEF CreateRole, UpdateRole, DeleteRole, CreateAdminUser, UpdateAdminUser, Checked,
        DeleteGrants, RollsBack, roleRows
    <2>9. CASE UNCHANGED roleVars
      BY <2>1, <2>9 DEF roleVars, roleRows
    <2>. HIDE DEF Bounded
    <2>10. CASE RolesNext
      BY <2>1, <2>2, <2>3, <2>4, <2>5, <2>6, <2>7, <2>8, <2>10 DEF RolesNext
    <2>. QED BY <2>9, <2>10
  <1>2. DelegationStaysInScope <=> [][Bounded]_roleVars
    BY DEF DelegationStaysInScope
  <1>. QED BY <1>1, <1>2, RolesStart, RolesKeep, PTL DEF RolesSpec

-------------------------------------------------------------------------------
(* Together.                                                               *)

(* The five components keep their types side by side, each behaviour being *)
(* of one of them.                                                         *)
THEOREM AccountsTypeCorrect == AccountsSpec => []AccountsTypeOK
  <1>. DEFINE All == TypeOK /\ RegInv /\ RollInv /\ JobInv /\ RolesInv
              everything == <<vars, regVars, rollVars, jobVars, roleVars>>
  <1>1. AccountsInit => All
    BY TypeStarts, RegStarts, RollStarts, JobStarts, RolesStart DEF AccountsInit
  <1>2. ASSUME All, [AccountsNext]_everything
        PROVE  [Next]_vars /\ [RegNext]_regVars /\ [RollNext]_rollVars
               /\ [JobNext]_jobVars /\ [RolesNext]_roleVars
    BY <1>2, Zenon DEF AccountsNext
  <1>3. All /\ [AccountsNext]_everything => All'
    BY <1>2, TypeKeeps, RegKeeps, RollKeeps, JobKeeps, RolesKeep
  <1>4. All => AccountsTypeOK
    BY DEF AccountsTypeOK, RegInv, RollInv, JobInv, RolesInv
  <1>. HIDE DEF All
  <1>. QED BY <1>1, <1>3, <1>4, PTL DEF AccountsSpec
===============================================================================
