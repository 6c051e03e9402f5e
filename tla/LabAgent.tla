------------------------------- MODULE LabAgent -------------------------------
(***************************************************************************)
(* One lab machine: the Hub's rows about it (core/lab_vm_watchdog.py,      *)
(* core/student_deletion.py, api/routes_lab_vm_agent.py) and the agent     *)
(* that enforces them on the machine (windows-lab-agent/agent_core.py).    *)
(* A machine has one Windows account, shared by the students it is granted *)
(* to.  The Hub grants nothing any more (the routes that did are not       *)
(* registered in main.py): the grants it has run out, are expired by the   *)
(* watchdog, or go with a deleted student.                                 *)
(*                                                                         *)
(* The agent polls: it asks the Hub whether a grant is live, sets the      *)
(* account's password to the one the Hub names, and adds the account to    *)
(* the remote-desktop group, or removes it and logs it off.  What it has   *)
(* granted it only remembers in memory.                                    *)
(***************************************************************************)
EXTENDS Integers, FiniteSets

CONSTANTS
  Students,
  Grace,         \* consecutive_failures_before_failsafe
  MaxRestarts,   \* bound on the restarts of the agent
  MaxErrors,     \* bound on the Windows commands that fail
  None

ASSUME Constants ==
  /\ Grace \in Nat \ {0} /\ MaxRestarts \in Nat /\ MaxErrors \in Nat
  /\ None \notin Students /\ IsFiniteSet(Students)

VARIABLES
  grants,    \* grants[s]: the state of s's row for this machine
  live,      \* students whose expires_at is still to come
  known,     \* known[s]: the passwords s's row has held, so s may know
  current,   \* the password the Hub wants the account to have
  agent,     \* the agent's memory
  machine,   \* the group's membership, the password, who is logged on
  restarts, errors,
  late       \* history: polls ended since no grant is live, to Grace + 1

vars == <<grants, live, known, current, agent, machine, restarts, errors, late>>
hub == <<grants, live, known, current>>

(* holds: last_known_active_username is set; for: the student of the live  *)
(* grant found, if any; password: the one in the Hub's answer.             *)
Agent ==
  [pc: {"idle", "asked", "answer", "apply", "group", "revoke", "logoff"},
   failures: Nat, holds: BOOLEAN, for: Students \cup {None}, password: Nat]
Machine == [member: BOOLEAN, password: Nat, session: Students \cup {None}]

TypeOK ==
  /\ grants \in [Students -> {"none", "active", "expired", "deleted"}]
  /\ live \subseteq Students
  /\ known \in [Students -> SUBSET Nat]
  /\ current \in Nat
  /\ agent \in Agent /\ machine \in Machine
  /\ restarts \in Nat /\ errors \in Nat /\ late \in 0..(Grace + 1)

AgentAt(pc, failures, holds, for, password) ==
  [pc |-> pc, failures |-> failures, holds |-> holds, for |-> for,
   password |-> password]
MachineWith(member, password, session) ==
  [member |-> member, password |-> password, session |-> session]

(* Each grant gave the account a password of its own, shown to its student;*)
(* the agent has or has not come to the latest one.                        *)
Init ==
  /\ grants \in [Students -> {"none", "active"}]
  /\ live = {s \in Students : grants[s] = "active"}
  /\ \E p \in [Students -> 1..Cardinality(Students)] :
       /\ \A s, t \in Students : s # t => p[s] # p[t]
       /\ known = [s \in Students |-> IF grants[s] = "active" THEN {p[s]} ELSE {}]
       /\ \E s \in live : current = p[s] /\ \A t \in live : p[t] <= p[s]
  /\ \E applied \in BOOLEAN :
       /\ agent = AgentAt("idle", 0, applied, None, 0)
       /\ machine = MachineWith(applied, IF applied THEN current ELSE 0, None)
  /\ restarts = 0 /\ errors = 0 /\ late = 0

-------------------------------------------------------------------------------
(* The Hub.                                                                *)

LiveGrants == {s \in live : grants[s] = "active"}
Overdue == {s \in Students \ live : grants[s] = "active"}

Expire(s) ==
  /\ s \in live
  /\ live' = live \ {s}
  /\ UNCHANGED <<grants, known, current, agent, machine, restarts, errors, late>>

(* Mutant: the sweep leaves the password as it was.                        *)
SweepOnly ==
  /\ Overdue # {}
  /\ grants' = [s \in Students |-> IF s \in Overdue THEN "expired" ELSE grants[s]]
  /\ UNCHANGED <<live, known, current, agent, machine, restarts, errors, late>>
(* The watchdog's sweep: every new password is one nobody has seen.        *)
Sweep ==
  /\ Overdue # {}
  /\ grants' = [s \in Students |-> IF s \in Overdue THEN "expired" ELSE grants[s]]
  /\ current' = current + 1
  /\ UNCHANGED <<live, known, agent, machine, restarts, errors, late>>

(* The deletion of a student with an active grant changes the password and *)
(* writes it to the rows of the students who share the machine.            *)
DeleteStudent(s) ==
  /\ grants[s] # "deleted"
  /\ grants' = [grants EXCEPT ![s] = "deleted"]
  /\ live' = live \ {s}
  /\ IF grants[s] = "active"
     THEN /\ current' = current + 1
          /\ known' = [t \in Students |->
               IF t # s /\ grants[t] = "active" THEN known[t] \cup {current + 1}
               ELSE known[t]]
     ELSE UNCHANGED <<known, current>>
  /\ UNCHANGED <<agent, machine, restarts, errors, late>>

-------------------------------------------------------------------------------
(* The agent.                                                              *)

PollEnds ==
  late' = IF LiveGrants = {} /\ late <= Grace THEN late + 1 ELSE late
ErrorsUpTo(n) == errors' \in {errors, errors + 1} /\ errors' <= n

(* The Hub's handler looks for a live grant and commits, then reads the    *)
(* password and the grant's row again, then the student.  The row is       *)
(* deleted with the student, and the handler fails if it is gone.          *)
Ask ==
  /\ agent.pc = "idle"
  /\ \E s \in IF LiveGrants = {} THEN {None} ELSE LiveGrants :
       agent' = AgentAt("asked", agent.failures, agent.holds, s, 0)
  /\ UNCHANGED <<hub, machine, restarts, errors, late>>
Deleted(s) == s # None /\ grants[s] = "deleted"
(* Mutant: an answer of "none" brings no password, and the agent sets it.   *)
OnlyGrantedPassword ==
  /\ agent.pc = "asked" /\ ~Deleted(agent.for)
  /\ agent' = AgentAt("answer", agent.failures, agent.holds, agent.for,
       IF agent.for = None THEN None ELSE current)
  /\ UNCHANGED <<hub, machine, restarts, errors, late>>
ReadPassword ==
  /\ agent.pc = "asked" /\ ~Deleted(agent.for)
  /\ agent' = AgentAt("answer", agent.failures, agent.holds, agent.for, current)
  /\ UNCHANGED <<hub, machine, restarts, errors, late>>
Reply ==
  /\ agent.pc = "answer"
  /\ agent' = AgentAt("apply", 0, agent.holds,
       IF Deleted(agent.for) THEN None ELSE agent.for, agent.password)
  /\ UNCHANGED <<hub, machine, restarts, errors, late>>

(* Mutants: the fail-safe never comes, or comes one poll late.             *)
NeverFailsafe ==
  /\ agent.pc \in {"idle", "asked", "answer"}
  /\ agent' = AgentAt("idle", agent.failures, agent.holds, None, 0)
  /\ PollEnds
  /\ UNCHANGED <<hub, machine, restarts, errors>>
LateFailsafe ==
  /\ agent.pc \in {"idle", "asked", "answer"}
  /\ IF agent.failures >= Grace /\ agent.holds
     THEN agent' = AgentAt("revoke", agent.failures, TRUE, None, 0) /\ UNCHANGED late
     ELSE agent' = AgentAt("idle", agent.failures + 1, agent.holds, None, 0) /\ PollEnds
  /\ UNCHANGED <<hub, machine, restarts, errors>>
(* The poll fails, before or after the Hub's handler has run.  The count   *)
(* grows for ever; the agent compares it with Grace only.                  *)
Fails ==
  /\ agent.pc \in {"idle", "asked", "answer"}
  /\ LET n == IF agent.failures < Grace THEN agent.failures + 1 ELSE Grace IN
     IF n = Grace /\ agent.holds
     THEN agent' = AgentAt("revoke", n, TRUE, None, 0) /\ UNCHANGED late
     ELSE agent' = AgentAt("idle", n, agent.holds, None, 0) /\ PollEnds
  /\ UNCHANGED <<hub, machine, restarts, errors>>

SetPassword ==
  /\ agent.pc = "apply"
  /\ ErrorsUpTo(MaxErrors)
  /\ machine' = MachineWith(machine.member,
       IF errors' = errors THEN agent.password ELSE machine.password,
       machine.session)
  /\ IF agent.for = None /\ ~agent.holds
     THEN agent' = AgentAt("idle", 0, FALSE, None, 0) /\ PollEnds
     ELSE /\ agent' = AgentAt(IF agent.for = None THEN "revoke" ELSE "group", 0,
                              agent.holds, agent.for, 0)
          /\ UNCHANGED late
  /\ UNCHANGED <<hub, restarts>>
AddToGroup ==
  /\ agent.pc = "group"
  /\ ErrorsUpTo(MaxErrors)
  /\ machine' = MachineWith(machine.member \/ errors' = errors, machine.password,
                            machine.session)
  /\ agent' = AgentAt("idle", 0, TRUE, None, 0)
  /\ PollEnds
  /\ UNCHANGED <<hub, restarts>>
RemoveFromGroup ==
  /\ agent.pc = "revoke"
  /\ ErrorsUpTo(MaxErrors)
  /\ machine' = MachineWith(machine.member /\ errors' # errors, machine.password,
                            machine.session)
  /\ agent' = AgentAt("logoff", agent.failures, agent.holds, None, 0)
  /\ UNCHANGED <<hub, restarts, late>>
(* Mutant: the open session is left alone.                                 *)
NoLogOff ==
  /\ agent.pc = "logoff"
  /\ agent' = AgentAt("idle", agent.failures, FALSE, None, 0)
  /\ PollEnds
  /\ UNCHANGED <<hub, machine, restarts, errors>>
LogOff ==
  /\ agent.pc = "logoff"
  /\ ErrorsUpTo(MaxErrors)
  /\ machine' = MachineWith(machine.member, machine.password,
                  IF errors' = errors THEN None ELSE machine.session)
  /\ agent' = AgentAt("idle", agent.failures, FALSE, None, 0)
  /\ PollEnds
  /\ UNCHANGED <<hub, restarts>>

(* The service or the machine restarts, or a command that hangs ends the   *)
(* agent; what the machine has been told stays.                            *)
Restart ==
  /\ restarts < MaxRestarts
  /\ restarts' = restarts + 1
  /\ agent' = AgentAt("idle", 0, FALSE, None, 0)
  /\ UNCHANGED <<hub, machine, errors, late>>

-------------------------------------------------------------------------------
(* The students.                                                           *)

CanLogOn(s) == machine.member /\ machine.password \in known[s]
LogOn(s) ==
  /\ machine.session = None /\ CanLogOn(s)
  /\ machine' = MachineWith(TRUE, machine.password, s)
  /\ UNCHANGED <<hub, agent, restarts, errors, late>>
Disconnect ==
  /\ machine.session # None
  /\ machine' = MachineWith(machine.member, machine.password, None)
  /\ UNCHANGED <<hub, agent, restarts, errors, late>>

Work == SetPassword \/ AddToGroup \/ RemoveFromGroup \/ LogOff
Poll == Ask \/ ReadPassword \/ Reply \/ Fails \/ Work
Next ==
  \/ \E s \in Students : Expire(s) \/ DeleteStudent(s) \/ LogOn(s)
  \/ Sweep \/ Poll \/ Restart \/ Disconnect
Spec == Init /\ [][Next]_vars

(* The watchdog and the agent's service loop for ever.                     *)
FairSpec == Spec /\ WF_vars(Sweep) /\ WF_vars(Poll)

-------------------------------------------------------------------------------
(* Properties.                                                             *)

(* When no grant is live, the account is out of the group and nobody is    *)
(* logged on after at most one poll more than the grace period, be the Hub *)
(* reachable or not ("If the response says none [...] removes that         *)
(* student's account", "not assume still authorized forever either",       *)
(* windows-lab-agent/README.md).                                           *)
AccessEnds == late > Grace => ~machine.member /\ machine.session = None

(* So it is if the agent was not restarted and no command has failed.      *)
Undisturbed == restarts = 0 /\ errors = 0
AccessEndsInTime == Undisturbed => AccessEnds

(* A student whose grant is gone is locked out in the end, also while      *)
(* others share the account: by the new password if the Hub is heard, by   *)
(* the fail-safe if not.                                                   *)
Gone(s) == grants[s] \in {"expired", "deleted"}
LockedOut == []Undisturbed => \A s \in Students : Gone(s) ~> []~CanLogOn(s)

(* With a network that recovers, restarts and failing commands delay the   *)
(* lock-out but do not prevent it: the account's password does what the    *)
(* forgotten membership does not.                                          *)
NetworkRecovers == SF_vars(ReadPassword) /\ SF_vars(Reply)
PasswordDies ==
  NetworkRecovers =>
    \A s \in Students : Gone(s) ~> [](machine.password \notin known[s])
===============================================================================
