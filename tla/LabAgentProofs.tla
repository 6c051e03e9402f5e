---------------------------- MODULE LabAgentProofs ----------------------------
(* Proofs about LabAgent, for any students, grace period and bounds.       *)
EXTENDS LabAgent, FiniteSetTheorems, TLAPS

LEMMA LateType ==
  ASSUME TypeOK, PollEnds
  PROVE  late' \in 0..(Grace + 1)
  BY Constants DEF TypeOK, PollEnds

LEMMA InitType == Init => TypeOK
  <1> SUFFICES ASSUME Init PROVE TypeOK
    OBVIOUS
  <1>1. Cardinality(Students) \in Nat
    BY Constants, FS_CardinalityType
  <1>2. PICK p \in [Students -> 1..Cardinality(Students)] :
          /\ known = [s \in Students |-> IF grants[s] = "active" THEN {p[s]} ELSE {}]
          /\ \E s \in live : current = p[s]
    BY DEF Init
  <1>3. live \subseteq Students /\ grants \in [Students -> {"none", "active", "expired", "deleted"}]
    BY DEF Init
  <1>4. \A s \in Students : p[s] \in Nat
    BY <1>1
  <1>5. known \in [Students -> SUBSET Nat] /\ current \in Nat
    BY <1>2, <1>3, <1>4
  <1>6. agent \in Agent /\ machine \in Machine
    BY <1>5 DEF Init, AgentAt, Agent, MachineWith, Machine
  <1>7. restarts \in Nat /\ errors \in Nat /\ late \in 0..(Grace + 1)
    BY Constants DEF Init
  <1> QED BY <1>3, <1>5, <1>6, <1>7 DEF TypeOK

LEMMA NextType == TypeOK /\ [Next]_vars => TypeOK'
  <1> SUFFICES ASSUME TypeOK, [Next]_vars PROVE TypeOK'
    OBVIOUS
  <1>0. /\ agent.failures \in Nat /\ agent.holds \in BOOLEAN
        /\ agent.for \in Students \cup {None} /\ agent.password \in Nat
        /\ machine.member \in BOOLEAN /\ machine.password \in Nat
        /\ machine.session \in Students \cup {None}
        /\ current \in Nat
    BY DEF TypeOK, Agent, Machine
  <1>1. ASSUME NEW s \in Students, Expire(s) PROVE TypeOK'
    BY <1>1 DEF Expire, TypeOK
  <1>2. ASSUME NEW s \in Students, DeleteStudent(s) PROVE TypeOK'
    BY <1>2 DEF DeleteStudent, TypeOK
  <1>3. ASSUME NEW s \in Students, LogOn(s) PROVE TypeOK'
    <2>1. machine' \in Machine
      BY <1>0, <1>3 DEF LogOn, MachineWith, Machine
    <2> QED BY <1>3, <2>1 DEF LogOn, TypeOK, hub
  <1>4. CASE Sweep
    BY <1>4 DEF Sweep, TypeOK
  <1>5. CASE Ask
    <2>1. PICK s \in Students \cup {None} :
            agent' = AgentAt("asked", agent.failures, agent.holds, s, 0)
      BY <1>5 DEF Ask, LiveGrants, TypeOK
    <2>2. agent' \in Agent
      BY <1>0, <2>1 DEF AgentAt, Agent
    <2> QED BY <1>5, <2>2 DEF Ask, TypeOK, hub
  <1>6. CASE ReadPassword
    <2>1. agent' \in Agent
      BY <1>0, <1>6, Constants DEF ReadPassword, AgentAt, Agent
    <2> QED BY <1>6, <2>1 DEF ReadPassword, TypeOK, hub
  <1>7. CASE Reply
    <2>1. agent' \in Agent
      BY <1>0, <1>7, Constants DEF Reply, AgentAt, Agent
    <2> QED BY <1>7, <2>1 DEF Reply, TypeOK, hub
  <1>8. CASE Fails
    <2> DEFINE n == IF agent.failures < Grace THEN agent.failures + 1 ELSE Grace
    <2>0. n \in Nat
      BY <1>0, Constants
    <2> HIDE DEF n
    <2>a. ASSUME n = Grace /\ agent.holds PROVE agent' \in Agent
      <3>1. agent' = AgentAt("revoke", n, TRUE, None, 0)
        BY <1>8, <2>a DEF Fails, n, AgentAt
      <3> QED BY <2>0, <3>1 DEF AgentAt, Agent
    <2>b. ASSUME ~(n = Grace /\ agent.holds) PROVE agent' \in Agent
      <3>1. agent' = AgentAt("idle", n, agent.holds, None, 0)
        BY <1>8, <2>b DEF Fails, n, AgentAt
      <3> QED BY <1>0, <2>0, <3>1 DEF AgentAt, Agent
    <2>1. agent' \in Agent
      BY <2>a, <2>b
    <2>2. late' \in 0..(Grace + 1)
      BY <1>8, LateType DEF Fails, TypeOK
    <2> QED BY <1>8, <2>1, <2>2 DEF Fails, TypeOK, hub, AgentAt, MachineWith
  <1>9. CASE SetPassword
    <2>0. \/ agent' = AgentAt("idle", 0, FALSE, None, 0)
          \/ agent' = AgentAt("revoke", 0, agent.holds, agent.for, 0)
          \/ agent' = AgentAt("group", 0, agent.holds, agent.for, 0)
      BY <1>9 DEF SetPassword, AgentAt
    <2>a. ASSUME agent' = AgentAt("idle", 0, FALSE, None, 0)
          PROVE  agent' \in Agent
      BY <2>a DEF AgentAt, Agent
    <2>b. ASSUME agent' = AgentAt("revoke", 0, agent.holds, agent.for, 0)
          PROVE  agent' \in Agent
      BY <1>0, <2>b DEF AgentAt, Agent
    <2>c. ASSUME agent' = AgentAt("group", 0, agent.holds, agent.for, 0)
          PROVE  agent' \in Agent
      BY <1>0, <2>c DEF AgentAt, Agent
    <2>1. agent' \in Agent
      BY <2>0, <2>a, <2>b, <2>c
    <2>2. machine' \in Machine
      BY <1>0, <1>9 DEF SetPassword, MachineWith, Machine
    <2>3. late' \in 0..(Grace + 1)
      BY <1>9, LateType DEF SetPassword, TypeOK
    <2> QED BY <1>9, <2>1, <2>2, <2>3 DEF SetPassword, TypeOK, hub, AgentAt, MachineWith, ErrorsUpTo
  <1>10. CASE AddToGroup
    <2>1. agent' \in Agent
      BY <1>0, <1>10, Constants DEF AddToGroup, AgentAt, Agent
    <2>2. machine' \in Machine
      BY <1>0, <1>10 DEF AddToGroup, MachineWith, Machine
    <2>3. late' \in 0..(Grace + 1)
      BY <1>10, LateType DEF AddToGroup, TypeOK
    <2> QED BY <1>10, <2>1, <2>2, <2>3 DEF AddToGroup, TypeOK, hub, AgentAt, MachineWith, ErrorsUpTo
  <1>11. CASE RemoveFromGroup
    <2>1. agent' \in Agent
      BY <1>0, <1>11, Constants DEF RemoveFromGroup, AgentAt, Agent
    <2>2. machine' \in Machine
      BY <1>0, <1>11 DEF RemoveFromGroup, MachineWith, Machine
    <2> QED BY <1>11, <2>1, <2>2 DEF RemoveFromGroup, TypeOK, hub, AgentAt, MachineWith, ErrorsUpTo
  <1>12. CASE LogOff
    <2>1. agent' \in Agent
      BY <1>0, <1>12, Constants DEF LogOff, AgentAt, Agent
    <2>2. machine' \in Machine
      BY <1>0, <1>12 DEF LogOff, MachineWith, Machine
    <2>3. late' \in 0..(Grace + 1)
      BY <1>12, LateType DEF LogOff, TypeOK
    <2> QED BY <1>12, <2>1, <2>2, <2>3 DEF LogOff, TypeOK, hub, AgentAt, MachineWith, ErrorsUpTo
  <1>13. CASE Restart
    <2>1. agent' \in Agent
      BY <1>0, <1>13, Constants DEF Restart, AgentAt, Agent
    <2> QED BY <1>13, <2>1 DEF Restart, TypeOK, hub, AgentAt, MachineWith
  <1>14. CASE Disconnect
    <2>1. machine' \in Machine
      BY <1>0, <1>14 DEF Disconnect, MachineWith, Machine
    <2> QED BY <1>14, <2>1 DEF Disconnect, TypeOK, hub
  <1>15. CASE UNCHANGED vars
    BY <1>15 DEF vars, hub, TypeOK
  <1> QED
    BY <1>1, <1>2, <1>3, <1>4, <1>5, <1>6, <1>7, <1>8,
       <1>9, <1>10, <1>11, <1>12, <1>13, <1>14, <1>15 DEF Next, Poll, Work

(* The variables of the Hub, the agent and the machine keep their types.   *)
THEOREM TypeCorrect == Spec => []TypeOK
  BY InitType, NextType, PTL DEF Spec

-------------------------------------------------------------------------------
(* The grace period.                                                       *)

Polling == agent.pc \in {"idle", "asked", "answer"}

(* What the agent believes, against what the machine allows and how many   *)
(* polls have ended since the last grant: an answer in flight that names a *)
(* student dates from before, only an account the agent remembers is in    *)
(* the group or logged on, and while it remembers one the unanswered polls *)
(* are counted.                                                            *)
InGrace ==
  /\ late > 0 => LiveGrants = {}
  /\ agent.for # None => late = 0
  /\ machine.member \/ machine.session # None => agent.holds
  /\ agent.pc = "logoff" => ~machine.member
  /\ agent.pc = "group" => agent.for # None
  /\ agent.holds => late <= Grace
  /\ agent.holds /\ Polling => late <= agent.failures + 1 /\ agent.failures < Grace

LEMMA GrantsOnlyGo ==
  ASSUME TypeOK, [Next]_vars
  PROVE  LiveGrants' \subseteq LiveGrants
  <1>1. ASSUME NEW s \in Students, Expire(s) PROVE LiveGrants' \subseteq LiveGrants
    BY <1>1 DEF Expire, LiveGrants
  <1>2. ASSUME NEW s \in Students, DeleteStudent(s) PROVE LiveGrants' \subseteq LiveGrants
    BY <1>2 DEF DeleteStudent, LiveGrants, TypeOK
  <1>3. CASE Sweep
    BY <1>3 DEF Sweep, Overdue, LiveGrants, TypeOK
  <1>4. CASE UNCHANGED <<grants, live>>
    BY <1>4 DEF LiveGrants
  <1>5. ASSUME NEW s \in Students, LogOn(s) PROVE UNCHANGED <<grants, live>>
    BY <1>5 DEF LogOn, hub
  <1>6. Poll \/ Restart \/ Disconnect => UNCHANGED <<grants, live>>
    BY DEF Poll, Work, Ask, ReadPassword, Reply, Fails, SetPassword, AddToGroup,
           RemoveFromGroup, LogOff, Restart, Disconnect, hub
  <1>7. UNCHANGED vars => UNCHANGED <<grants, live>>
    BY DEF vars
  <1> QED BY <1>1, <1>2, <1>3, <1>4, <1>5, <1>6, <1>7 DEF Next

LEMMA LateCounts ==
  ASSUME TypeOK, [Next]_vars
  PROVE  UNCHANGED late \/ PollEnds
  BY DEF Next, vars, Expire, DeleteStudent, LogOn, Sweep, Poll, Work, Ask,
         ReadPassword, Reply, Fails, SetPassword, AddToGroup, RemoveFromGroup,
         LogOff, Restart, Disconnect

LEMMA InitInGrace == Init => InGrace
  <1> SUFFICES ASSUME Init PROVE InGrace
    OBVIOUS
  <1>1. PICK applied \in BOOLEAN :
          /\ agent = AgentAt("idle", 0, applied, None, 0)
          /\ machine = MachineWith(applied, IF applied THEN current ELSE 0, None)
    BY DEF Init
  <1>2. /\ agent.pc = "idle" /\ agent.failures = 0 /\ agent.holds = applied
        /\ agent.for = None
    BY <1>1 DEF AgentAt
  <1>3. machine.member = applied /\ machine.session = None
    BY <1>1 DEF MachineWith
  <1> QED BY <1>2, <1>3, Constants DEF Init, InGrace, Polling

LEMMA MishapsStay ==
  ASSUME TypeOK, [Next]_vars, Undisturbed'
  PROVE  Undisturbed /\ UNCHANGED <<restarts, errors>>
  <1>1. restarts \in Nat /\ errors \in Nat
    BY DEF TypeOK
  <1>2. /\ UNCHANGED restarts \/ restarts' = restarts + 1
        /\ UNCHANGED errors \/ errors' = errors + 1
    BY DEF Next, vars, Expire, DeleteStudent, LogOn, Sweep, Poll, Work, Ask,
           ReadPassword, Reply, Fails, SetPassword, AddToGroup, RemoveFromGroup,
           LogOff, Restart, Disconnect, ErrorsUpTo
  <1> QED BY <1>1, <1>2 DEF Undisturbed

LEMMA NextInGrace ==
  ASSUME TypeOK, Undisturbed => InGrace, [Next]_vars
  PROVE  (Undisturbed => InGrace)'
  <1> SUFFICES ASSUME Undisturbed' PROVE InGrace'
    OBVIOUS
  <1>a. InGrace /\ UNCHANGED <<restarts, errors>>
    BY MishapsStay
  <1> USE Constants
  <1>0. /\ agent.failures \in Nat /\ agent.holds \in BOOLEAN
        /\ agent.for \in Students \cup {None}
        /\ machine.member \in BOOLEAN
        /\ machine.session \in Students \cup {None}
        /\ late \in 0..(Grace + 1)
        /\ agent.pc \in {"idle", "asked", "answer", "apply", "group", "revoke", "logoff"}
    BY DEF TypeOK, Agent, Machine
  <1>1. late' > 0 => LiveGrants' = {}
    BY <1>0, <1>a, GrantsOnlyGo, LateCounts DEF InGrace, PollEnds
  <1>2. PollEnds => late' \in {late, late + 1}
    BY DEF PollEnds
  <1>3. ASSUME NEW s \in Students, Expire(s) \/ DeleteStudent(s)
        PROVE  InGrace'
    BY <1>a, <1>1, <1>3 DEF Expire, DeleteStudent, InGrace, Polling
  <1>4. ASSUME NEW s \in Students, LogOn(s) PROVE InGrace'
    <2>1. machine'.member /\ machine.member /\ UNCHANGED <<agent, late>>
      BY <1>4 DEF LogOn, CanLogOn, MachineWith
    <2> QED BY <1>a, <1>1, <2>1 DEF InGrace, Polling
  <1>5. CASE Sweep
    BY <1>a, <1>1, <1>5 DEF Sweep, InGrace, Polling
  <1>6. CASE Ask
    <2>1. PICK s \in IF LiveGrants = {} THEN {None} ELSE LiveGrants :
            agent' = AgentAt("asked", agent.failures, agent.holds, s, 0)
      BY <1>6 DEF Ask
    <2>2. /\ agent'.pc = "asked" /\ agent'.failures = agent.failures
          /\ agent'.holds = agent.holds /\ agent'.for = s /\ agent.pc = "idle"
      BY <1>6, <2>1 DEF Ask, AgentAt
    <2>3. s # None => late = 0
      BY <1>0, <1>a, <2>1 DEF InGrace
    <2>4. UNCHANGED <<machine, late>>
      BY <1>6 DEF Ask
    <2> QED BY <1>a, <1>1, <2>2, <2>3, <2>4 DEF InGrace, Polling
  <1>7. CASE ReadPassword
    <2>1. /\ agent'.pc = "answer" /\ agent'.failures = agent.failures
          /\ agent'.holds = agent.holds /\ agent'.for = agent.for
          /\ agent.pc = "asked" /\ UNCHANGED <<machine, late>>
      BY <1>7 DEF ReadPassword, AgentAt
    <2> QED BY <1>a, <1>1, <2>1 DEF InGrace, Polling
  <1>8. CASE Reply
    <2>1. /\ agent'.pc = "apply" /\ agent'.failures = 0
          /\ agent'.holds = agent.holds /\ agent'.for \in {None, agent.for}
          /\ UNCHANGED <<machine, late>>
      BY <1>8 DEF Reply, AgentAt
    <2> QED BY <1>a, <1>1, <2>1 DEF InGrace, Polling
  <1>9. CASE Fails
    <2>1. Polling /\ UNCHANGED machine
      BY <1>9 DEF Fails, Polling
    <2> DEFINE n == IF agent.failures < Grace THEN agent.failures + 1 ELSE Grace
    <2>2. n \in Nat /\ (agent.failures < Grace => n = agent.failures + 1) /\ n <= Grace
      BY <1>0
    <2> HIDE DEF n
    <2>3. ASSUME n = Grace /\ agent.holds PROVE InGrace'
      <3>1. agent' = AgentAt("revoke", n, TRUE, None, 0) /\ UNCHANGED late
        BY <1>9, <2>3 DEF Fails, n, AgentAt
      <3>2. agent'.pc = "revoke" /\ agent'.holds = TRUE /\ agent'.for = None
        BY <3>1 DEF AgentAt
      <3> QED BY <1>a, <1>1, <2>1, <2>3, <3>1, <3>2 DEF InGrace, Polling
    <2>4. ASSUME ~(n = Grace /\ agent.holds) PROVE InGrace'
      <3>1. agent' = AgentAt("idle", n, agent.holds, None, 0) /\ PollEnds
        BY <1>9, <2>4 DEF Fails, n, AgentAt
      <3>2. /\ agent'.pc = "idle" /\ agent'.holds = agent.holds
            /\ agent'.for = None /\ agent'.failures = n
        BY <3>1 DEF AgentAt
      <3>3. agent.holds => late' <= n + 1 /\ n < Grace /\ late' <= Grace
        BY <1>0, <1>a, <1>2, <2>1, <2>2, <2>4, <3>1 DEF InGrace
      <3> QED BY <1>a, <1>1, <2>1, <3>2, <3>3 DEF InGrace, Polling
    <2> QED BY <2>3, <2>4
  <1>11. CASE SetPassword
    <2>1. /\ machine'.member = machine.member /\ machine'.session = machine.session
      BY <1>11 DEF SetPassword, MachineWith
    <2>2. ASSUME agent.for = None /\ ~agent.holds PROVE InGrace'
      <3>1. agent' = AgentAt("idle", 0, FALSE, None, 0)
        BY <1>11, <2>2 DEF SetPassword, AgentAt
      <3>2. agent'.pc = "idle" /\ agent'.holds = FALSE /\ agent'.for = None
        BY <3>1 DEF AgentAt
      <3> QED BY <1>a, <1>1, <2>1, <2>2, <3>2 DEF InGrace, Polling
    <2>3. ASSUME agent.for # None \/ agent.holds PROVE InGrace'
      <3>1. /\ agent' = AgentAt(IF agent.for = None THEN "revoke" ELSE "group", 0,
                                agent.holds, agent.for, 0)
            /\ UNCHANGED late
        BY <1>11, <2>3 DEF SetPassword, AgentAt
      <3>2. /\ agent'.pc = IF agent.for = None THEN "revoke" ELSE "group"
            /\ agent'.holds = agent.holds /\ agent'.for = agent.for
        BY <3>1 DEF AgentAt
      <3> QED BY <1>a, <1>1, <2>1, <3>1, <3>2 DEF InGrace, Polling
    <2> QED BY <2>2, <2>3
  <1>12. CASE AddToGroup
    <2>1. agent' = AgentAt("idle", 0, TRUE, None, 0) /\ PollEnds /\ agent.pc = "group"
      BY <1>12 DEF AddToGroup, AgentAt
    <2>2. /\ agent'.pc = "idle" /\ agent'.holds = TRUE /\ agent'.for = None
          /\ agent'.failures = 0
      BY <2>1 DEF AgentAt
    <2>3. late' \in 0..1
      BY <1>0, <1>a, <1>2, <2>1 DEF InGrace
    <2> QED BY <1>a, <1>1, <2>2, <2>3 DEF InGrace, Polling
  <1>13. CASE RemoveFromGroup
    <2>1. UNCHANGED late
      BY <1>13 DEF RemoveFromGroup
    <2>2. machine'.member = FALSE /\ machine'.session = machine.session
      BY <1>a, <1>13 DEF RemoveFromGroup, MachineWith
    <2>3. agent'.pc = "logoff" /\ agent'.holds = agent.holds /\ agent'.for = None
      BY <1>13 DEF RemoveFromGroup, AgentAt
    <2> QED BY <1>a, <1>1, <2>1, <2>2, <2>3 DEF InGrace, Polling
  <1>14. CASE LogOff
    <2>1. agent.pc = "logoff"
      BY <1>14 DEF LogOff
    <2>2. machine'.member = machine.member /\ machine'.session = None
      BY <1>a, <1>14 DEF LogOff, MachineWith
    <2>3. agent'.pc = "idle" /\ agent'.holds = FALSE /\ agent'.for = None
      BY <1>14 DEF LogOff, AgentAt
    <2> QED BY <1>a, <1>1, <2>1, <2>2, <2>3 DEF InGrace, Polling
  <1>15. ~Restart
    BY <1>a DEF Restart, TypeOK, AgentAt
  <1>16. CASE Disconnect
    <2>1. /\ UNCHANGED <<agent, late>>
          /\ machine'.member = machine.member /\ machine'.session = None
      BY <1>16 DEF Disconnect, MachineWith
    <2> QED BY <1>a, <1>1, <2>1 DEF InGrace, Polling
  <1>17. CASE UNCHANGED vars
    BY <1>a, <1>1, <1>17 DEF vars, InGrace, Polling
  <1> QED
    BY <1>3, <1>4, <1>5, <1>6, <1>7, <1>8, <1>9, <1>11, <1>12, <1>13, <1>14, <1>15,
       <1>16, <1>17 DEF Next, Poll, Work

(* If the agent has not been restarted and its Windows commands have not  *)
(* failed, the account is out of the group and logged off one poll after   *)
(* the grace period at the latest, whatever becomes of the heartbeats.     *)
THEOREM AccessEndsSafe == Spec => []AccessEndsInTime
  <1>1. Init => (Undisturbed => InGrace)
    BY InitInGrace
  <1>2. TypeOK /\ (Undisturbed => InGrace) /\ [Next]_vars => (Undisturbed => InGrace)'
    BY NextInGrace
  <1>3. TypeOK /\ (Undisturbed => InGrace) => AccessEndsInTime
    BY Constants DEF TypeOK, InGrace, AccessEndsInTime, AccessEnds
  <1> QED
    BY <1>1, <1>2, <1>3, TypeCorrect, PTL DEF Spec
===============================================================================
