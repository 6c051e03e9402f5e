------------------------------ MODULE MailPromise ------------------------------
(***************************************************************************)
(* What publishing a community post promises its readers: each post is     *)
(* announced once, to the members chosen at that moment, and each of them  *)
(* receives at most one email about it.                                    *)
(***************************************************************************)
EXTENDS Integers

CONSTANTS Posts, Members

VARIABLES
  announced, \* posts whose recipients have been chosen
  owed,      \* the chosen <<post, member>> pairs
  mails      \* mails[d]: emails that reached the transport for pair d

vars == <<announced, owed, mails>>
Pairs == Posts \X Members

Init ==
  /\ announced = {}
  /\ owed = {}
  /\ mails = [d \in Pairs |-> 0]

Announce(p, M) ==
  /\ p \notin announced
  /\ announced' = announced \cup {p}
  /\ owed' = owed \cup ({p} \X M)
  /\ UNCHANGED mails

Deliver(d) ==
  /\ d \in owed
  /\ mails[d] = 0
  /\ mails' = [mails EXCEPT ![d] = 1]
  /\ UNCHANGED <<announced, owed>>

Next ==
  \/ \E p \in Posts, M \in SUBSET Members: Announce(p, M)
  \/ \E d \in Pairs: Deliver(d)

Spec == Init /\ [][Next]_vars
=============================================================================
