------------------------------ MODULE MCLabAgent ------------------------------
(* Instances of LabAgent: two students sharing a machine.                  *)
EXTENDS LabAgent, TLC

CONSTANTS s1, s2
===============================================================================
