------------------------- MODULE MCTrainerScheduling -------------------------
(***************************************************************************)
(* Small instances of TrainerScheduling for TLC.                           *)
(***************************************************************************)
EXTENDS TrainerScheduling, TLC

CONSTANTS b1, b2

Symmetry == Permutations(Requests) \cup Permutations(Keys)
RequestSymmetry == Permutations(Requests)

TwoSlots == {1, 2}

(* A batch with at most one class outside its weekly pattern. *)
Batch(t, st, pt, ex) ==
  [trainer |-> t, status |-> st, pattern |-> pt, extra |-> [s \in Sessions |-> IF s = 1 THEN ex ELSE None]]
Everyone(S) == [t \in Trainers |-> S]

(* Every class lies between its batch's dates. *)
FullWindow == [b \in {b1, b2} |-> {1, 2}]

(* One batch taught by trainer 1, another that meets at the same time and  *)
(* has nobody, and one waiting (paused) with a trainer on leave.           *)
Shared ==
  [batch |-> (b1 :> Batch(1, "confirmed", {1}, None)) @@ (b2 :> Batch(None, "confirmed", {1}, 2)),
   avail |-> Everyone({1, 2}), leave |-> Everyone({})]
Away ==
  [batch |-> (b1 :> Batch(1, "confirmed", {1}, None)) @@ (b2 :> Batch(2, "paused", {}, 1)),
   avail |-> Everyone({1}), leave |-> (1 :> {}) @@ (2 :> {1})]
Unborn ==
  [batch |-> (b1 :> Batch(1, "confirmed", {1}, 2)) @@ (b2 :> NoRow),
   avail |-> Everyone({1, 2}), leave |-> Everyone({})]
(* Two batches that can share a trainer until one gains a class. *)
Apart ==
  [batch |-> (b1 :> Batch(1, "confirmed", {1}, None)) @@ (b2 :> Batch(None, "confirmed", {2}, None)),
   avail |-> Everyone({1, 2}), leave |-> Everyone({})]

Workflow == {Shared, Away}
All == {Apart, Away, Unborn}
Meeting == {Apart}
=============================================================================
