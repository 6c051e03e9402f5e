------------------------------ MODULE MCCalendar ------------------------------
(***************************************************************************)
(* Instances of TrainerScheduling and Availability.  The first has the     *)
(* requests that meet, over slots; the second the calendar, computed, with *)
(* one request after another: a behaviour is of one of them.               *)
(***************************************************************************)
EXTENDS MCTrainerScheduling, Availability

CONSTANTS v1, v2, y1, y2, p1, p2

(* Availability: days of four units, weeks of two days, a horizon of two.  *)
Weekly(day, s, e, from, until) ==
  [day |-> day, start |-> s, end |-> e, kind |-> "available", from |-> from, until |-> until]
Dated(kind, s, e) == [kind |-> kind, start |-> s, end |-> e]
Class(days, s, e, first, last, sessions) ==
  [teacher |-> NoTeacher, program |-> NoProgram, days |-> days, start |-> s, end |-> e, first |-> first,
   last |-> last, sessions |-> sessions]
NoClass == Class({}, 1, 2, 0, Never, {})
NoEdit == [start |-> Same, end |-> Same, kind |-> Same, from |-> Same, until |-> Same]
CalPlan(hours, dated, first, second, taught, edits, left) ==
  [clock |-> 5,
   calendars |-> v1 :> [rules |-> hours, entries |-> dated]
                 @@ v2 :> [rules |-> <<Weekly(1, 0, 3, 0, Never)>>, entries |-> <<>>],
   courses |-> y1 :> first @@ y2 :> second, expertise |-> taught, names |-> <<v2, v1>>,
   rules |-> {Weekly(0, 0, 2, 0, 2), [Weekly(0, 2, 3, 2, Never) EXCEPT !.kind = "preferred"]},
   changes |-> {[NoEdit EXCEPT !.end = 2], [NoEdit EXCEPT !.from = 2, !.start = 1],
                [NoEdit EXCEPT !.until = 2], [NoEdit EXCEPT !.kind = "preferred", !.until = Never]},
   entries |-> {Dated("leave", 9, 10), Dated("available", 7, 11), Dated("preferred", 6, 9), Dated("available", 5, 18)},
   editors |-> {v1}, edits |-> edits, left |-> left]
NoCalendar ==
  [CalPlan(<<>>, <<>>, NoClass, NoClass, <<>>, {}, 0) EXCEPT !.calendars = <<>>, !.courses = <<>>,
                                               !.names = <<>>, !.editors = {}]
Of(program, class) == [class EXCEPT !.program = program]
Teach(first, second) == v1 :> first @@ v2 :> second
Evenings == <<Weekly(0, 0, 3, 0, Never), Weekly(1, 1, 3, 0, Never)>>
TheCalPlans == {
  NoCalendar,
  \* classes without an end, and edits of the hours that cover them
  CalPlan(Evenings, <<>>, Class({0}, 0, 2, 0, Never, {}), Class({0}, 2, 3, 1, Never, {}),
          Teach({}, {}), {"assign", "update_rule", "delete_rule"}, 3),
  \* dated entries, and classes with sessions outside their pattern
  CalPlan(<<Weekly(0, 0, 2, 0, 2)>>, <<Dated("leave", 10, 12)>>,
          Of(p1, Class({0}, 1, 2, 0, 3, {<<1, 3, 3>>, <<2, 2, 3>>})), Of(p2, Class({1}, 0, 2, 0, 3, {})),
          Teach({p1}, {p1}), {"assign", "create_entry", "update_entry", "delete_entry"}, 3),
  \* overrides, and hours declared afterwards
  CalPlan(<<Weekly(0, 0, 2, 2, 4)>>, <<Dated("available", 7, 10)>>,
          Of(p1, Class({0, 1}, 1, 2, 0, Never, {})), Of(p2, Class({1}, 2, 3, 2, 3, {<<2, 2, 3>>, <<1, 1, 2>>})),
          Teach({p1, p2}, {p2}), {"set_expertise", "assign", "override", "create_rules", "update_rule"}, 2),
  \* two trainers who can take the same classes
  CalPlan(<<Weekly(1, 0, 3, 0, Never)>>, <<>>,
          Of(p1, Class({1}, 2, 3, 0, Never, {})), Of(p1, Class({1}, 1, 2, 0, Never, {})),
          Teach({p1}, {p1}), {"assign", "create_entry"}, 3) }

-------------------------------------------------------------------------------
SchedulingInit ==
  /\ Init /\ CalInit
  /\ calPlan = NoCalendar \/ row = Shared.batch
Over == clock = At(LastDay, DayLength) /\ UNCHANGED <<vars, calVars>>
SchedulingNext ==
  \/ calPlan = NoCalendar /\ Next /\ UNCHANGED calVars
  \/ calPlan # NoCalendar /\ CalNext /\ UNCHANGED vars
  \/ calPlan # NoCalendar /\ Over
SchedulingSpec == SchedulingInit /\ [][SchedulingNext]_<<vars, calVars>>
===============================================================================
