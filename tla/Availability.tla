----------------------------- MODULE Availability -----------------------------
(***************************************************************************)
(* The trainer calendar itself (core/scheduling.py and                     *)
(* api/routes_staff_availability.py): weekly rules, dated entries, the     *)
(* classes of a course, and what follows from them: conflicts, suitable    *)
(* trainers, alternative windows, and which edits are refused.             *)
(*                                                                         *)
(* TrainerScheduling has the interleavings of these requests and abstracts *)
(* the calendar; here every request is one step (each holds the trainer's  *)
(* lock from its first read to its commit) and the calendar is computed.   *)
(* Time is whole units in the one business timezone; an interval is a pair *)
(* <<start, end>> and a list of them a sequence.                           *)
(***************************************************************************)
EXTENDS Integers, Sequences, FiniteSets, SequencesExt, FiniteSetsExt

CONSTANTS
  NoTeacher,
  Programs, NoProgram,
  DayLength,   \* units of a day; a time of day is one of 0..DayLength - 1
  WeekLength,  \* days of a week
  HorizonDays, \* HORIZON_DAYS
  MaxDays,     \* 366, the longest entry and the longest required window
  SearchDays,  \* days of alternative_slots
  PerTeacher,  \* per_trainer of alternative_slots
  OfferLimit,  \* limit of alternative_slots
  MaxWeekly,   \* scheduling_max_weekly_hours, in units
  MaxRules,    \* MAX_RULES
  LastDay,     \* bound on the days that pass
  Never,       \* a date after all others, for an end that is not given
  Same,        \* a field an edit does not send
  CalPlans     \* first calendars and courses, and the edits asked for

VARIABLES
  clock,       \* now
  calendars,   \* trainer_availability_rules and trainer_availability_entries
  courses,     \* batches and class_sessions
  expertise,   \* trainer_expertise: the programs each trainer teaches
  agreed,      \* history: until when an assignment looked, and what it found
  calPlan      \* the plan of this behaviour, and the edits it has left

calVars == <<clock, calendars, courses, expertise, agreed, calPlan>>

Teachers == DOMAIN calendars   \* active trainers
Courses == DOMAIN courses      \* confirmed batches

Blocking == {"unavailable", "leave"}
Offering == {"available", "preferred"}
Times == 0..DayLength - 1
Dates == 0..LastDay + WeekLength

Rule ==
  [day: 0..WeekLength - 1, start: Times, end: Times, kind: Offering,
   from: Dates, until: Int]
DatedEntry == [kind: Blocking \cup Offering, start: Int, end: Int]
CourseOf(teachers) ==
  [teacher: teachers \cup {NoTeacher}, program: Programs \cup {NoProgram}, days: SUBSET (0..WeekLength - 1),
   start: Times, end: Times, first: Dates, last: Dates \cup {Never},
   sessions: SUBSET (Dates \X Times \X Times)]
Course == CourseOf(Teachers)
Change ==
  [start: Times \cup {Same}, end: Times \cup {Same}, kind: Offering \cup {Same},
   from: Dates \cup {Same}, until: Int \cup {Same}]
RowsInOrder(cal) ==
  /\ cal \in [rules: Seq(Rule), entries: Seq(DatedEntry)]
  /\ \A i \in DOMAIN cal.rules :
       cal.rules[i].start < cal.rules[i].end /\ cal.rules[i].from <= cal.rules[i].until
  /\ \A i \in DOMAIN cal.entries : cal.entries[i].start < cal.entries[i].end

(* The rows a behaviour starts from have their types and satisfy their     *)
(* check constraints, and so do the fields that requests send.             *)
ASSUME CalendarAssumption ==
  /\ DayLength \in Nat \ {0} /\ WeekLength \in Nat \ {0}
  /\ HorizonDays \in Nat /\ MaxDays \in Nat /\ LastDay \in Nat /\ Never \in Int
  /\ SearchDays \in Nat /\ PerTeacher \in Nat /\ OfferLimit \in Nat /\ MaxWeekly \in Nat
  /\ \A p \in CalPlans :
       /\ {"editors", "rules", "changes", "entries", "names"} \subseteq DOMAIN p
       /\ p.clock \in 0..(LastDay + 1) * DayLength
       /\ NoTeacher \notin DOMAIN p.calendars /\ p.editors \subseteq DOMAIN p.calendars
       /\ \A t \in DOMAIN p.calendars : RowsInOrder(p.calendars[t])
       /\ p.names \in Seq(DOMAIN p.calendars) /\ DOMAIN p.calendars = ToSet(p.names)
       /\ IsFiniteSet(DOMAIN p.courses)
       /\ p.courses \in [DOMAIN p.courses -> CourseOf(DOMAIN p.calendars)]
       /\ p.expertise \in [DOMAIN p.calendars -> SUBSET Programs]
       /\ p.rules \subseteq Rule /\ p.changes \subseteq Change /\ p.entries \subseteq DatedEntry

CalInit ==
  /\ calPlan \in CalPlans
  /\ clock = calPlan.clock
  /\ calendars = calPlan.calendars
  /\ courses = calPlan.courses
  /\ expertise = calPlan.expertise
  /\ agreed = [c \in Courses |-> [till |-> 0, free |-> FALSE]]

-------------------------------------------------------------------------------
(* Intervals.                                                              *)
At(d, time) == d * DayLength + time
DayOf(u) == u \div DayLength
Today == DayOf(clock)
Later(x, y) == IF x > y THEN x ELSE y
Sooner(x, y) == IF x < y THEN x ELSE y
Earlier(i, j) == i[1] < j[1] \/ (i[1] = j[1] /\ i[2] < j[2])
Meet(i, j) == i[1] < j[2] /\ i[2] > j[1]

(* A set in the order of a sort key: each element at its place.            *)
InOrder(set, precedes(_, _)) ==
  [n \in 1..Cardinality(set) |->
     CHOOSE x \in set : Cardinality({y \in set : precedes(y, x)}) = n - 1]
Sorted(set) == InOrder(set, Earlier)

(* Intervals that do not touch, in order: each reaches the next one it     *)
(* meets or touches.                                                       *)
Extended(out, i) ==
  IF i[2] > Last(out)[2] THEN Append(Front(out), <<Last(out)[1], i[2]>>) ELSE out
Joined(out, i) ==
  IF out # <<>> /\ i[1] <= Last(out)[2] THEN Extended(out, i) ELSE Append(out, i)
Merge(set) == FoldLeft(Joined, <<>>, Sorted({i \in set : i[1] < i[2]}))

(* What is left of an interval from cur on, after one cut and after all.   *)
Cut(at, c) ==
  IF c[2] <= at.cur \/ c[1] >= at.end THEN at
  ELSE [at EXCEPT !.cur = Later(@, c[2]),
                  !.out = IF c[1] > at.cur THEN Append(@, <<at.cur, c[1]>>) ELSE @]
Left(out, i, cuts) ==
  LET at == FoldLeft(Cut, [cur |-> i[1], end |-> i[2], out |-> out], cuts)
  IN IF at.cur < i[2] THEN Append(at.out, <<at.cur, i[2]>>) ELSE at.out
Subtract(base, cuts) == FoldLeft(LAMBDA out, i : Left(out, i, cuts), <<>>, base)

Clip(set, lo, hi) ==
  {<<Later(i[1], lo), Sooner(i[2], hi)>> : i \in {j \in set : Meet(j, <<lo, hi>>)}}
IsCovered(i, merged) ==
  \E k \in DOMAIN merged : merged[k][1] <= i[1] /\ merged[k][2] >= i[2]
Touches(i, merged) == \E k \in DOMAIN merged : Meet(i, merged[k])

-------------------------------------------------------------------------------
(* The classes of a course, in [lo, hi): its sessions and its pattern.     *)
Occurrences(c, lo, hi) ==
  LET b == courses[c]
      pattern == {d \in Later(b.first, DayOf(lo) - 1)..Sooner(b.last, DayOf(hi) + 1) :
                    d % WeekLength \in b.days}
  IN {i \in {<<At(s[1], s[2]), At(s[1], s[3])>> : s \in b.sessions}
            \cup {<<At(d, b.start), At(d, b.end)>> : d \in pattern} :
        i[1] < i[2] /\ Meet(i, <<lo, hi>>)}

(* From today to the last date, or HORIZON_DAYS on.                        *)
RequiredWindow(c) ==
  LET b == courses[c]
      start == Later(b.first, Today)
      end == Sooner(IF b.last = Never THEN start + HorizonDays ELSE b.last, start + MaxDays)
  IN <<At(start, 0), At(end + 1, 0)>>
StillToTeach(c) ==
  LET w == RequiredWindow(c) IN {i \in Occurrences(c, w[1], w[2]) : i[2] > clock}

StartOf(set) == Min({i[1] : i \in set})
EndOf(set) == Max({i[2] : i \in set})

-------------------------------------------------------------------------------
(* A trainer's calendar in [lo, hi).                                       *)
InForce(r, d) == r.from <= d /\ d <= r.until
RuleIntervals(cal, kinds, lo, hi) ==
  Clip({<<At(x[1], x[2].start), At(x[1], x[2].end)>> :
          x \in {y \in (DayOf(lo) - 1..DayOf(hi) + 1) \X ToSet(cal.rules) :
                   /\ y[2].kind \in kinds /\ y[2].day = y[1] % WeekLength
                   /\ InForce(y[2], y[1])}}, lo, hi)
EntryIntervals(cal, kinds, lo, hi) ==
  Clip({<<e.start, e.end>> : e \in {f \in ToSet(cal.entries) : f.kind \in kinds}}, lo, hi)
Blocked(cal, lo, hi) == Merge(EntryIntervals(cal, Blocking, lo, hi))
Offered(cal, lo, hi) ==
  Merge(RuleIntervals(cal, Offering, lo, hi) \cup EntryIntervals(cal, Offering, lo, hi))
(* Mutant: leave does not count.                                           *)
BookableAnyway(cal, lo, hi) == Offered(cal, lo, hi)
Bookable(cal, lo, hi) == Subtract(Offered(cal, lo, hi), Blocked(cal, lo, hi))
Preferred(cal, lo, hi) ==
  Subtract(Merge(RuleIntervals(cal, {"preferred"}, lo, hi)
                   \cup EntryIntervals(cal, {"preferred"}, lo, hi)),
           Blocked(cal, lo, hi))

CoursesOf(t) == {c \in Courses : courses[c].teacher = t}
Teaching(t, without, lo, hi) == UNION {Occurrences(c, lo, hi) : c \in CoursesOf(t) \ without}
FreeTime(t, lo, hi) == Subtract(Bookable(calendars[t], lo, hi), Merge(Teaching(t, {}, lo, hi)))

-------------------------------------------------------------------------------
(* Can t take the course c?                                                *)
Lengths(set) == MapThenSumSet(LAMBDA i : i[2] - i[1], set)
Hours(set, w) == Lengths({i \in set : DayOf(i[1]) \div WeekLength = w})
HoursOf(t, without, lo, hi, w) ==
  MapThenSumSet(LAMBDA o : Hours(Occurrences(o, lo, hi), w), CoursesOf(t) \ without)
Weeks(set) == {DayOf(i[1]) \div WeekLength : i \in set}
Conflicts(c, t, required, others, blocked, bookable) ==
  LET before(w) == HoursOf(t, {c}, StartOf(required), EndOf(required), w)
      conflict ==
        [overlap |-> \E i \in required, o \in others : Meet(i, o),
         leave |-> \E i \in required : Touches(i, blocked),
         outside_availability |->
           \E i \in required : ~Touches(i, blocked) /\ ~IsCovered(i, bookable),
         workload |-> \E w \in Weeks(required) : before(w) + Hours(required, w) > MaxWeekly]
  IN {k \in DOMAIN conflict : conflict[k]}
ConflictsWith(c, t, required, lo, hi) ==
  Conflicts(c, t, required, Teaching(t, {c}, lo, hi),
            Blocked(calendars[t], lo, hi), Bookable(calendars[t], lo, hi))
Unmet(c, t, required) ==   \* without a required class nothing is checked
  IF required = {} THEN {} ELSE ConflictsWith(c, t, required, StartOf(required), EndOf(required))
ConflictsOf(c, t) == Unmet(c, t, StillToTeach(c))

(* Who teaches the course's program, or anybody if it has none.            *)
Expert(t, c) == courses[c].program \in expertise[t] \cup {NoProgram}
Suitable(c) == {t \in Teachers : Expert(t, c) /\ ConflictsOf(c, t) = {}}

(* Their order: who teaches the course now, then by points, then by name.  *)
(* Points are tenths, a ratio thousandths, rounded where the code rounds.  *)
Rounded(n, d) == (2 * n + d) \div (2 * d)
PreferredRatio(preferred, required) ==
  LET within(i) == Lengths(Clip(preferred, i[1], i[2])) IN
  Rounded(1000 * MapThenSumSet(within, required), Lengths(required))
PeakWeek(c, t, required) ==
  LET load(w) ==
        HoursOf(t, {c}, StartOf(required), EndOf(required), w) + Hours(required, w)
  IN Max({0} \cup {load(w) : w \in Weeks(required)})
Headroom(c, t, required) ==   \* none under a limit of none
  IF MaxWeekly = 0 THEN 0
  ELSE Rounded(250 * Later(0, MaxWeekly - PeakWeek(c, t, required)), MaxWeekly)
PointsFor(c, t, required) ==
  400 + Headroom(c, t, required)
      + IF required = {} THEN 0
        ELSE Rounded(350 * PreferredRatio(ToSet(Preferred(calendars[t],
                             StartOf(required), EndOf(required))), required), 1000)
Points(c) == [t \in Teachers |-> PointsFor(c, t, StillToTeach(c))]
PlaceOf(t) == CHOOSE n \in DOMAIN calPlan.names : calPlan.names[n] = t
Ranked(current, suitable, points) ==
  LET outranks(t, o) ==
        /\ o # current
        /\ \/ t = current \/ points[t] > points[o]
           \/ points[t] = points[o] /\ PlaceOf(t) < PlaceOf(o)
  IN InOrder(suitable, outranks)

(* Windows offered when nobody is suitable: of each trainer's first long   *)
(* enough free intervals the part on its first day; of all of them the     *)
(* earliest, and by name.  Only experts are asked, if there are any.       *)
FirstPiece(i) == <<i[1], Sooner(i[2], At(DayOf(i[1]) + 1, 0))>>
Firsts(seq, n) == SubSeq(seq, 1, Sooner(n, Len(seq)))
(* Mutant: what is left of the window today, whatever is booked.           *)
OffersOfAny(t, duration) ==
  {<<t, i>> : i \in {j \in ToSet(Bookable(calendars[t], clock, At(Today + SearchDays, 0))) :
                       j[2] - j[1] >= duration}}
OffersOf(t, duration) ==
  LET free == FreeTime(t, clock, At(Today + SearchDays, 0))
      long == {k \in DOMAIN free : free[k][2] - free[k][1] >= duration}
  IN {<<t, FirstPiece(free[k])>> : k \in {n \in long : Cardinality({m \in long : m < n}) < PerTeacher}}
Pool(c) ==
  LET experts == {t \in Teachers : Expert(t, c)} IN IF experts = {} THEN Teachers ELSE experts
Alternatives(c, duration) ==
  LET sooner(a, b) ==
        \/ a[2][1] < b[2][1]
        \/ a[2][1] = b[2][1] /\ PlaceOf(a[1]) < PlaceOf(b[1])
  IN Firsts(InOrder(UNION {OffersOf(t, duration) : t \in Pool(c)}, sooner), OfferLimit)
Advice(c, ranked) ==
  [suitable |-> ranked,
   alternatives |->
     IF ranked # <<>> THEN <<>> ELSE Alternatives(c, courses[c].end - courses[c].start)]
Recommend(c) == Advice(c, Ranked(courses[c].teacher, Suitable(c), Points(c)))

-------------------------------------------------------------------------------
(* What the pages show of a trainer in [lo, hi): whole days, this week's   *)
(* unless others are asked for.                                            *)
Period ==
  LET monday == Today - (Today % WeekLength) IN <<At(monday, 0), At(monday + WeekLength, 0)>>
Pieces(i) ==
  {<<Later(i[1], At(d, 0)), Sooner(i[2], At(d + 1, 0))>> : d \in DayOf(i[1])..DayOf(i[2] - 1)}
Shown(cal, bookable, preferred, taught, lo, hi) ==
  [available |-> ToSet(Subtract(bookable, preferred)),
   preferred |-> ToSet(preferred),
   leave |-> EntryIntervals(cal, {"leave"}, lo, hi),
   unavailable |-> EntryIntervals(cal, {"unavailable"}, lo, hi),
   booked |-> Clip(taught, lo, hi)]
Segments(t, lo, hi) ==
  LET cal == calendars[t]
      shown == Shown(cal, Bookable(cal, lo, hi), Preferred(cal, lo, hi),
                     Teaching(t, {}, lo, hi), lo, hi)
  IN [state \in {"available", "preferred", "leave", "unavailable", "booked"} |->
        UNION {Pieces(i) : i \in shown[state]}]
HoursShown(t, lo, hi) ==
  [available |-> Lengths(ToSet(Bookable(calendars[t], lo, hi))),
   booked |-> Lengths(ToSet(Merge(Teaching(t, {}, lo, hi)))),
   free |-> Lengths(ToSet(FreeTime(t, lo, hi))),
   preferred |-> Lengths(ToSet(Preferred(calendars[t], lo, hi)))]
SlotStatus(t, slot) ==
  IF Touches(slot, Blocked(calendars[t], slot[1], slot[2])) THEN "unavailable"
  ELSE IF Touches(slot, Merge(Teaching(t, {}, slot[1], slot[2]))) THEN "booked"
  ELSE IF IsCovered(slot, Bookable(calendars[t], slot[1], slot[2])) THEN "free"
  ELSE "not_declared"

-------------------------------------------------------------------------------
(* Edits.  Whatever newly uncovers a required class is undone.             *)
UncoveredClasses(t, cal) ==
  UNION {LET required == StillToTeach(c)
             bookable == Bookable(cal, StartOf(required), EndOf(required))
         IN IF required = {} THEN {}
            ELSE {<<c, i>> : i \in {j \in required : ~IsCovered(j, bookable)}}
         : c \in CoursesOf(t)}
KeepsCovered(t, cal) == UncoveredClasses(t, cal) \subseteq UncoveredClasses(t, calendars[t])

Asks(op) == calPlan.left > 0 /\ op \in calPlan.edits
Puts(t, cal) ==
  /\ calendars' = [calendars EXCEPT ![t] = cal]
  /\ calPlan' = [calPlan EXCEPT !.left = @ - 1]
  /\ UNCHANGED <<clock, courses, expertise, agreed>>
Sent(new, old) == IF new = Same THEN old ELSE new
WithRules(t, rules) == [calendars[t] EXCEPT !.rules = rules]
WithEntries(t, entries) == [calendars[t] EXCEPT !.entries = entries]

CreateRules(t) ==
  /\ Asks("create_rules")
  /\ \E r \in calPlan.rules, days \in (SUBSET (0..WeekLength - 1)) \ {{}} :
       /\ r.start < r.end /\ r.from <= r.until /\ r.until >= Today
       /\ Len(calendars[t].rules) + Cardinality(days) <= MaxRules
       /\ Puts(t, WithRules(t, calendars[t].rules \o
            SetToSeq({[r EXCEPT !.day = d] : d \in days})))

(* A rule in force ends yesterday and its copy starts today; one that      *)
(* starts today cannot end yesterday, and stays.                           *)
RuleAfter(r, change) ==
  LET new == [r EXCEPT !.start = Sent(change.start, @), !.end = Sent(change.end, @),
                       !.kind = Sent(change.kind, @), !.until = Sent(change.until, @)]
      from == Later(Sent(change.from, Today), Today)
  IN IF r.from > Today THEN <<[new EXCEPT !.from = Sent(change.from, @)]>>
     ELSE <<[r EXCEPT !.until = from - 1], [new EXCEPT !.from = from]>>
(* Mutant: the rule is edited where it stands.                             *)
ReplacedInPlace(rules, i, change) ==
  ReplaceAt(rules, i, Last(RuleAfter([rules[i] EXCEPT !.from = Today + 1], change)))
Replaced(rules, i, change) ==
  LET after == RuleAfter(rules[i], change)
  IN ReplaceAt(rules, i, after[1]) \o Tail(after)
DatesInOrder(rules) == \A i \in DOMAIN rules : rules[i].from <= rules[i].until
TimesInOrder(rules) == \A i \in DOMAIN rules : rules[i].start < rules[i].end
UpdateRule(t) ==
  /\ Asks("update_rule")
  /\ \E i \in DOMAIN calendars[t].rules, change \in calPlan.changes :
       LET rules == Replaced(calendars[t].rules, i, change) IN
       /\ calendars[t].rules[i].until >= Today
       /\ TimesInOrder(rules) /\ DatesInOrder(rules)
       /\ KeepsCovered(t, WithRules(t, rules))
       /\ Puts(t, WithRules(t, rules))

RulesWithout(rules, i) ==
  IF rules[i].from > Today THEN RemoveAt(rules, i)
  ELSE [rules EXCEPT ![i].until = Today - 1]
DeleteRule(t) ==
  /\ Asks("delete_rule")
  /\ \E i \in DOMAIN calendars[t].rules :
       LET rules == RulesWithout(calendars[t].rules, i) IN
       /\ calendars[t].rules[i].until >= Today
       /\ DatesInOrder(rules)
       /\ KeepsCovered(t, WithRules(t, rules))
       /\ Puts(t, WithRules(t, rules))

(* Entries that are not over can be made, changed and removed.             *)
InBounds(e) == e.start < e.end /\ e.end - e.start <= MaxDays * DayLength /\ e.end > clock
CreateEntry(t) ==
  /\ Asks("create_entry")
  /\ \E e \in calPlan.entries :
       LET cal == WithEntries(t, Append(calendars[t].entries, e)) IN
       InBounds(e) /\ KeepsCovered(t, cal) /\ Puts(t, cal)

UpdateEntry(t) ==
  /\ Asks("update_entry")
  /\ \E i \in DOMAIN calendars[t].entries, e \in calPlan.entries, kind \in {Same, "leave", "available"} :
       LET old == calendars[t].entries[i]
           cal == WithEntries(t, ReplaceAt(calendars[t].entries, i,
                    [e EXCEPT !.kind = Sent(kind, old.kind)]))
       IN old.end > clock /\ InBounds(e) /\ KeepsCovered(t, cal) /\ Puts(t, cal)

DeleteEntry(t) ==
  /\ Asks("delete_entry")
  /\ \E i \in DOMAIN calendars[t].entries :
       LET cal == WithEntries(t, RemoveAt(calendars[t].entries, i)) IN
       calendars[t].entries[i].end > clock /\ KeepsCovered(t, cal) /\ Puts(t, cal)

-------------------------------------------------------------------------------
(* An administrator assigns a trainer; an overlap cannot be overridden.    *)
Assign(c, t) ==
  LET conflicts == ConflictsOf(c, t)
      required == StillToTeach(c)
  IN
  /\ Asks("assign") /\ courses[c].teacher # t
  /\ "overlap" \notin conflicts /\ (conflicts = {} \/ "override" \in calPlan.edits)
  /\ courses' = [courses EXCEPT ![c].teacher = t]
  /\ agreed' = [agreed EXCEPT ![c] =
       [till |-> IF required = {} THEN 0 ELSE EndOf(required),
        free |-> conflicts \cap {"leave", "outside_availability"} = {}]]
  /\ calPlan' = [calPlan EXCEPT !.left = @ - 1]
  /\ UNCHANGED <<clock, calendars, expertise>>

(* The programs a trainer teaches are replaced; assignments stay.          *)
SetExpertise(t) ==
  /\ Asks("set_expertise")
  /\ \E wanted \in SUBSET Programs : expertise' = [expertise EXCEPT ![t] = wanted]
  /\ calPlan' = [calPlan EXCEPT !.left = @ - 1]
  /\ UNCHANGED <<clock, calendars, courses, agreed>>

TimePasses ==
  /\ clock < At(LastDay, DayLength)
  /\ clock' = clock + 1
  /\ UNCHANGED <<calendars, courses, expertise, agreed, calPlan>>

CalNext ==
  \/ \E t \in calPlan.editors :
       \/ CreateRules(t) \/ UpdateRule(t) \/ DeleteRule(t)
       \/ CreateEntry(t) \/ UpdateEntry(t) \/ DeleteEntry(t)
  \/ \E t \in Teachers : SetExpertise(t) \/ \E c \in Courses : Assign(c, t)
  \/ TimePasses

CalSpec == CalInit /\ [][CalNext]_calVars

-------------------------------------------------------------------------------
(* What the calendar means, unit by unit.                                  *)
Units(i) == i[1]..i[2] - 1
Declared(t, u) ==
  \/ \E r \in ToSet(calendars[t].rules) :
       /\ r.day = DayOf(u) % WeekLength /\ r.from <= DayOf(u) /\ DayOf(u) <= r.until
       /\ u % DayLength \in r.start..r.end - 1
  \/ \E e \in ToSet(calendars[t].entries) : e.kind \in Offering /\ u \in e.start..e.end - 1
Excused(t, u) ==
  \E e \in ToSet(calendars[t].entries) : e.kind \in Blocking /\ u \in e.start..e.end - 1
TeachesAt(t, c, u) ==
  LET b == courses[c]
      d == DayOf(u)
      time == u % DayLength
  IN /\ b.teacher = t
     /\ \/ \E s \in b.sessions : s[1] = d /\ time \in s[2]..s[3] - 1
        \/ d % WeekLength \in b.days /\ d \in b.first..b.last /\ time \in b.start..b.end - 1

(* An assignment looks at the classes of a course from its first date to   *)
(* the end of the last one in its window; a session on an earlier date is  *)
(* not looked at.                                                          *)
LookedAt(c, u) == DayOf(u) >= courses[c].first /\ u < agreed[c].till

(* A class that lies ahead, as far as its assignment looked, meets no      *)
(* other class of its trainer that an assignment looked at as well, and    *)
(* lies in declared time without leave unless it was assigned with an      *)
(* override, whatever the trainer edited since (core/scheduling.py:322-376,*)
(* core/scheduling_service.py:131-159).                                    *)
ClassesFit ==
  \A c \in Courses :
    LET t == courses[c].teacher IN
    \A u \in clock..agreed[c].till - 1 :
      TeachesAt(t, c, u) /\ LookedAt(c, u) =>
        /\ \A o \in Courses \ {c} : LookedAt(o, u) => ~TeachesAt(t, o, u)
        /\ agreed[c].free => Declared(t, u) /\ ~Excused(t, u)

(* Every value has its type, and the rows satisfy their check constraints. *)
CalendarInOrder ==
  /\ clock \in 0..(LastDay + 1) * DayLength
  /\ \A t \in Teachers : RowsInOrder(calendars[t])
  /\ \A c \in Courses : courses[c] \in Course
  /\ expertise \in [Teachers -> SUBSET Programs]
  /\ agreed \in [Courses -> [till: Nat, free: BOOLEAN]]

FreeAt(t, u, without) ==
  /\ Declared(t, u) /\ ~Excused(t, u)
  /\ \A o \in Courses \ without : ~TeachesAt(t, o, u)
PrefersAt(t, u) ==
  /\ ~Excused(t, u)
  /\ \/ \E r \in ToSet(calendars[t].rules) :
          /\ r.kind = "preferred" /\ r.day = DayOf(u) % WeekLength
          /\ r.from <= DayOf(u) /\ DayOf(u) <= r.until /\ u % DayLength \in r.start..r.end - 1
     \/ \E e \in ToSet(calendars[t].entries) : e.kind = "preferred" /\ u \in e.start..e.end - 1
IsTaught(t, u) == \E c \in Courses : TeachesAt(t, c, u)

(* A trainer is recommended exactly when every unit of every required      *)
(* class is declared, without leave and without another class, the weeks   *)
(* hold it and the program is theirs.  The one who teaches it comes first, *)
(* and of the others nobody comes after one who is no better placed, in    *)
(* the fullest week and in preferred hours, and in one of them worse by    *)
(* what the rounding cannot hide: a tenth of a point                       *)
(* (core/scheduling.py:322-376, 387-420, 446-484).                         *)
RankedRightly(c, ranked, required, peak) ==
  LET liked(t) ==
        Cardinality(UNION {{i} \X {u \in Units(i) : PrefersAt(t, u)} : i \in required})
      behind(t, o) ==
        /\ t # courses[c].teacher /\ peak[o] <= peak[t] /\ liked(o) >= liked(t)
        /\ \/ peak[o] < peak[t] /\ 250 * (peak[t] - peak[o]) >= MaxWeekly
           \/ liked(o) > liked(t) /\ 1000 * (liked(o) - liked(t)) >= 3 * Lengths(required)
  IN \A m, n \in DOMAIN ranked :
       m < n => ranked[n] # courses[c].teacher /\ ~behind(ranked[m], ranked[n])
AdviceIsRight(c, ranked, ahead) ==
  /\ \A t \in Teachers :
       /\ t \in ToSet(ranked) <=> Expert(t, c) /\ ConflictsOf(c, t) = {}
       /\ ConflictsOf(c, t) \subseteq {"workload"} <=> \A u \in ahead : FreeAt(t, u, {c})
  /\ IsInjective(ranked)
  /\ RankedRightly(c, ranked, StillToTeach(c), [t \in Teachers |-> PeakWeek(c, t, StillToTeach(c))])

(* Windows are offered when nobody is suitable; each is free time of a     *)
(* trainer of the program, starts no earlier than now, and is long enough  *)
(* unless midnight cuts it (core/scheduling.py:423-439, 486-490).          *)
OffersAreRight(c, advice) ==
  /\ advice.suitable # <<>> => advice.alternatives = <<>>
  /\ \A x \in ToSet(advice.alternatives) :
       LET t == x[1]
           i == x[2]
       IN /\ Expert(t, c) \/ \A o \in Teachers : ~Expert(o, c)
          /\ clock <= i[1] /\ i[1] < i[2]
          /\ i[2] - i[1] >= courses[c].end - courses[c].start \/ i[2] % DayLength = 0
          /\ \A u \in Units(i) : FreeAt(t, u, {})

RecommendIsRight(c, advice) ==
  /\ AdviceIsRight(c, advice.suitable, UNION {Units(i) : i \in StillToTeach(c)})
  /\ OffersAreRight(c, advice)

(* What the pages show of a trainer says of every unit what holds there:   *)
(* no unit is both available and on leave, what is not shown as available  *)
(* or preferred is not bookable, hours shown are as many as there are, and *)
(* a slot is free only when an assignment in it would meet nothing         *)
(* (core/scheduling_service.py:42-89,                                      *)
(* api/routes_admin_trainer_scheduling.py:89-113).                         *)
SegmentsAreRight(t, days, segments) ==
  LET units(state) == UNION {Units(i) : i \in segments[state]} IN
  /\ \A state \in DOMAIN segments : \A i \in segments[state] :
       i[1] < i[2] /\ DayOf(i[1]) = DayOf(i[2] - 1)
  /\ units("preferred") = {u \in days : PrefersAt(t, u)}
  /\ units("available") = {u \in days : Declared(t, u) /\ ~Excused(t, u) /\ ~PrefersAt(t, u)}
  /\ units("leave") \cup units("unavailable") = {u \in days : Excused(t, u)}
  /\ units("booked") = {u \in days : IsTaught(t, u)}
HoursAreRight(t, days, hours) ==
  /\ hours.available = Cardinality({u \in days : Declared(t, u) /\ ~Excused(t, u)})
  /\ hours.booked = Cardinality({u \in days : IsTaught(t, u)})
  /\ hours.free = Cardinality({u \in days : FreeAt(t, u, {})})
  /\ hours.preferred = Cardinality({u \in days : PrefersAt(t, u)})
StatusIsRight(t, slot, status) ==
  /\ status = "free" <=> \A u \in slot : FreeAt(t, u, {})
  /\ status = "unavailable" <=> \E u \in slot : Excused(t, u)
  /\ status = "booked" => \E u \in slot : IsTaught(t, u)
PagesAreRight(t, lo, hi) ==
  /\ SegmentsAreRight(t, lo..hi - 1, Segments(t, lo, hi))
  /\ HoursAreRight(t, lo..hi - 1, HoursShown(t, lo, hi))
  /\ \A u, v \in At(Today, 0)..At(Today, DayLength) - 1 :
       u <= v => StatusIsRight(t, u..v, SlotStatus(t, <<u, v + 1>>))

(* The calendar, and all that is computed from it, is right: the rows are  *)
(* in order, and recommendations, alternative windows and pages agree with *)
(* what the trainer declared (core/scheduling.py:322-493).                 *)
CalendarIsRight ==
  /\ CalendarInOrder
  /\ \A c \in Courses : RecommendIsRight(c, Recommend(c))
  /\ \A t \in Teachers : PagesAreRight(t, Period[1], Period[2])

(* No edit takes weekly hours away from a day that has passed or changes   *)
(* their kind (api/routes_staff_availability.py:116-121, 145).            *)
PastHours(t) ==
  {h \in (0..At(Today, 0) - 1) \X Offering :
     \E r \in ToSet(calendars[t].rules) :
       /\ r.kind = h[2] /\ r.day = DayOf(h[1]) % WeekLength
       /\ r.from <= DayOf(h[1]) /\ DayOf(h[1]) <= r.until
       /\ h[1] % DayLength \in r.start..r.end - 1}
PastHoursKept == [][\A t \in Teachers : PastHours(t) \subseteq PastHours(t)']_calVars
===============================================================================
