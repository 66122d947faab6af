----------------------------- MODULE Schedules -----------------------------
(***************************************************************************)
(* Schedules: the primitives, how they combine, what a list of steps       *)
(* decodes to, and the hours of activity of the service.  The source's     *)
(* schedule is a predicate on time slots; here it is the set of the slots  *)
(* where it holds.  Times are whole minutes from midnight; the number of   *)
(* minutes of a day is a parameter.                                        *)
(***************************************************************************)
EXTENDS Integers, Sequences

CONSTANTS
  Refused,      \* the answer of a decoder that refuses
  MinutesADay   \* 1440

ScheduleAssumption == MinutesADay \in Nat

DayNumber == 0..6   \* Monday is 0
MinuteOfWeek == [day : DayNumber, minute : 0..(MinutesADay - 1)]

\* JavaScript's week starts with Sunday.
GetDay(jsDay) == IF jsDay = 0 THEN 6 ELSE jsDay - 1

(* Primitives. *)
Day(d) == {s \in MinuteOfWeek : s.day = d}

Defect_TimeRange(from, to) == {s \in MinuteOfWeek : s.minute >= from /\ s.minute <= to}

TimeRange(from, to) == {s \in MinuteOfWeek : s.minute >= from /\ s.minute < to}

\* A duration that passes midnight is cut there.
Duration(start, amount) == TimeRange(start, start + amount)

\* (The remainder by zero is not a number, and nothing is less than that.)
Recurring(every, duration) == {s \in MinuteOfWeek : every # 0 /\ s.minute % every < duration}
Always == MinuteOfWeek
Never == {}

(* Combinators. *)
Invert(schedule) == MinuteOfWeek \ schedule
Block(d, from, to) == Day(d) \intersect TimeRange(from, to)
Weekdays(from, to) == UNION {Block(d, from, to) : d \in 0..4}
Weekend(from, to) == UNION {Block(d, from, to) : d \in {5, 6}}
Subtract(base, exclude) == base \intersect Invert(exclude)
WithBlackout(schedule, from, to) == schedule \intersect Invert(TimeRange(from, to))

-----------------------------------------------------------------------------
(* A step is <<op, verb>>, a verb <<name, ...arguments>>. *)

ScheduleStepSchema ==
  [always |-> <<>>, never |-> <<>>, day |-> <<"day">>, timeRange |-> <<"time", "time">>,
   duration |-> <<"time", "duration">>, recurring |-> <<"duration", "duration">>,
   block |-> <<"day", "time", "time">>, weekdays |-> <<"time", "time">>,
   weekend |-> <<"time", "time">>]

DecodeVerb(verb) ==
  CASE verb[1] = "always" -> Always
    [] verb[1] = "never" -> Never
    [] verb[1] = "day" -> Day(verb[2])
    [] verb[1] = "timeRange" -> TimeRange(verb[2], verb[3])
    [] verb[1] = "duration" -> Duration(verb[2], verb[3])
    [] verb[1] = "recurring" -> Recurring(verb[2], verb[3])
    [] verb[1] = "block" -> Block(verb[2], verb[3], verb[4])
    [] verb[1] = "weekdays" -> Weekdays(verb[2], verb[3])
    [] verb[1] = "weekend" -> Weekend(verb[2], verb[3])
    [] OTHER -> Refused

Op == {"union", "intersection", "subtract"}

ApplyOp(acc, schedule, op) ==
  CASE op = "union" -> acc \union schedule
    [] op = "intersection" -> acc \intersect schedule
    [] op = "subtract" -> Subtract(acc, schedule)

Verb(json, i) == DecodeVerb(json[i][2])
Refuses(json) == \E i \in DOMAIN json : Verb(json, i) = Refused

Defect_Compose(json) ==
  LET after[i \in 1..Len(json)] ==
        ApplyOp(IF i = 1 THEN Never ELSE after[i - 1], Verb(json, i), json[i][1])
  IN IF Refuses(json) THEN Refused ELSE after

\* The schedule after each step.  The op of the first step is ignored.
Compose(json) ==
  LET after[i \in 1..Len(json)] ==
        IF i = 1 THEN Verb(json, i) ELSE ApplyOp(after[i - 1], Verb(json, i), json[i][1])
  IN IF Refuses(json) THEN Refused ELSE after

DecodeSchedule(json) ==
  IF Refuses(json) THEN Refused
  ELSE IF json = <<>> THEN Never ELSE Compose(json)[Len(json)]

\* The form gives a verb that is picked these arguments, then edits them.
DefaultArg(kind) == CASE kind = "day" -> 0 [] kind = "time" -> 1 [] kind = "duration" -> 2
VerbFor(name) ==
  <<name>> \o [i \in DOMAIN ScheduleStepSchema[name] |-> DefaultArg(ScheduleStepSchema[name][i])]
ArgValues(kind) == IF kind = "day" THEN {0, 5} ELSE {0, 2, MinutesADay - 1}
VerbsOf(name) == {VerbFor(name)} \union
  UNION {{[VerbFor(name) EXCEPT ![i + 1] = v] : v \in ArgValues(ScheduleStepSchema[name][i])} :
           i \in DOMAIN ScheduleStepSchema[name]}

-----------------------------------------------------------------------------
(* The hours of activity. *)

\* Its codec takes no hours that end before they start.
ActivationDecodes(activation) == activation.from < activation.to

ToSchedule(activation) ==
  (UNION {Day(d) : d \in activation.days}) \intersect TimeRange(activation.from, activation.to)

-----------------------------------------------------------------------------
(* Properties. *)

\* The last step that settles a minute decides it: a union that holds there, an
\* intersection that does not, a subtraction that does; with none, the first
\* step does.  So the order of the steps matters and the operation written on
\* the first one never does.
StepsMeanTheLastThatDecides(json) ==
  LET Settles(i, s) == i > 1 /\ (s \in Verb(json, i) <=> json[i][1] # "intersection")
      Deciding(s) == {i \in DOMAIN json : Settles(i, s)}
  IN IF Refuses(json) THEN DecodeSchedule(json) = Refused
     ELSE DecodeSchedule(json) = IF json = <<>> THEN {} ELSE
            {s \in MinuteOfWeek :
               IF Deciding(s) = {} THEN s \in Verb(json, 1)
               ELSE \E i \in Deciding(s) : json[i][1] = "union" /\ \A j \in Deciding(s) : j <= i}

\* The hours of activity the codec takes are the same every active day, never
\* none, and stop before the day does; the weekdays of a schedule's steps are
\* the same hours from Monday to Friday, and a blackout is a subtraction.
ActivityIsItsHours(activation) ==
  ActivationDecodes(activation) =>
    LET active == ToSchedule(activation) IN
    /\ activation.days # {} => active # {}
    /\ active = {s \in MinuteOfWeek :
                   /\ s.day \in activation.days
                   /\ activation.from <= s.minute /\ ~ s.minute >= activation.to}
    /\ activation.days = 0..4 => active = Weekdays(activation.from, activation.to)
    /\ \A d \in activation.days : \E s \in active : s.day = d
    /\ WithBlackout(active, activation.from, activation.to) = {}
=============================================================================
