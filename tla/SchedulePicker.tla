--------------------------- MODULE SchedulePicker ---------------------------
(***************************************************************************)
(* The schedule of a rule: lib/schedule.ts (cron to the picker's plain     *)
(* modes and back, its wording, the next runs) and the picker itself       *)
(* (ui/SchedulePicker.tsx), which keeps cron as the only stored value.     *)
(*                                                                         *)
(* A cron is five fields, a field the parts its commas separate: base "*", *)
(* "n" or "n-m", and a step (0 when there is none). Wall-clock time is a   *)
(* day number counted from Friday 1 January 2027, an hour and a minute;    *)
(* the zone only chooses what "now" is.                                    *)
(***************************************************************************)
EXTENDS Integers, Sequences, FiniteSets, SequencesExt

CONSTANT MaxPicks      \* bound: changes made in the picker

VARIABLES
    cron,      \* the stored cron, the picker's prop
    custom,    \* "Custom" was chosen, or nothing else can show the cron
    keep,      \* values remembered across modes; an empty record at first
    now,       \* wallNow(): [day, hour, minute], fixed
    picks      \* changes made so far

pickerVars == <<cron, custom, keep, now, picks>>

Modes == {"daily", "days", "every", "monthly", "custom"}
DEFAULT_SCHEDULE == [mode |-> "daily", time |-> <<8, 0>>, days |-> 1 .. 5, dom |-> 1,
                     n |-> 15, unit |-> "min", at |-> 0]
Kept(s) == [k \in DOMAIN s \ {"mode"} |-> s[k]]

-----------------------------------------------------------------------------
(* Cron fields. *)

Part(base, a, b, step) == [base |-> base, a |-> a, b |-> b, step |-> step]
Star == <<Part("*", 0, 0, 0)>>
Num(n) == <<Part("n", n, 0, 0)>>
Between(a, b) == <<Part("n-m", a, b, 0)>>
EveryNth(n) == <<Part("*", 0, 0, n)>>
NumList(s) == [i \in DOMAIN s |-> Part("n", s[i], 0, 0)]
Unreadable == <<Part("?", 0, 0, 0)>>

isNum(field) == Len(field) = 1 /\ field[1].base = "n" /\ field[1].step = 0
isStep(field) == Len(field) = 1 /\ field[1].base = "*" /\ field[1].step > 0

FirstOf(p, lo) == IF p.base = "*" THEN lo ELSE p.a
LastOf(p, hi) ==
    CASE p.base = "*" -> hi
      [] p.base = "n-m" -> p.b
      [] OTHER -> IF p.step > 0 THEN hi ELSE p.a
Step(p) == IF p.step > 0 THEN p.step ELSE 1

Readable(p, lo, hi) ==
    /\ p.base # "?"
    /\ FirstOf(p, lo) >= lo /\ LastOf(p, hi) <= hi /\ FirstOf(p, lo) <= LastOf(p, hi)

(* The values of a field, {} when it cannot be read. Weekday 7 is Sunday.  *)
cronField(field, lo, hi) ==
    IF \E p \in Range(field) : ~Readable(p, lo, hi) THEN {}
    ELSE {IF hi = 7 /\ v = 7 THEN 0 ELSE v :
            v \in UNION {{x \in FirstOf(p, lo) .. LastOf(p, hi) : (x - FirstOf(p, lo)) % Step(p) = 0} :
                         p \in Range(field)}}

NotCron == [minutes |-> {}]
cronParts(c) ==
    LET f == [minutes |-> cronField(c[1], 0, 59), hours |-> cronField(c[2], 0, 23),
              dom |-> cronField(c[3], 1, 31), months |-> cronField(c[4], 1, 12),
              dow |-> cronField(c[5], 0, 7)]
    IN  IF \E k \in DOMAIN f : f[k] = {} THEN NotCron ELSE f

IsValidCron(c) == cronParts(c) # NotCron

-----------------------------------------------------------------------------
(* The simple modes. *)

scheduleFromCron(c) ==
    LET mi == c[1]
        h == c[2]
        hasTime == isNum(mi) /\ isNum(h)
        time == <<h[1].a, mi[1].a>>
        anyDay == c[3] = Star /\ c[5] = Star
    IN  CASE ~IsValidCron(c) \/ c[4] # Star -> [mode |-> "custom"]
          [] hasTime /\ anyDay -> [mode |-> "daily", time |-> time]
          [] hasTime /\ c[3] = Star -> [mode |-> "days", time |-> time, days |-> cronParts(c).dow]
          [] hasTime /\ isNum(c[3]) /\ c[5] = Star /\ c[3][1].a <= 28 ->
                [mode |-> "monthly", time |-> time, dom |-> c[3][1].a]
          [] anyDay /\ isStep(mi) /\ h = Star -> [mode |-> "every", n |-> mi[1].step, unit |-> "min"]
          [] anyDay /\ isStep(h) /\ isNum(mi) ->
                [mode |-> "every", n |-> h[1].step, unit |-> "h", at |-> mi[1].a]
          [] anyDay /\ isNum(mi) /\ h = Star -> [mode |-> "every", n |-> 1, unit |-> "h", at |-> mi[1].a]
          [] OTHER -> [mode |-> "custom"]

clampRepeat(n, unit) ==
    LET most == IF unit = "min" THEN 59 ELSE 23
    IN  CASE n < 1 -> 1 [] n > most -> most [] OTHER -> n

cronFromSchedule(s) ==
    LET n == clampRepeat(s.n, s.unit)
        mm == Num(s.time[2])
        hh == Num(s.time[1])
    IN  CASE s.mode = "daily" -> <<mm, hh, Star, Star, Star>>
          [] s.mode = "days" -> <<mm, hh, Star, Star,
                IF s.days = 1 .. 5 THEN Between(1, 5) ELSE NumList(SetToSortSeq(s.days, <))>>
          [] s.mode = "monthly" -> <<mm, hh, Num(s.dom), Star, Star>>
          [] s.unit = "min" -> <<EveryNth(n), Star, Star, Star, Star>>
          [] n = 1 -> <<Num(s.at), Star, Star, Star, Star>>
          [] OTHER -> <<Num(s.at), EveryNth(n), Star, Star, Star>>

-----------------------------------------------------------------------------
(* The calendar and the next runs. *)

MonthEnds == <<0, 31, 59, 90, 120, 151, 181, 212, 243, 273, 304, 334, 365>>
LeapEnds == [i \in DOMAIN MonthEnds |-> IF i > 2 THEN MonthEnds[i] + 1 ELSE MonthEnds[i]]

(* Days 0 to 364 are 2027, the next 366 are 2028.                          *)
DateOf(n) ==
    LET ends == IF n < 365 THEN MonthEnds ELSE LeapEnds
        doy == IF n < 365 THEN n ELSE n - 365
        month == CHOOSE m \in 1 .. 12 : ends[m] <= doy /\ doy < ends[m + 1]
    IN  [month |-> month, day |-> doy - ends[month] + 1, dow |-> (n + 5) % 7]

dayOk(c, P, date) ==
    CASE c[3] = Star /\ c[5] = Star -> TRUE
      [] c[3] = Star -> date.dow \in P.dow
      [] c[5] = Star -> date.day \in P.dom
      [] OTHER -> date.day \in P.dom \/ date.dow \in P.dow

RunsOnDay(c, P, n) ==
    LET date == DateOf(n)
    IN  date.month \in P.months /\ dayOk(c, P, date)

(* Today's times up to now have passed.                                    *)
Passed(i, hour, minute) ==
    i = 0 /\ (hour < now.hour \/ (hour = now.hour /\ minute <= now.minute))

MaxRuns == 3
MaxDays == 400

RECURSIVE MinutesLoop(_, _, _, _)
MinutesLoop(i, hour, minutes, out) ==
    IF minutes = {} \/ Len(out) >= MaxRuns THEN out
    ELSE LET m == CHOOSE x \in minutes : \A y \in minutes : x <= y
         IN  MinutesLoop(i, hour, minutes \ {m},
                         IF Passed(i, hour, m) THEN out
                         ELSE Append(out, [day |-> now.day + i, hour |-> hour, minute |-> m]))

HoursLoop(P, i, out) ==
    FoldLeft(LAMBDA acc, hour : IF hour \in P.hours THEN MinutesLoop(i, hour, P.minutes, acc) ELSE acc,
             out, [h \in 1 .. 24 |-> h - 1])

(* The days the loop does not skip, earliest first.                        *)
RECURSIVE DaysLoop(_, _, _)
DaysLoop(P, days, out) ==
    IF days = {} \/ Len(out) >= MaxRuns THEN out
    ELSE LET i == CHOOSE x \in days : \A y \in days : x <= y
         IN  DaysLoop(P, days \ {i}, HoursLoop(P, i, out))

nextRuns(c) ==
    LET P == cronParts(c)
    IN  IF ~IsValidCron(c) THEN <<>>
        ELSE DaysLoop(P, {i \in 0 .. MaxDays - 1 : RunsOnDay(c, P, now.day + i)}, <<>>)

-----------------------------------------------------------------------------
(* The wording: what its sentence says about the days and the times.       *)

MinutesApart(n) == {<<h, m>> \in (0 .. 23) \X (0 .. 59) : m % n = 0}
HoursApart(n, at) == {<<h, at>> : h \in {x \in 0 .. 23 : x % n = 0}}

Says(on, v, times) == [on |-> on, v |-> v, times |-> times]
Silent == Says("unsaid", {}, {})     \* "on a custom schedule", "invalid schedule"

cronHuman(c) ==
    LET s == scheduleFromCron(c)
        P == cronParts(c)
        times == P.hours \X P.minutes
        few == Cardinality(P.hours) * Cardinality(P.minutes) <= 4
    IN  CASE s.mode = "daily" -> Says("every day", {}, {s.time})
          [] s.mode = "days" -> Says("weekdays", s.days, {s.time})
          [] s.mode = "monthly" -> Says("day of month", {s.dom}, {s.time})
          [] s.mode = "every" -> Says("every day", {},
                IF s.unit = "min" THEN MinutesApart(s.n) ELSE HoursApart(s.n, s.at))
          [] ~IsValidCron(c) -> Silent
          [] ~few \/ c[4] # Star -> Silent
          [] c[3] = Star /\ c[5] = Star -> Says("every day", {}, times)
          [] c[3] = Star -> Says("weekdays", P.dow, times)
          [] c[5] = Star /\ Cardinality(P.dom) = 1 -> Says("day of month", P.dom, times)
          [] OTHER -> Silent

SaidDay(said, n) ==
    CASE said.on = "every day" -> TRUE
      [] said.on = "weekdays" -> DateOf(n).dow \in said.v
      [] OTHER -> DateOf(n).day \in said.v

-----------------------------------------------------------------------------
(* The picker. *)

(* What the controls show: {...DEFAULT, ...keep, ...custom or the cron's}. *)
Shown == (IF custom THEN [mode |-> "custom"] ELSE scheduleFromCron(cron)) @@ keep @@ DEFAULT_SCHEDULE

OpenedCrons == {
    <<Num(0), Num(22), Star, Star, Star>>,
    <<Num(30), Num(7), Star, Star, NumList(<<2, 4>>)>>,
    <<EveryNth(20), Star, Star, Star, Star>>,
    <<Num(5), EveryNth(6), Star, Star, Star>>,
    <<Num(0), Num(9), Num(31), Star, Star>>,
    <<Num(0), NumList(<<8, 20>>), Star, Star, Between(1, 5)>>,
    <<Num(0), Num(12), Star, NumList(<<2>>), Star>>,
    <<Num(0), Num(6), Num(29), Num(2), Star>>,
    <<Num(0), Num(6), NumList(<<1, 15>>), Star, Num(7)>>}

TypedCrons == OpenedCrons \cup {<<Num(0), Num(22), Star, Star, Unreadable>>, <<Num(60), Star, Star, Star, Star>>}

PickerInit ==
    /\ cron \in OpenedCrons
    /\ custom = (scheduleFromCron(cron).mode = "custom")
    /\ keep = <<>>
    /\ now \in {[day |-> 29, hour |-> 22, minute |-> 0], [day |-> 59, hour |-> 7, minute |-> 29]}
    /\ picks = 0

Pick == picks < MaxPicks /\ picks' = picks + 1 /\ UNCHANGED now

(* apply(next) with the merged model; a simple mode writes the cron.       *)
apply(s) ==
    /\ keep' = Kept(s)
    /\ custom' = FALSE
    /\ cron' = cronFromSchedule(s)

(* Leaving Custom keeps the time where the typed cron had a single one.    *)
TimeLeaving ==
    LET P == cronParts(cron)
        hour == CHOOSE h \in P.hours : \A g \in P.hours : h <= g
    IN  IF custom /\ IsValidCron(cron) /\ Cardinality(P.minutes) = 1
        THEN <<hour, CHOOSE m \in P.minutes : TRUE>> ELSE Shown.time

setMode(mode) ==
    /\ Pick
    /\ IF mode = "custom" THEN custom' = TRUE /\ UNCHANGED <<cron, keep>>
       ELSE apply([Shown EXCEPT !.mode = mode, !.time = TimeLeaving])

(* Toggling a day, Weekdays, Weekends: at least one day stays selected.    *)
SetDays(days) ==
    /\ Shown.mode = "days" /\ days # {}
    /\ Pick
    /\ apply([Shown EXCEPT !.days = days])

SetTime(time) ==
    /\ Shown.mode \in {"daily", "days", "monthly"}
    /\ Pick
    /\ apply([Shown EXCEPT !.time = time])

SetInterval(n) ==
    /\ Shown.mode = "every"
    /\ Pick
    /\ apply([Shown EXCEPT !.n = clampRepeat(n, Shown.unit)])

AtMost12(n) == IF n > 12 THEN 12 ELSE n
SetUnit(unit) ==
    /\ Shown.mode = "every"
    /\ Pick
    /\ apply([Shown EXCEPT !.unit = unit,
                           !.n = clampRepeat(IF unit = "h" THEN AtMost12(Shown.n) ELSE Shown.n, unit)])

SetDom(dom) ==
    /\ Shown.mode = "monthly"
    /\ Pick
    /\ apply([Shown EXCEPT !.dom = dom])

TypeCron(c) ==
    /\ Shown.mode = "custom"
    /\ Pick
    /\ cron' = c
    /\ UNCHANGED <<custom, keep>>

PickerNext ==
    \/ \E mode \in Modes : setMode(mode)
    \/ \E d \in {1, 6} : SetDays(IF d \in Shown.days THEN Shown.days \ {d} ELSE Shown.days \cup {d})
    \/ SetDays({0, 6})
    \/ \E t \in {<<23, 30>>} : SetTime(t)
    \/ \E n \in {0, 1, 45, 90} : SetInterval(n)
    \/ \E u \in {"min", "h"} : SetUnit(u)
    \/ SetDom(28)
    \/ \E c \in TypedCrons : TypeCron(c)

-----------------------------------------------------------------------------
(* Properties. *)

(* A cron the picker writes is shown again as the mode and the values it   *)
(* was written from, and what belongs to another mode is remembered:       *)
(* picking "Monthly" and back to "Certain days" shows the same days.       *)
(* Choosing Custom is left out: it remembers nothing (SchedulePicker.tsx   *)
(* line 68).                                                               *)
ShowsPickStep ==
    LET before == Shown
        after == Shown'
    IN  ~custom' =>
          /\ cron' # cron => Kept(after) = keep'
          /\ ~custom /\ after.mode # before.mode => Kept(after) = Kept(before)

(* "The next n runs ... strictly after from": each one is a run, they come *)
(* in order, and no run between now and the last one is left out.          *)
IsRun(c, P, r) == RunsOnDay(c, P, r.day) /\ r.hour \in P.hours /\ r.minute \in P.minutes
Before(r, s) ==
    \/ r.day < s.day
    \/ r.day = s.day /\ (r.hour < s.hour \/ (r.hour = s.hour /\ r.minute < s.minute))
NextRunsAreNext ==
    LET runs == nextRuns(cron)
        P == cronParts(cron)
        upTo == IF Len(runs) = MaxRuns THEN runs[MaxRuns]
                ELSE [day |-> now.day + MaxDays, hour |-> 0, minute |-> 0]
        due == {d \in now.day .. upTo.day : RunsOnDay(cron, P, d)}
    IN  P # NotCron =>
          /\ \A i \in DOMAIN runs : IsRun(cron, P, runs[i]) /\ Before(now, runs[i])
          /\ \A i \in DOMAIN runs : i > 1 => Before(runs[i - 1], runs[i])
          /\ \A d \in due, h \in P.hours, m \in P.minutes :
                LET r == [day |-> d, hour |-> h, minute |-> m]
                IN  Before(now, r) /\ Before(r, upTo) => r \in Range(runs)

(* "The one wording for a schedule": when the sentence names days and      *)
(* times, these are the days and the times it runs. An interval that does  *)
(* not divide the hour or the day (every 45 min) is left out: cron starts  *)
(* it again at each hour or midnight, so the sentence is only roughly true.*)
Uneven(c) ==
    LET s == scheduleFromCron(c)
    IN  s.mode = "every" /\ (IF s.unit = "min" THEN 60 ELSE 24) % s.n # 0
WordsSayWhenItRuns ==
    LET said == cronHuman(cron)
        P == cronParts(cron)
    IN  said # Silent /\ ~Uneven(cron) =>
          /\ said.times = P.hours \X P.minutes
          /\ \A d \in now.day .. now.day + 60 : SaidDay(said, d) = RunsOnDay(cron, P, d)
=============================================================================
