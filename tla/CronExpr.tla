------------------------------- MODULE CronExpr -------------------------------
(***************************************************************************)
(* Cron expressions of the cron plugin (expr.py): what their five fields   *)
(* say and when an expression matches next, in a time zone whose clock is  *)
(* put forward once and put back once.                                     *)
(*                                                                         *)
(* An instant is a number of minutes in UTC, a wall clock's time the       *)
(* number of minutes it shows since the first midnight of the stretch.     *)
(***************************************************************************)
EXTENDS Naturals, Integers, Sequences, FiniteSets, FiniteSetsExt

CONSTANTS
    Months,         \* the stretch: a sequence of [month, days], from the first of a month on
    FirstWeekday,   \* the weekday of its first day, 0 for Sunday
    Summer,         \* [from, to]: the instants from and before which the clock is ahead
    Saving,         \* by how many minutes
    MaxSearchDays   \* MAX_SEARCH_DAYS: the steps of a search

DayLength == 24 * 60
Never == -1
DaysBefore == [m \in 1..(Len(Months) + 1) |-> MapThenSumSet(LAMBDA k : Months[k].days, 1..(m - 1))]
Days == DaysBefore[Len(Months) + 1]
MonthOf == [d \in 0..(Days - 1) |-> Max({m \in 1..Len(Months) : DaysBefore[m] <= d})]
Date(w) ==
    LET d == w \div DayLength
    IN  [month |-> Months[MonthOf[d]].month, day |-> d - DaysBefore[MonthOf[d]] + 1, weekday |-> (FirstWeekday + d) % 7]
Hour(w) == (w % DayLength) \div 60
Minute(w) == w % 60
Midnight(w) == w - (w % DayLength)

(* The zone.  A time the clock skips has no instant; of one it shows twice *)
(* the first is taken.                                                     *)
Wall(i) == IF Summer.from <= i /\ i < Summer.to THEN i + Saving ELSE i
Localize(w) ==
    LET shown == {i \in {w - Saving, w} : i >= 0 /\ Wall(i) = w}
    IN  IF shown = {} THEN Never ELSE Min(shown)
SecondTime(i) == Localize(Wall(i)) # i

(* A field is a set of parts [body, from, to, step] with body "*", "value" *)
(* or "range"; a step of 1 is no step.                                     *)
ParsePart(part, low, high) ==
    LET from == IF part.body = "*" THEN low ELSE part.from
        to   == CASE part.body = "*" -> high
                  [] part.body = "range" -> part.to
                  [] part.body = "value" -> IF part.step > 1 THEN high ELSE part.from
    IN  {v \in from..to : (v - from) % part.step = 0}
PartValid(part, low, high) ==
    /\ part.step >= 1
    /\ part.body # "*" => part.from \in low..high
    /\ part.body = "range" => part.to \in part.from..high
ParseField(field, low, high) == UNION {ParsePart(part, low, high) : part \in field}
Restricted(field) == field # {[body |-> "*", from |-> 0, to |-> 0, step |-> 1]}
Accepted(source) ==
    /\ \A part \in source.minute : PartValid(part, 0, 59)
    /\ \A part \in source.hour : PartValid(part, 0, 23)
    /\ \A part \in source.day : PartValid(part, 1, 31)
    /\ \A part \in source.month : PartValid(part, 1, 12)
    /\ \A part \in source.weekday : PartValid(part, 0, 7)
ParseExpr(source) ==
    [minutes |-> ParseField(source.minute, 0, 59), hours |-> ParseField(source.hour, 0, 23),
     days |-> ParseField(source.day, 1, 31), months |-> ParseField(source.month, 1, 12),
     weekdays |-> {IF v = 7 THEN 0 ELSE v : v \in ParseField(source.weekday, 0, 7)},
     dayRestricted |-> Restricted(source.day), weekdayRestricted |-> Restricted(source.weekday)]

DateMatches(e, w) ==
    LET date    == Date(w)
        day     == date.day \in e.days
        weekday == date.weekday \in e.weekdays
    IN  /\ date.month \in e.months
        /\ IF e.dayRestricted /\ e.weekdayRestricted THEN day \/ weekday ELSE day /\ weekday
Matches(e, w) == Hour(w) \in e.hours /\ Minute(w) \in e.minutes /\ DateMatches(e, w)

(* Mutant: the minute is a floor in every hour. *)
FirstSlotKeepingMinute(e, w) ==
    LET slots == {h \in e.hours : h >= Hour(w) /\ \E m \in e.minutes : m >= Minute(w)}
    IN  IF ~DateMatches(e, w) \/ slots = {} THEN Never
        ELSE Midnight(w) + 60 * Min(slots) + Min({m \in e.minutes : m >= Minute(w)})
FirstSlotOnOrAfter(e, w) ==
    LET Floor(h) == IF h = Hour(w) THEN Minute(w) ELSE 0
        slots == {h \in e.hours : h >= Hour(w) /\ \E m \in e.minutes : m >= Floor(h)}
    IN  IF ~DateMatches(e, w) \/ slots = {} THEN Never
        ELSE LET h == Min(slots) IN Midnight(w) + 60 * h + Min({m \in e.minutes : m >= Floor(h)})
(* The search, day by day and slot by slot, from the minute after; it ends *)
(* with the stretch.  Times of one zone are compared by what the clock     *)
(* shows.                                                                  *)
NextAfter(e, moment) ==
    LET search[k \in 0..MaxSearchDays, w \in Nat] ==
            IF k = 0 \/ w >= Days * DayLength THEN Never
            ELSE LET slot == FirstSlotOnOrAfter(e, w)
                 IN  IF slot = Never THEN search[k - 1, Midnight(w) + DayLength]
                     ELSE IF Localize(slot) # Never /\ slot > Wall(moment) THEN Localize(slot)
                     ELSE search[k - 1, slot + 1]
    IN  search[MaxSearchDays, Wall(moment) + 1]
-------------------------------------------------------------------------------
(* expr.py:18-30.  From a moment the clock shows for the first time, the   *)
(* next run is the first later moment whose date and time match: nothing   *)
(* the clock skips, nothing twice, and nothing that matches left out.      *)
NextIsTheFirst(e, moment) ==
    ~SecondTime(moment) =>
        LET next == NextAfter(e, moment)
            MatchesAt(i) == Matches(e, Wall(i)) /\ ~SecondTime(i)
            last == IF next = Never THEN Days - 1 ELSE Wall(next) \div DayLength
        IN  /\ next # Never => next > moment /\ MatchesAt(next)
            /\ \A d \in (Wall(moment) \div DayLength)..last, h \in e.hours, m \in e.minutes :
                  LET w == d * DayLength + 60 * h + m
                      i == Localize(w)
                  IN  DateMatches(e, w) /\ i > moment => next # Never /\ next <= i
(* expr.py:30 and :111-114, test_cron_expr.py:175.  The next run is later  *)
(* than the moment it is asked at, compared as instants, so the loop never *)
(* runs on the spot.                                                       *)
NextIsLater(e, moment) == NextAfter(e, moment) # Never => NextAfter(e, moment) > moment
===============================================================================
