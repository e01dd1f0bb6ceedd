-------------------------------- MODULE Cron --------------------------------
(***************************************************************************)
(* Cron expressions and CronExpression.occurrence_between, the search that *)
(* finds the latest (or earliest) occurrence of a window without visiting  *)
(* its minutes: day by day from one end, and within a day that matches     *)
(* only through the hours and minutes the expression allows.               *)
(*                                                                         *)
(* A moment counts half minutes from midnight of day 0, in Seoul time,   *)
(* which has no daylight saving: the ends of a window need not be whole    *)
(* minutes.  The lengths of an hour and of a day are parameters, and so is *)
(* the calendar.                                                           *)
(***************************************************************************)
EXTENDS Integers, Sequences

CONSTANTS
    MaxMinute, MaxHour,     \* 59 and 23
    MaxDom, MaxMonth,       \* 31 and 12
    LastDay,                \* the days are 0 .. LastDay
    Dom, Month, Weekday,    \* the calendar: functions on the days
    Expressions             \* the parsed texts to try

Days == 0 .. LastDay
HalfMinutes == 2 * (MaxMinute + 1) * (MaxHour + 1)
Moments == 0 .. HalfMinutes * (LastDay + 1) - 1

\* One element of a field: "*", "lo-hi", "lo" or "lo/step"; the first two may
\* carry a step as well.  A field is a sequence of elements.
Elements == [span : {"star", "range", "single", "from"}, lo : Nat, hi : Nat, step : Nat]
FieldNames == {"minute", "hour", "dom", "month", "dow"}

ASSUME CronAssumption ==
    /\ {MaxMinute, MaxHour, MaxDom, MaxMonth, LastDay} \subseteq Nat
    /\ Dom \in [Days -> 1 .. MaxDom] /\ Month \in [Days -> 1 .. MaxMonth]
    /\ Weekday \in [Days -> 0 .. 6]
    /\ \A x \in Expressions : /\ DOMAIN x = FieldNames
                              /\ \A f \in FieldNames : x[f] \in Seq(Elements) \ {<<>>}

VARIABLES
    expr, start, end, latest,   \* the arguments
    pc,                         \* "parse", "search", "found", "none", "rejected"
    day,                        \* the day the search is at
    result                      \* the occurrence, when found

cronVars == <<expr, start, end, latest, pc, day, result>>
-----------------------------------------------------------------------------
Lowest(f) == IF f \in {"dom", "month"} THEN 1 ELSE 0
Highest(f) ==
    CASE f = "minute" -> MaxMinute [] f = "hour" -> MaxHour
      [] f = "dom" -> MaxDom [] f = "month" -> MaxMonth [] f = "dow" -> 7

Lo(f, item) == IF item.span = "star" THEN Lowest(f) ELSE item.lo
Hi(f, item) ==
    CASE item.span \in {"star", "from"} -> Highest(f)
      [] item.span = "range" -> item.hi
      [] item.span = "single" -> item.lo

ValidItem(f, item) ==
    /\ item.step > 0
    /\ Lowest(f) <= Lo(f, item)
    /\ Lo(f, item) <= Hi(f, item)
    /\ Hi(f, item) <= Highest(f)

ItemValues(f, item) ==
    {v \in Lo(f, item) .. Hi(f, item) : (v - Lo(f, item)) % item.step = 0}

Allowed(f) ==
    LET values == UNION {ItemValues(f, expr[f][i]) : i \in DOMAIN expr[f]}
    IN  values \cup IF f = "dow" /\ values \cap {0, 7} # {} THEN {0, 7} ELSE {}

Valid == \A f \in FieldNames : \A i \in DOMAIN expr[f] : ValidItem(f, expr[f][i])

Starred(f) == expr[f][1].span = "star"

DayMatches(d) ==
    LET dom == Dom[d] \in Allowed("dom")
        dow == Weekday[d] \in Allowed("dow")
    IN  /\ Month[d] \in Allowed("month")
        /\ IF Starred("dom") \/ Starred("dow") THEN dom /\ dow ELSE dom \/ dow
-----------------------------------------------------------------------------
DayOf(i) == i \div HalfMinutes
At(d, h, m) == d * HalfMinutes + 2 * (h * (MaxMinute + 1) + m)

\* The nested loops visit hours, and minutes within one, in order or in reverse.
Sooner(a, b) == IF latest THEN a > b ELSE a < b
Precedes(x, y) == Sooner(x[1], y[1]) \/ (x[1] = y[1] /\ Sooner(x[2], y[2]))

\* Mutant: a window that is closed on the left.
InWindowClosed(i) == start <= i /\ i <= end

InWindow(i) == start < i /\ i <= end

\* The first candidate of day d inside the window, as a set of at most one.
FirstOfDay(d) ==
    LET Hits == {c \in Allowed("hour") \X Allowed("minute") : InWindow(At(d, c[1], c[2]))}
    IN  {At(d, c[1], c[2]) : c \in {c \in Hits : \A o \in Hits : ~Precedes(o, c)}}

InRange(d) == DayOf(start) <= d /\ d <= DayOf(end)

FirstDay == IF latest THEN DayOf(end) ELSE DayOf(start)

CronInit ==
    /\ expr \in Expressions
    /\ start \in Moments /\ end \in Moments /\ latest \in BOOLEAN
    /\ pc = "parse" /\ day = FirstDay /\ result = start

Parse ==
    /\ pc = "parse"
    /\ pc' = IF Valid THEN "search" ELSE "rejected"
    /\ UNCHANGED <<expr, start, end, latest, day, result>>

TakeOccurrence ==
    /\ pc = "search" /\ InRange(day) /\ DayMatches(day)
    /\ result' \in FirstOfDay(day)
    /\ pc' = "found"
    /\ UNCHANGED <<expr, start, end, latest, day>>

NextDay ==
    /\ pc = "search" /\ InRange(day)
    /\ DayMatches(day) => FirstOfDay(day) = {}
    /\ day' = day + IF latest THEN -1 ELSE 1
    /\ UNCHANGED <<expr, start, end, latest, pc, result>>

GiveUp ==
    /\ pc = "search" /\ ~InRange(day)
    /\ pc' = "none"
    /\ UNCHANGED <<expr, start, end, latest, day, result>>

CronNext == Parse \/ TakeOccurrence \/ NextDay \/ GiveUp

CronSpec == CronInit /\ [][CronNext]_cronVars
-----------------------------------------------------------------------------
\* What a crontab means, by definition and not by an order of visiting: a field
\* names a value when one of its elements does, 7 and 0 name Sunday, and the two
\* day fields are alternatives unless one of them is a wildcard.
Minutes == {i \in Moments : i % 2 = 0}
HourOf(i) == (i % HalfMinutes) \div (2 * (MaxMinute + 1))
MinuteOf(i) == ((i % HalfMinutes) \div 2) % (MaxMinute + 1)

Names(f, v) ==
    \E i \in DOMAIN expr[f] : \E n \in 0 .. v :
        LET item == expr[f][i] IN
        v = Lo(f, item) + n * item.step /\ v <= Hi(f, item)

Meant(d) ==
    LET dom == Names("dom", Dom[d])
        dow == Names("dow", Weekday[d]) \/ (Weekday[d] = 0 /\ Names("dow", 7))
    IN  /\ Names("month", Month[d])
        /\ dom \/ dow
        /\ Starred("dom") \/ Starred("dow") => dom /\ dow

Occurrences ==
    {i \in Minutes : /\ start < i /\ i <= end
                     /\ Meant(DayOf(i))
                     /\ Names("hour", HourOf(i)) /\ Names("minute", MinuteOf(i))}

\* What is found is the latest (earliest) minute of the window that matches, and
\* nothing is found only when no minute of the window does, however the window
\* lies across midnight and whatever fields are lists, steps or ranges.
FindsTheExtreme ==
    /\ pc = "found" => /\ result \in Occurrences
                       /\ \A i \in Occurrences : IF latest THEN i <= result ELSE i >= result
    /\ pc = "none" => Occurrences = {}
=============================================================================
