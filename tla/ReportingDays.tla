--------------------------- MODULE ReportingDays ---------------------------
(***************************************************************************)
(* Reporting days (platform/time/reporting.ts).  Time is counted in hours  *)
(* of UTC and a date is its day number.  A zone is the hour at which its   *)
(* clock changes, and its offsets before and after.                        *)
(***************************************************************************)
EXTENDS Integers

HOURS == 24
Zone  == [change : Int, before : Int, after : Int]

offsetHours(instant, zone) == IF instant < zone.change THEN zone.before ELSE zone.after

localCalendarDate(instant, zone) == (instant + offsetHours(instant, zone)) \div HOURS

\* A mutated form: the offset of the naive guess is taken at its word.
startOfLocalDay_Once(zone, date) == date * HOURS - offsetHours(date * HOURS, zone)

startOfLocalDay(zone, date) ==
    LET naive      == date * HOURS
        firstGuess == naive - offsetHours(naive, zone)
    IN  naive - offsetHours(firstGuess, zone)

Days(zone, first, next) ==
    [start |-> startOfLocalDay(zone, first), end |-> startOfLocalDay(zone, next)]

localDay(zone, asOf) ==
    LET today == localCalendarDate(asOf, zone) IN Days(zone, today, today + 1)

previousLocalDay(zone, asOf) ==
    LET today == localCalendarDate(asOf, zone) IN Days(zone, today - 1, today)

lastLocalDays(zone, asOf, days) ==
    LET today == localCalendarDate(asOf, zone) IN Days(zone, today - (days - 1), today + 1)

precedingLocalDays(zone, asOf, days) ==
    LET today == localCalendarDate(asOf, zone)
    IN  Days(zone, today - (2 * days - 1), today - (days - 1))

\* Oldest first.
localDaysIn(zone, asOf, days) ==
    LET today == localCalendarDate(asOf, zone)
    IN  [k \in 1..days |-> Days(zone, today - (days - k), today - (days - k) + 1)]

within(period, instant) == period.start <= instant /\ instant < period.end

\* A due date is a bare date: it is compared with the local date of the instant.
compareDateToLocalToday(dueDate, zone, asOf) == dueDate - localCalendarDate(asOf, zone)
=============================================================================
