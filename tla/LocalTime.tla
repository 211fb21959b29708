----------------------------- MODULE LocalTime -----------------------------
(***************************************************************************)
(* Instants and the clock on the wall of an organization, around a day on  *)
(* which its clocks are changed (lib/maintenance/calendar-reschedule.ts).  *)
(*                                                                         *)
(* An instant is a number; so is a local time, the days before it times    *)
(* DayLength plus the time of day.  A zone is the instant at which its     *)
(* clocks are changed and how far they are ahead before and after; it is   *)
(* negative west of Greenwich.  What Intl.DateTimeFormat and Date.UTC do   *)
(* is these sums.                                                          *)
(***************************************************************************)
EXTENDS Integers

CONSTANT DayLength

ASSUME DayLengthAssumption == DayLength \in Nat \ {0}

Zone == [change: Int, before: Int, after: Int]

offset(zone, u) == IF u < zone.change THEN zone.before ELSE zone.after

\* zonedParts: what the clock shows at an instant.
localTime(zone, u) == u + offset(zone, u)

localDateKey(zone, u) == localTime(zone, u) \div DayLength

timeOfDay(zone, u) == localTime(zone, u) % DayLength

\* One pass of the loop: the guess moves by what the clock shows amiss at it.
Corrected(zone, t, guess) == guess + (t - localTime(zone, guess))

\* Mutant: a guess is corrected once only.
CorrectedOnce(zone, t) == Corrected(zone, t, t)

\* The instant at which the clock shows t: a guess that is corrected up to four
\* times.  A guess that is right stays what it is.
zonedDateTimeToUtc(zone, t) ==
    LET twice == Corrected(zone, t, Corrected(zone, t, t))
    IN  Corrected(zone, t, Corrected(zone, t, twice))

\* Mutant: the days are added to the instant.
ShiftInstant(zone, u, days) == u + days * DayLength

shiftInstantByLocalDays(zone, u, days) ==
    zonedDateTimeToUtc(zone, localTime(zone, u) + days * DayLength)

\* A clock put forward skips some times.
Shown(zone, t) == \E o \in {zone.before, zone.after} : localTime(zone, t - o) = t

Gap(zone) == IF zone.after > zone.before THEN zone.after - zone.before ELSE 0

\* The clock shows t at instant u or, where it skips t, a time that is no further
\* from t than what it skips.
Kept(zone, u, t) ==
    IF Shown(zone, t) THEN localTime(zone, u) = t
    ELSE localTime(zone, u) - t \in -Gap(zone)..Gap(zone)
============================================================================
