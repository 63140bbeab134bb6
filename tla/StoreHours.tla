------------------------------ MODULE StoreHours ------------------------------
(***************************************************************************)
(* Whether a store is open and when it opens next                           *)
(* (services/catalog/src/store-hours.ts), across a change of the clocks.    *)
(*                                                                         *)
(* Time is counted in units since the midnight that began a Sunday, the     *)
(* moment on a clock that never changes ("now"), and the store's clock is   *)
(* ahead of it by an offset.                                                *)
(***************************************************************************)
EXTENDS Integers

CONSTANTS
    DayLength,    \* units of a day
    ClockTimes,   \* opening and closing times, units after midnight
    DayLabels,    \* day labels of hours texts: the ranges of days each lists
    ChangeAt,     \* the moment the clocks change
    Offsets,      \* offsets of the store's clock, before or after that
    LastMoment    \* bound: moments

ASSUME HoursOK == /\ DayLength \in Nat \ {0} /\ LastMoment \in Nat
                  /\ ClockTimes \subseteq 0..DayLength - 1
                  /\ \A label \in DayLabels : label # {} /\ label \subseteq (0..6) \X (0..6)
                  /\ ChangeAt \in Nat /\ Offsets \subseteq Int

VARIABLES
    hours,   \* what parseStoreHoursText makes of the text
    zone,    \* offsets before and after the change
    now,
    said     \* the last answer: closed, next opening; or none yet

hoursVars == <<hours, zone, now, said>>

Unsaid == [closed |-> FALSE, next |-> 0]

-----------------------------------------------------------------------------
(* resolveDaySet: the days of each range, around the week's end when it     *)
(* ends on an earlier day than it begins. Sunday is 0, "weekends" is 6 to 0 *)
(* and a single day a range of its own.                                     *)
DaySet(label) ==
    UNION {{day \in 0..6 : IF range[1] <= range[2]
                           THEN range[1] <= day /\ day <= range[2]
                           ELSE range[1] <= day \/ day <= range[2]} : range \in label}

(* parseStoreHoursText. A text that it cannot read leaves the store closed  *)
(* for good, which is not modelled.                                         *)
ParsedHours == [days : {DaySet(label) : label \in DayLabels},
                start : ClockTimes, end : ClockTimes]

(* resolveZonedDateParts: the clock at a moment, its weekday and minutes.   *)
Clock(t) == t + (IF t < ChangeAt THEN zone.before ELSE zone.after)
Weekday(local) == (local \div DayLength) % 7
Minutes(local) == local % DayLength

(* Mutant: a night that began yesterday is over at midnight. *)
IsOpenAtSameDay(local) ==
    LET day == Weekday(local) minutes == Minutes(local)
    IN  \/ hours.start = hours.end
        \/ day \in hours.days /\ hours.start <= minutes
           /\ (hours.start < hours.end => minutes < hours.end)

(* isOpenForHours *)
IsOpenAt(local) ==
    LET day == Weekday(local) minutes == Minutes(local)
    IN  \/ hours.start = hours.end
        \/ /\ hours.start < hours.end
           /\ day \in hours.days /\ hours.start <= minutes /\ minutes < hours.end
        \/ /\ hours.start > hours.end
           /\ \/ day \in hours.days /\ hours.start <= minutes
              \/ (day + 6) % 7 \in hours.days /\ minutes < hours.end

(* toDateInTimeZone: the moment the store's clock shows "local", found by   *)
(* correcting a first guess five times.                                     *)
ToMoment(local) ==
    LET better(guess) == guess + local - Clock(guess)
    IN  better(better(better(better(better(local)))))

(* buildNextOpenAt: the first opening, of the next fortnight, after the     *)
(* minute it is on the store's clock.                                       *)
NextOpen(local) ==
    LET opening(d) == local - Minutes(local) + d * DayLength + hours.start
        ahead == {d \in 0..14 : /\ (Weekday(local) + d) % 7 \in hours.days
                                /\ opening(d) > local}
    IN  ToMoment(opening(CHOOSE d \in ahead : \A e \in ahead : d <= e))

-----------------------------------------------------------------------------
HoursInit ==
    /\ hours \in ParsedHours
    /\ zone \in [before : Offsets, after : Offsets]
    /\ now = 0
    /\ said = Unsaid

(* resolveStoreHoursState *)
AskStoreHours ==
    /\ said' = IF IsOpenAt(Clock(now)) THEN Unsaid
               ELSE [closed |-> TRUE, next |-> NextOpen(Clock(now))]
    /\ UNCHANGED <<hours, zone, now>>

TimePasses ==
    /\ now < LastMoment
    /\ now' = now + 1
    /\ UNCHANGED <<hours, zone, said>>

HoursNext == AskStoreHours \/ TimePasses

HoursSpec == HoursInit /\ [][HoursNext]_hoursVars

-----------------------------------------------------------------------------
(* Properties.                                                              *)

HoursTypeOK ==
    /\ hours \in ParsedHours
    /\ zone \in [before : Offsets, after : Offsets]
    /\ now \in 0..LastMoment
    /\ said \in [closed : BOOLEAN, next : Int]

(* A clock time that the change skips or repeats. *)
ClockSkips(time) ==
    LET a == ChangeAt + zone.before b == ChangeAt + zone.after
    IN  \E local \in (a..b - 1) \cup (b..a - 1) : Minutes(local) = time

(* The hours by what they say: a day's opening begins on that day and ends  *)
(* at the next closing time.                                                *)
InHours(local) ==
    \/ hours.start = hours.end
    \/ \E back \in {0, 1} :
          LET midnight == local - Minutes(local) - back * DayLength
              closing == IF hours.start < hours.end THEN hours.end ELSE hours.end + DayLength
          IN  /\ Weekday(midnight) \in hours.days
              /\ local \in midnight + hours.start .. midnight + closing - 1

(* A closed store opens when it said it would and not before, across        *)
(* midnight, the week's end and a change of the clocks; unless it opens or  *)
(* closes at a time the change skips or repeats.                            *)
OpensWhenSaid ==
    said.closed /\ ~ClockSkips(hours.start) /\ ~ClockSkips(hours.end) =>
        /\ now < said.next => ~InHours(Clock(now))
        /\ now = said.next => InHours(Clock(now))
=============================================================================
