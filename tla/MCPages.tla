-------------------------------- MODULE MCPages --------------------------------
(***************************************************************************)
(* What is put on days and in order, side by side: part says which of the  *)
(* models a behaviour is of.  The constants and variables of Calendar are  *)
(* its own, and rest as they were at first in the other parts; the         *)
(* variables of the others are Off in the parts that are not theirs.       *)
(* Days of few ticks and months of two days, in zones behind and ahead of  *)
(* the clock; for the digest clock, days of six hours of two ticks: a zone *)
(* without a clock change, one whose clocks go forward over hour 2 of the  *)
(* second day, one whose clocks go back over it, one whose clocks go       *)
(* forward over the start of that day, one far to the east and one far to  *)
(* the west.                                                               *)
(***************************************************************************)
EXTENDS Calendar, TLC

CONSTANTS Off, a1, a2

VARIABLES
    part,
    now1, zone1, access, shown,  \* Sittings
    events, made, walk, steady,  \* ActivityLog
    t, hour, sentThrough, moved  \* DigestClock, with zone1

sittingsVars == <<now1, access, shown>>
logVars == <<events, made, walk, steady>>
clockVars == <<t, hour, sentThrough, moved>>
partVars == <<part, vars, zone1, sittingsVars, logVars, clockVars>>

People == {a1, a2}
Symmetry == Permutations(People)

EastWest == {-1, 1}
Around == {-1, 0, 1}
Only == {1}
LogCares == {"water", "feed"}
LogTimes == {0, 1}
LogSpans == {<<0, 9>>, <<1, 9>>, <<0, 1>>}
DigestHours == {0, 2, 5}
DigestZones == {
    [before |-> 0,  at |-> 0,  after |-> 0],
    [before |-> 0,  at |-> 28, after |-> 2],
    [before |-> 4,  at |-> 26, after |-> 2],
    [before |-> 2,  at |-> 22, after |-> 4],
    [before |-> 10, at |-> 0,  after |-> 10],
    [before |-> -8, at |-> 0,  after |-> -8]}

Sit == INSTANCE Sittings WITH
    DayUnits <- 4, Members <- People, Zones <- EastWest, InviteZones <- Around,
    Pages <- Only, MaxTime <- 8, now <- now1, zone <- zone1
Log == INSTANCE ActivityLog WITH
    Cares <- LogCares, Times <- LogTimes, Spans <- LogSpans, logPageSize <- 1, MaxEvents <- 3
Clock == INSTANCE DigestClock WITH
    HourTicks <- 2, DayHours <- 6, Zones <- DigestZones, Hours <- DigestHours, MaxTicks <- 52,
    zone <- zone1

ASSUME CalendarAssumption
ASSUME Sit!SittingsAssumption
ASSUME Log!ActivityLogAssumption
ASSUME Clock!ClockBounds /\ Clock!HourAssumption /\ Clock!ZonesAssumption

-----------------------------------------------------------------------------

NoSittings == now1 = Off /\ access = Off /\ shown = Off
NoLog == events = Off /\ made = Off /\ walk = Off /\ steady = Off
NoClock == t = Off /\ hour = Off /\ sentThrough = Off /\ moved = Off

\* The calendar at rest in the parts that are not its own.
InitOthers ==
    /\ zone = [r \in Readers |-> 0]
    /\ \/ part = "sittings" /\ Sit!Init /\ NoLog /\ NoClock
       \/ part = "log" /\ Log!Init /\ zone1 = Off /\ NoSittings /\ NoClock
       \/ part = "clock" /\ Clock!Init /\ NoSittings /\ NoLog

InitParts ==
    /\ Init
    /\ \/ part = "calendar" /\ zone1 = Off /\ NoSittings /\ NoLog /\ NoClock
       \/ InitOthers

KeepSittings == UNCHANGED sittingsVars
KeepLog == UNCHANGED logVars
KeepClock == UNCHANGED clockVars

NextParts ==
    /\ UNCHANGED part
    /\ \/ part = "calendar" /\ Next /\ UNCHANGED zone1 /\ KeepSittings /\ KeepLog /\ KeepClock
       \/ /\ UNCHANGED vars
          /\ \/ part = "sittings" /\ Sit!Next /\ KeepLog /\ KeepClock
             \/ part = "log" /\ Log!Next /\ UNCHANGED zone1 /\ KeepSittings /\ KeepClock
             \/ part = "clock" /\ Clock!Next /\ KeepSittings /\ KeepLog

SideBySide == InitParts /\ [][NextParts]_partVars

-----------------------------------------------------------------------------
(* What holds of the parts besides NotesAgree and OnItsDay, which are of    *)
(* Calendar.                                                                *)

(* Sittings: the days the calendar marks for a member are those they can    *)
(* come in on, whoever set the end in whichever timezone (sittings); and    *)
(* the rows have their types.                                               *)
MarksAccess == part = "sittings" => Sit!TypeOK /\ Sit!MarksAccess

(* ActivityLog: a reader going Older sees each event nobody touched once,   *)
(* in order, while others are logged, moved and deleted around the cursor   *)
(* (ListCareEventLog); and the rows have their types.                       *)
ShownOnce == part = "log" => Log!TypeOK /\ Log!ShownOnce

(* DigestClock: on days the clocks change too, instantOf finds the first    *)
(* instant of the hour and nextDigest the earliest day left, so a punctual  *)
(* job sends one digest for every local day.                                *)
OneDigestADay ==
    [][part = "clock" =>
         Clock!InstantIsFirst' /\ Clock!NextDigestIsLeast' /\ Clock!OneDigestADay]_partVars
=============================================================================
