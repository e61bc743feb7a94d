----------------------------- MODULE OffPeakSlots -----------------------------
(* The discount windows of a price: how the console reads and compares     *)
(* them before it saves (src/web/src/components/PricingManager.jsx), and   *)
(* how the server checks and the billing engine applies them               *)
(* (src/internal/billing/engine.go).  The two sides read a time the user   *)
(* typed each in its own way.  A window repeats on its days, every day if  *)
(* it names none.                                                          *)
EXTENDS Integers, Sequences

CONSTANTS HoursOfDay,  \* hours of a day
          HourLength,  \* minutes of an hour
          Days,        \* days of the week
          Blank,       \* an empty field
          Garbled,     \* a text without two halves around one colon
          NaN          \* what parseInt makes of a half that starts with no number

(* What the console's parseInt and the engine's strconv.Atoi make of one   *)
(* half of a text: "08" is 8 for both; "08 " is 8 for the console, whereas *)
(* the engine drops the error and goes on with 0; "x" is NaN and 0.        *)
Halves == [parseInt : Int \cup {NaN}, atoi : Int]
Texts == {Blank, Garbled} \cup [h : Halves, m : Halves]

ASSUME SlotsAssumption ==
    /\ HoursOfDay \in Nat \ {0} /\ HourLength \in Nat \ {0}
    /\ NaN \notin Int
    /\ {Blank, Garbled} \cap [h : Halves, m : Halves] = {}

DayLength == HoursOfDay * HourLength

Slots == [start : Texts, end : Texts, days : SUBSET Days]

\* A window over midnight is cut there.
Segments(from, to) == IF from < to THEN {<<from, to>>} ELSE {<<from, DayLength>>, <<0, to>>}

Meet(segments1, segments2) ==
    \E a \in segments1, b \in segments2 :
        /\ a[1] < a[2] /\ a[1] < b[2]
        /\ b[1] < a[2] /\ b[1] < b[2]

DaysOf(s) == IF s.days = {} THEN Days ELSE s.days

ShareADay(s1, s2) == DaysOf(s1) \cap DaysOf(s2) # {}

-----------------------------------------------------------------------------
(* The console.                                                            *)

NoTime == -1

\* Hours up to 24 are read, so 24:30 is a time.
parseMinutes(t) ==
    IF /\ t \notin {Blank, Garbled}
       /\ t.h.parseInt \in 0..HoursOfDay
       /\ t.m.parseInt \in 0..(HourLength - 1)
    THEN t.h.parseInt * HourLength + t.m.parseInt
    ELSE NoTime

Valid(s) ==
    /\ parseMinutes(s.start) # NoTime
    /\ parseMinutes(s.end) # NoTime
    /\ parseMinutes(s.start) # parseMinutes(s.end)

SegmentsShown(s) == Segments(parseMinutes(s.start), parseMinutes(s.end))

\* The same comparison, windows over midnight not cut.
checkSlotsUncut(slots) ==
    \/ Len(slots) < 2
    \/ \A i \in DOMAIN slots :
        /\ Valid(slots[i])
        /\ \A j \in DOMAIN slots :
            j > i => \/ ~ShareADay(slots[i], slots[j])
                     \/ parseMinutes(slots[i].end) <= parseMinutes(slots[j].start)
                     \/ parseMinutes(slots[j].end) <= parseMinutes(slots[i].start)

\* No message: the windows may be saved.  A single window is not looked at.
checkSlotsOverlap(slots) ==
    \/ Len(slots) < 2
    \/ \A i \in DOMAIN slots :
        /\ Valid(slots[i])
        /\ \A j \in DOMAIN slots :
            j > i => \/ ~ShareADay(slots[i], slots[j])
                     \/ ~Meet(SegmentsShown(slots[i]), SegmentsShown(slots[j]))

-----------------------------------------------------------------------------
(* The server and its billing engine.                                      *)

\* A text it cannot split is midnight.
parseTimeToMinutes(t) ==
    IF t \in {Blank, Garbled} THEN 0 ELSE t.h.atoi * HourLength + t.m.atoi

InDay(t) == parseTimeToMinutes(t) \in 0..(DayLength - 1)

getIntervals(s) == Segments(parseTimeToMinutes(s.start), parseTimeToMinutes(s.end))

IsInterval(s) ==
    /\ InDay(s.start) /\ InDay(s.end)
    /\ parseTimeToMinutes(s.start) # parseTimeToMinutes(s.end)

\* The server's check, windows over midnight not cut.
ValidateSlotsUncut(slots) ==
    \/ Len(slots) < 2
    \/ \A i \in DOMAIN slots :
        /\ IsInterval(slots[i])
        /\ \A j \in DOMAIN slots :
            j > i => \/ ~ShareADay(slots[i], slots[j])
                     \/ parseTimeToMinutes(slots[i].end) <= parseTimeToMinutes(slots[j].start)
                     \/ parseTimeToMinutes(slots[j].end) <= parseTimeToMinutes(slots[i].start)

\* The server accepts the windows.
ValidateSlotsOverlap(slots) ==
    \/ Len(slots) < 2
    \/ \A i \in DOMAIN slots :
        /\ IsInterval(slots[i])
        /\ \A j \in DOMAIN slots :
            j > i => \/ ~ShareADay(slots[i], slots[j])
                     \/ ~Meet(getIntervals(slots[i]), getIntervals(slots[j]))

Covers(from, to, minute) ==
    IF from <= to THEN from <= minute /\ minute < to ELSE from <= minute \/ minute < to

\* CustomOffPeakStrategy: the window covers this minute of this day.
Applies(s, day, minute) ==
    /\ s.days # {} => day \in s.days
    /\ Covers(parseTimeToMinutes(s.start), parseTimeToMinutes(s.end), minute)

\* At no minute do two windows apply: the discount never depends on which of
\* them the engine prefers.
Unambiguous(slots) ==
    \A day \in Days, minute \in 0..(DayLength - 1), i, j \in DOMAIN slots :
        Applies(slots[i], day, minute) /\ Applies(slots[j], day, minute) => i = j

\* The console and the engine read the times of the windows alike.
ReadAlike(slots) ==
    \A i \in DOMAIN slots : \A t \in {slots[i].start, slots[i].end} :
        parseMinutes(t) = parseTimeToMinutes(t)
=============================================================================
