---------------------------- MODULE DistrictWarnings ----------------------------
(***************************************************************************)
(* IMD's district warnings by day and the notices suggested from them: the *)
(* statewide answers of backend/app/official.py, for one district.         *)
(*                                                                         *)
(* A bulletin has a colour and warning codes for each of the days from the *)
(* one it is issued on.  What was read is kept for a while (the lock and   *)
(* the other sources are in OfficialWarnings) and midnight may pass        *)
(* meanwhile: the days are counted when an answer is given.                *)
(***************************************************************************)
EXTENDS Integers, FiniteSets, Sequences

CONSTANTS
    Day,           \* units of time in a day
    DAY_COLOURS,   \* the level of each colour that has one
    WARNING_CODES, \* the codes that mean something; "none" is code 1, no warning
    Forecast,      \* what a bulletin may say: [colour, codes] of each of its days
    STALE_DAYS,
    IMD_TTL, FAIL_TTL,
    MaxClock,      \* bound
    None

VARIABLES
    clock,
    bulletin,  \* the latest: the day it was issued and what it says
    imd,       \* imd_cache
    notice     \* the last answer, with the bulletin it is made from

bulletinVars == <<clock, bulletin, imd, notice>>

-----------------------------------------------------------------------------
\* A day is known by a colour with a level and at least one code that means something.
decode_day(day, date) ==
    LET numbers == day.codes \cap WARNING_CODES IN
    IF day.colour \in DOMAIN DAY_COLOURS /\ numbers # {}
    THEN [date |-> date, level |-> DAY_COLOURS[day.colour], warnings |-> numbers \ {"none"}]
    ELSE [date |-> date, level |-> None, warnings |-> {}]

\* Mutant: days that are over are kept.
Whole(days, today) == days

Remaining(days, today) == {d \in days : d.date >= today}

Stale(issued, days, today) == today - issued >= STALE_DAYS \/ days = {}

First(days, n) == {d \in days : Cardinality({e \in days : e.date < d.date}) < n}

\* imd_district, of which a map of the state shows two days.
karnataka_districts(read, today) ==
    LET days == Remaining({decode_day(read.days[i], read.issued + i - 1) : i \in DOMAIN read.days}, today) IN
    IF Stale(read.issued, days, today) THEN {} ELSE First(days, 2)

\* Drafts; nothing is sent.
official_suggestions(days) ==
    {[date |-> d.date, level |-> d.level, warnings |-> d.warnings,
      when |-> IF d \in First(days, 1) THEN "today" ELSE "tomorrow"] :
     d \in {e \in days : e.level \in {"orange", "red"} /\ e.warnings # {}}}

Init ==
    /\ clock = 0 /\ bulletin \in [issued : {0}, days : Forecast]
    /\ imd = [expires |-> 0, read |-> None] /\ notice = None

-----------------------------------------------------------------------------
\* imd_features: what is kept, or the latest bulletin, or a failure, which is kept too.
Features ==
    IF imd.expires > clock THEN {imd}
    ELSE {[expires |-> clock + IMD_TTL, read |-> bulletin], [expires |-> clock + FAIL_TTL, read |-> None]}

\* statewide, and then the endpoints for citizens and administrators.
statewide ==
    /\ \E features \in Features :
          LET read == features.read
              today == clock \div Day
              days == IF read = None THEN {} ELSE karnataka_districts(read, today) IN
          /\ imd' = features
          /\ notice' = [today |-> today, read |-> read, days |-> days, suggestions |-> official_suggestions(days)]
    /\ UNCHANGED <<clock, bulletin>>

Issue ==
    /\ bulletin' \in [issued : {clock \div Day}, days : Forecast]
    /\ UNCHANGED <<clock, imd, notice>>

Tick ==
    /\ clock < MaxClock /\ clock' = clock + 1
    /\ UNCHANGED <<bulletin, imd, notice>>

Next == statewide \/ Issue \/ Tick

Spec == Init /\ [][Next]_bulletinVars

-----------------------------------------------------------------------------
(* Properties.                                                             *)

\* What an administrator is offered to relay is what the bulletin that was read
\* says of today and of tomorrow, by the date of the answer and not of the reading,
\* each under its own name; all of it, where the colour and a warning are known;
\* and nothing from a bulletin that is stale or was not read ("older bulletins are
\* reported, not presented as current", official.py:135).
WarningsDated ==
    notice # None =>
        LET read == notice.read
            Says(date) == read.days[date - read.issued + 1]
            Worth(date) == /\ date - read.issued + 1 \in DOMAIN read.days
                           /\ Says(date).colour \in {c \in DOMAIN DAY_COLOURS : DAY_COLOURS[c] \in {"orange", "red"}}
                           /\ Says(date).codes \cap (WARNING_CODES \ {"none"}) # {} IN
        IF read = None \/ notice.today - read.issued >= STALE_DAYS THEN notice.days = {} /\ notice.suggestions = {}
        ELSE /\ {d.date : d \in notice.days} \subseteq {notice.today, notice.today + 1}
             /\ {<<s.when, s.date, s.level>> : s \in notice.suggestions} =
                   {<<w[1], w[2], DAY_COLOURS[Says(w[2]).colour]>> :
                    w \in {v \in {<<"today", notice.today>>, <<"tomorrow", notice.today + 1>>} : Worth(v[2])}}
===============================================================================
