--------------------------- MODULE FiscalCalendar ---------------------------
(* upcomingVencimientos and the alerts of an issuer, day after day.  A date   *)
(* is the number of its day since 1 January 2024, a day of UTC.               *)
EXTENDS Integers, Sequences, FiniteSets, FiniteSetsExt, SequencesExt, Folds

CONSTANTS
  LastDigits,      \* last digits of the CUITs
  FirstDay, LastDay,
  HorizonDays,     \* DEFAULT_HORIZON_DAYS
  CertificateEnds, \* days on which the issuer's certificate ends
  DaysBack,        \* how far back, and how far ahead, a period asked for goes
  DaysAhead

VARIABLES
  calendarDay,
  lastDigit,
  certificateEnd,
  asked            \* the alerts, and a period asked for, as answered that day

calendarVars == <<calendarDay, lastDigit, certificateEnd, asked>>

-----------------------------------------------------------------------------
(* Months are numbered from January 2024 *)

Year(month) == 2024 + month \div 12

daysInMonth(month) ==
  CASE month % 12 = 1 -> IF Year(month) % 4 = 0 THEN 29 ELSE 28
    [] month % 12 \in {3, 5, 8, 10} -> 30
    [] OTHER -> 31

FirstOf[month \in 0..48] == IF month = 0 THEN 0 ELSE FirstOf[month - 1] + daysInMonth(month - 1)

\* The days up to the end of 2027, with what is asked for around them.
ASSUME CalendarConstants ==
  /\ LastDigits \subseteq 0..9 /\ CertificateEnds \subseteq Int /\ HorizonDays \in Nat /\ HorizonDays >= 5
  /\ FirstDay \in Nat /\ LastDay \in Nat /\ FirstDay <= LastDay
  /\ \A back \in DaysBack : back \in 0..FirstDay
  /\ \A ahead \in DaysAhead \cup {HorizonDays} : ahead \in Nat /\ LastDay + ahead < FirstOf[48]

MonthOf(day) == CHOOSE month \in 0..47 : FirstOf[month] <= day /\ day < FirstOf[month + 1]

safeDate(month, day) ==
  FirstOf[month] + (IF day > daysInMonth(month) THEN daysInMonth(month) ELSE day) - 1

FiscalObligation == <<"IVA_DDJJ", "CARGAS_SOCIALES", "LIBRO_IVA_DIGITAL", "MONOTRIBUTO">>

\* Mutant: from the end of the digits.
Mutant_dueDayFor(obligation, digit) ==
  IF obligation = "CARGAS_SOCIALES" THEN 18 - 4 - digit \div 2 ELSE 18 + digit \div 2

dueDayFor(obligation, digit) ==
  IF obligation = "CARGAS_SOCIALES" THEN 18 - 4 + digit \div 2 ELSE 18 + digit \div 2

computeStatus(dueDate, today) ==
  CASE dueDate < today -> "OVERDUE"
    [] dueDate - today \in 0..5 -> "DUE_SOON"
    [] OTHER -> "UPCOMING"

\* The obligations of a period, found month by month.
DueBetween(digit, from, to) ==
  LET found == {[type |-> FiscalObligation[i], index |-> month * 4 + i,
                 dueDate |-> safeDate(month, dueDayFor(FiscalObligation[i], digit))] :
                 month \in MonthOf(from)..MonthOf(to), i \in DOMAIN FiscalObligation}
  IN {v \in found : from <= v.dueDate /\ v.dueDate <= to}

\* Sorted by date, those of one date as they were found.
SortedByDate(found, today) ==
  LET Before(v) == {w \in found : w.dueDate < v.dueDate \/ (w.dueDate = v.dueDate /\ w.index < v.index)}
      Nth(i) == CHOOSE v \in found : Cardinality(Before(v)) = i - 1
  IN [i \in 1..Cardinality(found) |->
        [type |-> Nth(i).type, dueDate |-> Nth(i).dueDate,
         status |-> computeStatus(Nth(i).dueDate, today)]]

upcomingVencimientos(digit, from, to, today) == SortedByDate(DueBetween(digit, from, to), today)

\* getAlerts: what is due from now on, without the far ones (a filter keeps the
\* order); the certificate from 30 days before its end on, and after it.
getAlerts(digit, end, today) ==
  LET near == {v \in DueBetween(digit, today, today + HorizonDays) :
                 computeStatus(v.dueDate, today) # "UPCOMING"}
  IN [vencimientos |-> SortedByDate(near, today), certificate |-> end - today <= 30]

-----------------------------------------------------------------------------
Nil == [alerts |-> [vencimientos |-> <<>>, certificate |-> FALSE], period |-> <<>>,
        from |-> 0, to |-> 0]

CalendarInit ==
  /\ calendarDay = FirstDay /\ lastDigit \in LastDigits
  /\ certificateEnd \in CertificateEnds
  /\ asked = Nil

NextDay ==
  /\ calendarDay < LastDay
  /\ calendarDay' = calendarDay + 1
  /\ asked' = Nil
  /\ UNCHANGED <<lastDigit, certificateEnd>>

\* The home screen asks for the alerts and the fiscal one for a period.
AskVencimientos ==
  /\ asked = Nil
  /\ \E back \in DaysBack, ahead \in DaysAhead :
       LET from == calendarDay - back
           to == calendarDay + ahead
       IN asked' = [alerts |-> getAlerts(lastDigit, certificateEnd, calendarDay), from |-> from,
                    to |-> to,
                    period |-> upcomingVencimientos(lastDigit, from, to, calendarDay)]
  /\ UNCHANGED <<calendarDay, lastDigit, certificateEnd>>

CalendarNext == NextDay \/ AskVencimientos

CalendarSpec == CalendarInit /\ [][CalendarNext]_calendarVars
-----------------------------------------------------------------------------
(* Properties *)

CalendarTypeOK ==
  /\ calendarDay \in FirstDay..LastDay /\ lastDigit \in LastDigits
  /\ asked.from <= asked.to

TypesDue(list, day) == {list[i].type : i \in {j \in DOMAIN list : list[j].dueDate = day}}

DayOfMonth(day) == day - FirstOf[MonthOf(day)] + 1

\* Whatever the month boundary, every day of a period asked for has exactly the
\* obligations that fall on that day of the month - social security on the 14th
\* plus half the digit, the others four days later - in order of their dates,
\* and the alerts are those of today and the next five days: an obligation is
\* shown on six days in a row, the last its own, and never as overdue.
DueDatesHold ==
  asked # Nil =>
    /\ \A day \in asked.from..asked.to :
         LET social == IF DayOfMonth(day) = 14 + lastDigit \div 2 THEN {"CARGAS_SOCIALES"} ELSE {}
             others == IF DayOfMonth(day) = 18 + lastDigit \div 2
                       THEN Range(FiscalObligation) \ {"CARGAS_SOCIALES"} ELSE {}
         IN TypesDue(asked.period, day) = social \cup others
    /\ \A i, j \in DOMAIN asked.period : i < j => asked.period[i].dueDate <= asked.period[j].dueDate
    /\ \A i \in DOMAIN asked.alerts.vencimientos :
         asked.alerts.vencimientos[i].dueDate \in calendarDay..calendarDay + 5
    /\ \A day \in calendarDay..calendarDay + 5 :
         DayOfMonth(day) = 18 + lastDigit \div 2 =>
           Cardinality(TypesDue(asked.alerts.vencimientos, day)) = 3
    /\ asked.alerts.certificate <=> certificateEnd - 30 <= calendarDay
=============================================================================
