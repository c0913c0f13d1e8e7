----------------------------- MODULE MarketHours -----------------------------
(***************************************************************************)
(* The market hours: IsMarketOpen of parser/types.go, which gates downloads   *)
(* and the market status, and getNextMarketOpen of web/static/js/app.js,      *)
(* which tells the user of a closed market when it opens.  Every boundary of  *)
(* both is a full hour, so an hour is the unit of time; days are numbered     *)
(* from Sunday, as Go's Weekday and JavaScript's getDay number them.          *)
(***************************************************************************)
EXTENDS Integers

Day  == 0 .. 6
Hour == 0 .. 23
Time == 0 .. 167        \* hours since the start of the week in Bangkok

DayOf(t)  == t \div 24
HourOf(t) == t % 24

Sunday   == 0
Monday   == 1
Friday   == 5
Saturday == 6

\* Variant: a Monday morning is taken for the end of a session.
IsMarketOpenEveryWeekday(d, h) ==
  \/ d = Saturday /\ h < 11
  \/ d \in Monday .. Friday /\ (h < 4 \/ h >= 6)

IsMarketOpen(d, h) ==
  \/ d = Saturday /\ h < 11
  \/ d = Monday /\ h >= 6
  \/ d \in Monday + 1 .. Friday /\ (h < 4 \/ h >= 6)

\* What the banner announces: a day and an hour, or that it is open now.
Now == <<"now">>

getNextMarketOpen(d, h) ==
  IF d \in {Sunday, Saturday} THEN <<Monday, 9>>
  ELSE IF h < 9 THEN <<d, 9>>
  ELSE IF h >= 17 THEN IF d = Friday THEN <<Monday, 9>> ELSE <<d + 1, 9>>
  ELSE IF h = 12 THEN <<d, 13>>
  ELSE Now

-----------------------------------------------------------------------------
(***************************************************************************)
(* The hours as the comment of IsMarketOpen gives them (types.go:37-40), in   *)
(* hours since the start of the week.                                        *)
(***************************************************************************)
WeekHour(d, h) == 24 * d + h

Session(d) == WeekHour(d, 6) .. WeekHour(d + 1, 3)   \* 06:00 - 04:00 next day

InHours(d, h) ==
  \/ \E s \in Monday .. Friday : WeekHour(d, h) \in Session(s)
  \/ d = Saturday /\ h < 11                          \* until 11:00 only

\* The market opens at this hour of this day.
OpensAt(d, h) == IsMarketOpen(d, h) /\ ~IsMarketOpen(d, h - 1)
=============================================================================
