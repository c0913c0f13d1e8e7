----------------------------- MODULE FeedProofs ------------------------------
(***************************************************************************)
(* Theorems about the market hours, for every hour of the week, and about     *)
(* the feed, for every set of broadcast goroutines.                          *)
(***************************************************************************)
EXTENDS Feed, TLAPS

\* Each day's answer matches the documented sessions: its early hours belong
\* to the session of the day before, if there was one.
LEMMA HoursAsDocumented ==
  ASSUME NEW d \in Day, NEW h \in Hour
  PROVE  IsMarketOpen(d, h) <=> InHours(d, h)
  <1> USE DEF Day, Hour, Monday, Friday, Saturday
  <1>1. ASSUME IsMarketOpen(d, h) PROVE InHours(d, h)
    <2>1. CASE d = 6 /\ h < 11
      BY <2>1 DEF InHours
    <2>2. CASE d \in 1 .. 5 /\ h >= 6
      <3>1. WeekHour(d, h) \in Session(d)
        BY <2>2 DEF WeekHour, Session
      <3> QED
        BY <2>2, <3>1 DEF InHours
    <2>3. CASE d \in 2 .. 5 /\ h < 4
      <3>1. d - 1 \in 1 .. 5 /\ WeekHour(d, h) \in Session(d - 1)
        BY <2>3 DEF WeekHour, Session
      <3> QED
        BY <3>1 DEF InHours
    <2> QED
      BY <1>1, <2>1, <2>2, <2>3 DEF IsMarketOpen
  <1>2. ASSUME InHours(d, h) PROVE IsMarketOpen(d, h)
    <2>1. CASE d = 6 /\ h < 11
      BY <2>1 DEF IsMarketOpen
    <2>2. ASSUME NEW s \in 1 .. 5, WeekHour(d, h) \in Session(s)
          PROVE  IsMarketOpen(d, h)
      <3>1. (d = s /\ h >= 6) \/ (d = s + 1 /\ h < 4)
        BY <2>2 DEF WeekHour, Session
      <3> QED
        BY <3>1 DEF IsMarketOpen
    <2> QED
      BY <1>2, <2>1, <2>2 DEF InHours
  <1> QED
    BY <1>1, <1>2

\* Every state has its type: only computed statuses are ever sent.
THEOREM FeedTyped == Spec => []TypeOK
  <1>1. Init => TypeOK
    <2> SUFFICES ASSUME Init PROVE TypeOK
      OBVIOUS
    <2>1. usd \in [rates : Rates, status : MarketStatus] \cup {NoRate}
      BY DEF Init, Parsed, Stored, GetMarketStatus, MarketStatus, Rates
    <2>2. time \in Time /\ passed \in 0 .. MaxHours
      BY FeedAssumption DEF Init
    <2>3. /\ cast \in [Caster -> {"off", "usd", "sendUSD", "market", "sendMarket"}]
          /\ status \in [Caster -> MarketStatus \cup {"none"}]
      BY DEF Init
    <2>4. market \in BOOLEAN /\ connected \in BOOLEAN /\ place \in {"card", "badge"}
      BY FeedAssumption DEF Init
    <2> QED
      BY <2>1, <2>2, <2>3, <2>4 DEF Init, TypeOK, MarketStatus
  <1>2. TypeOK /\ [Next]_vars => TypeOK'
    <2> SUFFICES ASSUME TypeOK, [Next]_vars PROVE TypeOK'
      OBVIOUS
    <2> USE DEF TypeOK
    <2>1. Parsed \subseteq [rates : Rates, status : MarketStatus]
      BY DEF Parsed, Stored, GetMarketStatus, MarketStatus, Rates
    <2>2. \A v \in BOOLEAN : GetMarketStatusWithData(v) \in MarketStatus
      BY DEF GetMarketStatusWithData, GetMarketStatus, MarketStatus
    <2>3. StatusNow \in MarketStatus
      BY <2>2 DEF StatusNow
    <2>4. CASE HourPasses
      <3>1. (time + 1) % 168 \in Time /\ passed + 1 \in 0 .. MaxHours
        BY <2>4, FeedAssumption DEF HourPasses, Time
      <3> QED
        BY <2>4, <3>1 DEF HourPasses, server, page
    <2>5. CASE OutOfHours \/ Tick \/ DownloadOk
      BY <2>5 DEF OutOfHours, Tick, DownloadOk, page
    <2>6. CASE DownloadFails
      BY <2>6 DEF DownloadFails, Start, page
    <2>7. CASE Parse
      <3>1. usd' \in [rates : Rates, status : MarketStatus] \cup {NoRate}
        BY <2>1, <2>7 DEF Parse, UpdateUSDRateFromExrate, Saved
      <3> QED
        BY <2>7, <3>1 DEF Parse, Start, ProcessMarketRetailData, page
    <2>8. CASE Post
      BY <2>1, <2>8, FeedAssumption DEF Post, Start, page
    <2>9. CASE PostFails
      BY <2>9 DEF PostFails, page
    <2>10. ASSUME NEW found \in Parsed \cup {usd}, GetCurrentUSDRate(found)
           PROVE  /\ usd' \in [rates : Rates, status : MarketStatus] \cup {NoRate}
                  /\ found # NoRate => found.status \in MarketStatus
      <3>1. found \in [rates : Rates, status : MarketStatus] \cup {NoRate}
        BY <2>1
      <3>2. usd' \in {usd, NoRate, found}
        BY <2>10 DEF GetCurrentUSDRate
      <3> QED
        BY <3>1, <3>2
    <2>11. ASSUME NEW b \in Caster, ComputeUSD(b) PROVE TypeOK'
      <3>1. PICK found \in Parsed \cup {usd} :
              /\ GetCurrentUSDRate(found)
              /\ IF found = NoRate THEN End(b)
                 ELSE Compute(b, GetMarketStatusWithData(found.rates = "positive"),
                              "sendUSD")
        BY <2>11 DEF ComputeUSD
      <3>2. usd' \in [rates : Rates, status : MarketStatus] \cup {NoRate}
        BY <2>10, <3>1
      <3>3. GetMarketStatusWithData(found.rates = "positive") \in MarketStatus
        BY <2>2
      <3> QED
        BY <2>11, <3>1, <3>2, <3>3 DEF ComputeUSD, Compute, End, page
    <2>12. ASSUME NEW b \in Caster, ComputeMarket(b) PROVE TypeOK'
      BY <2>3, <2>12 DEF ComputeMarket, Compute, End, server, page
    <2>13. ASSUME NEW b \in Caster, SendUSD(b) PROVE TypeOK'
      BY <2>13 DEF SendUSD, Show, server
    <2>14. ASSUME NEW b \in Caster, SendMarket(b) PROVE TypeOK'
      BY <2>14 DEF SendMarket, Show, End, server
    <2>15. CASE Connect \/ Drop
      BY <2>15 DEF Connect, Drop, server
    <2>16. CASE Refresh \/ Arrives
      BY <2>16 DEF Refresh, Arrives, server
    <2>17. CASE AnswerMarketData
      BY <2>3, <2>17 DEF AnswerMarketData, server
    <2>18. CASE AnswerData
      <3>1. PICK found \in Parsed \cup {usd} :
              /\ GetCurrentUSDRate(found)
              /\ load' = IF found = NoRate THEN "off" ELSE found.status
        BY <2>18 DEF AnswerData
      <3>2. /\ usd' \in [rates : Rates, status : MarketStatus] \cup {NoRate}
            /\ found # NoRate => found.status \in MarketStatus
        BY <2>10, <3>1
      <3> QED
        BY <2>18, <3>1, <3>2 DEF AnswerData
    <2>19. CASE AnswerElsewhere
      BY <2>1, <2>10, <2>19 DEF AnswerElsewhere, page
    <2>20. CASE UNCHANGED vars
      BY <2>20 DEF vars, server, page
    <2> QED
      BY <2>4, <2>5, <2>6, <2>7, <2>8, <2>9, <2>11, <2>12, <2>13, <2>14, <2>15,
         <2>16, <2>17, <2>18, <2>19, <2>20
         DEF Next, CastStep, Answered
  <1> QED
    BY <1>1, <1>2, PTL DEF Spec

\* Whenever a behaviour begins and however long it lasts, the market is taken
\* for open exactly in the documented hours.
THEOREM OpensInHours == Spec => []OpenIsInHours
  <1>1. TypeOK => OpenIsInHours
    <2> SUFFICES ASSUME TypeOK PROVE OpenIsInHours
      OBVIOUS
    <2>1. DayOf(time) \in Day /\ HourOf(time) \in Hour
      BY DEF TypeOK, Time, DayOf, HourOf, Day, Hour
    <2> QED
      BY <2>1, HoursAsDocumented DEF OpenIsInHours, open
  <1> QED
    BY <1>1, FeedTyped, PTL

\* The banner of a closed market is never right: in no hour in which the
\* market is closed is what "Calculate next market open" (app.js:793) answers
\* a moment at which IsMarketOpen begins to hold.
THEOREM BannerIsWrong ==
  ASSUME NEW d \in Day, NEW h \in Hour, ~IsMarketOpen(d, h)
  PROVE  ~OpensAt(getNextMarketOpen(d, h)[1], getNextMarketOpen(d, h)[2])
  <1> USE DEF Day, Hour, Sunday, Monday, Friday, Saturday
  <1>1. \E e \in Day : getNextMarketOpen(d, h) = <<e, 9>>
    <2>1. CASE d \in {0, 6}
      BY <2>1 DEF getNextMarketOpen
    <2>2. CASE d \in 1 .. 5 /\ h < 6
      BY <2>2 DEF getNextMarketOpen
    <2>3. d \in {0, 6} \/ (d \in 1 .. 5 /\ h < 6)
      BY DEF IsMarketOpen
    <2> QED
      BY <2>1, <2>2, <2>3
  <1>2. \A e \in Day : ~OpensAt(e, 9)
    BY DEF OpensAt, IsMarketOpen
  <1> QED
    BY <1>1, <1>2
=============================================================================
