-------------------------------- MODULE Feed ---------------------------------
(***************************************************************************)
(* The market status on its way to a dashboard.  The scheduler               *)
(* (scheduler.go), whose first round comes before the HTTP server            *)
(* (main.go), sets the hub's source status and starts broadcast goroutines;  *)
(* so does POST /api/update-rate.  Those goroutines, BroadcastData and       *)
(* BroadcastMarketData (hub.go), compute the status and send it later.  A    *)
(* dashboard that connects is sent the market data by sendInitialData        *)
(* (hub.go) and fetches both documents itself (app.js, handler.go).  It does *)
(* so every minute, since the server drops a page that sends nothing.        *)
(*                                                                         *)
(* The status is that of GetMarketStatusWithData (parser/types.go), except   *)
(* in the stored USD rate, which keeps the GetMarketStatus of the moment it  *)
(* was stored.  What a download brings is SftpSync's, how a message travels  *)
(* Hub's, how usd_rate.json is rewritten RateStore's, when a page is dropped *)
(* KeepAlive's and how it connects again WebClient's matter; here each is    *)
(* its outcome.  The dashboard shows the status twice: on a card for the USD *)
(* rate and on a badge for the market data.                                *)
(***************************************************************************)
EXTENDS MarketHours

CONSTANTS
  Caster,      \* broadcast goroutines that can exist at once, a bound
  Posted,      \* those that POSTs can start: the scheduler keeps one, a bound
  Place,       \* the places in the dashboard that are watched, one at a time
  Starts,      \* the hours of the week at which behaviours begin
  MaxHours     \* bound of the model: hours that pass

ASSUME FeedAssumption ==
  /\ MaxHours \in Nat /\ Starts \subseteq Time /\ Posted \subseteq Caster
  /\ Place \subseteq {"card", "badge"}

VARIABLES
  time,     \* hours since the start of the week in Bangkok
  passed,   \* hours since the behaviour began
  pc,       \* where the goroutine of the scheduler is
  source,   \* Hub.sourceStatus
  usd,      \* usd_rate.json: its rates and its market_status, if it can be read
  market,   \* market_data.json holds prices
  cast,     \* per broadcast goroutine: what it does next
  status,   \* per broadcast goroutine: the status it has computed
  connected, \* the dashboard has a connection
  place,    \* the card or the badge of that dashboard: one is watched
  load,     \* its request for the document of that place, and the answer
  shown     \* the status shown there

server == <<pc, source, usd, market>>
page == <<connected, place, load, shown>>
vars == <<time, passed, server, cast, status, page>>

MarketStatus == {"open", "closed"}
Rates        == {"none", "zero", "positive"}

open == IsMarketOpen(DayOf(time), HourOf(time))

GetMarketStatus == IF open THEN "open" ELSE "closed"

GetMarketStatusWithData(priceValid) ==
  IF source = "connected" /\ priceValid THEN GetMarketStatus ELSE "closed"

\* Prices in market_data.json are positive: the parser stores no others.
StatusNow == GetMarketStatusWithData(TRUE)

Stored(r) == [rates |-> r, status |-> GetMarketStatus]
NoRate    == [rates |-> "none", status |-> "none"]

\* What LoadLatestUSDRate makes of exrate.txt and SaveUSDRateToJSON of that:
\* nothing, a rate that may be zero, or a file without JSON if the write fails.
Parsed == {Stored("zero"), Stored("positive")}
Saved  == Parsed \cup {usd, NoRate}

serving == pc # "boot" /\ pc # "bootDownload" /\ pc # "bootParse"

Init ==
  /\ time \in Starts /\ passed = 0
  /\ pc = "boot" /\ source = "disconnected"
  /\ usd \in Parsed \cup {NoRate} /\ market \in BOOLEAN
  /\ cast = [b \in Caster |-> "off"]
  /\ status = [b \in Caster |-> "none"]
  /\ connected = FALSE /\ load = "off"
  /\ place \in Place /\ shown \in {"none", "open"}

HourPasses ==
  /\ passed < MaxHours
  /\ passed' = passed + 1
  /\ time' = (time + 1) % 168
  /\ UNCHANGED <<server, cast, status, page>>

(***************************************************************************)
(* Scheduler.Start and performDownload.                                     *)
(***************************************************************************)
\* While the market is closed a round is over at once.
OutOfHours ==
  /\ pc \in {"boot", "idle"} /\ ~open
  /\ pc' = "idle"
  /\ UNCHANGED <<time, passed, source, usd, market, cast, status, page>>

\* The first round is Start's own; the ticker brings the others.
Tick ==
  /\ pc \in {"boot", "idle"} /\ open
  /\ pc' = IF pc = "boot" THEN "bootDownload" ELSE "download"
  /\ UNCHANGED <<time, passed, source, usd, market, cast, status, page>>

DownloadOk ==
  /\ pc \in {"bootDownload", "download"}
  /\ pc' = IF pc = "download" THEN "parse" ELSE "bootParse"
  /\ source' = "connected"
  /\ UNCHANGED <<time, passed, usd, market, cast, status, page>>

Start(b, at) == cast[b] = "off" /\ cast' = [cast EXCEPT ![b] = at]

\* go BroadcastMarketData.
DownloadFails ==
  /\ pc \in {"bootDownload", "download"}
  /\ pc' = "idle" /\ source' = "disconnected"
  /\ \E b \in Caster : Start(b, "market")
  /\ UNCHANGED <<time, passed, usd, market, status, page>>

\* A parser that fails keeps what was there, or nothing if its write fails.
UpdateUSDRateFromExrate == usd' \in Saved
ProcessMarketRetailData == market' \in BOOLEAN

\* Both parsers, then go BroadcastData.
Parse ==
  /\ pc \in {"bootParse", "parse"}
  /\ pc' = "idle"
  /\ UpdateUSDRateFromExrate /\ ProcessMarketRetailData
  /\ \E b \in Caster : Start(b, "usd")
  /\ UNCHANGED <<time, passed, source, status, page>>

\* POST /api/update-rate: a positive rate may round to zero.
Post ==
  /\ serving
  /\ usd' \in Parsed
  /\ \E b \in Posted : Start(b, "usd")
  /\ UNCHANGED <<time, passed, pc, source, market, status, page>>

\* The write fails behind the truncation; a file that cannot be opened stays.
PostFails ==
  /\ serving
  /\ usd' = NoRate
  /\ UNCHANGED <<time, passed, pc, source, market, cast, status, page>>

(***************************************************************************)
(* GetCurrentUSDRate: a reader that finds no rate takes the one of           *)
(* exrate.txt, if it has one, and tries to store it.                         *)
(***************************************************************************)
GetCurrentUSDRate(found) ==
  IF usd # NoRate THEN found = usd /\ UNCHANGED usd
  ELSE found \in Parsed \cup {NoRate} /\ usd' \in {NoRate, found}

(***************************************************************************)
(* BroadcastData, which ends without a rate and otherwise goes on to the     *)
(* market data, and BroadcastMarketData, which ends without prices.         *)
(***************************************************************************)
\* What is sent is shown if a dashboard is there to receive it.
Show(p, s) == shown' = IF connected /\ place = p THEN s ELSE shown

End(b) ==
  /\ cast' = [cast EXCEPT ![b] = "off"]
  /\ status' = [status EXCEPT ![b] = "none"]

Compute(b, s, next) ==
  /\ cast' = [cast EXCEPT ![b] = next]
  /\ status' = [status EXCEPT ![b] = s]

\* Variant: the rate is sent with the status it was stored with.
ComputeUSDKeepsStatus(b) ==
  /\ cast[b] = "usd"
  /\ \E found \in Parsed \cup {usd} :
       /\ GetCurrentUSDRate(found)
       /\ IF found = NoRate THEN End(b) ELSE Compute(b, found.status, "sendUSD")
  /\ UNCHANGED <<time, passed, pc, source, market, page>>

ComputeUSD(b) ==
  /\ cast[b] = "usd"
  /\ \E found \in Parsed \cup {usd} :
       /\ GetCurrentUSDRate(found)
       /\ IF found = NoRate THEN End(b)
          ELSE Compute(b, GetMarketStatusWithData(found.rates = "positive"), "sendUSD")
  /\ UNCHANGED <<time, passed, pc, source, market, page>>

SendUSD(b) ==
  /\ cast[b] = "sendUSD"
  /\ Show("card", status[b])
  /\ cast' = [cast EXCEPT ![b] = "market"]
  /\ UNCHANGED <<time, passed, server, status, connected, place, load>>

\* Variant: the error of a missing market_data.json is not looked at.
ComputeMarketUnchecked(b) ==
  /\ cast[b] = "market"
  /\ Compute(b, IF market THEN StatusNow ELSE "nil", "sendMarket")
  /\ UNCHANGED <<time, passed, server, page>>

ComputeMarket(b) ==
  /\ cast[b] = "market"
  /\ IF market THEN Compute(b, StatusNow, "sendMarket") ELSE End(b)
  /\ UNCHANGED <<time, passed, server, page>>

SendMarket(b) ==
  /\ cast[b] = "sendMarket"
  /\ Show("badge", status[b])
  /\ End(b)
  /\ UNCHANGED <<time, passed, server, connected, place, load>>

CastStep(b) ==
  ComputeUSD(b) \/ SendUSD(b) \/ ComputeMarket(b) \/ SendMarket(b)

(***************************************************************************)
(* A dashboard that is left open.  It connects, with whatever it showed       *)
(* before, fetches both documents, and is dropped when pongWait is over.  It   *)
(* shows the rate on the card and the market data on the badge, which do not   *)
(* touch each other: one of them is watched.  The market data is sent by       *)
(* sendInitialData and again by GET /api/market-data, the same document of     *)
(* the same state.  One answer is under way at once, a bound.                *)
(***************************************************************************)
\* Variant: on connecting only the USD rate is fetched.
ConnectLoadsRate ==
  /\ serving /\ ~connected /\ load \in {"off", "due"}
  /\ connected' = TRUE /\ load' = IF place = "card" THEN "due" ELSE load
  /\ UNCHANGED <<time, passed, server, cast, status, place, shown>>

Connect ==
  /\ serving /\ ~connected /\ load \in {"off", "due"}
  /\ connected' = TRUE /\ load' = "due"
  /\ UNCHANGED <<time, passed, server, cast, status, place, shown>>

\* Variant: the page's pongs keep its connection.
DropNever == FALSE /\ UNCHANGED vars

\* Requests that are under way outlive the connection.
Drop ==
  /\ connected
  /\ connected' = FALSE
  /\ UNCHANGED <<time, passed, server, cast, status, place, load, shown>>

\* The buttons of the page, which ask whether or not it is connected.
Refresh ==
  /\ serving /\ load = "off"
  /\ load' = "due"
  /\ UNCHANGED <<time, passed, server, cast, status, connected, place, shown>>

\* GET /api/data for another page, or for this one while its badge is watched.
AnswerElsewhere ==
  /\ serving
  /\ \E found \in Parsed : GetCurrentUSDRate(found)
  /\ UNCHANGED <<time, passed, pc, source, market, cast, status, page>>

\* GET /api/data carries the status that was stored.
AnswerData ==
  /\ load = "due" /\ place = "card"
  /\ \E found \in Parsed \cup {usd} :
       /\ GetCurrentUSDRate(found)
       /\ load' = IF found = NoRate THEN "off" ELSE found.status
  /\ UNCHANGED <<time, passed, pc, source, market, cast, status, connected, place, shown>>

\* GET /api/market-data carries that of the moment.
AnswerMarketData ==
  /\ load = "due" /\ place = "badge"
  /\ load' = IF market THEN StatusNow ELSE "off"
  /\ UNCHANGED <<time, passed, server, cast, status, connected, place, shown>>

Arrives ==
  /\ load \in MarketStatus
  /\ load' = "off" /\ shown' = load
  /\ UNCHANGED <<time, passed, server, cast, status, connected, place>>

Answered == AnswerData \/ AnswerMarketData \/ Arrives

Next ==
  \/ HourPasses
  \/ OutOfHours \/ Tick \/ DownloadOk \/ DownloadFails \/ Parse
  \/ Post \/ PostFails
  \/ \E b \in Caster : CastStep(b)
  \/ Connect \/ Drop \/ Refresh \/ Answered \/ AnswerElsewhere

Spec == Init /\ [][Next]_vars

(***************************************************************************)
(* Fairness: the ticker ticks, a download ends one way or the other, every   *)
(* goroutine that can go on does, and the requests are answered.  The server  *)
(* drops the page, which sends no data (client.go:51), and the page connects  *)
(* again, which the bound on its requests must not keep it from.  Time may    *)
(* stop.                                                                   *)
(***************************************************************************)
FairSpec ==
  /\ Spec
  /\ WF_vars(OutOfHours \/ Tick)
  /\ WF_vars(DownloadOk \/ DownloadFails \/ Parse)
  /\ \A b \in Caster : WF_vars(CastStep(b))
  /\ WF_vars(Drop) /\ SF_vars(Connect)
  /\ WF_vars(Answered)

-----------------------------------------------------------------------------
\* The values of every variable: in particular only a status that was
\* computed is ever broadcast (hub.go:275-280).
TypeOK ==
  /\ time \in Time /\ passed \in 0 .. MaxHours
  /\ pc \in {"boot", "bootDownload", "bootParse", "idle", "download", "parse"}
  /\ source \in {"connected", "disconnected"}
  /\ usd \in [rates : Rates, status : MarketStatus] \cup {NoRate}
  /\ market \in BOOLEAN
  /\ cast \in [Caster -> {"off", "usd", "sendUSD", "market", "sendMarket"}]
  /\ status \in [Caster -> MarketStatus \cup {"none"}]
  /\ connected \in BOOLEAN
  /\ place \in {"card", "badge"}
  /\ load \in MarketStatus \cup {"off", "due"}
  /\ shown \in MarketStatus \cup {"none"}

\* The scheduler downloads, and the status can be open, exactly in the hours
\* the comment of IsMarketOpen gives (types.go:37-40): sessions that run past
\* midnight into the morning of the next day, and none that began on Sunday.
OpenIsInHours == open <=> InHours(DayOf(time), HourOf(time))

\* While the market stays open and the source as it is, with a rate and prices
\* stored, the market badge comes to show the status that follows and keeps
\* showing it, however broadcasts and answers overtake each other and however
\* often the page is dropped (hub.go:122, hub.go:274, app.js:205-208).
StatusSettles ==
  \A s \in MarketStatus :
    <>[](place = "badge" /\ open /\ usd.rates # "none" /\ market /\ StatusNow = s)
      => <>[](shown = s)

\* Once the market has closed the badge comes to show it closed and keeps showing
\* it, although the scheduler broadcasts nothing then (scheduler.go:71): the page
\* learns it when it connects again, since it is dropped every minute.
CloseIsShown ==
  <>[](place = "badge" /\ ~open /\ market) => <>[](shown = "closed")

\* What follows from the rate, and the case in which it is shown again and again.
Rightly(r) == IF r = "positive" THEN "open" ELSE "closed"

RateIsSent == \E b \in Caster : connected /\ SendUSD(b)

CardStays(r) ==
  /\ <>[](place = "card" /\ open /\ source = "connected" /\ usd.rates = r)
  /\ []<><<RateIsSent>>_vars

\* While the market stays open, the source connected and the stored rate as it
\* is, the USD card shows the status that follows again and again, although each
\* answer of GET /api/data may show another one, if broadcasts of the rate reach
\* the page again and again: their status is not the stored one (hub.go:238).
CardRecovers ==
  \A r \in {"zero", "positive"} : CardStays(r) => []<>(shown = Rightly(r))

\* In the same case the card keeps showing that status: "Override MarketStatus
\* based on source connection and price validity" (hub.go:238).
CardSettles ==
  \A r \in {"zero", "positive"} : CardStays(r) => <>[](shown = Rightly(r))
=============================================================================
