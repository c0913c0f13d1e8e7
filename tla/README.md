# Price feed verification

TLA+ models of the price feed server (Go, `src/internal`) and of the
connection code of its dashboard (`src/web/static/js/app.js`), model-checked
with TLC, and theorems about its components checked with TLAPS. Line
references such as `hub.go:216` are relative to `src/internal/<package>/`, and
`app.js` is `src/web/static/js/app.js`. `PROJECT.json` maps every definition to
the lines it models.

## 1. The system

One process downloads two text files by SFTP while the gold market is open,
turns them into a stored USD rate (`usd_rate.json`) and stored prices
(`market_data.json`), and pushes both to every dashboard over WebSocket. An
instance may share its messages with others through Redis. The dashboard is a
page that keeps one WebSocket, reconnects, and shows prices with the status of
the market.

| Component | Source | State | Operations | Modules |
|---|---|---|---|---|
| Hub | websocket/hub.go, handler.go, client.go | `clients`, four channels; per client the `send` channel and two pumps | register, unregister, broadcast, initial data, pumps, shutdown | `Hub`, abstract: `Subscription` |
| Keep-alive | websocket/client.go | timers of the two pumps | ping, pong, read timeout | `KeepAlive` |
| Redis fan-out | redis/pubsub.go, hub.go | per channel one subscriber goroutine | Publish, Subscribe | `Instances`; beside one hub: `Hub` |
| Stored USD rate | parser/exrate.go, api/handler.go | `usd_rate.json`, `exrate.txt` | tick, POST, GET, fallback | `RateStore` |
| SFTP download | sftp/client.go, scheduler/scheduler.go | local and `.tmp` files, the two JSON files | check, copy, validate, rename, parse, write | `SftpSync` |
| Validators and parsers | sftp/validator.go, parser/exrate.go, parser/market.go | none | which lines each accepts | `LineFormats` |
| Scheduler and market status | scheduler/scheduler.go, hub.go, parser/types.go, app.js | source status, broadcast goroutines, status stored and shown | start-up, tick, parse, broadcast | `Feed` |
| Market hours | parser/types.go, app.js | none | `IsMarketOpen`, `getNextMarketOpen` | `MarketHours` |
| HTTP API | api/handler.go, routes.go | none of its own | `/api/data`, `/api/market-data`, `/api/update-rate` | `RateStore`, `Feed` |
| Dashboard connection | app.js | `state.ws`, `isConnected`, timers, attempts | connect, close, reconnect, disconnect | `WebClient` |
| Process start, shutdown | cmd/server/main.go | goroutines, context | start-up order, optional Redis, shutdown | in part: `Feed`, `Instances`, `Hub` |
| Dashboard rendering, Redis client and cache, configuration, logger | app.js, redis/client.go, config, logger | — | — | not modelled, but for the retries of the Redis client: `Instances` |

How they meet: the scheduler sets `Hub.sourceStatus` and starts a goroutine
(`go BroadcastData`, `go BroadcastMarketData`) at the end of every round; the
POST handler starts one too; these read the stored files, put a message on
`h.broadcast`, and publish it. The hub's event loop takes it from there and
offers it to every client's channel; each client's WritePump writes it. The
Redis subscribers call the same fan-out beside the loop. Registration, removal
and slow clients come to the loop through the channels `register` and
`unregister`, the latter also from goroutines the fan-out starts. A dashboard
that connects is sent the market data by the hub and fetches two documents over
HTTP, on its own schedule. Since it sends nothing the server drops it every
minute, and it connects again.

What is hard: many goroutines per connection and no common lock for files or
the fan-out; channels that are closed by one goroutine and sent to by others;
queues that are full; broadcast goroutines that overtake each other, in one
process and between several; files that are read while they are rewritten; a
validator and a parser that ask different things of the same lines; three
deadlines per connection; half-done rounds, failed writes and crashes; commands
to Redis that are repeated though they were executed; and in the page,
handlers of sockets it has given up that share variables with the current one.
`PROJECT.json` lists these hazards line by line.

What makes each part correct, in a sentence:

- **Hub**: no goroutine panics on a closed channel; an ended client is
  forgotten and never comes back; a member that misses a message is on its way
  out; everyone else gets every message once, in order.
- **Keep-alive**: a dead peer is noticed in bounded time, a live one is kept.
- **Redis fan-out**: what is published is offered once by its own instance and
  once for every command that Redis executed, and in the end the clients of all
  instances see the same.
- **Stored rate**: a damaged file is repaired; a manual rate stays until a tick
  or POST replaces it.
- **SFTP download**: only whole, valid files take the place of a local one; what
  changed is fetched; what was fetched ends up in the JSON file.
- **Market status**: dashboards, new and old, come to show the status that
  follows from the hours and the source.
- **Market hours**: server and banner agree with the documented sessions.
- **Dashboard connection**: never stranded, one connection at a time, retries
  for closes it did not make.

## 2. Modules and the code

### Hub

Every goroutine has a control state and every action is what it does between
two points where another one can act.

| Code | Model |
|---|---|
| `Hub.Run` select loop | `hubPc`; `HubRegister`/`HubAddClient`, `HubUnregister`/`HubRemoveClient`, `HubTakeBroadcast`, `HubStop` |
| `broadcastToClients` | snapshot in `todo[b]`, message in `cur[b]`; one `BroadcastSend(b, c)` per client, any order (Go map iteration) |
| `sendInitialData` | `initial[c]`; `InitialCheck` takes the RLock ("locked"), `InitialSend` sends, or fails to prepare or finds the channel full |
| `go h.Unregister(client)` on a full channel | a count `unregs[c]` of blocked goroutines |
| `WritePump` | `writer[c]`, `inHand[c]`, `left[c]`: `WriterTake`, `WriteOk`, `WriteFail`, `WriterDrain`, `WriterClosed`, `WriterCancelled`, `PingFail` |
| `ReadPump` and its goroutine in `ServeHTTP` | `reader[c]`: `ReadFail`, `ReaderCleanup` |
| `BroadcastData`, `BroadcastMarketData`, `Publish` | `Enqueue`, `Publish(m)` |
| Redis subscriber goroutines | `SubscriberReceive(s)`, then `BroadcastSend(s, c)` |

The unbuffered channels `register` and `unregister` are rendezvous steps of the
sender and the loop; `broadcast` and `send` are bounded sequences; the RWMutex
appears as the guard `NoReadLock` of the two steps that take it for writing. A
message is its number in the order in which it entered `h.broadcast`; the data
of `sendInitialData` is `Snapshot`. `received`, `joinedAt` and `dropped` are
history variables. A panic sets `crashed`, after which nothing moves.

`Subscription` is the abstract view: a subscriber joins at some message and
gets every later one once and in order, one snapshot at some point, until it
lags or leaves. `Hub!Abstract` maps the queues away: the cursor is the last
message written to the client.

### Instances

Several processes and one Redis. The broadcast goroutines of an instance
(`Prepare`, `Enqueue`, `Publish`) do USD rate and market data in turn; `Run` and
the subscribers (`Deliver`, `Receive`) hand a message to the clients of their
instance in one step, since what happens to it there is the matter of `Hub`.
An instance is linked to Redis from its start or never (main.go connects once
and goes on without). Redis passes a message to whoever is subscribed just
then (`PassOn`): any subset of the linked instances, and nothing is kept.

`redis/client.go` keeps the defaults of go-redis, so a `PUBLISH` without an
answer is sent again, up to three times. `PublishAnswered` is a command that
Redis executes and answers; `PublishUnanswered` is one whose answer does not come,
after which go-redis tries again or gives up. Whether Redis got such a command
nobody knows: it is `stray`, and `Late` decides, at once or when newer messages
have passed, whether it is executed after all.

### KeepAlive

Seconds pass one at a time (`Second`) and only while no deadline is due, so
that `ReadTimeout`, `Ping` and `PingTimeout` happen when they are due. The peer
answers in time until it dies. `Talkative` says whether it also sends data.

### RateStore

`os.WriteFile` is two steps, `Truncate` and `Write`; everything between two of
them can interleave. Writers are the scheduler (`TickLoads`), the POSTs and,
when they find no rate in the file, the readers (`Fallback`). The outcome of
two overlapping writes is the second value or a file that is no JSON. The file
may fail to open, the write to complete (`OpenFails`, `WriteFails`, after which
nothing, a part or all of the value is there) and a reader to read it
(`ReadFails`); the process may die anywhere. What each caller does about an error
is `AfterFailure`. Two history variables say what has gone wrong since a tick or
POST last truncated the file with nobody else there: `disturbed`, that two
goroutines were at it at once or one could not read it, and `marred`, that a
write of it failed or was cut short.

### SftpSync and LineFormats

One action per outcome of each call of a round: `Connect`/`ConnectFails`,
`Skip`/`Open`/`OpenFails`, `CopyEnds`/`CopyFails`, `Replace`/`RenameFails`/
`KeepExisting`/`ValidateFails`, `Report`, and then the two parsers. The first,
`UpdateUSDRateFromExrate`, is a step without a choice: `usd_rate.json` is also
written by POSTs and by readers, even during a round, so that what it holds is
the matter of `RateStore` alone. `market_data.json` has no other writer:
`ParseFails`, `ReadFails`, or `Parse` and then `Write` or `WriteFails`, the halves
of `os.WriteFile`. The remote files change at any time (`RemoteChange`), and the
process may die between any two steps. A content is a version, its size, and what
validator and parser make of it; what a copy yields when the file is replaced
under it is the old, the new or a mix. A partial file may well validate. `stored`
is the version `market_data.json` was made from.

What validator and parser can make of a file is not assumed but computed from
`LineFormats`, which has both as operators on the lines of a file. Lines are
records of what is asked of them: whether columns hold numbers, and positive
ones. Two lines of `exrate.txt` and three of `market_retail.txt` give all
combinations of outcomes there are (`AcceptedHasSpot` and its neighbours say
what the combinations mean for files of any length).

### Feed

`Scheduler.Start` and `performDownload`: `Tick`, `DownloadOk`/`DownloadFails`
and `Parse`, each of which starts the goroutines the code starts; a goroutine
computes the status in one step and sends it in a later one. The process begins
with the synchronous round of `Start`, before which nothing is served
(`serving`). `Post` and `PostFails` are `/api/update-rate`. A parser or a POST
whose write fails leaves no rate or no prices behind, and `GetCurrentUSDRate`, for
a broadcast or a GET, repairs the one from `exrate.txt` if it can.

The dashboard is reduced to the two places that show the status, the USD card
and the market badge. It is one that is left open: it connects (`Connect`), is
dropped by the server since it sends nothing (`Drop`, see the run
`keepalive_quiet`), and connects again, without end. Each time, and when its
Refresh buttons are used, it has requests under way (`load`) that are answered and
arrive in separate steps, even when the connection is gone by then: the market
data, which the hub and `/api/market-data` make alike with the status of the
moment, and `/api/data`, which answers the status stored with the rate. The
message of `sendInitialData` and the answer to the GET that follows it are one
request in the model. What the page showed before may be an old status. Card and
badge do not touch each other, and a behaviour watches one of them (`place`); what
a GET does for anybody else is `AnswerElsewhere`.

### MarketHours

`IsMarketOpen` and `getNextMarketOpen` are operators of a day and an hour; the
documented sessions are restated in hours since the start of the week
(`InHours`). `Feed` extends the module and runs the clock.

### WebClient

Each handler of the page is a step. Sockets are slots with the `readyState` and
the call that closed them, which decides the code of the close event. Timers
whose handle was overwritten are counted in `lostTimers`.

Operators whose comment begins with *Variant* are plausible mistakes in the code
beside them. Nothing uses them in the specifications; substituting one for the
definition it precedes breaks the property named in `PROJECT.json` `mutants`,
which shows that the property depends on that code.

## 3. Runs

Every run is exhaustive. *Hold* means that TLC finds no error; *fails* that the
property, taken from a comment of the code, is not what the code does.

| Run | Instance | Result |
|---|---|---|
| `hub` | One connection, `send` of 2, `broadcast` of 1, four messages, fairness | `TypeOK NoPanic NoZombie DropAsksForRemoval InitialSendSafe DrainFindsMessages InOrder NoGap ImplementsSubscription EndedIsForgotten SlowIsDisconnected EveryMessageArrives` hold |
| `hub_redis` | One connection, one Redis subscriber beside the loop | `DropAsksForRemoval` holds |
| `hub_redis_panic` | the same | `NoPanic` fails |
| `instances` | Two processes with or without Redis, two broadcasts in flight in each, two messages, each sent to Redis up to twice | `TypeOK OncePerCommand AgreeAtRest NewestAtRest AllOffered` hold |
| `keepalive` | The code's 60, 54 and 10 seconds, a peer that sends data | `TypeOK DeadIsDropped PromptIsKept` hold |
| `keepalive_quiet` | A peer that only listens | `PromptIsKept` fails |
| `store` | Ticks, two POSTs, a GET, a broadcast, two crashes or failed accesses | `TypeOK ManualSurvives DamageHasCause StoreHeals` hold |
| `sftp` | Two files, the first may fail for ever; two changes, one crash or local file that fails | `TypeOK NoPartialFile ValidIsKept NewerIsFetched ReplacedIsStored StoreCatchesUp` hold |
| `feed` | From the process's start, two broadcast goroutines and the badge or the USD card of a dashboard that is dropped and connects again, around openings and closings, fairness | `TypeOK OpenIsInHours StatusSettles CloseIsShown CardRecovers` hold |
| `feed_card_flips` | The same with the card, around the opening on Monday | `CardSettles` fails |
| `dashboard` | Three sockets, three attempts, two lost timers, fairness | `TypeOK NeverStranded ConnectedIsReal LostIsRetried` hold |
| `dashboard_own` | the same | `NoReconnectAfterOwnClose` fails |

What the properties say, beyond their types:

- `NoPanic`: nobody sends on a closed channel or closes one twice. `NoZombie`: a
  client whose pumps are over is never (again) a member. `DropAsksForRemoval`: a
  member that missed a message has a removal request under way.
  `InitialSendSafe`: the membership `sendInitialData` checked holds when it
  sends. `DrainFindsMessages`: the drain loop never blocks on, nor takes a nil
  from, its channel. `InOrder`, `NoGap`: what is written, in hand and queued for
  a client is increasing and, unless it lost something, complete since it
  joined. `ImplementsSubscription`: all of it together, as the client sees it.
  `EndedIsForgotten`, `SlowIsDisconnected`, `EveryMessageArrives`: the liveness.
- `OncePerCommand`: what comes through Redis is not published again, so a client
  is offered a message once if its own instance published it, and besides at
  most once for every time go-redis sent it. Retries make that up to four, and
  five with the own one. `AgreeAtRest`: when nothing is under way, the clients
  of all linked instances saw the same message last, repeated ones included, and
  `NewestAtRest`: it is the newest. Both need that Redis lost nothing, and that
  no message was back from Redis before `Run` had offered it; the second also
  that no message was prepared while another one for its channel, or a command
  that nobody waits for any more, was under way. TLC refutes either property
  when one of its hypotheses is taken away. It is the echo, which looks like a
  waste, that makes instances agree: without it (the variant `ReceiveOthers`)
  each instance keeps its own message last. `AllOffered`: at rest every message
  was offered to the clients of its own instance whatever Redis did, and to all
  others unless Redis lost one. That rest is reached is what the run's deadlock
  check says: while anything is under way some step can be taken, and the
  messages of a behaviour are bounded.
- `DeadIsDropped`: within `pongWait` of its last sign of life. `PromptIsKept`: a
  peer that answers in time stays.
- `ManualSurvives`: a manual rate is lost to no reader, no failed write and no
  crash, as long as goroutines are at the file one at a time and can read it;
  what overlaps do to it is among the disagreements below. `DamageHasCause`:
  once a tick or POST has truncated the file alone, it is torn only by two
  goroutines at once or a write that fails, and empty only inside `os.WriteFile`
  or after one that failed or was cut short. `StoreHeals`: a damaged file is
  repaired by the readers alone, if `exrate.txt` has a rate.
- `NoPartialFile`: a transfer that broke off never takes the local file's place.
  `ValidIsKept`: nor does anything invalid replace a valid file.
  `NewerIsFetched`: a change the client can see is fetched, whatever happens to
  the other file. `ReplacedIsStored`: a round that replaced any file leaves
  `market_data.json` made from what is at its local path, if that parses,
  although the other file may have failed; unless the process dies on the way or
  cannot read or write the files. `StoreCatchesUp`: what a crash or a failed
  write left truncated or unparsed is made good by later rounds, which is so
  only because the parsers run whether or not something was fetched.
- `OpenIsInHours`: `IsMarketOpen` against its comment, as the clock runs.
  `StatusSettles`: while the market is open the badge comes to show the right
  status and keeps showing it, although broadcast goroutines and the dashboard's
  own requests overtake each other and the page is dropped again and again.
  `CloseIsShown`: after the close the badge comes to show it closed and stays
  so. No broadcast says so, as a tick after the close returns before it sends
  anything; it is the page being dropped and fetching anew that does. With a
  keep-alive that kept the page (the variant `DropNever`) the property fails.
  `CardRecovers`: whatever `/api/data` shows on the USD card, the broadcasts
  that reach it put the right status back.
- `NeverStranded`: a page that wants a connection has a socket, a timer, or no
  attempts left. `ConnectedIsReal`: it shows Connected only with a socket.
  `LostIsRetried`: a lost connection is retried.

What the failing runs show, shortest story each:

- `hub_redis_panic`: a subscriber goroutine copies `h.clients` and releases the
  lock; the loop removes a client and closes its channel; the subscriber sends
  on it (hub.go:216), and the process is gone.
- `keepalive_quiet`: pongs are handled inside `Read` and do not make it return,
  so its 60 second context runs out for a peer that sends nothing. The dashboard
  is such a peer.
- `feed_card_flips`: the stored rate is zero and was stored while the market was
  open. A broadcast shows the card closed, since a zero rate is not valid
  (hub.go:236-239); the next connect or Refresh fetches the stored status and shows
  it open; and so on for as long as the market is open.
- `dashboard_own`: `connectWebSocket` closes an open socket without a code; the
  close event carries 1005 and schedules a reconnect, which closes the new one.

Disagreements that have no run, seen while the models were written, to be
reproduced from the definitions named:

- When two goroutines are at `usd_rate.json` at once, a manual rate can be lost
  or the file torn: `ManualSurvives` without `~disturbed` fails. The same
  happens when a reader cannot read the file for a moment and repairs what is
  not broken.
- A remote file replaced by one of the same size while, or in the same second
  as, it is downloaded counts as unchanged, since the mtime of the local copy is
  the time of the download (`Unchanged`).
- A round in which one file was updated and the other failed counts as a success
  (`Report`), so the source status says connected.
- A failed download broadcasts market data only, so the USD card keeps its last
  status (`DownloadFails`).
- `BroadcastData` ends without a USD rate, so prices are not broadcast either
  (`ComputeUSD`).
- A validator accepts files its parser cannot use: then the file replaces the
  local one and the JSON file keeps what it had (theorem `AcceptedIsNotParsed`).
- The parsers read `raw-data/` whatever `SFTP_LOCAL_PATH` says; the model takes
  the two for the same directory. And an interval of zero seconds or less, which
  nothing refuses, makes `time.NewTicker` panic (config.go:88, scheduler.go:41).
- The banner announces 09:00, the market opens at 06:00 (theorem
  `BannerIsWrong`).
- `connectWebSocket` leaves a socket that is still connecting alone, so a page
  can hold two open ones (`connectWebSocket`).

### Bounds

- *Hub*: capacities of 1 and 2 stand for 256. With 2 the drain loop makes two
  iterations while another message arrives; four messages and the snapshot fill
  the writer's hand and `send`, drop one, and still deliver one behind the gap.
  One connection is checked; the eight safety properties of the run and the
  refinement are theorems for any number of connections and any capacity.
- *Instances*: two processes, and in each two goroutines, are the least for an
  overtaking inside a process and between processes; two messages are an older
  and a newer one, of one channel or of both; a `broadcast` of 1 is full after
  one. Redis loses any of them, for any of the instances. One retry stands for
  three: it is the least by which a message overtakes a newer one or comes
  twice. The theorems hold for any number.
- *KeepAlive*: the code's own values; every clock reaches its limit.
- *RateStore*: each role overlaps with each other one, and two POSTs with each
  other; two mishaps, that is crashes or accesses that fail, anywhere: the
  second can meet what the first has left. Manual rates differ from automatic
  ones; automatic ones need not differ from each other for these properties.
- *SftpSync*: two files, one that fails for ever and one that does not; one
  mishap, that is a crash or a local file that cannot be read or written; two
  changes in all are one change of each, or one file that appears and is
  replaced under a download; two seconds order a change before and after, or
  within the same second as, a download. Two sizes are all that is compared.
- *Feed*: two broadcast goroutines in flight are the least that overtake each
  other. One hour passes from Sunday 23:00, Monday 05:00 or Tuesday 03:00: the
  night that belongs to no session, the opening and the close of a session; the
  theorem `OpensInHours` covers the rest of the week. POSTs start one of the two
  goroutines only (`Posted`), so that the scheduler always gets one in the end.
  One request of a kind is under way at a time: an answer that is still on its
  way when the page connects again arrives first.
- *WebClient*: three sockets are the current one, its predecessor and one still
  closing; three attempts reach the limit; `lostTimers = 2` stands for two or
  more.

### Fairness

- *Hub*: weak fairness for a goroutine that can run (the Go scheduler); strong
  fairness for the cases of the loop's `select`, which picks among ready cases
  at random; a write ends within `writeWait`, by success or failure; a read ends
  once its connection is gone or its context cancelled. Peers, pings, new
  connections, producers and shutdown owe nothing.
- *RateStore*: a goroutine goes on once it has begun, and some dashboard asks
  for the rate again and again (it does when it loads and when it reconnects).
  No tick is assumed, since out of hours there is none. Crashes and failed
  accesses come to an end, since `MaxMishaps` bounds them.
- *SftpSync*: ticks keep coming and each step of a round ends; the server is
  reached again and again, and the transfers of the files in `Reliable` do not
  fail for ever. Mishaps come to an end.
- *Feed*: the scheduler and its goroutines go on and the page's requests are
  answered. The page is dropped in the end, since `Read` gives up on it after
  `pongWait` (`keepalive_quiet`), and connects again (`LostIsRetried`, in
  `dashboard`; its attempts start anew with every connection); strongly fair, so
  that the bound on its requests does not keep it away. Nobody has to use a
  button, no POST and no hour has to come. `CardRecovers` and `CardSettles` have
  as a premise that broadcasts find the page connected again and again. That a
  download ends, one way or the other, is assumed and not given by the code:
  connecting has a time limit, `io.Copy` has none, and the first round runs
  before anything is served.
- *WebClient*: pending timers fire and a socket that connects or closes comes to
  an end. Nobody has to click, and no connection has to stay up.

## 4. Proofs

Eight modules, from the named assumptions on the constants alone: any number of
clients, subscribers, goroutines, sockets, changes and crashes, any capacity and
any time limits in the order the code requires.

`HubProofs`:

- `Typed`: `Spec => []TypeOK`, an inductive invariant as it stands. That no nil
  is ever queued and that a caller with clients to serve has a message are part
  of it.
- `NoZombieHolds`, `DropAsksForRemovalHolds`, `InitialSendSafeHolds` rest on one
  inductive invariant, `Membership`. None of them is inductive alone. That no
  pump is over while its client is a member needs to know that a client is
  registered before its pumps start (`RegisterFirst`) and added before any
  request to remove it is received; that needs to know which clients the
  members and the closed ones can be (`MembersOpen`), and that what a fan-out
  has in its snapshot has joined (`SnapshotsJoined`). `InitialSendSafe` holds
  since the loop cannot take the lock for writing while one of them reads.
- `NoPanicWithoutRedis`: with no subscriber goroutine nothing sends on a closed
  channel. The strengthening is `LoopSnapshot`: the loop's snapshot is a subset
  of the members while it fans out, since only the loop itself removes one. The
  run `hub_redis_panic` shows why the hypothesis is needed.
- `DrainFindsMessagesHolds`: only WritePump takes from its channel, so the count
  it read once stays a lower bound (`DrainCount`), with or without Redis; the
  run with a subscriber leaves this property to the theorem.

In the second part of the module, `FeedsInOrder` and `FeedsComplete`, that is
`InOrder` and `NoGap`, without Redis (through which messages come twice).
Neither is inductive. The invariant `Feed` follows a message from producer to
client. `QueueFeed`: the loop takes the messages by their numbers, so that
`h.broadcast` holds those behind `taken`, in order. `ClientFeed(c)`: the flow of
`c` is in order and holds nothing beyond what the loop has done with, and all of
it since `c` joined if `c` is a member that lost nothing. Each step then appends
the next number to a flow, moves an entry within it, or leaves it alone, which
is what the lemmas `FlowAppend`, `FlowTake`, `FlowWrite` and `FlowDrop` say. The
steps of the drain loop need `DrainCount`, without which a nil could be taken
for a message; the steps that end a client need `Membership`, without which a
client could join a second time.

`HubRefinesSubscription`, at its end: without Redis every behaviour of
the hub is one of `Subscription` under the mapping of `Hub`. `Feed` does not
suffice, as it says nothing complete of a client that was already removed and is
still written what its closed channel holds. `Whole(c)` does: the flow of a
client whose WritePump works has no nil and one snapshot at most, only numbers
after the one it joined at, and no gap as long as it lost none; `HasLast(c)` says
that the mapped cursor is defined. Every step is mapped by one lemma: a member
added joins (`AddJoins`), a full channel lags (`SendLags`), a write delivers or
hands over the snapshot (`WriteDelivers`), a WritePump that ends leaves
(`ExitLeaves`), a message queued in the hub is published, and all else stutters
(`Quiet`).

`SubscriptionProofs`, `FeedsAreSound`: feeds of `Subscription` are in order,
without repetition, and hold one snapshot; `HubRefinesSubscription` carries this
over to the hub.

`InstancesProofs`: `InstancesTyped`, `OncePerCommandHolds`, `AgreeAtRestHolds`,
`NewestAtRestHolds` and `AllOfferedHolds`, for any number of instances, of
goroutines in each and of retries. They share one inductive invariant, `IInv`,
since each part needs others:

- `Counted` is what `OncePerCommand` lacks to be inductive: the copies offered,
  those in the queue and in the inbox, and the commands that Redis may yet
  execute add up to at most what is allowed. `Occ` counts how often a message is
  in an inbox, where repeated ones may be several times. In the queue and in the
  hands of a goroutine it is once at most (`Single`), and everywhere where it
  belongs (`Addressed`).
- `OwnKept`: whatever Redis loses, a message waits for the clients of its own
  instance or was offered to them. `Reached`: while Redis has lost nothing, it
  has yet to go out, may yet be executed, is in the inbox, or was offered. At
  rest the two give `AllOffered`.
- `Ordered` is behind `AgreeAtRest`: there is one message that Redis passed on
  last, and each linked instance has it last in its inbox or shows it, unless it
  shows a message of its own that goes to Redis yet (`LastPassed`). Only the
  echo makes this true of the instance that published it.
- `NewestAtRest` needs two more: nothing newer was passed on (`Passed`), and
  what goroutines and queues hold rises (`Fresh`), which for an instance without
  Redis is all that orders what its clients see. `ShownFits` says that what is
  shown of a channel is a message of it.

`KeepAliveProofs`: `TypesKept`; `DeadIsDroppedHolds`: no Read waits longer than
`pongWait`, and the wait is at least as old as the peer's death (`ReadIsOlder`);
`PromptIsKeptHolds`: for a talkative peer every deadline is reset in time
(`InTime`).

`RateStoreProofs`: `RateStoreTyped`, with the fact that a POST writes its own
rate; `ManualSurvivesHolds` from `Undisturbed`: while nothing has disturbed the last
tick or POST, at most one goroutine is at the file (`Alone`), a reader there has
found no manual rate, and whoever has truncated it finds it empty when it writes.
`DamageHasCauseHolds` is not inductive either: a write tears a file that is not
empty, and that a lone writer's is empty is part of `Undisturbed`.

`SftpSyncProofs`: `SyncTyped`, `PartNeverReplaces`, `ValidStaysValid`,
`EndedRoundsStore` and `RoundsStoreWhatTheyReplace` from the invariant
`SyncInv`: what is validated is never a part, although parts lie around under
the same name; a round that has replaced a file gets to its parsers; and a write
is under way only of a file that parses. `EndedRoundsStore` is about every round
that gets to its parsers, whether or not it fetched anything, so that what a
crash or a failed write left behind is made good by the next one; that a round
which replaced a file gets there is what `RoundsStoreWhatTheyReplace` adds. On
the lines of files of any length: `PositiveIsAccepted`, `AcceptedIsNotParsed`,
`AcceptedHasSpot`.

`FeedProofs`: `OpensInHours`: `IsMarketOpen` is the documented sessions in every
hour of the week (`HoursAsDocumented`), which `FeedTyped` carries to every state
of `Feed`. `BannerIsWrong`: in no closed hour is the announced opening one.

`WebClientProofs`: `WebClientTyped`, in which the count of attempts matters;
`ConnectedIsRealHolds`, inductive as it stands; `NeverStrandedHolds`, which is not:
the last socket may be one the page disconnected, whose close event with code
1000 schedules nothing. `Served` leaves those sockets out, and is inductive
because disconnecting also ends the wish for a connection, and whoever renews
that opens a new socket.

With these, every invariant and every action property that a passing run checks
is a theorem. Only model-checked are the liveness properties, since the prover
reasons neither about `ENABLED` nor about fairness: `EndedIsForgotten`,
`SlowIsDisconnected`, `EveryMessageArrives`, `StoreHeals`, `NewerIsFetched`,
`StoreCatchesUp`, `StatusSettles`, `CloseIsShown`, `CardRecovers` and
`LostIsRetried`. For some the safety half is proved, that is what holds once
nothing is left to do: `DropAsksForRemoval` for `SlowIsDisconnected`, `NoGap`
for `EveryMessageArrives`, `EndedRoundsStore` for `StoreCatchesUp`,
`NeverStranded` for `LostIsRetried`. `NoPanic`, `InOrder`, `NoGap` and
`ImplementsSubscription` are proved under the hypothesis that there is no
subscriber goroutine, as in the run `hub`. Induction over data and RECURSIVE
operators are out of the prover's reach as well; the models use neither.

## 5. Not modelled

- The commands `download` and `continuous` of `main.go`: the same rounds without
  a hub. Flags only choose a command.
- `/health`, static files, CORS and the request log: they change no state.
- The rounding of prices and the conversion to baht per kilogram; formats of
  numbers, dates and texts: no property depends on a price's value beyond its
  sign.
- Code nothing calls: `GetFileHash`, `GetFileInfo`, `CompareFiles`,
  `ShouldDownload`, `ValidateMarketData`, `LoadMarketDataFromJSON`,
  `StartScheduledDownloads`, `Scheduler.Stop`, `ServeWS`, `Client.Send`,
  `ClientCount`, the Redis cache, `SubscribeMultiple`, `PublishUSDRate`,
  `PublishMarketData`, `ListenAndServe`, `CORSMiddleware`.
- Rendering, themes, notifications, the legacy polling page.
- Configuration, read once from the environment: its values are the constants of
  the models. Logging.

## 6. Plan

Done, in this order: `Hub`, `Subscription`, their proofs, `KeepAlive` and its
proofs, `RateStore`, `SftpSync`, `MarketHours`, `Feed` and its proofs,
`WebClient`, `Instances`, `LineFormats` with the parsers in `SftpSync`, the
start-up and the dashboard that is dropped and connects again in `Feed`, failed
writes and retried commands in `RateStore`, `SftpSync` and `Instances`, the
proofs of `SftpSync`, of the hub's feeds, of `RateStore`, of `WebClient` and of
the refinement `Hub => Subscription`, then those of `Instances`, and the types
of `SftpSync`.

Left, most useful first:

1. The safety half of `StatusSettles`: what the badge shows when no goroutine and
   no request is under way.
2. An abstract store of the USD rate, a register that a lone goroutine writes in
   one step, which `RateStore` implements while `disturbed` is false.
3. The composition of `Feed` with `RateStore`, in which the status is read from a
   file that may be torn.
