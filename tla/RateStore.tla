------------------------------ MODULE RateStore ------------------------------
(***************************************************************************)
(* raw-data/usd_rate.json and the goroutines that share it (parser/exrate.go *)
(* called from scheduler.go, api/handler.go and websocket/hub.go): the       *)
(* scheduler's tick rewrites it from exrate.txt, a POST to /api/update-rate   *)
(* from its body, and every reader rewrites it from exrate.txt when it finds  *)
(* it missing or unreadable.  No lock protects it and os.WriteFile is not    *)
(* atomic: it truncates the file, then writes from offset zero.  Two         *)
(* overlapping writes leave the second one's bytes, followed by what it does  *)
(* not cover of the first: the second value, or no JSON at all.              *)
(*                                                                          *)
(* exrate.txt is replaced as a whole by the rename of sftp/client.go; rate 0 *)
(* stands for a file that is absent, cannot be read just then, or whose last *)
(* line does not parse.  Any access to usd_rate.json itself may fail too.    *)
(***************************************************************************)
EXTENDS Integers, FiniteSets

CONSTANTS
  Posts,      \* the POST requests, one manual rate each
  Gets,       \* handlers of GET /api/data
  Casters,    \* BroadcastData goroutines that can exist at once, a bound
  Tick,       \* the scheduler goroutine
  MaxRate,    \* bound of the model: different rates exrate.txt can hold
  MaxMishaps  \* bound of the model: crashes and failed accesses to the file

ASSUME RateStoreAssumption ==
  /\ MaxRate \in Nat \ {0} /\ MaxMishaps \in Nat
  /\ Tick \notin Posts \cup Gets \cup Casters
  /\ Posts \cap (Gets \cup Casters) = {} /\ Gets \cap Casters = {}

Process == Posts \cup Gets \cup Casters \cup {Tick}
Reader  == Gets \cup Casters

Rate   == 0 .. MaxRate
AutoRates   == [kind : {"auto"}, of : 1 .. MaxRate]
ManualRates == [kind : {"manual"}, of : Posts]
Absent == [kind |-> "absent"]
Empty  == [kind |-> "empty"]
Torn   == [kind |-> "torn"]
Value  == AutoRates \cup ManualRates

AutoRate(k)   == [kind |-> "auto", of |-> k]
ManualRate(p) == [kind |-> "manual", of |-> p]

VARIABLES
  json,     \* the content of usd_rate.json
  exrate,   \* the rate exrate.txt holds
  pc,       \* per process: where it is
  val,      \* per process: the value it has read or is about to write
  held,     \* history: the manual rate no tick or POST has replaced, or none
  disturbed,\* history: since a tick or POST last truncated the file alone, two
            \* goroutines were at it at once or one could not read it
  marred,   \* history: since anyone last truncated the file alone, a write of
            \* it has failed or was cut short by a crash
  mishaps   \* times the process has died or an access to the file has failed

historyVars == <<held, disturbed, marred>>
vars == <<json, exrate, pc, val, historyVars, mishaps>>

Init ==
  /\ json = Absent /\ exrate \in Rate
  /\ pc = [p \in Process |-> "idle"]
  /\ val = [p \in Process |-> Absent]
  /\ held = Absent /\ disturbed = FALSE /\ marred = FALSE
  /\ mishaps = 0

\* From its first look at the file to its last write a goroutine relies on
\* nobody else being there.
AtFile(at) == at \in {"truncate", "write", "fallback"}

Alone(p) == \A q \in Process \ {p} : ~AtFile(pc[q])

Goto(p, to) ==
  /\ pc' = [pc EXCEPT ![p] = to]
  /\ disturbed' = (disturbed \/ (AtFile(to) /\ ~Alone(p)))

Mishap == mishaps < MaxMishaps /\ mishaps' = mishaps + 1

\* A download replaces exrate.txt.
ExrateChanges ==
  /\ exrate' \in Rate \ {exrate}
  /\ UNCHANGED <<json, pc, val, historyVars, mishaps>>

\* Variant: the error of LoadLatestUSDRate is not looked at.
TickIgnoresError ==
  /\ pc[Tick] = "idle"
  /\ Goto(Tick, "truncate")
  /\ val' = [val EXCEPT ![Tick] = AutoRate(exrate)]
  /\ UNCHANGED <<json, exrate, held, marred, mishaps>>

\* performDownload, once the download is over: LoadLatestUSDRate, and without
\* a rate no write; the broadcast follows in either case.
TickLoads ==
  /\ pc[Tick] = "idle"
  /\ IF exrate = 0
       THEN Goto(Tick, "spawn") /\ UNCHANGED val
       ELSE /\ Goto(Tick, "truncate")
            /\ val' = [val EXCEPT ![Tick] = AutoRate(exrate)]
  /\ UNCHANGED <<json, exrate, held, marred, mishaps>>

\* UpdateRateHandler with a valid body calls CreateManualUSDRate.
PostArrives(p) ==
  /\ pc[p] = "idle"
  /\ Goto(p, "truncate")
  /\ val' = [val EXCEPT ![p] = ManualRate(p)]
  /\ UNCHANGED <<json, exrate, held, marred, mishaps>>

\* A tick or a POST that gets here means to replace a manual rate; a reader's
\* repair does not.
Opened(p) ==
  /\ pc' = [pc EXCEPT ![p] = "write"]
  /\ held' = IF p \in Reader THEN held ELSE Absent
  /\ disturbed' = (~Alone(p) \/ (disturbed /\ p \in Reader))
  /\ marred' = (marred /\ ~Alone(p))
  /\ UNCHANGED <<exrate, val, mishaps>>

\* Variant: the file is opened without O_TRUNC.
TruncateNot(p) == pc[p] = "truncate" /\ Opened(p) /\ UNCHANGED json

\* os.WriteFile opens with O_TRUNC.
Truncate(p) == pc[p] = "truncate" /\ Opened(p) /\ json' = Empty

AfterWrite(p) == IF p \in Reader THEN "return" ELSE "spawn"

Write(p) ==
  /\ pc[p] = "write"
  /\ json' \in IF json = Empty THEN {val[p]} ELSE {val[p], Torn}
  /\ Goto(p, AfterWrite(p))
  /\ held' = IF p \in Posts THEN val[p]
             ELSE IF p = Tick THEN Absent ELSE held
  /\ UNCHANGED <<exrate, val, marred, mishaps>>

\* An error of SaveUSDRateToJSON: a POST answers it and broadcasts nothing, a
\* tick logs it and broadcasts, and a reader ignores it.
AfterFailure(p) ==
  IF p \in Reader THEN "return" ELSE IF p = Tick THEN "spawn" ELSE "done"

OpenFails(p) ==
  /\ pc[p] = "truncate" /\ Mishap
  /\ Goto(p, AfterFailure(p))
  /\ UNCHANGED <<json, exrate, val, held, marred>>

\* Nothing, a part or, when only closing fails, all of the value was written.
WriteFails(p) ==
  /\ pc[p] = "write" /\ Mishap
  /\ json' \in {json, val[p], Torn}
  /\ Goto(p, AfterFailure(p))
  /\ marred' = TRUE
  /\ UNCHANGED <<exrate, val, held>>

\* go BroadcastData.
SpawnBroadcast(p) ==
  /\ pc[p] = "spawn"
  /\ \E b \in Casters :
       /\ pc[b] = "idle"
       /\ pc' = [pc EXCEPT ![p] = IF p = Tick THEN "idle" ELSE "done",
                           ![b] = "read"]
  /\ UNCHANGED <<json, exrate, val, historyVars, mishaps>>

GetArrives(g) ==
  /\ pc[g] = "idle"
  /\ Goto(g, "read")
  /\ UNCHANGED <<json, exrate, val, held, marred, mishaps>>

\* Variant: a reader takes the rate of exrate.txt whatever the JSON holds.
ReadPrefersExrate(r) ==
  /\ pc[r] = "read"
  /\ Goto(r, "fallback")
  /\ UNCHANGED <<json, exrate, val, held, marred, mishaps>>

\* GetCurrentUSDRate reads the JSON, and falls back to exrate.txt when that
\* gives no rate.
ReadJSON(r) ==
  /\ pc[r] = "read"
  /\ IF json \in Value
       THEN Goto(r, "return") /\ val' = [val EXCEPT ![r] = json]
       ELSE Goto(r, "fallback") /\ UNCHANGED val
  /\ UNCHANGED <<json, exrate, held, marred, mishaps>>

\* A reader that cannot read a rate falls back just so.
ReadFails(r) ==
  /\ pc[r] = "read" /\ json \in Value /\ Mishap
  /\ pc' = [pc EXCEPT ![r] = "fallback"]
  /\ disturbed' = TRUE
  /\ UNCHANGED <<json, exrate, val, held, marred>>

\* Variant: the fallback returns the rate and leaves the JSON as it is.
FallbackKeepsJSON(r) ==
  /\ pc[r] = "fallback"
  /\ IF exrate = 0
       THEN Goto(r, "idle") /\ UNCHANGED val
       ELSE /\ Goto(r, "return")
            /\ val' = [val EXCEPT ![r] = AutoRate(exrate)]
  /\ UNCHANGED <<json, exrate, held, marred, mishaps>>

\* Without a rate there either, the caller gets an error and sends nothing.
Fallback(r) ==
  /\ pc[r] = "fallback"
  /\ IF exrate = 0
       THEN Goto(r, "idle") /\ UNCHANGED val
       ELSE /\ Goto(r, "truncate")
            /\ val' = [val EXCEPT ![r] = AutoRate(exrate)]
  /\ UNCHANGED <<json, exrate, held, marred, mishaps>>

\* A GET answers its value; BroadcastData sends it on h.broadcast.
Return(r) ==
  /\ pc[r] = "return"
  /\ Goto(r, "idle")
  /\ val' = [val EXCEPT ![r] = Absent]
  /\ UNCHANGED <<json, exrate, held, marred, mishaps>>

\* The process dies between any two steps; the files stay as they are.
Crash ==
  /\ Mishap
  /\ pc' = [p \in Process |->
              IF p \in Posts /\ pc[p] # "idle" THEN "done" ELSE "idle"]
  /\ val' = [p \in Process |-> Absent]
  /\ marred' = (marred \/ \E p \in Process : pc[p] = "write")
  /\ UNCHANGED <<json, exrate, held, disturbed>>

FileStep(p) == Truncate(p) \/ Write(p)
FileStepFails(p) == OpenFails(p) \/ WriteFails(p)
ReadStep(r) == ReadJSON(r) \/ Fallback(r) \/ Return(r)

Next ==
  \/ ExrateChanges \/ TickLoads \/ Crash
  \/ \E p \in Posts : PostArrives(p)
  \/ \E p \in Posts \cup {Tick} : SpawnBroadcast(p)
  \/ \E p \in Process : FileStep(p) \/ FileStepFails(p)
  \/ \E g \in Gets : GetArrives(g)
  \/ \E r \in Reader : ReadStep(r) \/ ReadFails(r)

Spec == Init /\ [][Next]_vars

(***************************************************************************)
(* Fairness: a goroutine that has begun goes on, and somebody asks for the   *)
(* rate again and again, as every dashboard does when it loads and when it   *)
(* reconnects.  No tick is assumed: out of market hours there is none.  Crashes*)
(* and failed accesses come to an end.                                       *)
(***************************************************************************)
FairSpec ==
  /\ Spec
  /\ \A g \in Gets : WF_vars(GetArrives(g))
  /\ \A p \in Process : WF_vars(FileStep(p))
  /\ \A p \in Posts \cup {Tick} : SF_vars(SpawnBroadcast(p))
  /\ \A r \in Reader : WF_vars(ReadStep(r))

-----------------------------------------------------------------------------
\* The values of every variable: in particular a rate that did not parse is
\* never written or broadcast (exrate.go:136-140).
TypeOK ==
  /\ json \in Value \cup {Absent, Empty, Torn}
  /\ exrate \in Rate
  /\ pc \in [Process -> {"idle", "truncate", "write", "spawn", "read",
                         "fallback", "return", "done"}]
  /\ val \in [Process -> Value \cup {Absent}]
  /\ held \in ManualRates \cup {Absent}
  /\ disturbed \in BOOLEAN /\ marred \in BOOLEAN
  /\ mishaps \in 0 .. MaxMishaps

\* A usd_rate.json left empty or torn, by a crash or an error inside
\* os.WriteFile or by two overlapping writes, is a rate again in the end: some
\* reader repairs it, unless exrate.txt has no rate to repair it from
\* (exrate.go:146-170).
StoreHeals ==
  json \in {Absent, Empty, Torn} ~> json \in Value \/ exrate = 0

\* A manual rate stays the current one until a tick or another POST replaces
\* it, as the dashboard tells its user (handler.go:131-134, app.js:737): no
\* other goroutine, no failed write and no crash loses it, as long as the POST
\* was alone at the file, and everyone after it was, and could read it.
ManualSurvives == held # Absent /\ ~disturbed => json = held

\* The file has no other damage than what StoreHeals is about: as soon as a
\* tick or POST has truncated it alone, and whatever went wrong before, it is
\* torn only by two goroutines at once or a write that fails, and empty only
\* between the two halves of an os.WriteFile or after one that failed or was cut
\* short by a crash (exrate.go:105-113).
DamageHasCause ==
  /\ json = Torn => disturbed \/ marred
  /\ json = Empty => marred \/ \E p \in Process : pc[p] = "write"
=============================================================================
