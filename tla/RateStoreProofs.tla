-------------------------- MODULE RateStoreProofs ---------------------------
(***************************************************************************)
(* For any number of POSTs, readers, rates and mishaps: what a manual rate is *)
(* lost to and what damages usd_rate.json.  ManualSurvives is not inductive.  *)
(* It needs that a reader which repairs the file found no manual rate there   *)
(* (Repairing), and that the goroutine which has truncated the file finds it  *)
(* empty when it writes (Writing); both last only because a second goroutine  *)
(* at the file would have set disturbed (OneAtFile), and so would a reader    *)
(* that failed to read a rate.                                                *)
(***************************************************************************)
EXTENDS RateStore, TLAPS

ThereIs(p) == AtFile(pc[p])

OneAtFile == \A p, q \in Process : ThereIs(p) /\ ThereIs(q) => p = q
Repairing == \A r \in Reader : ThereIs(r) => held = Absent
Writing   == \A p \in Process : pc[p] = "write" => json = Empty /\ held = Absent

\* While nobody else has been at the file with it.
Undisturbed ==
  ~disturbed => OneAtFile /\ Repairing /\ Writing /\ (held # Absent => json = held)

\* A POST at the file carries its own rate.
OwnRate ==
  \A p \in Posts : pc[p] \in {"truncate", "write"} => val[p] = ManualRate(p)

Place == {"idle", "truncate", "write", "spawn", "read", "fallback", "return",
          "done"}

LEMMA Kinds ==
  /\ \A v \in AutoRates : v.kind = "auto"
  /\ \A v \in ManualRates : v.kind = "manual"
  /\ Absent \notin Value /\ Empty \notin Value /\ Empty # Absent
  /\ \A p \in Posts : ManualRate(p) \in ManualRates
  /\ \A k \in 1 .. MaxRate : AutoRate(k) \in AutoRates
<1> USE DEF AutoRates, ManualRates, Absent, Empty, ManualRate, AutoRate
<1>1. /\ \A v \in AutoRates : v.kind = "auto"
      /\ \A v \in ManualRates : v.kind = "manual"
  OBVIOUS
<1>2. /\ \A p \in Posts : ManualRate(p) \in ManualRates
      /\ \A k \in 1 .. MaxRate : AutoRate(k) \in AutoRates
  OBVIOUS
<1>3. Absent.kind = "absent" /\ Empty.kind = "empty"
  OBVIOUS
<1>4. Absent \notin Value /\ Empty \notin Value /\ Empty # Absent
  BY <1>1, <1>3 DEF Value
<1>5. QED
  BY <1>1, <1>2, <1>4

LEMMA LoadedRate ==
  ASSUME TypeOK, exrate # 0
  PROVE  AutoRate(exrate) \in Value
<1>1. exrate \in 1 .. MaxRate
  BY RateStoreAssumption DEF TypeOK, Rate
<1>2. QED
  BY <1>1, Kinds DEF Value

LEMMA GotoTyped ==
  ASSUME TypeOK, NEW p \in Process, NEW to \in Place, Goto(p, to)
  PROVE  /\ pc' \in [Process -> Place]
         /\ disturbed' \in BOOLEAN
<1>1. pc' \in [Process -> Place]
  BY DEF Goto, TypeOK, Place
<1>2. disturbed' \in BOOLEAN
  BY Zenon DEF Goto, TypeOK
<1>3. QED
  BY <1>1, <1>2

LEMMA MishapTyped ==
  ASSUME TypeOK, Mishap
  PROVE  mishaps' \in 0 .. MaxMishaps
BY RateStoreAssumption DEF TypeOK, Mishap

LEMMA OpenedTyped ==
  ASSUME TypeOK, NEW p \in Process, Opened(p)
  PROVE  /\ pc' \in [Process -> Place]
         /\ disturbed' \in BOOLEAN /\ marred' \in BOOLEAN
<1>1. pc' \in [Process -> Place]
  BY DEF Opened, TypeOK, Place
<1>2. disturbed' \in BOOLEAN /\ marred' \in BOOLEAN
  BY Zenon DEF Opened, TypeOK
<1>3. QED
  BY <1>1, <1>2

\* The values of every variable; a rate that did not parse is never written or
\* broadcast (exrate.go:136-140), for any number of goroutines.
THEOREM RateStoreTyped == Spec => [](TypeOK /\ OwnRate)
<1> USE DEF TypeOK, OwnRate
<1>1. Init => TypeOK /\ OwnRate
  <2> SUFFICES ASSUME Init PROVE TypeOK /\ OwnRate
    OBVIOUS
  <2>1. pc \in [Process -> Place] /\ val \in [Process -> Value \cup {Absent}]
    BY DEF Init, Place
  <2>2. OwnRate
    BY DEF Init, Process
  <2>3. disturbed \in BOOLEAN /\ marred \in BOOLEAN
    BY Zenon DEF Init
  <2>4. mishaps \in 0 .. MaxMishaps
    BY RateStoreAssumption DEF Init
  <2>5. QED
    BY <2>1, <2>2, <2>3, <2>4 DEF Init, Place
<1>2. TypeOK /\ OwnRate /\ [Next]_vars => TypeOK' /\ OwnRate'
  <2> SUFFICES ASSUME TypeOK, OwnRate, [Next]_vars PROVE TypeOK' /\ OwnRate'
    OBVIOUS
  <2> USE RateStoreAssumption, Kinds
  <2>1. CASE ExrateChanges
    BY <2>1 DEF ExrateChanges, historyVars
  <2>2. CASE TickLoads
    <3>1. pc' \in [Process -> Place] /\ disturbed' \in BOOLEAN
      BY <2>2, GotoTyped DEF TickLoads, Process, Place
    <3>2. val' \in [Process -> Value \cup {Absent}]
      BY <2>2, LoadedRate DEF TickLoads
    <3>3. OwnRate'
      BY <2>2 DEF TickLoads, Goto, Process
    <3>4. QED
      BY <2>2, <3>1, <3>2, <3>3 DEF TickLoads, Place
  <2>3. CASE Crash
    <3>1. pc' \in [Process -> Place] /\ val' \in [Process -> Value \cup {Absent}]
      BY <2>3 DEF Crash, Place
    <3>2. OwnRate'
      BY <2>3 DEF Crash, Process
    <3>3. marred' \in BOOLEAN
      BY <2>3, Zenon DEF Crash
    <3>4. QED
      BY <2>3, <3>1, <3>2, <3>3, MishapTyped DEF Crash, Place
  <2>4. ASSUME NEW p \in Posts, PostArrives(p) PROVE TypeOK' /\ OwnRate'
    <3>1. pc' \in [Process -> Place] /\ disturbed' \in BOOLEAN
      BY <2>4, GotoTyped DEF PostArrives, Process, Place
    <3>2. QED
      BY <2>4, <3>1 DEF PostArrives, Goto, Process, Place, Value
  <2>5. ASSUME NEW p \in Posts \cup {Tick}, SpawnBroadcast(p)
        PROVE  TypeOK' /\ OwnRate'
    BY <2>5 DEF SpawnBroadcast, Process, historyVars
  <2>6. ASSUME NEW p \in Process, Truncate(p) PROVE TypeOK' /\ OwnRate'
    <3>1. /\ pc' \in [Process -> Place]
          /\ disturbed' \in BOOLEAN /\ marred' \in BOOLEAN
      BY <2>6, OpenedTyped DEF Truncate
    <3>2. QED
      BY <2>6, <3>1 DEF Truncate, Opened, Place, Process
  <2>7. ASSUME NEW p \in Process, Write(p) PROVE TypeOK' /\ OwnRate'
    <3>1. pc' \in [Process -> Place] /\ disturbed' \in BOOLEAN
      BY <2>7, GotoTyped DEF Write, AfterWrite, Place
    <3>2. json' \in Value \cup {Absent, Empty, Torn}
      BY <2>7 DEF Write
    <3>3. held' \in ManualRates \cup {Absent}
      BY <2>7 DEF Write
    <3>4. QED
      BY <2>7, <3>1, <3>2, <3>3 DEF Write, AfterWrite, Goto, Place, Process
  <2>8. ASSUME NEW g \in Gets, GetArrives(g) PROVE TypeOK' /\ OwnRate'
    <3>1. pc' \in [Process -> Place] /\ disturbed' \in BOOLEAN
      BY <2>8, GotoTyped DEF GetArrives, Process, Place
    <3>2. QED
      BY <2>8, <3>1 DEF GetArrives, Goto, Place, Process
  <2>9. ASSUME NEW r \in Reader, ReadStep(r) PROVE TypeOK' /\ OwnRate'
    <3>1. pc' \in [Process -> Place] /\ disturbed' \in BOOLEAN
      BY <2>9, GotoTyped
         DEF ReadStep, ReadJSON, Fallback, Return, Process, Reader, Place
    <3>2. val' \in [Process -> Value \cup {Absent}]
      BY <2>9, LoadedRate DEF ReadStep, ReadJSON, Fallback, Return
    <3>3. OwnRate'
      <4>1. r \in Process \ Posts
        BY DEF Process, Reader
      <4>2. \A p \in Posts : pc'[p] = pc[p] /\ val'[p] = val[p]
        BY <2>9, <4>1 DEF ReadStep, ReadJSON, Fallback, Return, Goto, Process
      <4>3. QED
        BY <4>2
    <3>4. QED
      BY <2>9, <3>1, <3>2, <3>3 DEF ReadStep, ReadJSON, Fallback, Return, Place
  <2>10. ASSUME NEW p \in Process, FileStepFails(p) PROVE TypeOK' /\ OwnRate'
    <3>1. pc' \in [Process -> Place] /\ disturbed' \in BOOLEAN
      BY <2>10, GotoTyped
         DEF FileStepFails, OpenFails, WriteFails, AfterFailure, Place
    <3>2. json' \in Value \cup {Absent, Empty, Torn}
      BY <2>10 DEF FileStepFails, OpenFails, WriteFails
    <3>3. mishaps' \in 0 .. MaxMishaps
      BY <2>10, MishapTyped DEF FileStepFails, OpenFails, WriteFails
    <3>4. OwnRate'
      BY <2>10
         DEF FileStepFails, OpenFails, WriteFails, AfterFailure, Goto, Process
    <3>5. QED
      BY <2>10, <3>1, <3>2, <3>3, <3>4
         DEF FileStepFails, OpenFails, WriteFails, Place
  <2>11. ASSUME NEW r \in Reader, ReadFails(r) PROVE TypeOK' /\ OwnRate'
    <3>1. mishaps' \in 0 .. MaxMishaps
      BY <2>11, MishapTyped DEF ReadFails
    <3>2. pc' \in [Process -> Place] /\ OwnRate'
      BY <2>11 DEF ReadFails, Process, Place
    <3>3. QED
      BY <2>11, <3>1, <3>2 DEF ReadFails, Place
  <2>12. CASE UNCHANGED vars
    BY <2>12 DEF vars, historyVars
  <2>13. QED
    BY <2>1, <2>2, <2>3, <2>4, <2>5, <2>6, <2>7, <2>8, <2>9, <2>10, <2>11, <2>12
       DEF Next, FileStep
<1>3. QED
  BY <1>1, <1>2, PTL DEF Spec

\* Arriving at the file, or going on there, without being disturbed.
LEMMA GotoAlone ==
  ASSUME TypeOK, NEW p \in Process, NEW to \in Place, Goto(p, to),
         ~disturbed => OneAtFile, ~disturbed'
  PROVE  /\ ~disturbed /\ OneAtFile'
         /\ AtFile(to) => \A q \in Process \ {p} : ~ThereIs(q)
         /\ \A q \in Process \ {p} : pc'[q] = pc[q]
         /\ pc'[p] = to
<1>1. ~disturbed /\ OneAtFile
  BY DEF Goto
<1>2. AtFile(to) => \A q \in Process \ {p} : ~ThereIs(q)
  BY DEF Goto, Alone, ThereIs
<1>3. /\ \A q \in Process \ {p} : pc'[q] = pc[q]
      /\ pc'[p] = to
  BY DEF Goto, TypeOK
<1>4. \A q \in Process \ {p} : ThereIs(q)' <=> ThereIs(q)
  BY <1>3 DEF ThereIs, AtFile
<1>5. ThereIs(p)' <=> AtFile(to)
  BY <1>3 DEF ThereIs, AtFile
<1>6. OneAtFile'
  BY <1>1, <1>2, <1>4, <1>5 DEF OneAtFile
<1>7. QED
  BY <1>1, <1>2, <1>3, <1>6

LEMMA UndisturbedHolds == Spec => [](TypeOK /\ OwnRate /\ Undisturbed)
<1>1. Init => Undisturbed
  BY DEF Init, Undisturbed, OneAtFile, Repairing, Writing, ThereIs, AtFile, Reader,
         Process
<1>2. /\ TypeOK /\ OwnRate /\ Undisturbed /\ [Next]_vars
      => Undisturbed'
  <2> SUFFICES ASSUME TypeOK, OwnRate, Undisturbed, [Next]_vars, ~disturbed'
               PROVE  (/\ OneAtFile /\ Repairing /\ Writing
                       /\ (held # Absent => json = held))'
    BY DEF Undisturbed
  <2> USE Kinds, RateStoreAssumption
  <2>a. \A p \in Process : pc[p] \in Place
    BY DEF TypeOK, Place
  <2>b. Reader \subseteq Process /\ Posts \subseteq Process /\ Tick \in Process
        /\ Tick \notin Reader /\ Posts \cap Reader = {} /\ Gets \subseteq Reader
    BY DEF Reader, Process
  <2>c. held # Absent /\ ~disturbed => json \in Value
    BY DEF Undisturbed, TypeOK, Value
  \* A goroutine that changes neither the file nor the manual rate: a reader
  \* may go to the file only when there is no manual rate.
  <2>d. ASSUME NEW p \in Process, NEW to \in Place, Goto(p, to), to # "write",
               json' = json, held' = held,
               p \in Reader /\ AtFile(to) => held = Absent
        PROVE  (/\ OneAtFile /\ Repairing /\ Writing
                /\ (held # Absent => json = held))'
    <3>1. /\ ~disturbed /\ OneAtFile'
          /\ \A q \in Process \ {p} : pc'[q] = pc[q]
          /\ pc'[p] = to
      BY <2>d, GotoAlone DEF Undisturbed
    <3>2. Repairing'
      BY <2>b, <2>d, <3>1 DEF Undisturbed, Repairing, ThereIs, AtFile
    <3>3. Writing'
      BY <2>d, <3>1 DEF Undisturbed, Writing
    <3>4. QED
      BY <2>d, <3>1, <3>2, <3>3 DEF Undisturbed
  <2>1. CASE ExrateChanges
    BY <2>1 DEF ExrateChanges, Undisturbed, OneAtFile, Repairing, Writing, ThereIs,
                AtFile, historyVars
  <2>2. CASE TickLoads
    BY <2>2, <2>b, <2>d DEF TickLoads, Place
  <2>3. CASE Crash
    <3>1. \A p \in Process : pc'[p] \in {"idle", "done"}
      BY <2>3 DEF Crash
    <3>2. OneAtFile' /\ Repairing' /\ Writing'
      BY <2>b, <3>1 DEF OneAtFile, Repairing, Writing, ThereIs, AtFile
    <3>3. QED
      BY <2>3, <3>2 DEF Crash, Undisturbed
  <2>4. ASSUME NEW p \in Posts, PostArrives(p)
        PROVE  (/\ OneAtFile /\ Repairing /\ Writing
                /\ (held # Absent => json = held))'
    BY <2>4, <2>b, <2>d DEF PostArrives, Place
  <2>5. ASSUME NEW p \in Posts \cup {Tick}, SpawnBroadcast(p)
        PROVE  (/\ OneAtFile /\ Repairing /\ Writing
                /\ (held # Absent => json = held))'
    <3>1. \A q \in Process : ThereIs(q)' => ThereIs(q)
      BY <2>5 DEF SpawnBroadcast, ThereIs, AtFile, TypeOK
    <3>2. \A q \in Process : pc'[q] = "write" => pc[q] = "write"
      BY <2>5 DEF SpawnBroadcast, TypeOK
    <3>3. QED
      BY <2>5, <2>b, <3>1, <3>2
         DEF SpawnBroadcast, Undisturbed, OneAtFile, Repairing, Writing, historyVars
  <2>6. ASSUME NEW p \in Process, Truncate(p)
        PROVE  (/\ OneAtFile /\ Repairing /\ Writing
                /\ (held # Absent => json = held))'
    <3>1. \A q \in Process \ {p} : pc'[q] = pc[q] /\ ~ThereIs(q)
      BY <2>6 DEF Truncate, Opened, Alone, ThereIs, TypeOK
    <3>2. pc'[p] = "write"
      BY <2>6 DEF Truncate, Opened, TypeOK
    <3>3. OneAtFile'
      BY <3>1 DEF OneAtFile, ThereIs, AtFile
    <3>4. held' = Absent
      BY <2>6 DEF Truncate, Opened, Undisturbed, Repairing, ThereIs, AtFile
    <3>5. json' = Empty
      BY <2>6 DEF Truncate
    <3>6. QED
      BY <3>1, <3>2, <3>3, <3>4, <3>5 DEF Repairing, Writing
  <2>7. ASSUME NEW p \in Process, Write(p)
        PROVE  (/\ OneAtFile /\ Repairing /\ Writing
                /\ (held # Absent => json = held))'
    <3>1. /\ ~disturbed /\ OneAtFile'
          /\ \A q \in Process \ {p} : pc'[q] = pc[q]
          /\ pc'[p] = AfterWrite(p)
      BY <2>7, GotoAlone DEF Write, AfterWrite, Undisturbed, Place
    <3>2. \A q \in Process \ {p} : ~ThereIs(q)
      BY <2>7, <3>1 DEF Undisturbed, OneAtFile, ThereIs, AtFile, Write
    <3>3. \A q \in Process : ~ThereIs(q)'
      BY <3>1, <3>2 DEF ThereIs, AtFile, AfterWrite
    <3>4. Repairing' /\ Writing'
      BY <2>b, <3>3 DEF Repairing, Writing, ThereIs, AtFile
    <3>5. json' = val[p] /\ held = Absent
      BY <2>7, <3>1 DEF Write, Undisturbed, Writing
    <3>6. QED
      BY <2>7, <3>1, <3>4, <3>5 DEF Write
  <2>8. ASSUME NEW g \in Gets, GetArrives(g)
        PROVE  (/\ OneAtFile /\ Repairing /\ Writing
                /\ (held # Absent => json = held))'
    BY <2>8, <2>b, <2>d DEF GetArrives, Place, AtFile
  <2>9. ASSUME NEW r \in Reader, ReadStep(r)
        PROVE  (/\ OneAtFile /\ Repairing /\ Writing
                /\ (held # Absent => json = held))'
    <3>1. ~disturbed
      BY <2>9 DEF ReadStep, ReadJSON, Fallback, Return, Goto
    <3>2. CASE ReadJSON(r)
      BY <2>b, <2>c, <2>d, <3>1, <3>2 DEF ReadJSON, Place, AtFile
    <3>3. CASE Fallback(r)
      <4>1. held = Absent
        BY <3>1, <3>3 DEF Fallback, Undisturbed, Repairing, ThereIs, AtFile
      <4>2. QED
        BY <2>b, <2>d, <3>3, <4>1 DEF Fallback, Place, AtFile
    <3>4. CASE Return(r)
      BY <2>b, <2>d, <3>4 DEF Return, Place, AtFile
    <3>5. QED
      BY <2>9, <3>2, <3>3, <3>4 DEF ReadStep
  <2>10. ASSUME NEW p \in Process, OpenFails(p)
         PROVE  (/\ OneAtFile /\ Repairing /\ Writing
                 /\ (held # Absent => json = held))'
    BY <2>10, <2>d DEF OpenFails, AfterFailure, Place, AtFile
  <2>11. ASSUME NEW p \in Process, WriteFails(p)
         PROVE  (/\ OneAtFile /\ Repairing /\ Writing
                 /\ (held # Absent => json = held))'
    <3>1. /\ ~disturbed /\ OneAtFile'
          /\ \A q \in Process \ {p} : pc'[q] = pc[q]
          /\ pc'[p] = AfterFailure(p)
      BY <2>11, GotoAlone DEF WriteFails, AfterFailure, Undisturbed, Place
    <3>2. \A q \in Process \ {p} : ~ThereIs(q)
      BY <2>11, <3>1 DEF Undisturbed, OneAtFile, ThereIs, AtFile, WriteFails
    <3>3. \A q \in Process : ~ThereIs(q)'
      BY <3>1, <3>2 DEF ThereIs, AtFile, AfterFailure
    <3>4. held' = Absent
      BY <2>11, <3>1 DEF WriteFails, Undisturbed, Writing
    <3>5. QED
      BY <3>1, <3>3, <3>4 DEF Repairing, Writing, ThereIs, AtFile
  <2>12. ASSUME NEW r \in Reader, ReadFails(r) PROVE FALSE
    BY <2>12 DEF ReadFails
  <2>13. CASE UNCHANGED vars
    BY <2>13
       DEF vars, historyVars, Undisturbed, OneAtFile, Repairing, Writing, ThereIs, AtFile
  <2>14. QED
    BY <2>1, <2>2, <2>3, <2>4, <2>5, <2>6, <2>7, <2>8, <2>9, <2>10, <2>11, <2>12, <2>13
       DEF Next, FileStep, FileStepFails
<1>3. QED
  BY <1>1, <1>2, RateStoreTyped, PTL DEF Spec

\* A manual rate stays the current one until a tick or another POST replaces
\* it (handler.go:131-134, exrate.go:146-170), for any number of goroutines,
\* crashes and failed accesses, unless two goroutines are at the file at once
\* or one cannot read it.
THEOREM ManualSurvivesHolds == Spec => []ManualSurvives
<1>1. Undisturbed => ManualSurvives
  BY DEF Undisturbed, ManualSurvives
<1>2. QED
  BY <1>1, UndisturbedHolds, PTL

\* The file is torn only by two goroutines at once or a failed write, and empty
\* only inside an os.WriteFile or after one that did not end well
\* (exrate.go:105-113); and whatever happened before is made up for by the next
\* one that truncates it alone.
THEOREM DamageHasCauseHolds == Spec => []DamageHasCause
<1>1. Init => DamageHasCause
  BY DEF Init, DamageHasCause, Absent, Empty, Torn
<1>2. TypeOK /\ OwnRate /\ Undisturbed /\ DamageHasCause /\ [Next]_vars
      => DamageHasCause'
  <2> SUFFICES ASSUME TypeOK, OwnRate, Undisturbed, DamageHasCause, [Next]_vars
               PROVE  DamageHasCause'
    OBVIOUS
  <2>1. /\ Empty # Torn /\ Empty \notin Value /\ Torn \notin Value
        /\ Absent \notin {Empty, Torn}
    <3>1. \A v \in Value : v.kind \in {"auto", "manual"}
      BY Kinds DEF Value
    <3>2. Empty.kind = "empty" /\ Torn.kind = "torn" /\ Absent.kind = "absent"
      BY DEF Empty, Torn, Absent
    <3>3. QED
      BY <3>1, <3>2
  <2>2. ASSUME NEW p \in Process, Write(p) PROVE DamageHasCause'
    <3>1. val[p] \in Value \cup {Absent}
      BY DEF TypeOK
    <3>2. json' # Empty
      BY <2>1, <2>2, <3>1 DEF Write
    <3>3. ~disturbed => json' # Torn
      BY <2>1, <2>2, <3>1 DEF Write, Undisturbed, Writing
    <3>4. disturbed => disturbed'
      BY <2>2 DEF Write, Goto
    <3>5. QED
      BY <3>2, <3>3, <3>4 DEF DamageHasCause
  <2>3. ASSUME NEW p \in Process, Truncate(p) PROVE DamageHasCause'
    <3>1. json' = Empty /\ pc'[p] = "write"
      BY <2>3 DEF Truncate, Opened, TypeOK
    <3>2. QED
      BY <2>1, <3>1 DEF DamageHasCause
  <2>4. ASSUME NEW p \in Process, WriteFails(p) PROVE DamageHasCause'
    BY <2>4 DEF WriteFails, DamageHasCause
  <2>5. CASE Crash
    BY <2>5 DEF Crash, DamageHasCause
  \* No other step changes the file, takes anybody away from it or is one that
  \* makes up for what happened.
  <2>6. ASSUME json' = json, marred' = marred, disturbed => disturbed',
               \A p \in Process : pc[p] = "write" => pc'[p] = "write"
        PROVE  DamageHasCause'
    BY <2>6 DEF DamageHasCause
  <2>7. CASE ExrateChanges \/ UNCHANGED vars
    BY <2>6, <2>7 DEF ExrateChanges, vars, historyVars
  <2>8. ASSUME NEW p \in Process, NEW to, pc[p] # "write", Goto(p, to),
               json' = json, marred' = marred
        PROVE  DamageHasCause'
    <3>1. \A q \in Process : pc[q] = "write" => pc'[q] = "write"
      BY <2>8 DEF Goto, TypeOK
    <3>2. disturbed => disturbed'
      BY <2>8 DEF Goto
    <3>3. QED
      BY <2>6, <2>8, <3>1, <3>2
  <2>9. CASE TickLoads
    BY <2>8, <2>9 DEF TickLoads, Process
  <2>10. ASSUME NEW p \in Posts, PostArrives(p) PROVE DamageHasCause'
    BY <2>8, <2>10 DEF PostArrives, Process
  <2>11. ASSUME NEW p \in Posts \cup {Tick}, SpawnBroadcast(p)
         PROVE  DamageHasCause'
    <3>1. \A q \in Process : pc[q] = "write" => pc'[q] = "write"
      BY <2>11 DEF SpawnBroadcast, TypeOK
    <3>2. QED
      BY <2>6, <2>11, <3>1 DEF SpawnBroadcast, historyVars
  <2>12. ASSUME NEW g \in Gets, GetArrives(g) PROVE DamageHasCause'
    BY <2>8, <2>12 DEF GetArrives, Process
  <2>13. ASSUME NEW r \in Reader, ReadStep(r) PROVE DamageHasCause'
    BY <2>8, <2>13 DEF ReadStep, ReadJSON, Fallback, Return, Reader, Process
  <2>14. ASSUME NEW p \in Process, OpenFails(p) PROVE DamageHasCause'
    BY <2>8, <2>14 DEF OpenFails
  <2>15. ASSUME NEW r \in Reader, ReadFails(r) PROVE DamageHasCause'
    <3>1. \A q \in Process : pc[q] = "write" => pc'[q] = "write"
      BY <2>15 DEF ReadFails, TypeOK
    <3>2. QED
      BY <2>6, <2>15, <3>1 DEF ReadFails
  <2>16. QED
    BY <2>2, <2>3, <2>4, <2>5, <2>7, <2>9, <2>10, <2>11, <2>12, <2>13, <2>14, <2>15
       DEF Next, FileStep, FileStepFails
<1>3. QED
  BY <1>1, <1>2, UndisturbedHolds, PTL DEF Spec
=============================================================================
