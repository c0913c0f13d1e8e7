--------------------------- MODULE SftpSyncProofs ----------------------------
(***************************************************************************)
(* Theorems about the lines of the downloaded files, for files of any         *)
(* length, and about the download rounds, for any number of changes,           *)
(* mishaps and seconds.                                                     *)
(***************************************************************************)
EXTENDS SftpSync, TLAPS

\* exrate.txt: a file whose last line yields a positive rate is accepted; the
\* validator never withholds a rate the dashboard could show.
THEOREM PositiveIsAccepted ==
  ASSUME NEW lines \in Seq(ExrateLine), GetLatestUSDRate(lines) = "positive"
  PROVE  validateExrateData(lines)
  <1>1. lines # <<>> /\ lines[Len(lines)].rates = "positive"
    BY DEF GetLatestUSDRate
  <1>2. Len(lines) \in DOMAIN lines
    BY <1>1
  <1> QED
    BY <1>1, <1>2 DEF validateExrateData

\* exrate.txt: put behind the lines of any accepted file, a line of zero rates
\* leaves it accepted and makes the rate zero, and one that is no rate leaves
\* it accepted and without a rate (validator.go:113, exrate.go:29-34).
THEOREM AcceptedIsNotParsed ==
  ASSUME NEW lines \in Seq(ExrateLine), validateExrateData(lines),
         NEW last \in ExrateLine
  PROVE  /\ validateExrateData(Append(lines, last))
         /\ last.stamp => GetLatestUSDRate(Append(lines, last)) = last.rates
         /\ ~last.stamp => GetLatestUSDRate(Append(lines, last)) = "none"
  <1> DEFINE longer == Append(lines, last)
  <1>1. longer \in Seq(ExrateLine) /\ Len(longer) = Len(lines) + 1
    OBVIOUS
  <1>2. longer # <<>> /\ longer[Len(longer)] = last
    BY <1>1
  <1>3. validateExrateData(longer)
    <2>1. PICK i \in DOMAIN lines : lines[i].rates = "positive"
      BY DEF validateExrateData
    <2>2. i \in DOMAIN longer /\ longer[i] = lines[i]
      BY <2>1, <1>1
    <2> QED
      BY <2>1, <2>2 DEF validateExrateData
  <1>4. /\ last.stamp => GetLatestUSDRate(longer) = last.rates
        /\ ~last.stamp => GetLatestUSDRate(longer) = "none"
    BY <1>2 DEF GetLatestUSDRate
  <1> QED
    BY <1>3, <1>4

\* market_retail.txt: what the validator accepts always has the spot price the
\* parser asks for; only a product's price can still be missing.
THEOREM AcceptedHasSpot ==
  ASSUME NEW lines \in Seq(MarketLine), validateMarketRetailData(lines),
         ~ParseMarketData(lines)
  PROVE  \E p \in Product :
           \A i \in DOMAIN lines : ~(lines[i].product = p /\ lines[i].price)
  BY DEF validateMarketRetailData, ParseMarketData

-----------------------------------------------------------------------------
\* Of the types, what most steps need.
Content == [ver : Int, valid : BOOLEAN, parses : BOOLEAN, size : Int,
            mtime : Int]

Typed ==
  /\ now \in Nat /\ mishaps \in Nat
  /\ file \in File
  /\ remote \in [File -> Content] /\ local \in [File -> Content]
  /\ temp \in [File -> Content] /\ opened \in Content
  /\ stored \in Int

\* A file that is being copied exists, and existed when it was opened.
Copying ==
  /\ Changes <= MaxChanges
  /\ pc = "copy" => opened \in Remote /\ remote[file] \in Remote

\* A version of the server is no part, and a part is not what is validated.
NoPart ==
  /\ \A f \in File : remote[f].ver >= 0
  /\ opened.ver >= 0
  /\ pc = "validate" => temp[file].ver # Part
  /\ NoPartialFile

\* A round ends in its parsers or in the report of an error, and does not
\* begin with something updated.
Ending == pc = "idle" => ~updated

SyncInv == TypeOK /\ Copying /\ NoPart /\ Ending

LEMMA TypesAreIntegers == TypeOK => Typed
  <1> SUFFICES ASSUME TypeOK PROVE Typed
    OBVIOUS
  <1>1. Remote \cup {NoFile} \subseteq Content /\ Copy \cup {NoFile} \subseteq Content
    <2>1. /\ Version \subseteq Int /\ Version \cup {Mix, Part} \subseteq Int
          /\ Size \subseteq Int /\ Time \subseteq Int
      BY SftpSyncAssumption DEF Version, Size, Time, Mix, Part
    <2>2. NoFile \in Content
      BY DEF NoFile, Content
    <2> QED
      BY <2>1, <2>2 DEF Remote, Copy, Content
  <1>2. Version \cup {0, Mix, Empty} \subseteq Int
    BY SftpSyncAssumption DEF Version, Mix, Empty
  <1>3. now \in Nat /\ mishaps \in Nat
    BY SftpSyncAssumption DEF TypeOK, Time
  <1> QED
    BY <1>1, <1>2, <1>3 DEF TypeOK, Typed

LEMMA SyncInit == Init => SyncInv
  <1> SUFFICES ASSUME Init PROVE SyncInv
    OBVIOUS
  <1>1. NoFile.ver = 0
    BY DEF NoFile
  <1>2. 1 \in File /\ 0 \in Time /\ 0 \in 0 .. MaxMishaps
    BY SftpSyncAssumption DEF File, Time
  <1>3. TypeOK
    BY <1>2 DEF Init, TypeOK
  <1>4. NoPart
    BY <1>1 DEF Init, NoPart, NoPartialFile, Part
  <1>5. Ending
    BY DEF Init, Ending
  <1>6. Copying
    BY <1>1, SftpSyncAssumption DEF Init, Copying, Changes, File
  <1> QED
    BY <1>3, <1>4, <1>5, <1>6 DEF SyncInv

LEMMA OutcomesTyped ==
  ASSUME NEW f \in File, NEW o \in Outcomes(f)
  PROVE  o.valid \in BOOLEAN /\ o.parses \in BOOLEAN
  <1>1. CASE f = 1
    <2>1. PICK x \in ExrateOutcomes : o = [valid |-> x.valid, parses |-> FALSE]
      BY <1>1 DEF Outcomes
    <2>2. x.valid \in BOOLEAN
      BY DEF ExrateOutcomes, Outcome
    <2> QED
      BY <2>1, <2>2
  <1>2. CASE f # 1
    <2>1. PICK x \in MarketOutcomes :
            o = [valid |-> x.valid, parses |-> x.valid /\ x.parses]
      BY <1>2 DEF Outcomes
    <2>2. x.valid \in BOOLEAN /\ x.parses \in BOOLEAN
      BY DEF MarketOutcomes, Outcome
    <2> QED
      BY <2>1, <2>2
  <1> QED
    BY <1>1, <1>2

\* What a transfer that reached its end can have brought.
LEMMA DownloadedIsNoPart ==
  ASSUME Typed, NoPart, NEW c \in Downloaded
  PROVE  c \in Content /\ c.ver # Part
  <1>1. \A o \in Outcomes(file) : o.valid \in BOOLEAN /\ o.parses \in BOOLEAN
    BY OutcomesTyped DEF Typed
  <1>2. remote[file] \in Content /\ remote[file].ver >= 0
        /\ opened \in Content /\ opened.ver >= 0
    BY DEF Typed, NoPart
  <1>3. CASE c = [opened EXCEPT !.mtime = now]
    BY <1>2, <1>3 DEF Content, Part, Typed
  <1>4. CASE c = [remote[file] EXCEPT !.mtime = now]
    BY <1>2, <1>4 DEF Content, Part, Typed
  <1>5. CASE \E o \in Outcomes(file), s \in Size :
               c = [ver |-> Mix, valid |-> o.valid, parses |-> o.parses,
                    size |-> s, mtime |-> now]
    BY <1>1, <1>5 DEF Content, Part, Mix, Size, Typed
  <1> QED
    BY <1>3, <1>4, <1>5 DEF Downloaded

\* The loop over the files stays within them.
LEMMA NextFileTyped ==
  ASSUME Typed, NextFile
  PROVE  file' \in File /\ opened' = NoFile /\ pc' \in {"check", "report"}
  BY SftpSyncAssumption DEF Typed, NextFile, File

\* What it brings is a copy, of a file that exists.
LEMMA DownloadedIsCopy ==
  ASSUME TypeOK, Copying, pc = "copy", NEW c \in Downloaded
  PROVE  c \in Copy
  <1>1. \A o \in Outcomes(file) : o.valid \in BOOLEAN /\ o.parses \in BOOLEAN
    BY OutcomesTyped DEF TypeOK
  <1>2. opened \in Remote /\ remote[file] \in Remote /\ now \in Time
    BY DEF Copying, TypeOK
  <1>3. \A r \in Remote : [r EXCEPT !.mtime = now] \in Copy
    BY <1>2 DEF Remote, Copy
  <1>4. CASE \E o \in Outcomes(file), s \in Size :
               c = [ver |-> Mix, valid |-> o.valid, parses |-> o.parses,
                    size |-> s, mtime |-> now]
    BY <1>1, <1>2, <1>4 DEF Copy
  <1> QED
    BY <1>2, <1>3, <1>4 DEF Downloaded

\* One change more, of a file that has room for it.
LEMMA RemoteChanged ==
  ASSUME TypeOK, Copying, NEW f \in File, RemoteChange(f)
  PROVE  /\ remote' \in [File -> Remote \cup {NoFile}] /\ remote'[f] \in Remote
         /\ \A g \in File \ {f} : remote'[g] = remote[g]
         /\ Changes' <= MaxChanges
  <1>1. PICK o \in Outcomes(f), s \in Size :
          remote' = [remote EXCEPT ![f] =
            [ver |-> @.ver + 1, valid |-> o.valid, parses |-> o.parses,
             size |-> s, mtime |-> now]]
    BY DEF RemoteChange
  <1>2. o.valid \in BOOLEAN /\ o.parses \in BOOLEAN
    BY OutcomesTyped
  <1>3. \A g \in File : remote[g].ver \in Nat
    BY DEF TypeOK, Remote, NoFile, Version
  <1>4. Changes < MaxChanges
    BY DEF RemoteChange
  <1>5. remote[f].ver + 1 \in Version
    <2>1. 1 \in File /\ 2 \in File /\ f \in {1, 2}
      BY DEF File
    <2>2. remote[1].ver + remote[2].ver < MaxChanges
      BY <1>4 DEF Changes
    <2> QED
      BY <1>3, <2>1, <2>2, SftpSyncAssumption DEF Version
  <1> DEFINE r == [ver |-> remote[f].ver + 1, valid |-> o.valid,
                   parses |-> o.parses, size |-> s, mtime |-> now]
  <1>6. r \in Remote
    BY <1>2, <1>5 DEF TypeOK, Remote
  <1>7. remote'[f] = r /\ \A g \in File \ {f} : remote'[g] = remote[g]
    BY <1>1 DEF TypeOK
  <1>8. remote'[f].ver = remote[f].ver + 1
    BY <1>7
  <1>9. Changes' <= MaxChanges
    <2>1. 1 \in File /\ 2 \in File /\ f \in {1, 2}
      BY DEF File
    <2>2. remote[1].ver + remote[2].ver < MaxChanges
      BY <1>4 DEF Changes
    <2>3. remote'[1].ver + remote'[2].ver = remote[1].ver + remote[2].ver + 1
      BY <1>3, <1>7, <1>8, <2>1
    <2> QED
      BY <1>3, <2>1, <2>2, <2>3, SftpSyncAssumption DEF Changes
  <1> QED
    BY <1>1, <1>6, <1>7, <1>9 DEF TypeOK

LEMMA TypedStep ==
  ASSUME TypeOK, Copying, NoPart, [Next]_vars
  PROVE  TypeOK' /\ Copying'
  <1>0. Typed
    BY TypesAreIntegers
  <1>1. Partial \in Copy /\ 0 \in Time
    BY SftpSyncAssumption DEF Partial, Copy, Size, Time
  <1>2. 1 \in File
    BY SftpSyncAssumption DEF File
  <1> USE DEF TypeOK, Copying, Changes
  <1>3. CASE Elapse
    <2>1. now + 1 \in Time
      BY <1>3, SftpSyncAssumption DEF Elapse, Time
    <2> QED
      BY <1>3, <2>1 DEF Elapse, roundVars
  <1>4. ASSUME NEW f \in File, RemoteChange(f) PROVE TypeOK' /\ Copying'
    BY <1>4, RemoteChanged DEF RemoteChange, roundVars
  <1>5. CASE Connect
    BY <1>5, <1>2 DEF Connect
  <1>6. CASE Skip \/ OpenFails \/ CopyFails
    BY <1>0, <1>6, NextFileTyped DEF Skip, OpenFails, CopyFails, Failed, Unfailed
  <1>7. CASE Open
    BY <1>7, <1>1 DEF Open
  <1>8. ASSUME NEW f \in File, CopyEnds(f) PROVE TypeOK' /\ Copying'
    <2>1. PICK c \in Downloaded : temp' = [temp EXCEPT ![f] = c]
      BY <1>8 DEF CopyEnds
    <2>2. c \in Copy
      BY <1>8, DownloadedIsCopy DEF CopyEnds
    <2> QED
      BY <1>8, <2>1, <2>2 DEF CopyEnds
  <1>9. ASSUME NEW f \in File, Replace(f) PROVE TypeOK' /\ Copying'
    BY <1>0, <1>9, NextFileTyped DEF Replace, Unfailed
  <1>10. CASE RenameFails \/ KeepExisting \/ ValidateFails
    BY <1>0, <1>10, NextFileTyped
    DEF RenameFails, KeepExisting, ValidateFails, Failed, Unfailed
  <1>11. CASE Report
    BY <1>11, <1>2 DEF Report
  <1>12. CASE ParseFails
    BY <1>12 DEF ParseFails, EndRound
  <1>13. CASE Parse \/ UpdateUSDRateFromExrate
    BY <1>13 DEF Parse, UpdateUSDRateFromExrate
  <1>m. Mishap => mishaps' \in 0 .. MaxMishaps
    BY SftpSyncAssumption DEF Mishap
  <1>14. CASE Write
    <2>1. local[2].ver \in Version \cup {0, Mix}
      BY DEF Copy, NoFile, NoPart, NoPartialFile, File
    <2> QED
      BY <1>14, <2>1 DEF Write, EndRound
  <1>f. CASE ReadFails \/ WriteFails
    BY <1>f, <1>m DEF ReadFails, WriteFails, EndRound
  <1>15. CASE Crash
    BY <1>15, <1>2, <1>m DEF Crash
  <1>16. CASE UNCHANGED vars \/ ConnectFails
    BY <1>16 DEF vars, roundVars, ConnectFails
  <1> QED
    BY <1>3, <1>4, <1>5, <1>6, <1>7, <1>8, <1>9, <1>10, <1>11, <1>12, <1>13,
       <1>14, <1>f, <1>15, <1>16 DEF Next, FileStep

\* Only a transfer that reached its end is validated, and only what was
\* validated is renamed.
LEMMA NoPartStep ==
  ASSUME Typed, NoPart, [Next]_vars
  PROVE  NoPart'
  <1>1. NoFile.ver = 0
    BY DEF NoFile
  <1> USE DEF NoPart, NoPartialFile
  <1>2. CASE \/ Elapse \/ Report \/ UpdateUSDRateFromExrate
             \/ ParseFails \/ ReadFails \/ Parse \/ Write \/ WriteFails
    BY <1>2
    DEF Elapse, Report, UpdateUSDRateFromExrate, ParseFails, ReadFails, Parse,
        Write, WriteFails, EndRound, roundVars
  <1>3. ASSUME NEW f \in File, RemoteChange(f) PROVE NoPart'
    <2>1. PICK o \in Outcomes(f), s \in Size :
            remote' = [remote EXCEPT ![f] =
              [ver |-> @.ver + 1, valid |-> o.valid, parses |-> o.parses,
               size |-> s, mtime |-> now]]
      BY <1>3 DEF RemoteChange
    <2>2. remote[f].ver \in Int
      BY DEF Typed, Content
    <2>3. \A g \in File : remote'[g].ver >= 0
      BY <2>1, <2>2 DEF Typed
    <2> QED
      BY <1>3, <2>3 DEF RemoteChange, roundVars
  <1>4. CASE Connect \/ Crash
    BY <1>4, <1>1 DEF Connect, Crash
  <1>5. CASE Skip \/ OpenFails \/ CopyFails
    BY <1>5, <1>1, NextFileTyped DEF Skip, OpenFails, CopyFails, Failed, Unfailed
  <1>6. CASE Open
    BY <1>6 DEF Open, Typed
  <1>7. ASSUME NEW f \in File, CopyEnds(f) PROVE NoPart'
    <2>1. PICK c \in Downloaded : temp' = [temp EXCEPT ![f] = c]
      BY <1>7 DEF CopyEnds
    <2>2. c.ver # Part
      BY DownloadedIsNoPart
    <2> QED
      BY <1>7, <2>1, <2>2 DEF CopyEnds, Typed
  <1>8. ASSUME NEW f \in File, Replace(f) PROVE NoPart'
    BY <1>8, <1>1, NextFileTyped DEF Replace, Unfailed, Typed
  <1>9. CASE RenameFails \/ KeepExisting \/ ValidateFails
    BY <1>9, <1>1, NextFileTyped
    DEF RenameFails, KeepExisting, ValidateFails, Failed, Unfailed
  <1>10. CASE UNCHANGED vars \/ ConnectFails
    BY <1>10 DEF vars, roundVars, ConnectFails
  <1> QED
    BY <1>2, <1>3, <1>4, <1>5, <1>6, <1>7, <1>8, <1>9, <1>10 DEF Next, FileStep

LEMMA EndingStep ==
  ASSUME Typed, Ending, [Next]_vars
  PROVE  Ending'
  <1> USE DEF Ending
  <1>1. CASE Elapse \/ Connect \/ Open \/ Report \/ UpdateUSDRateFromExrate
    BY <1>1 DEF Elapse, Connect, Open, Report, UpdateUSDRateFromExrate, roundVars
  <1>2. ASSUME NEW f \in File, RemoteChange(f) PROVE Ending'
    BY <1>2 DEF RemoteChange, roundVars
  <1>3. CASE \/ Skip \/ OpenFails \/ CopyFails
             \/ RenameFails \/ KeepExisting \/ ValidateFails
    BY <1>3, NextFileTyped
    DEF Skip, OpenFails, CopyFails, RenameFails, KeepExisting, ValidateFails,
        Failed, Unfailed
  <1>4. ASSUME NEW f \in File, FileStep(f) PROVE Ending'
    BY <1>4, NextFileTyped DEF FileStep, CopyEnds, Replace, Unfailed
  <1>5. CASE ParseFails \/ ReadFails \/ Parse \/ Write \/ WriteFails \/ Crash
    BY <1>5 DEF ParseFails, ReadFails, Parse, Write, WriteFails, Crash, EndRound
  <1>6. CASE UNCHANGED vars \/ ConnectFails
    BY <1>6 DEF vars, roundVars, ConnectFails
  <1> QED
    BY <1>1, <1>2, <1>3, <1>4, <1>5, <1>6 DEF Next

LEMMA SyncInvariant == Spec => []SyncInv
  <1>1. SyncInv /\ [Next]_vars => SyncInv'
    BY TypesAreIntegers, TypedStep, NoPartStep, EndingStep DEF SyncInv
  <1> QED
    BY <1>1, SyncInit, PTL DEF Spec

-----------------------------------------------------------------------------
\* The values of every variable: the loop over the files stays within them,
\* and only what was made from a whole file is stored.
THEOREM SyncTyped == Spec => []TypeOK
  <1>1. SyncInv => TypeOK
    BY DEF SyncInv
  <1> QED
    BY <1>1, SyncInvariant, PTL

\* However files change, transfers break off and the process dies: no part of
\* a file ever takes its place.
THEOREM PartNeverReplaces == Spec => []NoPartialFile
  <1>1. SyncInv => NoPartialFile
    BY DEF SyncInv, NoPart
  <1> QED
    BY <1>1, SyncInvariant, PTL

\* A valid file at the local path is only ever replaced by another valid one.
THEOREM ValidStaysValid == Spec => ValidIsKept
  <1>1. SyncInv /\ [Next]_vars
          => [\A f \in File : local[f].valid => local'[f].valid]_vars
    <2> SUFFICES ASSUME SyncInv, Next, NEW f \in File, local[f].valid
                 PROVE  local'[f].valid
      BY DEF vars
    <2>1. CASE UNCHANGED local
      BY <2>1
    <2>2. ASSUME NEW g \in File, Replace(g) PROVE local'[f].valid
      BY <2>2 DEF Replace, SyncInv, TypeOK
    <2> QED
      BY <2>1, <2>2 DEF Next, FileStep, Elapse, RemoteChange, Connect,
         ConnectFails, Skip, Open, OpenFails, CopyEnds, CopyFails, RenameFails,
         KeepExisting, ValidateFails, Report, UpdateUSDRateFromExrate,
         ParseFails, ReadFails, Parse, Write, WriteFails, EndRound, Crash, vars
  <1> QED
    BY <1>1, SyncInvariant, PTL DEF Spec, ValidIsKept

\* Whatever failed in it before: a round that gets to its parsers leaves
\* market_data.json made from what is at the local path, if that parses, unless
\* the process dies in it or cannot read or write the files; so what a crash or
\* a failed write has left is made good by the next such round, although that
\* round may replace nothing.
Parsing == pc \in {"usd", "market", "write"}

THEOREM EndedRoundsStore ==
  Spec => [][Parsing /\ pc' = "idle" /\ mishaps' = mishaps => Settled]_vars
  <1>1. SyncInv /\ [Next]_vars
          => [Parsing /\ pc' = "idle" /\ mishaps' = mishaps => Settled]_vars
    <2> SUFFICES ASSUME SyncInv, Next, Parsing, pc' = "idle",
                        mishaps' = mishaps, local[2].parses
                 PROVE  stored' = local[2].ver
      BY DEF Settled
    <2>1. ~Mishap
      BY TypesAreIntegers DEF SyncInv, Typed, Mishap
    <2> QED
      BY <2>1
      DEF Parsing, Next, FileStep, Elapse, RemoteChange, Connect, ConnectFails,
          Skip, Open, OpenFails, CopyEnds, CopyFails, Replace, RenameFails,
          KeepExisting, ValidateFails, Report, UpdateUSDRateFromExrate,
          ParseFails, ReadFails, Parse, Write, WriteFails, Crash, vars, roundVars
  <1> QED
    BY <1>1, SyncInvariant, PTL DEF Spec

\* What a round has replaced, that round stores: it gets to its parsers.
THEOREM RoundsStoreWhatTheyReplace == Spec => ReplacedIsStored
  <1>1. SyncInv /\ [Next]_vars
          => [updated /\ pc' = "idle" /\ mishaps' = mishaps
                => Parsing /\ pc' = "idle" /\ mishaps' = mishaps]_vars
    <2> SUFFICES ASSUME SyncInv, Next, updated, pc' = "idle", mishaps' = mishaps
                 PROVE  Parsing
      OBVIOUS
    <2>0. Typed /\ pc # "idle"
      BY TypesAreIntegers DEF SyncInv, Ending
    <2>1. ~Mishap
      BY <2>0 DEF Typed, Mishap
    <2>2. ASSUME NextFile PROVE FALSE
      BY <2>0, <2>2, NextFileTyped
    <2> QED
      BY <2>0, <2>1, <2>2
      DEF Parsing, Next, FileStep, Elapse, RemoteChange, Connect, ConnectFails,
          Skip, Open, OpenFails, CopyEnds, CopyFails, Replace, RenameFails,
          KeepExisting, ValidateFails, Report, UpdateUSDRateFromExrate,
          ParseFails, ReadFails, Parse, Write, WriteFails, Crash, Failed,
          Unfailed, vars, roundVars
  <1> QED
    BY <1>1, EndedRoundsStore, SyncInvariant, PTL DEF Spec, ReplacedIsStored
=============================================================================
