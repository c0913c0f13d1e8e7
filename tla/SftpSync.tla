------------------------------ MODULE SftpSync -------------------------------
(***************************************************************************)
(* The rounds of the scheduler: Client.DownloadFilesSelective with its      *)
(* shouldDownload, DownloadWithValidation and DownloadFile (sftp/client.go) *)
(* for each of the two files, then, when that is no error, the parsers      *)
(* (Scheduler.performDownload): UpdateUSDRateFromExrate, whose usd_rate.json *)
(* has other writers and is RateStore's matter, and ProcessMarketRetailData, *)
(* the one writer of market_data.json.                                       *)
(*                                                                          *)
(* A content is a version number, one per change of the remote file, whether*)
(* ValidateFileData accepts its lines and, for market_retail.txt, whether   *)
(* the parser understands them (LineFormats).  Part is a download that      *)
(* broke off, Mix one that ran while the remote file was replaced.  Time     *)
(* advances in units of the mtimes of the protocol, seconds.                 *)
(***************************************************************************)
EXTENDS Integers, LineFormats

CONSTANTS
  Reliable,    \* the files whose transfers do not fail for ever
  MaxChanges,  \* bound of the model: changes of the remote files
  MaxTime,     \* bound of the model: seconds
  MaxMishaps   \* bound of the model: deaths of the process, and reads and
               \* writes of local files that fail after a download

File    == 1 .. 2       \* exrate.txt and market_retail.txt

ASSUME SftpSyncAssumption ==
  /\ MaxChanges \in Nat /\ MaxTime \in Nat /\ MaxMishaps \in Nat
  /\ Reliable \subseteq File

Part    == -2
Mix     == -1
NoFile  == [ver |-> 0, valid |-> FALSE, parses |-> FALSE, size |-> 0,
            mtime |-> 0]
Empty   == -3           \* a JSON file that is truncated
Version == 1 .. MaxChanges
Size    == 1 .. 2       \* all that is compared is whether two sizes differ
Time    == 0 .. MaxTime

Remote == [ver : Version, valid : BOOLEAN, parses : BOOLEAN, size : Size,
           mtime : Time]
Copy   == [ver : Version \cup {Mix, Part}, valid : BOOLEAN, parses : BOOLEAN,
           size : Size, mtime : Time]

\* A part that the validator and the parser would both take.
Partial == [ver |-> Part, valid |-> TRUE, parses |-> TRUE, size |-> 1,
            mtime |-> 0]

\* What validator and parser make of the lines a file can hold.  A file that
\* is not valid reaches no parser: whether it would parse is left out.
Outcomes(f) ==
  IF f = 1 THEN {[valid |-> o.valid, parses |-> FALSE] : o \in ExrateOutcomes}
  ELSE {[valid |-> o.valid, parses |-> o.valid /\ o.parses] :
          o \in MarketOutcomes}

VARIABLES
  now,      \* the clock, which client and server share
  remote,   \* per file: what the server holds
  local,    \* per file: what is at localPath
  temp,     \* per file: what is at localPath.tmp
  stored,   \* the version of file 2 that market_data.json was made from
  pc,       \* where the scheduler goroutine is
  file,     \* the file it is at
  opened,   \* what the remote file was when it was opened
  updated,  \* downloadCount
  hadError, \* hadError
  mishaps   \* times the process has died, or a local file has failed it

roundVars == <<pc, file, opened, updated, hadError>>
vars == <<now, remote, local, temp, stored, roundVars, mishaps>>

Init ==
  /\ now = 0
  /\ remote = [f \in File |-> NoFile]
  /\ local = [f \in File |-> NoFile]
  /\ temp = [f \in File |-> NoFile]
  /\ stored = 0
  /\ pc = "idle" /\ file = 1 /\ opened = NoFile
  /\ updated = FALSE /\ hadError = FALSE
  /\ mishaps = 0

(***************************************************************************)
(* The clock and the server.                                                *)
(***************************************************************************)
Elapse ==
  /\ now < MaxTime
  /\ now' = now + 1
  /\ UNCHANGED <<remote, local, temp, stored, roundVars, mishaps>>

\* How often the files of the server have changed: the bound of the model.
Changes == remote[1].ver + remote[2].ver

\* The server's file appears or is replaced by another content.
RemoteChange(f) ==
  /\ Changes < MaxChanges
  /\ \E o \in Outcomes(f), s \in Size :
       remote' = [remote EXCEPT ![f] =
         [ver |-> @.ver + 1, valid |-> o.valid, parses |-> o.parses,
          size |-> s, mtime |-> now]]
  /\ UNCHANGED <<now, local, temp, stored, roundVars, mishaps>>

(***************************************************************************)
(* The round.                                                               *)
(***************************************************************************)
\* performDownload goes on only while the market is open; Connect succeeds.
\* What a round says of the source's status is the matter of Feed.
Connect ==
  /\ pc = "idle"
  /\ pc' = "check" /\ file' = 1
  /\ updated' = FALSE /\ hadError' = FALSE /\ opened' = NoFile
  /\ UNCHANGED <<now, remote, local, temp, stored, mishaps>>

ConnectFails == pc = "idle" /\ UNCHANGED vars

\* Variant: the loop runs one file too far.
NextFileAndOne ==
  /\ opened' = NoFile
  /\ IF file <= 2
       THEN pc' = "check" /\ file' = file + 1
       ELSE pc' = "report" /\ UNCHANGED file

\* On to the next file, or to the end of the loop.
NextFile ==
  /\ opened' = NoFile
  /\ IF file < 2
       THEN pc' = "check" /\ file' = file + 1
       ELSE pc' = "report" /\ UNCHANGED file

Failed   == hadError' = TRUE /\ NextFile
Unfailed == UNCHANGED hadError /\ NextFile

\* shouldDownload answers "Remote file unchanged".
Unchanged(f) ==
  /\ local[f].valid
  /\ remote[f].size = local[f].size
  /\ remote[f].mtime <= local[f].mtime

Skip ==
  /\ pc = "check" /\ remote[file] # NoFile
  /\ Unchanged(file)
  /\ Unfailed
  /\ UNCHANGED <<now, remote, local, temp, stored, updated, mishaps>>

\* Otherwise, and even then when the remote Stat has failed, DownloadFile
\* opens the remote file and creates the temporary one over whatever a
\* crash has left.
Open ==
  /\ pc = "check" /\ remote[file] # NoFile
  /\ opened' = remote[file]
  /\ temp' = [temp EXCEPT ![file] = Partial]
  /\ pc' = "copy"
  /\ UNCHANGED <<now, remote, local, stored, file, updated, hadError, mishaps>>

OpenFails ==
  /\ pc = "check"
  /\ Failed
  /\ UNCHANGED <<now, remote, local, temp, stored, updated, mishaps>>

\* io.Copy reaches the end: the content is the remote one, unless that was
\* replaced meanwhile, when it is the old, the new or some of both.
Downloaded ==
  LET ofFile(r) == [r EXCEPT !.mtime = now]
      mixed == {[ver |-> Mix, valid |-> o.valid, parses |-> o.parses,
                 size |-> s, mtime |-> now] : o \in Outcomes(file), s \in Size}
  IN  IF remote[file] = opened THEN {ofFile(opened)}
      ELSE {ofFile(opened), ofFile(remote[file])} \cup mixed

CopyEnds(f) ==
  /\ pc = "copy" /\ file = f
  /\ \E c \in Downloaded : temp' = [temp EXCEPT ![f] = c]
  /\ pc' = "validate"
  /\ UNCHANGED <<now, remote, local, stored, file, opened, updated, hadError,
                 mishaps>>

\* Variant: the error of io.Copy is not looked at.
CopyFailsUnnoticed ==
  /\ pc = "copy"
  /\ pc' = "validate"
  /\ UNCHANGED <<now, remote, local, temp, stored, file, opened, updated,
                 hadError, mishaps>>

\* Variant: the first file that fails ends the round.
CopyFailsAndStops ==
  /\ pc = "copy"
  /\ hadError' = TRUE /\ pc' = "report" /\ opened' = NoFile
  /\ UNCHANGED <<now, remote, local, temp, stored, file, updated, mishaps>>

\* The transfer breaks off; the temporary file stays behind.
CopyFails ==
  /\ pc = "copy"
  /\ Failed
  /\ UNCHANGED <<now, remote, local, temp, stored, updated, mishaps>>

\* Variant: a download is kept whether it validates or not.
ReplaceUnvalidated(f) ==
  /\ pc = "validate" /\ file = f
  /\ local' = [local EXCEPT ![f] = temp[f]]
  /\ temp' = [temp EXCEPT ![f] = NoFile]
  /\ updated' = TRUE
  /\ Unfailed
  /\ UNCHANGED <<now, remote, stored, mishaps>>

\* Valid server data: the rename puts it in the place of the local file.
Replace(f) ==
  /\ pc = "validate" /\ file = f /\ temp[f].valid
  /\ local' = [local EXCEPT ![f] = temp[f]]
  /\ temp' = [temp EXCEPT ![f] = NoFile]
  /\ updated' = TRUE
  /\ Unfailed
  /\ UNCHANGED <<now, remote, stored, mishaps>>

RenameFails ==
  /\ pc = "validate" /\ temp[file].valid
  /\ temp' = [temp EXCEPT ![file] = NoFile]
  /\ Failed
  /\ UNCHANGED <<now, remote, local, stored, updated, mishaps>>

\* Invalid server data is removed, and is no error.
KeepExisting ==
  /\ pc = "validate" /\ ~temp[file].valid
  /\ temp' = [temp EXCEPT ![file] = NoFile]
  /\ Unfailed
  /\ UNCHANGED <<now, remote, local, stored, updated, mishaps>>

\* Neither is server data, valid or not, that cannot be read back.
ValidateFails ==
  /\ pc = "validate"
  /\ temp' = [temp EXCEPT ![file] = NoFile]
  /\ Unfailed
  /\ UNCHANGED <<now, remote, local, stored, updated, mishaps>>

\* Variant: the round is an error as soon as some file failed.
ReportAnyError ==
  /\ pc = "report"
  /\ file' = 1
  /\ IF hadError
       THEN pc' = "idle" /\ updated' = FALSE
       ELSE pc' = "usd" /\ UNCHANGED updated
  /\ hadError' = FALSE
  /\ UNCHANGED <<now, remote, local, temp, stored, opened, mishaps>>

\* The round is an error only when it updated nothing and some file failed;
\* otherwise the parsers of both files run, whatever was updated.
Report ==
  /\ pc = "report"
  /\ file' = 1
  /\ pc' = IF ~updated /\ hadError THEN "idle" ELSE "usd"
  /\ hadError' = FALSE
  /\ UNCHANGED <<now, remote, local, temp, stored, opened, updated, mishaps>>

\* What it does to usd_rate.json, and whether it can, is in RateStore; its
\* error is logged.
UpdateUSDRateFromExrate ==
  /\ pc = "usd"
  /\ pc' = "market"
  /\ UNCHANGED <<now, remote, local, temp, stored, file, opened, updated,
                 hadError, mishaps>>

EndRound ==
  /\ pc' = "idle" /\ updated' = FALSE
  /\ UNCHANGED <<now, remote, local, temp, file, opened, hadError>>

Mishap == mishaps < MaxMishaps /\ mishaps' = mishaps + 1

\* Without a file that parses, market_data.json stays as it is.
ParseFails ==
  /\ pc = "market" /\ ~local[2].parses
  /\ EndRound
  /\ UNCHANGED <<stored, mishaps>>

\* So it does when a file cannot be read, or the JSON file not be opened.
ReadFails ==
  /\ pc = "market" /\ Mishap
  /\ EndRound
  /\ UNCHANGED stored

\* Variant: the file is parsed only in a round that updated something.
ParseWhatIsUpdated ==
  /\ pc = "market" /\ local[2].parses
  /\ IF updated
       THEN stored' = Empty /\ pc' = "write" /\ UNCHANGED updated
       ELSE pc' = "idle" /\ UNCHANGED <<stored, updated>>
  /\ UNCHANGED <<now, remote, local, temp, file, opened, hadError, mishaps>>

\* os.WriteFile truncates the JSON file before it writes it.
Parse ==
  /\ pc = "market" /\ local[2].parses
  /\ stored' = Empty
  /\ pc' = "write"
  /\ UNCHANGED <<now, remote, local, temp, file, opened, updated, hadError,
                 mishaps>>

Write ==
  /\ pc = "write"
  /\ stored' = local[2].ver
  /\ EndRound
  /\ UNCHANGED mishaps

\* A full disk, say: the error is logged and the file stays truncated.
WriteFails ==
  /\ pc = "write" /\ Mishap
  /\ EndRound
  /\ UNCHANGED stored

\* The process dies and starts again, with the files as they are.
Crash ==
  /\ Mishap
  /\ pc' = "idle" /\ file' = 1 /\ opened' = NoFile
  /\ updated' = FALSE /\ hadError' = FALSE
  /\ UNCHANGED <<now, remote, local, temp, stored>>

FileStep(f) == CopyEnds(f) \/ Replace(f)

Next ==
  \/ Elapse \/ \E f \in File : RemoteChange(f)
  \/ Connect \/ ConnectFails
  \/ Skip \/ Open \/ OpenFails
  \/ CopyFails \/ RenameFails \/ KeepExisting \/ ValidateFails
  \/ \E f \in File : FileStep(f)
  \/ Report \/ UpdateUSDRateFromExrate
  \/ ParseFails \/ ReadFails \/ Parse \/ Write \/ WriteFails \/ Crash

Spec == Init /\ [][Next]_vars

(***************************************************************************)
(* Fairness: the ticks keep coming while the market is open and a round     *)
(* ends.  The server can be reached again and again, and the transfers of   *)
(* the reliable files do not fail for ever; the others owe nothing.         *)
(***************************************************************************)
RoundStep ==
  Skip \/ Open \/ OpenFails \/ CopyFails \/ RenameFails \/ KeepExisting
  \/ ValidateFails \/ (\E f \in File : FileStep(f)) \/ Report
  \/ UpdateUSDRateFromExrate \/ ParseFails \/ Parse \/ Write

Fetch(f) == file = f /\ ~Unchanged(f) /\ Open

FairSpec ==
  /\ Spec
  /\ SF_vars(Connect) /\ WF_vars(RoundStep)
  /\ \A f \in Reliable :
       SF_vars(Fetch(f)) /\ SF_vars(CopyEnds(f)) /\ SF_vars(Replace(f))

-----------------------------------------------------------------------------
\* The values of every variable: in particular the loop over the files stays
\* within them, whichever of them are skipped or fail.
TypeOK ==
  /\ now \in Time
  /\ remote \in [File -> Remote \cup {NoFile}]
  /\ local \in [File -> Copy \cup {NoFile}]
  /\ temp \in [File -> Copy \cup {NoFile}]
  /\ stored \in Version \cup {0, Mix, Empty}
  /\ pc \in {"idle", "check", "copy", "validate", "report", "usd", "market", "write"}
  /\ file \in File
  /\ opened \in Remote \cup {NoFile}
  /\ updated \in BOOLEAN /\ hadError \in BOOLEAN
  /\ mishaps \in 0 .. MaxMishaps

\* A transfer that broke off never takes the local file's place, however
\* valid its lines look and whatever a crash has left at localPath.tmp
\* (sftp/client.go:91-94, 102-120).
NoPartialFile == \A f \in File : local[f].ver # Part

\* A valid local file is never lost to invalid server data, a failed
\* transfer or a crash (sftp/validator.go:178-199).
ValidIsKept ==
  [][\A f \in File : local[f].valid => local'[f].valid]_vars

\* A reliable file that differs from the local one in a way the client can
\* see, and holds valid data, is fetched: the failures of the other file do
\* not starve it.
Newer(f) ==
  /\ remote[f].valid
  /\ \/ ~local[f].valid
     \/ remote[f].size # local[f].size
     \/ remote[f].mtime > local[f].mtime

NewerIsFetched == \A f \in Reliable : Newer(f) ~> ~Newer(f)

\* A round that has replaced any file leaves market_data.json made from what
\* is now at the local path, if that parses, whatever failed beside it, unless
\* the process dies on the way or cannot read or write the files
\* (sftp/client.go:227-229, scheduler.go:95-105, market.go:142-155).
Settled == local[2].parses => stored' = local[2].ver

ReplacedIsStored ==
  [][updated /\ pc' = "idle" /\ mishaps' = mishaps => Settled]_vars

\* What a crash or a failed write has left truncated, or unparsed beside a
\* newer file, is made good by any round that ends without an error, as long
\* as such rounds come.
StoreCatchesUp ==
  []<>(pc = "market") => []<>(local[2].parses => stored = local[2].ver)
=============================================================================
