\* Two files and two changes of them; file 1 may fail for ever, file 2 may
\* not; a crash, or a local file that fails, anywhere.
CONSTANTS
  Reliable = {2}
  MaxChanges = 2
  MaxTime = 1
  MaxMishaps = 1
SPECIFICATION FairSpec
INVARIANTS
  TypeOK
  NoPartialFile
PROPERTIES
  ValidIsKept
  NewerIsFetched
  ReplacedIsStored
  StoreCatchesUp
