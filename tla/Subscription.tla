---------------------------- MODULE Subscription ----------------------------
(***************************************************************************)
(* What the hub promises the connections of one process, without channels,  *)
(* goroutines or locks.  Messages are numbered in the order in which they   *)
(* are published.  A live subscriber receives every message after the one   *)
(* it joined at, once and in order; one that falls behind may miss          *)
(* messages, but what it still receives comes in order; and each receives   *)
(* at most one snapshot, at any point.  Hub.tla implements this module.     *)
(***************************************************************************)
EXTENDS Integers, Sequences

CONSTANTS
  Client,
  MaxPublished   \* bound of the model: messages ever published

Snapshot == 0

VARIABLES
  published,   \* number of messages published
  status,      \* per client: "new", "live", "lagging" or "gone"
  cursor,      \* per live or lagging client: the last message behind it
  feed         \* per client: what it has received

absVars == <<published, status, cursor, feed>>

AbsInit ==
  /\ published = 0
  /\ status = [c \in Client |-> "new"]
  /\ cursor = [c \in Client |-> 0]
  /\ feed = [c \in Client |-> <<>>]

AbsPublish ==
  /\ published < MaxPublished
  /\ published' = published + 1
  /\ UNCHANGED <<status, cursor, feed>>

AbsJoin(c) ==
  /\ status[c] = "new"
  /\ status' = [status EXCEPT ![c] = "live"]
  /\ \E k \in 0 .. published : cursor' = [cursor EXCEPT ![c] = k]
  /\ UNCHANGED <<published, feed>>

AbsDeliver(c) ==
  /\ status[c] \in {"live", "lagging"}
  /\ \E m \in cursor[c] + 1 .. published :
       /\ status[c] = "live" => m = cursor[c] + 1
       /\ feed' = [feed EXCEPT ![c] = Append(@, m)]
       /\ cursor' = [cursor EXCEPT ![c] = m]
  /\ UNCHANGED <<published, status>>

AbsSnapshot(c) ==
  /\ status[c] \in {"live", "lagging"}
  /\ \A i \in 1 .. Len(feed[c]) : feed[c][i] # Snapshot
  /\ feed' = [feed EXCEPT ![c] = Append(@, Snapshot)]
  /\ UNCHANGED <<published, status, cursor>>

AbsLag(c) ==
  /\ status[c] = "live"
  /\ status' = [status EXCEPT ![c] = "lagging"]
  /\ UNCHANGED <<published, cursor, feed>>

AbsLeave(c) ==
  /\ status[c] # "gone"
  /\ status' = [status EXCEPT ![c] = "gone"]
  /\ cursor' = [cursor EXCEPT ![c] = 0]
  /\ UNCHANGED <<published, feed>>

AbsNext ==
  \/ AbsPublish
  \/ \E c \in Client : \/ AbsJoin(c) \/ AbsDeliver(c) \/ AbsSnapshot(c)
                       \/ AbsLag(c) \/ AbsLeave(c)

AbsSpec == AbsInit /\ [][AbsNext]_absVars

-----------------------------------------------------------------------------
\* A feed never repeats or reorders messages, even once it misses some.
FeedsInOrder ==
  \A c \in Client : \A i, j \in 1 .. Len(feed[c]) :
    i < j /\ feed[c][i] # Snapshot /\ feed[c][j] # Snapshot =>
      feed[c][i] < feed[c][j]

\* A feed holds the snapshot of sendInitialData at most once.
OneSnapshot ==
  \A c \in Client : \A i, j \in 1 .. Len(feed[c]) :
    feed[c][i] = Snapshot /\ feed[c][j] = Snapshot => i = j
=============================================================================
