------------------------- MODULE SubscriptionProofs -------------------------
(***************************************************************************)
(* What the abstract promise of Subscription.tla gives each client: its     *)
(* feed is in order and holds one snapshot, whatever the other clients do.  *)
(***************************************************************************)
EXTENDS Subscription, TLAPS

AbsTypeOK ==
  /\ published \in Nat
  /\ status \in [Client -> {"new", "live", "lagging", "gone"}]
  /\ cursor \in [Client -> Nat]
  /\ feed \in [Client -> Seq(Nat)]

\* The cursor of a client still served is at or past all it has received.
CursorLeads ==
  \A c \in Client :
    /\ status[c] = "new" => feed[c] = <<>>
    /\ status[c] \in {"live", "lagging"} =>
         \A i \in 1 .. Len(feed[c]) : feed[c][i] <= cursor[c]

FeedInv == AbsTypeOK /\ CursorLeads /\ FeedsInOrder /\ OneSnapshot

LEMMA AppendFacts ==
  ASSUME NEW q \in Seq(Nat), NEW m \in Nat
  PROVE  /\ Append(q, m) \in Seq(Nat)
         /\ Len(Append(q, m)) = Len(q) + 1 /\ Len(q) \in Nat
         /\ \A i \in 1 .. Len(q) : Append(q, m)[i] = q[i] /\ q[i] \in Nat
         /\ Append(q, m)[Len(q) + 1] = m
  OBVIOUS

LEMMA FeedStep == FeedInv /\ [AbsNext]_absVars => FeedInv'
  <1> SUFFICES ASSUME FeedInv, [AbsNext]_absVars PROVE FeedInv'
    OBVIOUS
  <1> USE DEF FeedInv, AbsTypeOK, Snapshot
  <1>1. CASE AbsPublish
    BY <1>1 DEF AbsPublish, CursorLeads, FeedsInOrder, OneSnapshot
  <1>2. ASSUME NEW c \in Client, AbsJoin(c) PROVE FeedInv'
    BY <1>2 DEF AbsJoin, CursorLeads, FeedsInOrder, OneSnapshot
  <1>3. ASSUME NEW c \in Client, AbsDeliver(c) PROVE FeedInv'
    <2>1. PICK m \in cursor[c] + 1 .. published :
            /\ feed' = [feed EXCEPT ![c] = Append(@, m)]
            /\ cursor' = [cursor EXCEPT ![c] = m]
      BY <1>3 DEF AbsDeliver
    <2>2. /\ status[c] \in {"live", "lagging"}
          /\ UNCHANGED <<published, status>>
      BY <1>3 DEF AbsDeliver
    <2>3. m \in Nat /\ m > cursor[c] /\ m # 0
      BY <2>1
    <2>4. AbsTypeOK'
      BY <2>1, <2>2, <2>3, AppendFacts
    <2>5. \A d \in Client \ {c} : feed'[d] = feed[d] /\ cursor'[d] = cursor[d]
      BY <2>1
    <2>6. /\ feed'[c] = Append(feed[c], m) /\ cursor'[c] = m
          /\ Len(feed'[c]) = Len(feed[c]) + 1 /\ Len(feed[c]) \in Nat
          /\ \A i \in 1 .. Len(feed[c]) : feed'[c][i] = feed[c][i] /\ feed[c][i] \in Nat
          /\ feed'[c][Len(feed[c]) + 1] = m
      BY <2>1, <2>3, AppendFacts
    <2>7. \A i \in 1 .. Len(feed[c]) : feed[c][i] <= cursor[c]
      BY <2>2 DEF CursorLeads
    <2>8. CursorLeads'
      <3>1. \A i \in 1 .. Len(feed'[c]) : feed'[c][i] <= m
        BY <2>3, <2>6, <2>7
      <3> QED
        BY <2>2, <2>5, <2>6, <3>1 DEF CursorLeads
    <2>9. FeedsInOrder'
      <3>1. ASSUME NEW i \in 1 .. Len(feed'[c]), NEW j \in 1 .. Len(feed'[c]),
                   i < j, feed'[c][i] # 0, feed'[c][j] # 0
            PROVE  feed'[c][i] < feed'[c][j]
        <4>1. i \in 1 .. Len(feed[c])
          BY <2>6, <3>1
        <4>2. CASE j \in 1 .. Len(feed[c])
          BY <2>6, <3>1, <4>1, <4>2 DEF FeedsInOrder
        <4>3. CASE j = Len(feed[c]) + 1
          BY <2>3, <2>6, <2>7, <4>1, <4>3
        <4> QED
          BY <2>6, <4>2, <4>3
      <3> QED
        BY <2>5, <3>1 DEF FeedsInOrder
    <2>10. OneSnapshot'
      <3>1. ASSUME NEW i \in 1 .. Len(feed'[c]), NEW j \in 1 .. Len(feed'[c]),
                   feed'[c][i] = 0, feed'[c][j] = 0
            PROVE  i = j
        <4>1. i \in 1 .. Len(feed[c]) /\ j \in 1 .. Len(feed[c])
          BY <2>3, <2>6, <3>1
        <4> QED
          BY <2>6, <3>1, <4>1 DEF OneSnapshot
      <3>2. ASSUME NEW d \in Client, d # c
            PROVE  \A i, j \in 1 .. Len(feed'[d]) :
                     feed'[d][i] = 0 /\ feed'[d][j] = 0 => i = j
        BY <2>5, <3>2 DEF OneSnapshot
      <3> QED
        BY <3>1, <3>2 DEF OneSnapshot
    <2> QED
      BY <2>4, <2>8, <2>9, <2>10
  <1>4. ASSUME NEW c \in Client, AbsSnapshot(c) PROVE FeedInv'
    <2>1. /\ feed' = [feed EXCEPT ![c] = Append(@, 0)]
          /\ status[c] \in {"live", "lagging"}
          /\ \A i \in 1 .. Len(feed[c]) : feed[c][i] # 0
          /\ UNCHANGED <<published, status, cursor>>
      BY <1>4 DEF AbsSnapshot
    <2>2. AbsTypeOK'
      BY <2>1, AppendFacts
    <2>3. \A d \in Client \ {c} : feed'[d] = feed[d]
      BY <2>1
    <2>4. /\ Len(feed'[c]) = Len(feed[c]) + 1 /\ Len(feed[c]) \in Nat
          /\ \A i \in 1 .. Len(feed[c]) : feed'[c][i] = feed[c][i]
          /\ feed'[c][Len(feed[c]) + 1] = 0
      BY <2>1, AppendFacts
    <2>5. CursorLeads'
      BY <2>1, <2>3, <2>4 DEF CursorLeads
    <2>6. FeedsInOrder'
      <3>1. ASSUME NEW i \in 1 .. Len(feed'[c]), NEW j \in 1 .. Len(feed'[c]),
                   i < j, feed'[c][i] # 0, feed'[c][j] # 0
            PROVE  feed'[c][i] < feed'[c][j]
        <4>1. i \in 1 .. Len(feed[c]) /\ j \in 1 .. Len(feed[c])
          BY <2>4, <3>1
        <4> QED
          BY <2>4, <3>1, <4>1 DEF FeedsInOrder
      <3> QED
        BY <2>3, <3>1 DEF FeedsInOrder
    <2>7. OneSnapshot'
      BY <2>1, <2>3, <2>4 DEF OneSnapshot
    <2> QED
      BY <2>2, <2>5, <2>6, <2>7
  <1>5. ASSUME NEW c \in Client, AbsLag(c) PROVE FeedInv'
    BY <1>5 DEF AbsLag, CursorLeads, FeedsInOrder, OneSnapshot
  <1>6. ASSUME NEW c \in Client, AbsLeave(c) PROVE FeedInv'
    BY <1>6 DEF AbsLeave, CursorLeads, FeedsInOrder, OneSnapshot
  <1>7. CASE UNCHANGED absVars
    BY <1>7 DEF absVars, CursorLeads, FeedsInOrder, OneSnapshot
  <1> QED
    BY <1>1, <1>2, <1>3, <1>4, <1>5, <1>6, <1>7 DEF AbsNext

\* Whoever implements Subscription delivers in order and one snapshot.
THEOREM FeedsAreSound == AbsSpec => [](FeedsInOrder /\ OneSnapshot)
  <1>1. AbsInit => FeedInv
    BY DEF AbsInit, FeedInv, AbsTypeOK, CursorLeads, FeedsInOrder, OneSnapshot
  <1>2. FeedInv => FeedsInOrder /\ OneSnapshot
    BY DEF FeedInv
  <1> QED
    BY <1>1, <1>2, FeedStep, PTL DEF AbsSpec
=============================================================================
