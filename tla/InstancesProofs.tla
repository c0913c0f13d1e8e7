-------------------------- MODULE InstancesProofs ---------------------------
(***************************************************************************)
(* Proofs about Instances.tla, for every number of instances and of         *)
(* goroutines, every capacity, and however many messages are prepared.      *)
(***************************************************************************)
EXTENDS Instances, TLAPS, SequenceTheorems, FiniteSetTheorems

(***************************************************************************)
(* Lemmas on queues: what is in them, and how often.                        *)
(***************************************************************************)
Elements(q) == {q[k] : k \in 1 .. Len(q)}

NoRepeat(q) == \A j, k \in 1 .. Len(q) : q[j] = q[k] => j = k

LEMMA ElementsOf ==
  ASSUME NEW S, NEW q \in Seq(S)
  PROVE  /\ Elements(q) \subseteq S
         /\ q = <<>> <=> Elements(q) = {}
         /\ q # <<>> => q[Len(q)] \in Elements(q) /\ Len(q) \in 1 .. Len(q)
         /\ Len(q) \in Nat
  <1>1. Len(q) \in Nat /\ \A k \in 1 .. Len(q) : q[k] \in S
    BY LenProperties, ElementOfSeq
  <1>2. q = <<>> <=> Len(q) = 0
    BY EmptySeq
  <1> QED
    BY <1>1, <1>2 DEF Elements

LEMMA AppendElements ==
  ASSUME NEW S, NEW q \in Seq(S), NEW e \in S
  PROVE  /\ Append(q, e) \in Seq(S)
         /\ Elements(Append(q, e)) = Elements(q) \cup {e}
         /\ NoRepeat(q) /\ e \notin Elements(q) => NoRepeat(Append(q, e))
         /\ Append(q, e) # <<>>
         /\ Append(q, e)[Len(Append(q, e))] = e
         /\ Len(Append(q, e)) = Len(q) + 1
         /\ \A k \in 1 .. Len(q) : Append(q, e)[k] = q[k]
  <1> DEFINE a == Append(q, e)
  <1>1. /\ a \in Seq(S) /\ Len(a) = Len(q) + 1 /\ Len(q) \in Nat
        /\ \A k \in 1 .. Len(q) : a[k] = q[k]
        /\ a[Len(q) + 1] = e
    BY AppendProperties, LenProperties
  <1> HIDE DEF a
  <1>2. Elements(a) = Elements(q) \cup {e}
    BY <1>1 DEF Elements
  <1>3. NoRepeat(q) /\ e \notin Elements(q) => NoRepeat(a)
    BY <1>1 DEF Elements, NoRepeat
  <1>4. a # <<>>
    BY <1>1, EmptySeq
  <1> QED
    BY <1>1, <1>2, <1>3, <1>4 DEF a

LEMMA TailElements ==
  ASSUME NEW S, NEW q \in Seq(S), q # <<>>
  PROVE  /\ Tail(q) \in Seq(S) /\ Head(q) \in S /\ Head(q) \in Elements(q)
         /\ Elements(q) = Elements(Tail(q)) \cup {Head(q)}
         /\ NoRepeat(q) => NoRepeat(Tail(q)) /\ Head(q) \notin Elements(Tail(q))
         /\ Len(Tail(q)) = Len(q) - 1 /\ Len(q) \in Nat \ {0}
         /\ \A k \in 1 .. Len(Tail(q)) : Tail(q)[k] = q[k + 1]
         /\ Head(q) = q[1]
         /\ IF Tail(q) = <<>> THEN Head(q) = q[Len(q)]
            ELSE Tail(q)[Len(Tail(q))] = q[Len(q)]
  <1> DEFINE t == Tail(q)
  <1>1. /\ t \in Seq(S) /\ Head(q) = q[1] /\ Head(q) \in S
        /\ Len(t) = Len(q) - 1 /\ Len(q) \in Nat \ {0}
        /\ \A k \in 1 .. Len(t) : t[k] = q[k + 1]
    BY HeadTailProperties, LenProperties, EmptySeq
  <1>2. t = <<>> <=> Len(t) = 0
    BY <1>1, EmptySeq
  <1> HIDE DEF t
  <1>3. Head(q) \in Elements(q)
    BY <1>1 DEF Elements
  <1>4. Elements(q) = Elements(t) \cup {Head(q)}
    <2>1. ASSUME NEW k \in 1 .. Len(q) PROVE q[k] \in Elements(t) \cup {Head(q)}
      <3>1. CASE k = 1
        BY <1>1, <3>1
      <3>2. CASE k # 1
        <4>1. k - 1 \in 1 .. Len(t) /\ t[k - 1] = q[k]
          BY <1>1, <3>2
        <4> QED
          BY <4>1 DEF Elements
      <3> QED
        BY <3>1, <3>2
    <2>2. Elements(t) \subseteq Elements(q)
      BY <1>1 DEF Elements
    <2> QED
      BY <1>3, <2>1, <2>2 DEF Elements
  <1>5. NoRepeat(q) => NoRepeat(t) /\ Head(q) \notin Elements(t)
    BY <1>1 DEF NoRepeat, Elements
  <1> QED
    BY <1>1, <1>2, <1>3, <1>4, <1>5 DEF t

\* How often n is in q.
Places(q, n) == {k \in 1 .. Len(q) : q[k] = n}
Occ(q, n)    == Cardinality(Places(q, n))

LEMMA PlacesFinite ==
  ASSUME NEW S, NEW q \in Seq(S), NEW n
  PROVE  IsFiniteSet(Places(q, n)) /\ Occ(q, n) \in Nat
  <1>1. Len(q) \in Nat /\ IsFiniteSet(1 .. Len(q))
    BY LenProperties, FS_Interval
  <1>2. Places(q, n) \in SUBSET (1 .. Len(q))
    BY DEF Places
  <1> HIDE DEF Places
  <1>3. IsFiniteSet(Places(q, n))
    BY <1>1, <1>2, FS_Subset
  <1> QED
    BY <1>3, FS_CardinalityType DEF Occ

LEMMA OccNone ==
  ASSUME NEW S, NEW q \in Seq(S), NEW n, n \notin Elements(q)
  PROVE  Occ(q, n) = 0
  <1>1. Places(q, n) = {}
    BY DEF Places, Elements
  <1> QED
    BY <1>1, FS_EmptySet DEF Occ

LEMMA OccAppend ==
  ASSUME NEW S, NEW q \in Seq(S), NEW e \in S, NEW n
  PROVE  Occ(Append(q, e), n) = Occ(q, n) + (IF n = e THEN 1 ELSE 0)
  <1> DEFINE a == Append(q, e)
             l == Len(q) + 1
  <1>1. /\ Len(a) = l /\ Len(q) \in Nat /\ a[l] = e
        /\ \A k \in 1 .. Len(q) : a[k] = q[k]
    BY AppendProperties, LenProperties
  <1> HIDE DEF a
  <1>2. l \notin Places(q, n)
    BY <1>1 DEF Places
  <1>3. Places(a, n) = IF n = e THEN Places(q, n) \cup {l} ELSE Places(q, n)
    <2>1. 1 .. Len(a) = 1 .. Len(q) \cup {l}
      BY <1>1
    <2> QED
      BY <1>1, <2>1 DEF Places
  <1>4. IsFiniteSet(Places(q, n)) /\ Occ(q, n) \in Nat
    BY PlacesFinite
  <1>5. Cardinality(Places(q, n) \cup {l}) = Cardinality(Places(q, n)) + 1
    BY <1>2, <1>4, FS_AddElement
  <1> QED
    BY <1>3, <1>4, <1>5 DEF Occ, a

LEMMA OccTail ==
  ASSUME NEW S, NEW q \in Seq(S), q # <<>>, NEW n
  PROVE  Occ(q, n) = Occ(Tail(q), n) + (IF n = Head(q) THEN 1 ELSE 0)
  <1> DEFINE t == Tail(q)
             P == Places(q, n) \ {1}
             shift == [k \in Places(t, n) |-> k + 1]
  <1>1. /\ t \in Seq(S) /\ Head(q) = q[1]
        /\ Len(t) = Len(q) - 1 /\ Len(q) \in Nat \ {0}
        /\ \A k \in 1 .. Len(t) : t[k] = q[k + 1]
    BY HeadTailProperties, LenProperties, EmptySeq
  <1> HIDE DEF t
  <1>2. shift \in Bijection(Places(t, n), P)
    <2>1. \A k \in Places(t, n) : k \in Nat /\ k + 1 \in P
      BY <1>1 DEF Places
    <2>2. \A k \in P : k - 1 \in Places(t, n) /\ shift[k - 1] = k
      BY <1>1 DEF Places
    <2>3. shift \in [Places(t, n) -> P]
      BY <2>1
    <2>4. \A j, k \in Places(t, n) : shift[j] = shift[k] => j = k
      BY <2>1
    <2> HIDE DEF shift
    <2> QED
      BY <2>2, <2>3, <2>4 DEF Bijection, Injection, IsInjective, Surjection
  <1>3. IsFiniteSet(Places(t, n)) /\ IsFiniteSet(Places(q, n))
    BY <1>1, PlacesFinite
  <1>4. Cardinality(P) = Cardinality(Places(t, n))
    BY <1>2, <1>3, FS_Bijection DEF ExistsBijection
  <1>5. Cardinality(P) = IF 1 \in Places(q, n) THEN Cardinality(Places(q, n)) - 1
                         ELSE Cardinality(Places(q, n))
    BY <1>3, FS_RemoveElement
  <1>6. 1 \in Places(q, n) <=> n = Head(q)
    BY <1>1 DEF Places
  <1>7. Occ(q, n) \in Nat /\ Occ(t, n) \in Nat
    BY <1>1, PlacesFinite
  <1> QED
    BY <1>4, <1>5, <1>6, <1>7 DEF Occ, t

-----------------------------------------------------------------------------
(***************************************************************************)
(* The inductive invariant.                                                 *)
(***************************************************************************)
\* A goroutine carries a message of its own instance, for its channel; a queue
\* holds messages of its instance, an inbox those of its channel, and only
\* linked instances send commands or receive.
Addressed ==
  /\ \A b \in Caster :
       Busy(b) => log[held[b]] = [from |-> Home(b), channel |-> on[b]]
  /\ \A i \in Instance : \A n \in Elements(queue[i]) : log[n].from = i
  /\ \A n \in DOMAIN log : stray[n] > 0 => log[n].from \in linked
  /\ \A i \in Instance, ch \in Channel : \A n \in Elements(inbox[i][ch]) :
       i \in linked /\ log[n].from \in linked /\ log[n].channel = ch

\* One goroutine carries a message, hands it to Run once and publishes it
\* thereafter.
Single ==
  /\ \A b, o \in Caster : Busy(b) /\ Busy(o) /\ held[b] = held[o] => b = o
  /\ \A b \in Caster : at[b] = "enqueue" =>
       held[b] \notin Elements(queue[Home(b)]) /\ sent[held[b]] = 0
  /\ \A i \in Instance : NoRepeat(queue[i])

One(P) == IF P THEN 1 ELSE 0

Paired(i, n) == {log[n].from, i} \subseteq linked

\* Run, or a goroutine of this process, has n yet to handle.
ToQueue(n)    == \E b \in Caster : at[b] = "enqueue" /\ held[b] = n
ToRedis(n)    == \E b \in Caster : Busy(b) /\ held[b] = n
ByQueue(i, n) == log[n].from = i /\ (ToQueue(n) \/ n \in Elements(queue[i]))

\* The commands for n that the clients of i may still see an effect of.
ByRedis(i, n) ==
  IF Paired(i, n) THEN stray[n] + Occ(inbox[i][log[n].channel], n) ELSE 0

Limit(i, n) == One(log[n].from = i) + (IF Paired(i, n) THEN sent[n] ELSE 0)

\* Times a message was offered and times it still may be do not exceed what
\* is allowed.
Counted ==
  /\ \A i \in Instance, n \in Number : n \notin DOMAIN log => copies[i][n] = 0
  /\ \A i \in Instance, n \in DOMAIN log :
       copies[i][n] + One(ByQueue(i, n)) + ByRedis(i, n) <= Limit(i, n)

\* As long as Redis loses nothing, every message for i is on its way to it or
\* has arrived.
Reached ==
  ~lost =>
    \A i \in Instance, n \in DOMAIN log :
      Paired(i, n) => \/ ToRedis(n) \/ copies[i][n] > 0
                      \/ n \in Elements(inbox[i][log[n].channel])

\* What Redis loses, an instance still offers to its own clients.
OwnKept ==
  \A i \in Instance : \A n \in Own(i) :
    ToQueue(n) \/ n \in Elements(queue[i]) \/ copies[i][n] > 0

\* What was shown last is a message of the channel for this instance.
ShownFits ==
  \A i \in Instance, ch \in Channel :
    shown[i][ch] # 0 => shown[i][ch] \in For(i) /\ log[shown[i][ch]].channel = ch

\* Without races a goroutine carries the newest message of its channel, and
\* so does a command under way, and the messages of a channel rise in a queue.
Newest(ch, n) == \A m \in DOMAIN log : log[m].channel = ch => m <= n

Rising(i) ==
  \A j, k \in 1 .. Len(queue[i]) :
    j < k /\ log[queue[i][j]].channel = log[queue[i][k]].channel
      => queue[i][j] < queue[i][k]

\* What the clients of i have yet to see is newer than what they have.
Later(i) ==
  /\ \A n \in Elements(queue[i]) : shown[i][log[n].channel] <= n
  /\ \A n \in Own(i) :
       \/ ToQueue(n) \/ n \in Elements(queue[i])
       \/ n <= shown[i][log[n].channel]

Fresh ==
  ~raced =>
    /\ \A b \in Caster : Busy(b) => Newest(on[b], held[b])
    /\ \A n \in DOMAIN log : stray[n] > 0 => Newest(log[n].channel, n)
    /\ \A i \in Instance \ linked : Rising(i) /\ Later(i)

\* p is the last message on ch that Redis passed on: the last that a linked
\* instance will receive, or has, unless what it shows is its own and goes to
\* Redis yet.
LastPassed(ch, p) ==
  \A i \in linked :
    IF inbox[i][ch] = <<>>
    THEN \/ shown[i][ch] = p
         \/ \E b \in Caster : at[b] = "publish" /\ held[b] = shown[i][ch]
    ELSE inbox[i][ch][Len(inbox[i][ch])] = p

\* No message newer than p has been passed on.
Passed(ch, p) ==
  \A n \in DOMAIN log :
    log[n].channel = ch /\ log[n].from \in linked => n <= p \/ ToRedis(n)

Ordered ==
  ~lost /\ ~lagged =>
    \A ch \in Channel : \E p \in 0 .. Len(log) :
      LastPassed(ch, p) /\ (~raced => Passed(ch, p))

-----------------------------------------------------------------------------
(***************************************************************************)
(* Types.                                                                   *)
(***************************************************************************)
Bounded == Len(log) <= MaxPrepared

LEMMA TypesAt ==
  ASSUME TypeOK, Bounded
  PROVE  /\ DOMAIN log = 1 .. Len(log) /\ Len(log) \in Nat
         /\ DOMAIN log \subseteq Number
         /\ \A n \in DOMAIN log : /\ log[n].from \in Instance
                                  /\ log[n].channel \in Channel
         /\ \A i \in Instance : queue[i] \in Seq(DOMAIN log)
         /\ \A i \in Instance, ch \in Channel : inbox[i][ch] \in Seq(DOMAIN log)
         /\ \A b \in Caster : Home(b) \in Instance /\ on[b] \in Channel
         /\ \A n \in Number : sent[n] \in Nat /\ stray[n] \in Nat
         /\ \A n \in Number : stray[n] > 0 => n \in DOMAIN log
  <1>1. DOMAIN log = 1 .. Len(log) /\ Len(log) \in Nat
    BY LenProperties DEF TypeOK
  <1>2. DOMAIN log \subseteq Number
    BY <1>1, InstancesAssumption DEF Bounded, Number
  <1>3. \A n \in DOMAIN log : log[n] \in [from : Instance, channel : Channel]
    BY <1>1, ElementOfSeq DEF TypeOK
  <1>4. \A n \in Number : sent[n] \in Nat /\ stray[n] \in Nat
    BY InstancesAssumption DEF TypeOK
  <1>5. \A n \in Number : stray[n] > 0 => n \in DOMAIN log
    BY <1>4 DEF TypeOK
  <1>6. \A b \in Caster : Home(b) \in Instance /\ on[b] \in Channel
    BY DEF TypeOK, Caster, Home
  <1>7. /\ \A i \in Instance : queue[i] \in Seq(DOMAIN log)
        /\ \A i \in Instance, ch \in Channel : inbox[i][ch] \in Seq(DOMAIN log)
    BY DEF TypeOK
  <1> QED
    BY <1>1, <1>2, <1>3, <1>4, <1>5, <1>6, <1>7

LEMMA InitTyped == Init => TypeOK /\ Bounded
  <1> SUFFICES ASSUME Init PROVE TypeOK /\ Bounded
    OBVIOUS
  <1>1. log \in Seq([from : Instance, channel : Channel]) /\ Len(log) = 0
    BY EmptySeq DEF Init
  <1>2. <<>> \in Seq(DOMAIN log)
    BY EmptySeq
  <1>3. 0 \in 0 .. Len(log) /\ "usd_rate" \in Channel
    BY <1>1 DEF Channel
  <1>4. \A b \in Caster : at[b] = "off" /\ ~Busy(b)
    BY DEF Init, Busy
  <1>5. Bounded
    BY <1>1, InstancesAssumption DEF Bounded
  <1>6. /\ at \in [Caster -> {"off", "market", "enqueue", "publish"}]
        /\ on \in [Caster -> Channel]
        /\ held \in [Caster -> Number \cup {0}]
    BY <1>3 DEF Init
  <1>7. /\ queue \in [Instance -> Seq(DOMAIN log)]
        /\ inbox \in [Instance -> [Channel -> Seq(DOMAIN log)]]
    BY <1>2 DEF Init
  <1>8. /\ shown \in [Instance -> [Channel -> 0 .. Len(log)]]
        /\ copies \in [Instance -> [Number -> Nat]]
        /\ sent \in [Number -> 0 .. MaxRetries + 1] /\ stray \in [Number -> Nat]
        /\ \A n \in Number : sent[n] = 0 /\ stray[n] = 0
    BY <1>3, InstancesAssumption DEF Init
  <1>9. /\ linked \subseteq Instance
        /\ lost \in BOOLEAN /\ lagged \in BOOLEAN /\ raced \in BOOLEAN
    BY DEF Init
  <1> QED
    BY <1>1, <1>4, <1>5, <1>6, <1>7, <1>8, <1>9 DEF TypeOK


\* What preparing a message does: the log grows by the number it gets.
LEMMA Prepared ==
  ASSUME TypeOK, Bounded, NEW b \in Caster, Prepare(b)
  PROVE  LET n == Len(log) + 1
         IN  /\ ~Busy(b) /\ n \in Number /\ Bounded' /\ Len(log') = n
             /\ DOMAIN log' = DOMAIN log \cup {n} /\ n \notin DOMAIN log
             /\ \A m \in DOMAIN log : log'[m] = log[m] /\ m < n
             /\ log' \in Seq([from : Instance, channel : Channel])
             /\ \E ch \in Channel :
                  /\ log'[n] = [from |-> Home(b), channel |-> ch]
                  /\ on' = [on EXCEPT ![b] = ch]
                  /\ raced' = (raced \/ UnderWay(ch))
             /\ held' = [held EXCEPT ![b] = n]
             /\ at' = [at EXCEPT ![b] = "enqueue"]
             /\ UNCHANGED <<linked, queue, sent, stray, inbox, shown, copies, lost, lagged>>
  <1> DEFINE n == Len(log) + 1
  <1>1. /\ ~Busy(b) /\ Len(log) < MaxPrepared
        /\ held' = [held EXCEPT ![b] = Len(log')]
        /\ at' = [at EXCEPT ![b] = "enqueue"]
        /\ UNCHANGED <<linked, queue, sent, stray, inbox, shown, copies, lost, lagged>>
    BY DEF Prepare, redisVars, clientVars
  <1>2. PICK ch \in Channel :
          /\ on' = [on EXCEPT ![b] = ch]
          /\ log' = Append(log, [from |-> Home(b), channel |-> ch])
          /\ raced' = (raced \/ UnderWay(ch))
    BY TypesAt DEF Prepare
  <1> DEFINE e == [from |-> Home(b), channel |-> ch]
  <1>3. e \in [from : Instance, channel : Channel]
    BY TypesAt
  <1> HIDE DEF e
  <1>4. /\ log' \in Seq([from : Instance, channel : Channel])
        /\ Len(log') = n /\ Len(log) \in Nat
        /\ \A m \in 1 .. Len(log) : log'[m] = log[m]
        /\ log'[n] = e
    <2>1. log' = Append(log, e)
      BY <1>2 DEF e
    <2> QED
      BY <1>3, <2>1, AppendProperties, LenProperties DEF TypeOK
  <1>5. DOMAIN log' = 1 .. n /\ DOMAIN log = 1 .. Len(log)
    BY <1>4, LenProperties, TypesAt
  <1>6. /\ n \in Number /\ Bounded'
        /\ DOMAIN log' = DOMAIN log \cup {n} /\ n \notin DOMAIN log
        /\ \A m \in DOMAIN log : log'[m] = log[m] /\ m < n
    BY <1>1, <1>4, <1>5, InstancesAssumption DEF Number, Bounded
  <1> QED
    BY <1>1, <1>2, <1>4, <1>6 DEF e

\* The message a goroutine has still to enqueue, and to publish if it can.
LEMMA Enqueued ==
  ASSUME TypeOK, Bounded, NEW b \in Caster, Enqueue(b)
  PROVE  LET i == Home(b)
             n == held[b]
         IN  /\ at[b] = "enqueue" /\ Busy(b) /\ n \in DOMAIN log /\ i \in Instance
             /\ queue' = [queue EXCEPT ![i] = Append(@, n)]
             /\ IF i \in linked
                THEN /\ at' = [at EXCEPT ![b] = "publish"]
                     /\ UNCHANGED <<on, held>>
                ELSE Broadcasted(b)
             /\ UNCHANGED <<linked, log, sent, stray, inbox, shown, copies>>
             /\ UNCHANGED <<lost, lagged, raced>>
  BY TypesAt DEF Enqueue, Busy, TypeOK, redisVars, clientVars, historyVars

\* A goroutine that is through with its message.
LEMMA Freed ==
  ASSUME TypeOK, NEW b \in Caster, Broadcasted(b)
  PROVE  /\ at' \in [Caster -> {"off", "market", "enqueue", "publish"}]
         /\ on' \in [Caster -> Channel]
         /\ held' \in [Caster -> Number \cup {0}]
         /\ at'[b] \in {"off", "market"}
         /\ \A o \in Caster \ {b} :
              at'[o] = at[o] /\ on'[o] = on[o] /\ held'[o] = held[o]
  <1>1. \E s \in {"off", "market"}, ch \in Channel :
          /\ at' = [at EXCEPT ![b] = s]
          /\ on' = [on EXCEPT ![b] = ch]
    BY DEF Broadcasted, End, Channel
  <1>2. held' = [held EXCEPT ![b] = 0]
    BY DEF Broadcasted
  <1> QED
    BY <1>1, <1>2 DEF TypeOK

\* Redis passes a message on to some of the linked.
LEMMA PassedOn ==
  ASSUME TypeOK, Bounded, NEW n \in DOMAIN log, NEW to \in SUBSET linked,
         PassOn(n, to)
  PROVE  /\ inbox' \in [Instance -> [Channel -> Seq(DOMAIN log)]]
         /\ \A i \in Instance, ch \in Channel :
              inbox'[i][ch] = IF i \in to /\ ch = log[n].channel
                              THEN Append(inbox[i][ch], n)
                              ELSE inbox[i][ch]
  <1>1. inbox \in [Instance -> [Channel -> Seq(DOMAIN log)]]
    BY DEF TypeOK
  <1>2. ASSUME NEW i \in Instance
        PROVE  [inbox[i] EXCEPT ![log[n].channel] = Append(@, n)]
                 \in [Channel -> Seq(DOMAIN log)]
    <2>1. log[n].channel \in Channel /\ inbox[i][log[n].channel] \in Seq(DOMAIN log)
      BY <1>1, TypesAt
    <2>2. Append(inbox[i][log[n].channel], n) \in Seq(DOMAIN log)
      BY <2>1, AppendProperties
    <2> QED
      BY <1>1, <2>2
  <1>3. inbox' \in [Instance -> [Channel -> Seq(DOMAIN log)]]
    BY <1>1, <1>2 DEF PassOn
  <1>4. ASSUME NEW i \in Instance, NEW ch \in Channel
        PROVE  inbox'[i][ch] = IF i \in to /\ ch = log[n].channel
                               THEN Append(inbox[i][ch], n)
                               ELSE inbox[i][ch]
    <2>1. inbox[i] \in [Channel -> Seq(DOMAIN log)]
      BY <1>1
    <2> QED
      BY <2>1 DEF PassOn
  <1> QED
    BY <1>3, <1>4

\* Every command counts.
LEMMA Sent ==
  ASSUME TypeOK, Bounded, NEW b \in Caster, Send(b)
  PROVE  /\ at[b] = "publish" /\ Busy(b)
         /\ held[b] \in DOMAIN log /\ held[b] \in Number
         /\ Home(b) \in linked /\ sent[held[b]] <= MaxRetries
         /\ sent' \in [Number -> 0 .. MaxRetries + 1]
         /\ \A n \in Number : sent'[n] = IF n = held[b] THEN sent[n] + 1 ELSE sent[n]
  <1>1. /\ at[b] = "publish" /\ Busy(b)
        /\ held[b] \in DOMAIN log /\ held[b] \in Number
        /\ Home(b) \in linked /\ sent[held[b]] <= MaxRetries
        /\ sent' = [sent EXCEPT ![held[b]] = @ + 1]
    BY TypesAt DEF Send, Busy, TypeOK
  <1>2. sent \in [Number -> 0 .. MaxRetries + 1]
    BY DEF TypeOK
  <1>3. sent[held[b]] \in 0 .. MaxRetries + 1
    BY <1>1, <1>2
  <1>4. sent[held[b]] + 1 \in 0 .. MaxRetries + 1
    BY <1>1, <1>3, InstancesAssumption
  <1> QED
    BY <1>1, <1>2, <1>4

LEMMA StepTyped ==
  TypeOK /\ Bounded /\ Single /\ [Next]_vars => TypeOK' /\ Bounded'
  <1> SUFFICES ASSUME TypeOK, Bounded, Single, [Next]_vars PROVE TypeOK' /\ Bounded'
    OBVIOUS
  <1>1. ASSUME NEW b \in Caster, Prepare(b) PROVE TypeOK' /\ Bounded'
    <2> DEFINE n == Len(log) + 1
    <2>1. /\ ~Busy(b) /\ n \in Number /\ Bounded' /\ Len(log') = n
          /\ DOMAIN log' = DOMAIN log \cup {n}
          /\ log' \in Seq([from : Instance, channel : Channel])
          /\ held' = [held EXCEPT ![b] = n]
          /\ at' = [at EXCEPT ![b] = "enqueue"]
          /\ UNCHANGED <<linked, queue, sent, stray, inbox, shown, copies, lost, lagged>>
      BY <1>1, Prepared
    <2>2. on' \in [Caster -> Channel] /\ raced' \in BOOLEAN
      <3>1. PICK ch \in Channel :
              /\ on' = [on EXCEPT ![b] = ch]
              /\ raced' = (raced \/ UnderWay(ch))
        BY <1>1, Prepared
      <3> QED
        BY <3>1 DEF TypeOK, UnderWay
    <2>3. /\ queue \in [Instance -> Seq(DOMAIN log')]
          /\ inbox \in [Instance -> [Channel -> Seq(DOMAIN log')]]
      <3>1. Seq(DOMAIN log) \subseteq Seq(DOMAIN log')
        BY <2>1, SeqMonotonic
      <3> QED
        BY <3>1 DEF TypeOK
    <2>4. shown \in [Instance -> [Channel -> 0 .. Len(log')]]
      <3>1. 0 .. Len(log) \subseteq 0 .. Len(log')
        BY <2>1, TypesAt
      <3> QED
        BY <3>1 DEF TypeOK
    <2>5. \A o \in Caster : /\ Busy(o)' => held'[o] \in DOMAIN log'
                            /\ at'[o] = "publish" => Home(o) \in linked'
                            /\ at'[o] = "publish" => sent'[held'[o]] <= MaxRetries
      BY <2>1 DEF TypeOK, Busy
    <2>6. /\ at' \in [Caster -> {"off", "market", "enqueue", "publish"}]
          /\ held' \in [Caster -> Number \cup {0}]
      BY <2>1 DEF TypeOK
    <2> QED
      BY <2>1, <2>2, <2>3, <2>4, <2>5, <2>6 DEF TypeOK
  <1>2. ASSUME NEW b \in Caster, PrepareFails(b) PROVE TypeOK' /\ Bounded'
    BY <1>2
    DEF PrepareFails, End, TypeOK, Bounded, Busy, Channel, redisVars, clientVars,
        historyVars
  <1>3. ASSUME NEW b \in Caster, Enqueue(b) PROVE TypeOK' /\ Bounded'
    <2> DEFINE i == Home(b)
               n == held[b]
    <2>1. /\ n \in DOMAIN log /\ i \in Instance /\ at[b] = "enqueue"
          /\ queue' = [queue EXCEPT ![i] = Append(@, n)]
          /\ UNCHANGED <<linked, log, sent, stray, inbox, shown, copies>>
          /\ UNCHANGED <<lost, lagged, raced>>
      BY <1>3, Enqueued
    <2>2. queue' \in [Instance -> Seq(DOMAIN log')]
      BY <2>1, AppendElements DEF TypeOK
    <2>3. /\ at' \in [Caster -> {"off", "market", "enqueue", "publish"}]
          /\ on' \in [Caster -> Channel]
          /\ held' \in [Caster -> Number \cup {0}]
      <3>1. CASE i \in linked
        BY <1>3, <3>1, Enqueued DEF TypeOK
      <3>2. CASE i \notin linked
        BY <1>3, <3>2, Enqueued, Freed
      <3> QED
        BY <3>1, <3>2
    <2>4. ASSUME NEW o \in Caster
          PROVE  /\ Busy(o)' => held'[o] \in DOMAIN log'
                 /\ at'[o] = "publish" => Home(o) \in linked'
                 /\ at'[o] = "publish" => sent'[held'[o]] <= MaxRetries
      <3>0. sent[n] = 0 /\ 0 <= MaxRetries
        BY <2>1, InstancesAssumption DEF Single
      <3>1. CASE i \in linked
        <4>1. at' = [at EXCEPT ![b] = "publish"] /\ held' = held
          BY <1>3, <3>1, Enqueued
        <4>2. CASE o = b
          BY <2>1, <3>0, <3>1, <4>1, <4>2
        <4>3. CASE o # b
          <5>1. at'[o] = at[o]
            BY <4>1, <4>3 DEF TypeOK
          <5> QED
            BY <2>1, <4>1, <5>1 DEF TypeOK, Busy
        <4> QED
          BY <4>2, <4>3
      <3>2. CASE i \notin linked
        <4>1. /\ at'[b] \in {"off", "market"}
              /\ \A r \in Caster \ {b} : at'[r] = at[r] /\ held'[r] = held[r]
          BY <1>3, <3>2, Enqueued, Freed
        <4> QED
          BY <2>1, <4>1 DEF TypeOK, Busy
      <3> QED
        BY <3>1, <3>2
    <2> QED
      BY <2>1, <2>2, <2>3, <2>4 DEF TypeOK, Bounded
  <1>4. ASSUME NEW b \in Caster, PublishAnswered(b) PROVE TypeOK' /\ Bounded'
    <2>1. /\ Send(b) /\ Broadcasted(b)
          /\ UNCHANGED <<linked, log, queue, stray, shown, copies, lagged, raced>>
      BY <1>4 DEF PublishAnswered, clientVars
    <2>2. PICK to \in SUBSET linked : PassOn(held[b], to) /\ lost' = (lost \/ to # linked)
      BY <1>4 DEF PublishAnswered
    <2>3. /\ sent' \in [Number -> 0 .. MaxRetries + 1]
          /\ \A n \in Number : sent'[n] = IF n = held[b] THEN sent[n] + 1 ELSE sent[n]
          /\ held[b] \in DOMAIN log /\ held[b] \in Number /\ Busy(b)
      BY <2>1, Sent
    <2>4. inbox' \in [Instance -> [Channel -> Seq(DOMAIN log')]] /\ lost' \in BOOLEAN
      BY <2>1, <2>2, <2>3, PassedOn DEF TypeOK
    <2>5. /\ at' \in [Caster -> {"off", "market", "enqueue", "publish"}]
          /\ on' \in [Caster -> Channel]
          /\ held' \in [Caster -> Number \cup {0}]
          /\ at'[b] \in {"off", "market"}
          /\ \A o \in Caster \ {b} : at'[o] = at[o] /\ held'[o] = held[o]
      BY <2>1, Freed
    <2>6. ASSUME NEW o \in Caster, Busy(o)'
          PROVE  /\ held'[o] \in DOMAIN log'
                 /\ at'[o] = "publish" => Home(o) \in linked' /\ sent'[held'[o]] <= MaxRetries
      <3>1. o # b /\ Busy(o) /\ at'[o] = at[o] /\ held'[o] = held[o]
        BY <2>5, <2>6 DEF Busy
      <3>2. held[o] \in DOMAIN log /\ held[o] \in Number /\ held[o] # held[b]
        BY <2>3, <3>1, TypesAt DEF TypeOK, Single
      <3> QED
        BY <2>1, <2>3, <3>1, <3>2 DEF TypeOK
    <2> QED
      BY <2>1, <2>3, <2>4, <2>5, <2>6 DEF TypeOK, Bounded, Busy
  <1>u. ASSUME NEW b \in Caster, PublishUnanswered(b) PROVE TypeOK' /\ Bounded'
    <2>1. /\ Send(b)
          /\ stray' = [stray EXCEPT ![held[b]] = @ + 1]
          /\ IF sent[held[b]] < MaxRetries
             THEN UNCHANGED <<at, on, held, lost>>
             ELSE Broadcasted(b) /\ lost' = TRUE
          /\ UNCHANGED <<linked, log, queue, inbox, shown, copies, lagged, raced>>
      BY <1>u DEF PublishUnanswered, castVars, clientVars
    <2>2. /\ sent' \in [Number -> 0 .. MaxRetries + 1]
          /\ \A n \in Number : sent'[n] = IF n = held[b] THEN sent[n] + 1 ELSE sent[n]
          /\ held[b] \in DOMAIN log /\ held[b] \in Number /\ Busy(b)
      BY <2>1, Sent
    <2>3. /\ stray' \in [Number -> Nat]
          /\ \A n \in Number \ DOMAIN log : sent'[n] = 0 /\ stray'[n] = 0
      <3>0. stray \in [Number -> Nat]
        BY DEF TypeOK
      <3>1. stray \in [Number -> Nat] /\ stray[held[b]] + 1 \in Nat
        BY <2>2, <3>0
      <3>2. \A n \in Number \ DOMAIN log : sent[n] = 0 /\ stray[n] = 0 /\ n # held[b]
        BY <2>2 DEF TypeOK
      <3> QED
        BY <2>1, <2>2, <3>1, <3>2
    <2>4. /\ at' \in [Caster -> {"off", "market", "enqueue", "publish"}]
          /\ on' \in [Caster -> Channel]
          /\ held' \in [Caster -> Number \cup {0}]
          /\ lost' \in BOOLEAN
          /\ \A o \in Caster : Busy(o)' =>
               /\ Busy(o) /\ at'[o] = at[o] /\ held'[o] = held[o]
               /\ o = b => sent[held[b]] < MaxRetries
      <3>1. CASE sent[held[b]] < MaxRetries
        BY <2>1, <3>1 DEF TypeOK, Busy
      <3>2. CASE ~(sent[held[b]] < MaxRetries)
        <4>1. Broadcasted(b) /\ lost' = TRUE
          BY <2>1, <3>2
        <4>2. /\ at'[b] \in {"off", "market"}
              /\ \A o \in Caster \ {b} : at'[o] = at[o] /\ held'[o] = held[o]
          BY <4>1, Freed
        <4>3. \A o \in Caster : Busy(o)' => o # b
          BY <4>2 DEF Busy
        <4> QED
          BY <4>1, <4>2, <4>3, Freed DEF Busy
      <3> QED
        BY <3>1, <3>2
    <2>5. ASSUME NEW o \in Caster, Busy(o)'
          PROVE  /\ held'[o] \in DOMAIN log'
                 /\ at'[o] = "publish" => Home(o) \in linked' /\ sent'[held'[o]] <= MaxRetries
      <3>1. /\ Busy(o) /\ at'[o] = at[o] /\ held'[o] = held[o]
            /\ held[o] \in DOMAIN log /\ held[o] \in Number
        BY <2>4, <2>5, TypesAt DEF TypeOK
      <3>2. CASE o = b
        <4>1. sent[held[b]] < MaxRetries /\ sent[held[b]] \in Nat
          BY <2>2, <2>4, <2>5, <3>2, TypesAt
        <4> QED
          <5>1. sent'[held'[o]] <= MaxRetries
            BY <2>2, <3>1, <3>2, <4>1, InstancesAssumption
          <5> QED
            BY <2>1, <3>1, <5>1 DEF TypeOK
      <3>3. CASE o # b
        <4>1. held[o] # held[b]
          BY <2>2, <3>1, <3>3 DEF Single
        <4> QED
          BY <2>1, <2>2, <3>1, <4>1 DEF TypeOK
      <3> QED
        BY <3>2, <3>3
    <2> QED
      BY <2>1, <2>2, <2>3, <2>4, <2>5 DEF TypeOK, Bounded, Busy
  <1>l. ASSUME NEW n \in Number, Late(n) PROVE TypeOK' /\ Bounded'
    <2>1. /\ stray[n] > 0 /\ stray' = [stray EXCEPT ![n] = @ - 1]
          /\ UNCHANGED <<linked, log, at, on, held, queue, sent, shown, copies>>
          /\ UNCHANGED <<lagged, raced>>
      BY <1>l DEF Late, castVars, clientVars
    <2>2. n \in DOMAIN log /\ stray[n] \in Nat
      BY <2>1, TypesAt
    <2>3. PICK to \in SUBSET linked :
            PassOn(n, to) /\ lost' = (lost \/ to \notin {{}, linked})
      BY <1>l DEF Late
    <2>4. inbox' \in [Instance -> [Channel -> Seq(DOMAIN log')]] /\ lost' \in BOOLEAN
      BY <2>1, <2>2, <2>3, PassedOn DEF TypeOK
    <2>5. /\ stray' \in [Number -> Nat]
          /\ \A m \in Number \ DOMAIN log : stray'[m] = 0
      <3>0. stray \in [Number -> Nat]
        BY DEF TypeOK
      <3>1. stray \in [Number -> Nat] /\ stray[n] - 1 \in Nat
        BY <2>1, <2>2, <3>0
      <3>2. \A m \in Number \ DOMAIN log : stray[m] = 0 /\ m # n
        BY <2>2 DEF TypeOK
      <3> QED
        BY <2>1, <3>1, <3>2
    <2> QED
      BY <2>1, <2>4, <2>5 DEF TypeOK, Bounded, Busy
  <1>5. ASSUME NEW i \in Instance, NEW n \in DOMAIN log, Offer(i, n)
        PROVE  /\ shown' \in [Instance -> [Channel -> 0 .. Len(log)]]
               /\ copies' \in [Instance -> [Number -> Nat]]
    <2>1. n \in 0 .. Len(log) /\ n \in Number /\ log[n].channel \in Channel
      BY TypesAt
    <2>2. /\ shown \in [Instance -> [Channel -> 0 .. Len(log)]]
          /\ copies \in [Instance -> [Number -> Nat]]
      BY DEF TypeOK
    <2>3. copies[i][n] + 1 \in Nat
      BY <2>1, <2>2
    <2>4. [shown[i] EXCEPT ![log[n].channel] = n] \in [Channel -> 0 .. Len(log)]
      BY <2>1, <2>2
    <2>5. [copies[i] EXCEPT ![n] = copies[i][n] + 1] \in [Number -> Nat]
      BY <2>2, <2>3
    <2> QED
      BY <1>5, <2>2, <2>4, <2>5 DEF Offer
  <1>6. ASSUME NEW i \in Instance, Deliver(i) PROVE TypeOK' /\ Bounded'
    <2>1. /\ queue[i] # <<>> /\ queue' = [queue EXCEPT ![i] = Tail(@)]
          /\ Offer(i, Head(queue[i])) /\ lagged' \in BOOLEAN
          /\ UNCHANGED <<linked, log, at, on, held, sent, stray, inbox, lost, raced>>
      BY <1>6 DEF Deliver, castVars, redisVars, TypeOK
    <2>2. Head(queue[i]) \in DOMAIN log /\ Tail(queue[i]) \in Seq(DOMAIN log)
      BY <2>1, TailElements DEF TypeOK
    <2> QED
      BY <1>5, <2>1, <2>2 DEF TypeOK, Bounded, Busy
  <1>7. ASSUME NEW i \in Instance, NEW ch \in Channel, Receive(i, ch)
        PROVE  TypeOK' /\ Bounded'
    <2>1. /\ inbox[i][ch] # <<>> /\ inbox' = [inbox EXCEPT ![i][ch] = Tail(@)]
          /\ Offer(i, Head(inbox[i][ch]))
          /\ UNCHANGED <<linked, log, at, on, held, queue, sent, stray, lost, lagged, raced>>
      BY <1>7 DEF Receive, castVars, historyVars, TypeOK
    <2>2. /\ Head(inbox[i][ch]) \in DOMAIN log
          /\ Tail(inbox[i][ch]) \in Seq(DOMAIN log)
      <3>1. inbox[i][ch] \in Seq(DOMAIN log)
        BY TypesAt
      <3> QED
        BY <2>1, <3>1, TailElements
    <2>3. inbox' \in [Instance -> [Channel -> Seq(DOMAIN log)]]
      <3>1. inbox \in [Instance -> [Channel -> Seq(DOMAIN log)]]
        BY DEF TypeOK
      <3>2. [inbox[i] EXCEPT ![ch] = Tail(inbox[i][ch])] \in [Channel -> Seq(DOMAIN log)]
        BY <2>2, <3>1
      <3> QED
        BY <2>1, <3>1, <3>2
    <2> QED
      BY <1>5, <2>1, <2>2, <2>3 DEF TypeOK, Bounded, Busy
  <1>8. CASE UNCHANGED vars
    BY <1>8 DEF vars, castVars, redisVars, clientVars, historyVars, TypeOK, Bounded, Busy
  <1> QED
    BY <1>1, <1>2, <1>3, <1>4, <1>u, <1>l, <1>6, <1>7, <1>8
    DEF Next, CastStep, Publish, Quiet

-----------------------------------------------------------------------------
(***************************************************************************)
(* What each step does, place by place.                                     *)
(***************************************************************************)
LEMMA PrepareAt ==
  ASSUME TypeOK, Bounded, NEW b \in Caster, Prepare(b)
  PROVE  \E ch \in Channel, n \in Number :
           /\ ~Busy(b) /\ n = Len(log) + 1 /\ Len(log') = n
           /\ DOMAIN log' = DOMAIN log \cup {n} /\ n \notin DOMAIN log
           /\ sent[n] = 0 /\ stray[n] = 0
           /\ \A m \in DOMAIN log : log'[m] = log[m] /\ m < n
           /\ log'[n] = [from |-> Home(b), channel |-> ch]
           /\ at'[b] = "enqueue" /\ on'[b] = ch /\ held'[b] = n
           /\ \A o \in Caster \ {b} :
                at'[o] = at[o] /\ on'[o] = on[o] /\ held'[o] = held[o]
           /\ UNCHANGED <<linked, queue, sent, stray, inbox, shown, copies>>
           /\ UNCHANGED <<lost, lagged>>
  <1>1. PICK ch \in Channel :
          /\ log'[Len(log) + 1] = [from |-> Home(b), channel |-> ch]
          /\ on' = [on EXCEPT ![b] = ch]
          /\ raced' = (raced \/ UnderWay(ch))
    BY Prepared
  <1>2. /\ at'[b] = "enqueue" /\ on'[b] = ch /\ held'[b] = Len(log) + 1
        /\ \A o \in Caster \ {b} :
             at'[o] = at[o] /\ on'[o] = on[o] /\ held'[o] = held[o]
    <2>1. /\ held' = [held EXCEPT ![b] = Len(log) + 1]
          /\ at' = [at EXCEPT ![b] = "enqueue"]
      BY Prepared
    <2> QED
      BY <1>1, <2>1 DEF TypeOK
  <1>3. sent[Len(log) + 1] = 0 /\ stray[Len(log) + 1] = 0
    <2>1. Len(log) + 1 \in Number \ DOMAIN log
      BY Prepared
    <2> QED
      BY <2>1 DEF TypeOK
  <1> QED
    BY <1>1, <1>2, <1>3, Prepared

LEMMA PreparedAlone ==
  ASSUME TypeOK, Bounded, NEW b \in Caster, Prepare(b), ~raced'
  PROVE  /\ ~raced
         /\ \A o \in Caster : Busy(o) => on[o] # on'[b]
         /\ \A m \in DOMAIN log : stray[m] > 0 => log[m].channel # on'[b]
  <1>1. PICK ch \in Channel :
          /\ on' = [on EXCEPT ![b] = ch]
          /\ raced' = (raced \/ UnderWay(ch))
    BY Prepared
  <1>2. on'[b] = ch
    BY <1>1 DEF TypeOK
  <1> QED
    BY <1>1, <1>2, Zenon DEF UnderWay

LEMMA EnqueueAt ==
  ASSUME TypeOK, Bounded, NEW b \in Caster, Enqueue(b)
  PROVE  /\ at[b] = "enqueue" /\ Busy(b)
         /\ held[b] \in DOMAIN log /\ Home(b) \in Instance
         /\ queue'[Home(b)] = Append(queue[Home(b)], held[b])
         /\ \A j \in Instance \ {Home(b)} : queue'[j] = queue[j]
         /\ IF Home(b) \in linked
            THEN at'[b] = "publish" /\ on'[b] = on[b] /\ held'[b] = held[b]
            ELSE at'[b] \in {"off", "market"}
         /\ \A o \in Caster \ {b} :
              at'[o] = at[o] /\ on'[o] = on[o] /\ held'[o] = held[o]
         /\ UNCHANGED <<linked, log, sent, stray, inbox, shown, copies>>
         /\ UNCHANGED <<lost, lagged, raced>>
  <1>1. /\ at[b] = "enqueue" /\ Busy(b)
        /\ held[b] \in DOMAIN log /\ Home(b) \in Instance
        /\ queue' = [queue EXCEPT ![Home(b)] = Append(@, held[b])]
        /\ UNCHANGED <<linked, log, sent, stray, inbox, shown, copies>>
        /\ UNCHANGED <<lost, lagged, raced>>
    BY Enqueued
  <1>q. /\ queue'[Home(b)] = Append(queue[Home(b)], held[b])
        /\ \A j \in Instance \ {Home(b)} : queue'[j] = queue[j]
    BY <1>1 DEF TypeOK
  <1>2. CASE Home(b) \in linked
    <2>1. at' = [at EXCEPT ![b] = "publish"] /\ UNCHANGED <<on, held>>
      BY <1>2, Enqueued
    <2> QED
      BY <1>1, <1>q, <1>2, <2>1 DEF TypeOK
  <1>3. CASE Home(b) \notin linked
    BY <1>1, <1>q, <1>3, Enqueued, Freed
  <1> QED
    BY <1>2, <1>3

LEMMA AnsweredAt ==
  ASSUME TypeOK, Bounded, NEW b \in Caster, PublishAnswered(b)
  PROVE  /\ at[b] = "publish" /\ Busy(b) /\ Home(b) \in linked
         /\ held[b] \in DOMAIN log /\ held[b] \in Number
         /\ at'[b] \in {"off", "market"}
         /\ \A o \in Caster \ {b} :
              at'[o] = at[o] /\ on'[o] = on[o] /\ held'[o] = held[o]
         /\ \A n \in Number : sent'[n] = IF n = held[b] THEN sent[n] + 1 ELSE sent[n]
         /\ \E to \in SUBSET linked :
              /\ \A i \in Instance, ch \in Channel :
                   inbox'[i][ch] = IF i \in to /\ ch = log[held[b]].channel
                                   THEN Append(inbox[i][ch], held[b])
                                   ELSE inbox[i][ch]
              /\ ~lost' => ~lost /\ to = linked
         /\ UNCHANGED <<linked, log, queue, stray, shown, copies, lagged, raced>>
  <1>1. /\ Send(b) /\ Broadcasted(b)
        /\ UNCHANGED <<linked, log, queue, stray, shown, copies, lagged, raced>>
    BY DEF PublishAnswered, clientVars
  <1>2. PICK to \in SUBSET linked : PassOn(held[b], to) /\ lost' = (lost \/ to # linked)
    BY DEF PublishAnswered
  <1>3. held[b] \in DOMAIN log
    BY <1>1, Sent
  <1>4. \A i \in Instance, ch \in Channel :
          inbox'[i][ch] = IF i \in to /\ ch = log[held[b]].channel
                          THEN Append(inbox[i][ch], held[b])
                          ELSE inbox[i][ch]
    BY <1>2, <1>3, PassedOn
  <1> QED
    BY <1>1, <1>2, <1>4, Sent, Freed

LEMMA UnansweredAt ==
  ASSUME TypeOK, Bounded, NEW b \in Caster, PublishUnanswered(b)
  PROVE  /\ at[b] = "publish" /\ Busy(b) /\ Home(b) \in linked
         /\ held[b] \in DOMAIN log /\ held[b] \in Number
         /\ \A o \in Caster :
              \/ at'[o] = at[o] /\ on'[o] = on[o] /\ held'[o] = held[o]
              \/ o = b /\ at'[b] \in {"off", "market"}
         /\ \A n \in Number :
              /\ sent'[n] = IF n = held[b] THEN sent[n] + 1 ELSE sent[n]
              /\ stray'[n] = IF n = held[b] THEN stray[n] + 1 ELSE stray[n]
         /\ ~lost' => ~lost /\ UNCHANGED <<at, on, held>>
         /\ UNCHANGED <<linked, log, queue, inbox, shown, copies, lagged, raced>>
  <1>1. /\ Send(b)
        /\ stray' = [stray EXCEPT ![held[b]] = @ + 1]
        /\ UNCHANGED <<linked, log, queue, inbox, shown, copies, lagged, raced>>
    BY DEF PublishUnanswered, clientVars
  <1>2. /\ \A o \in Caster :
             \/ at'[o] = at[o] /\ on'[o] = on[o] /\ held'[o] = held[o]
             \/ o = b /\ at'[b] \in {"off", "market"}
        /\ ~lost' => ~lost /\ UNCHANGED <<at, on, held>>
    <2>1. CASE UNCHANGED <<at, on, held, lost>>
      BY <2>1
    <2>2. CASE Broadcasted(b) /\ lost' = TRUE
      BY <2>2, Freed
    <2> QED
      BY <2>1, <2>2 DEF PublishUnanswered, castVars
  <1>3. stray \in [Number -> Nat]
    BY DEF TypeOK
  <1> QED
    BY <1>1, <1>2, <1>3, Sent

\* In common to the two outcomes.
LEMMA PublishAt ==
  ASSUME TypeOK, Bounded, NEW b \in Caster, Publish(b)
  PROVE  /\ at[b] = "publish" /\ Busy(b) /\ Home(b) \in linked
         /\ held[b] \in DOMAIN log /\ held[b] \in Number
         /\ \A o \in Caster :
              \/ at'[o] = at[o] /\ on'[o] = on[o] /\ held'[o] = held[o]
              \/ o = b /\ at'[b] \in {"off", "market"}
         /\ UNCHANGED <<linked, log, queue, shown, copies, lagged, raced>>
  <1>1. CASE PublishAnswered(b)
    BY <1>1, AnsweredAt
  <1>2. CASE PublishUnanswered(b)
    BY <1>2, UnansweredAt
  <1> QED
    BY <1>1, <1>2 DEF Publish

LEMMA LateAt ==
  ASSUME TypeOK, Bounded, NEW n \in Number, Late(n)
  PROVE  /\ n \in DOMAIN log /\ stray[n] > 0
         /\ \A m \in Number : stray'[m] = IF m = n THEN stray[n] - 1 ELSE stray[m]
         /\ \E to \in SUBSET linked :
              /\ \A i \in Instance, ch \in Channel :
                   inbox'[i][ch] = IF i \in to /\ ch = log[n].channel
                                   THEN Append(inbox[i][ch], n)
                                   ELSE inbox[i][ch]
              /\ ~lost' => ~lost /\ to \in {{}, linked}
         /\ UNCHANGED <<linked, log, at, on, held, queue, sent, shown, copies>>
         /\ UNCHANGED <<lagged, raced>>
  <1>1. /\ stray[n] > 0 /\ stray' = [stray EXCEPT ![n] = @ - 1]
        /\ UNCHANGED <<linked, log, at, on, held, queue, sent, shown, copies>>
        /\ UNCHANGED <<lagged, raced>>
    BY DEF Late, castVars, clientVars
  <1>2. n \in DOMAIN log /\ stray \in [Number -> Nat]
    BY <1>1, TypesAt DEF TypeOK
  <1>3. PICK to \in SUBSET linked :
          PassOn(n, to) /\ lost' = (lost \/ to \notin {{}, linked})
    BY DEF Late
  <1>4. \A i \in Instance, ch \in Channel :
          inbox'[i][ch] = IF i \in to /\ ch = log[n].channel
                          THEN Append(inbox[i][ch], n)
                          ELSE inbox[i][ch]
    BY <1>2, <1>3, PassedOn
  <1>5. ~lost' => ~lost /\ to \in {{}, linked}
    BY <1>3
  <1> QED
    BY <1>1, <1>2, <1>4, <1>5

LEMMA OfferAt ==
  ASSUME TypeOK, Bounded, NEW i \in Instance, NEW n \in DOMAIN log, Offer(i, n)
  PROVE  /\ \A j \in Instance, ch \in Channel :
              shown'[j][ch] = IF j = i /\ ch = log[n].channel THEN n
                              ELSE shown[j][ch]
         /\ \A j \in Instance, m \in Number :
              copies'[j][m] = IF j = i /\ m = n THEN copies[i][n] + 1
                              ELSE copies[j][m]
  <1>1. n \in Number /\ log[n].channel \in Channel
    BY TypesAt
  <1>2. /\ shown \in [Instance -> [Channel -> 0 .. Len(log)]]
        /\ copies \in [Instance -> [Number -> Nat]]
    BY DEF TypeOK
  <1>3. ASSUME NEW j \in Instance, NEW ch \in Channel
        PROVE  shown'[j][ch] = IF j = i /\ ch = log[n].channel THEN n
                               ELSE shown[j][ch]
    <2>1. shown[j] \in [Channel -> 0 .. Len(log)]
      BY <1>2
    <2> QED
      BY <1>1, <1>2, <2>1 DEF Offer
  <1>4. ASSUME NEW j \in Instance, NEW m \in Number
        PROVE  copies'[j][m] = IF j = i /\ m = n THEN copies[i][n] + 1
                               ELSE copies[j][m]
    <2>1. copies[j] \in [Number -> Nat]
      BY <1>2
    <2> QED
      BY <1>1, <1>2, <2>1 DEF Offer
  <1> QED
    BY <1>3, <1>4

LEMMA DeliverAt ==
  ASSUME TypeOK, Bounded, NEW i \in Instance, Deliver(i)
  PROVE  /\ queue[i] # <<>> /\ queue[i] \in Seq(DOMAIN log)
         /\ Head(queue[i]) \in DOMAIN log /\ Head(queue[i]) \in Number
         /\ queue'[i] = Tail(queue[i])
         /\ \A j \in Instance \ {i} : queue'[j] = queue[j]
         /\ Offer(i, Head(queue[i]))
         /\ ~lagged' => ~lagged /\ copies[i][Head(queue[i])] = 0
         /\ UNCHANGED <<linked, log, at, on, held, sent, stray, inbox, lost, raced>>
  <1>1. /\ queue[i] # <<>> /\ queue' = [queue EXCEPT ![i] = Tail(@)]
        /\ Offer(i, Head(queue[i]))
        /\ lagged' = (lagged \/ copies[i][Head(queue[i])] > 0)
        /\ UNCHANGED <<linked, log, at, on, held, sent, stray, inbox, lost, raced>>
    BY DEF Deliver, castVars, redisVars
  <1>2. queue[i] \in Seq(DOMAIN log)
    BY TypesAt
  <1>3. Head(queue[i]) \in DOMAIN log /\ Head(queue[i]) \in Number
    BY <1>1, <1>2, TailElements, TypesAt
  <1>4. copies[i][Head(queue[i])] \in Nat
    BY <1>3 DEF TypeOK
  <1>5. ~lagged' => ~lagged /\ copies[i][Head(queue[i])] = 0
    <2>1. ~lagged' => ~lagged /\ ~(copies[i][Head(queue[i])] > 0)
      BY <1>1, Zenon
    <2> QED
      BY <1>4, <2>1
  <1>6. /\ queue'[i] = Tail(queue[i])
        /\ \A j \in Instance \ {i} : queue'[j] = queue[j]
    BY <1>1 DEF TypeOK
  <1> QED
    BY <1>1, <1>2, <1>3, <1>5, <1>6

LEMMA ReceiveAt ==
  ASSUME TypeOK, Bounded, NEW i \in Instance, NEW ch \in Channel, Receive(i, ch)
  PROVE  /\ inbox[i][ch] # <<>> /\ inbox[i][ch] \in Seq(DOMAIN log)
         /\ Head(inbox[i][ch]) \in DOMAIN log /\ Head(inbox[i][ch]) \in Number
         /\ \A j \in Instance, c \in Channel :
              inbox'[j][c] = IF j = i /\ c = ch THEN Tail(inbox[i][ch])
                             ELSE inbox[j][c]
         /\ Offer(i, Head(inbox[i][ch]))
         /\ UNCHANGED <<linked, log, at, on, held, queue, sent, stray, lost, lagged, raced>>
  <1>1. /\ inbox[i][ch] # <<>> /\ inbox' = [inbox EXCEPT ![i][ch] = Tail(@)]
        /\ Offer(i, Head(inbox[i][ch]))
        /\ UNCHANGED <<linked, log, at, on, held, queue, sent, stray, lost, lagged, raced>>
    BY DEF Receive, castVars, historyVars
  <1>2. inbox[i][ch] \in Seq(DOMAIN log)
    BY TypesAt
  <1>3. Head(inbox[i][ch]) \in DOMAIN log /\ Head(inbox[i][ch]) \in Number
    BY <1>1, <1>2, TailElements, TypesAt
  <1>4. inbox \in [Instance -> [Channel -> Seq(DOMAIN log)]]
    BY DEF TypeOK
  <1>5. ASSUME NEW j \in Instance, NEW c \in Channel
        PROVE  inbox'[j][c] = IF j = i /\ c = ch THEN Tail(inbox[i][ch])
                              ELSE inbox[j][c]
    <2>1. inbox[j] \in [Channel -> Seq(DOMAIN log)]
      BY <1>4
    <2> QED
      BY <1>1, <1>4, <2>1
  <1> QED
    BY <1>1, <1>2, <1>3, <1>5

\* A goroutine that gives up without a message was carrying none.
LEMMA PrepareFailsAt ==
  ASSUME TypeOK, NEW b \in Caster, PrepareFails(b)
  PROVE  /\ ~Busy(b) /\ at'[b] = "off"
         /\ \A o \in Caster \ {b} :
              at'[o] = at[o] /\ on'[o] = on[o] /\ held'[o] = held[o]
         /\ UNCHANGED <<linked, log, queue, sent, stray, inbox, shown, copies>>
         /\ UNCHANGED <<lost, lagged, raced>>
  BY DEF PrepareFails, End, TypeOK, Busy, redisVars, clientVars, historyVars

-----------------------------------------------------------------------------
(***************************************************************************)
(* Every step keeps the invariant.                                          *)
(***************************************************************************)
LEMMA StillBusy ==
  ASSUME NEW b \in Caster, at'[b] = at[b]
  PROVE  Busy(b)' <=> Busy(b)
  BY DEF Busy

LEMMA CarriedFits ==
  ASSUME Addressed, NEW b \in Caster, Busy(b)
  PROVE  log[held[b]].from = Home(b) /\ log[held[b]].channel = on[b]
  <1>1. log[held[b]] = [from |-> Home(b), channel |-> on[b]]
    BY DEF Addressed
  <1> QED
    BY <1>1

\* A message passed on comes to inboxes it is meant for.
LEMMA PassedFits ==
  ASSUME TypeOK, Bounded, Addressed, NEW n \in DOMAIN log, log[n].from \in linked,
         NEW to \in SUBSET linked,
         \A i \in Instance, ch \in Channel :
           inbox'[i][ch] = IF i \in to /\ ch = log[n].channel
                           THEN Append(inbox[i][ch], n)
                           ELSE inbox[i][ch]
  PROVE  \A i \in Instance, ch \in Channel : \A m \in Elements(inbox'[i][ch]) :
           i \in linked /\ log[m].from \in linked /\ log[m].channel = ch
  <1> SUFFICES ASSUME NEW i \in Instance, NEW ch \in Channel,
                      NEW m \in Elements(inbox'[i][ch])
               PROVE  i \in linked /\ log[m].from \in linked /\ log[m].channel = ch
    OBVIOUS
  <1>1. CASE i \in to /\ ch = log[n].channel
    <2>1. inbox[i][ch] \in Seq(DOMAIN log) /\ inbox'[i][ch] = Append(inbox[i][ch], n)
      BY <1>1, TypesAt
    <2>2. Elements(inbox'[i][ch]) = Elements(inbox[i][ch]) \cup {n}
      BY <2>1, AppendElements
    <2> QED
      BY <1>1, <2>2 DEF Addressed
  <1>2. CASE ~(i \in to /\ ch = log[n].channel)
    BY <1>2 DEF Addressed
  <1> QED
    BY <1>1, <1>2

LEMMA StepAddressed ==
  TypeOK /\ Bounded /\ Addressed /\ [Next]_vars => Addressed'
  <1> SUFFICES ASSUME TypeOK, Bounded, Addressed, [Next]_vars PROVE Addressed'
    OBVIOUS
  <1>q. /\ \A i \in Instance : queue[i] \in Seq(DOMAIN log)
        /\ \A i \in Instance, ch \in Channel : inbox[i][ch] \in Seq(DOMAIN log)
    BY TypesAt
  <1>h. \A b \in Caster : Busy(b) => held[b] \in DOMAIN log
    BY DEF TypeOK
  <1>1. ASSUME NEW b \in Caster, Prepare(b) PROVE Addressed'
    <2>1. PICK ch \in Channel, n \in Number :
            /\ n \notin DOMAIN log /\ DOMAIN log' = DOMAIN log \cup {n}
            /\ stray[n] = 0
            /\ \A m \in DOMAIN log : log'[m] = log[m]
            /\ log'[n] = [from |-> Home(b), channel |-> ch]
            /\ at'[b] = "enqueue" /\ on'[b] = ch /\ held'[b] = n
            /\ \A o \in Caster \ {b} :
                 at'[o] = at[o] /\ on'[o] = on[o] /\ held'[o] = held[o]
            /\ UNCHANGED <<linked, queue, stray, inbox>>
      BY <1>1, PrepareAt
    <2>2. \A o \in Caster :
            Busy(o)' => log'[held'[o]] = [from |-> Home(o), channel |-> on'[o]]
      BY <2>1, <1>h DEF Addressed, Busy
    <2>3. \A i \in Instance : Elements(queue[i]) \subseteq DOMAIN log
      BY <1>q, ElementsOf
    <2>4. \A i \in Instance, c \in Channel : Elements(inbox[i][c]) \subseteq DOMAIN log
      BY <1>q, ElementsOf
    <2>5. \A m \in DOMAIN log' : stray'[m] > 0 => log'[m].from \in linked'
      BY <2>1 DEF Addressed
    <2> QED
      BY <2>1, <2>2, <2>3, <2>4, <2>5 DEF Addressed
  <1>2. ASSUME NEW b \in Caster, PrepareFails(b) PROVE Addressed'
    BY <1>2, PrepareFailsAt DEF Addressed, Busy
  <1>3. ASSUME NEW b \in Caster, Enqueue(b) PROVE Addressed'
    <2>1. /\ Busy(b) /\ held[b] \in DOMAIN log /\ Home(b) \in Instance
          /\ queue'[Home(b)] = Append(queue[Home(b)], held[b])
          /\ \A j \in Instance \ {Home(b)} : queue'[j] = queue[j]
          /\ UNCHANGED <<linked, log, stray, inbox>>
      BY <1>3, EnqueueAt
    <2>2. \A o \in Caster :
            Busy(o)' => log'[held'[o]] = [from |-> Home(o), channel |-> on'[o]]
      BY <1>3, EnqueueAt DEF Addressed, Busy
    <2>3. Elements(queue'[Home(b)]) = Elements(queue[Home(b)]) \cup {held[b]}
      BY <2>1, <1>q, AppendElements
    <2>4. log[held[b]].from = Home(b)
      BY <2>1, CarriedFits
    <2>5. \A i \in Instance : \A n \in Elements(queue'[i]) : log[n].from = i
      BY <2>1, <2>3, <2>4 DEF Addressed
    <2>6. /\ \A n \in DOMAIN log : stray[n] > 0 => log[n].from \in linked
          /\ \A i \in Instance, ch \in Channel : \A n \in Elements(inbox[i][ch]) :
               i \in linked /\ log[n].from \in linked /\ log[n].channel = ch
      BY DEF Addressed
    <2> QED
      BY <2>1, <2>2, <2>5, <2>6 DEF Addressed
  <1>4. ASSUME NEW b \in Caster, PublishAnswered(b) PROVE Addressed'
    <2>1. /\ Busy(b) /\ held[b] \in DOMAIN log /\ Home(b) \in linked
          /\ UNCHANGED <<linked, log, queue, stray>>
      BY <1>4, AnsweredAt
    <2>2. \A o \in Caster :
            Busy(o)' => log'[held'[o]] = [from |-> Home(o), channel |-> on'[o]]
      BY <1>4, AnsweredAt DEF Addressed, Busy
    <2>3. log[held[b]].from \in linked
      BY <2>1, CarriedFits
    <2>4. PICK to \in SUBSET linked :
            \A i \in Instance, ch \in Channel :
              inbox'[i][ch] = IF i \in to /\ ch = log[held[b]].channel
                              THEN Append(inbox[i][ch], held[b])
                              ELSE inbox[i][ch]
      BY <1>4, AnsweredAt
    <2>5. \A i \in Instance, ch \in Channel : \A n \in Elements(inbox'[i][ch]) :
            i \in linked /\ log[n].from \in linked /\ log[n].channel = ch
      BY <2>1, <2>3, <2>4, PassedFits
    <2> QED
      BY <2>1, <2>2, <2>5 DEF Addressed
  <1>u. ASSUME NEW b \in Caster, PublishUnanswered(b) PROVE Addressed'
    <2>1. /\ Busy(b) /\ held[b] \in DOMAIN log /\ Home(b) \in linked
          /\ \A n \in Number : stray'[n] = IF n = held[b] THEN stray[n] + 1 ELSE stray[n]
          /\ UNCHANGED <<linked, log, queue, inbox>>
      BY <1>u, UnansweredAt
    <2>2. \A o \in Caster :
            Busy(o)' => log'[held'[o]] = [from |-> Home(o), channel |-> on'[o]]
      BY <1>u, UnansweredAt DEF Addressed, Busy
    <2>3. \A n \in DOMAIN log : stray'[n] > 0 => log[n].from \in linked
      <3>1. log[held[b]].from \in linked
        BY <2>1, CarriedFits
      <3> QED
        BY <2>1, <3>1, TypesAt DEF Addressed
    <2> QED
      BY <2>1, <2>2, <2>3 DEF Addressed
  <1>l. ASSUME NEW n \in Number, Late(n) PROVE Addressed'
    <2>1. /\ n \in DOMAIN log /\ stray[n] > 0 /\ stray[n] \in Nat
          /\ \A m \in Number : stray'[m] = IF m = n THEN stray[n] - 1 ELSE stray[m]
          /\ UNCHANGED <<linked, log, at, on, held, queue>>
      BY <1>l, LateAt, TypesAt
    <2>2. log[n].from \in linked
      BY <2>1 DEF Addressed
    <2>3. PICK to \in SUBSET linked :
            \A i \in Instance, ch \in Channel :
              inbox'[i][ch] = IF i \in to /\ ch = log[n].channel
                              THEN Append(inbox[i][ch], n)
                              ELSE inbox[i][ch]
      BY <1>l, LateAt
    <2>4. \A i \in Instance, ch \in Channel : \A m \in Elements(inbox'[i][ch]) :
            i \in linked /\ log[m].from \in linked /\ log[m].channel = ch
      BY <2>1, <2>2, <2>3, PassedFits
    <2>5. \A m \in DOMAIN log : stray'[m] > 0 => log[m].from \in linked
      BY <2>1, <2>2, TypesAt DEF Addressed
    <2>6. /\ \A o \in Caster :
               Busy(o)' => log[held[o]] = [from |-> Home(o), channel |-> on[o]]
          /\ \A i \in Instance : \A m \in Elements(queue[i]) : log[m].from = i
      BY <2>1 DEF Addressed, Busy
    <2> QED
      BY <2>1, <2>4, <2>5, <2>6 DEF Addressed
  <1>5. ASSUME NEW i \in Instance, Deliver(i) PROVE Addressed'
    <2>1. /\ queue'[i] = Tail(queue[i]) /\ queue[i] # <<>>
          /\ \A j \in Instance \ {i} : queue'[j] = queue[j]
          /\ UNCHANGED <<linked, log, at, on, held, stray, inbox>>
      BY <1>5, DeliverAt
    <2>2. Elements(queue'[i]) \subseteq Elements(queue[i])
      BY <2>1, <1>q, TailElements
    <2> QED
      BY <2>1, <2>2 DEF Addressed, Busy
  <1>6. ASSUME NEW i \in Instance, NEW ch \in Channel, Receive(i, ch)
        PROVE  Addressed'
    <2>1. /\ inbox[i][ch] # <<>>
          /\ \A j \in Instance, c \in Channel :
               inbox'[j][c] = IF j = i /\ c = ch THEN Tail(inbox[i][ch])
                              ELSE inbox[j][c]
          /\ UNCHANGED <<linked, log, at, on, held, queue, stray>>
      BY <1>6, ReceiveAt
    <2>2. \A j \in Instance, c \in Channel :
            Elements(inbox'[j][c]) \subseteq Elements(inbox[j][c])
      BY <2>1, <1>q, TailElements
    <2> QED
      BY <2>1, <2>2 DEF Addressed, Busy
  <1>7. CASE UNCHANGED vars
    BY <1>7 DEF vars, castVars, redisVars, Addressed, Busy
  <1> QED
    BY <1>1, <1>2, <1>3, <1>4, <1>u, <1>l, <1>5, <1>6, <1>7
    DEF Next, CastStep, Publish, Quiet

LEMMA StepSingle ==
  TypeOK /\ Bounded /\ Addressed /\ Single /\ [Next]_vars => Single'
  <1> SUFFICES ASSUME TypeOK, Bounded, Addressed, Single, [Next]_vars
               PROVE  Single'
    OBVIOUS
  <1>q. /\ \A i \in Instance : queue[i] \in Seq(DOMAIN log)
        /\ \A b \in Caster : Home(b) \in Instance
    BY TypesAt
  <1>e. \A i \in Instance : Elements(queue[i]) \subseteq DOMAIN log
    BY <1>q, ElementsOf
  <1>h. \A b \in Caster : Busy(b) => held[b] \in DOMAIN log /\ held[b] \in Number
    BY TypesAt DEF TypeOK
  <1>1. ASSUME NEW b \in Caster, Prepare(b) PROVE Single'
    <2>1. PICK ch \in Channel, n \in Number :
            /\ n \notin DOMAIN log
            /\ at'[b] = "enqueue" /\ held'[b] = n
            /\ \A o \in Caster \ {b} : at'[o] = at[o] /\ held'[o] = held[o]
            /\ UNCHANGED <<linked, queue, sent>>
      BY <1>1, PrepareAt
    <2>n. sent[n] = 0
      BY <2>1 DEF TypeOK
    <2>2. /\ \A o \in Caster \ {b} : Busy(o)' => held'[o] \in DOMAIN log
          /\ \A o, p \in Caster \ {b} :
               Busy(o)' /\ Busy(p)' /\ held'[o] = held'[p] => o = p
      BY <2>1, <1>h DEF Single, Busy
    <2>3. \A o, p \in Caster : Busy(o)' /\ Busy(p)' /\ held'[o] = held'[p] => o = p
      BY <2>1, <2>2
    <2>4. \A o \in Caster : at'[o] = "enqueue" =>
            held'[o] \notin Elements(queue[Home(o)]) /\ sent[held'[o]] = 0
      BY <2>1, <2>n, <1>e, <1>q DEF Single
    <2> QED
      BY <2>1, <2>3, <2>4 DEF Single
  <1>2. ASSUME NEW b \in Caster, PrepareFails(b) PROVE Single'
    BY <1>2, PrepareFailsAt DEF Single, Busy
  <1>3. ASSUME NEW b \in Caster, Enqueue(b) PROVE Single'
    <2>1. /\ at[b] = "enqueue" /\ Busy(b) /\ held[b] \in DOMAIN log
          /\ Home(b) \in Instance
          /\ queue'[Home(b)] = Append(queue[Home(b)], held[b])
          /\ \A j \in Instance \ {Home(b)} : queue'[j] = queue[j]
          /\ \A o \in Caster \ {b} : at'[o] = at[o] /\ held'[o] = held[o]
          /\ UNCHANGED <<linked, log, sent>>
      BY <1>3, EnqueueAt
    <2>2. /\ at'[b] # "enqueue"
          /\ Busy(b)' => held'[b] = held[b]
      BY <1>3, EnqueueAt DEF Busy
    <2>3. \A o \in Caster : Busy(o)' => Busy(o) /\ held'[o] = held[o]
      BY <2>1, <2>2 DEF Busy
    <2>4. held[b] \notin Elements(queue[Home(b)])
      BY <2>1 DEF Single
    <2>5. /\ Elements(queue'[Home(b)]) = Elements(queue[Home(b)]) \cup {held[b]}
          /\ NoRepeat(queue'[Home(b)])
      <3>1. NoRepeat(queue[Home(b)])
        BY <2>1 DEF Single
      <3> QED
        BY <2>1, <2>4, <3>1, <1>q, AppendElements
    <2>6. ASSUME NEW o \in Caster, at'[o] = "enqueue"
          PROVE  held'[o] \notin Elements(queue'[Home(o)]) /\ sent[held'[o]] = 0
      <3>1. o # b /\ at[o] = "enqueue" /\ held'[o] = held[o] /\ Busy(o)
        BY <2>1, <2>2, <2>6 DEF Busy
      <3>2. /\ held[o] # held[b] /\ held[o] \notin Elements(queue[Home(o)])
            /\ sent[held[o]] = 0
        BY <2>1, <3>1 DEF Single
      <3>3. CASE Home(o) = Home(b)
        BY <2>5, <3>1, <3>2, <3>3
      <3>4. CASE Home(o) # Home(b)
        BY <2>1, <3>1, <3>2, <3>4, <1>q
      <3> QED
        BY <3>3, <3>4
    <2>7. \A i \in Instance : NoRepeat(queue'[i])
      BY <2>1, <2>5 DEF Single
    <2>8. \A o, p \in Caster : Busy(o)' /\ Busy(p)' /\ held'[o] = held'[p] => o = p
      BY <2>3 DEF Single
    <2> QED
      BY <2>1, <2>6, <2>7, <2>8 DEF Single
  <1>4. ASSUME NEW b \in Caster, Publish(b) PROVE Single'
    <2>1. /\ at[b] = "publish" /\ Busy(b)
          /\ \A o \in Caster :
               \/ at'[o] = at[o] /\ held'[o] = held[o]
               \/ o = b /\ at'[b] \in {"off", "market"}
          /\ UNCHANGED <<log, queue>>
      BY <1>4, PublishAt
    <2>2. \A n \in Number : n # held[b] => sent'[n] = sent[n]
      BY <1>4, AnsweredAt, UnansweredAt DEF Publish
    <2>3. \A o \in Caster : Busy(o)' => at'[o] = at[o] /\ Busy(o) /\ held'[o] = held[o]
      BY <2>1 DEF Busy
    <2>4. ASSUME NEW o \in Caster, at'[o] = "enqueue"
          PROVE  held'[o] \notin Elements(queue[Home(o)]) /\ sent'[held'[o]] = 0
      <3>1. at[o] = "enqueue" /\ Busy(o) /\ held'[o] = held[o] /\ o # b
        BY <2>1, <2>4 DEF Busy
      <3>2. held[o] # held[b] /\ held[o] \in Number
        BY <2>1, <3>1, <1>h DEF Single
      <3> QED
        BY <2>2, <3>1, <3>2 DEF Single
    <2> QED
      BY <2>1, <2>3, <2>4 DEF Single
  <1>5. ASSUME NEW i \in Instance, Deliver(i) PROVE Single'
    <2>1. /\ queue'[i] = Tail(queue[i]) /\ queue[i] # <<>>
          /\ \A j \in Instance \ {i} : queue'[j] = queue[j]
          /\ UNCHANGED <<linked, log, at, on, held, sent>>
      BY <1>5, DeliverAt
    <2>2. \A j \in Instance : /\ Elements(queue'[j]) \subseteq Elements(queue[j])
                              /\ NoRepeat(queue'[j])
      BY <2>1, <1>q, TailElements DEF Single
    <2> QED
      BY <2>1, <2>2, <1>q DEF Single, Busy
  <1>6. ASSUME UNCHANGED <<at, held, queue, sent>> PROVE Single'
    BY <1>6 DEF Single, Busy
  <1> QED
    BY <1>1, <1>2, <1>3, <1>4, <1>5, <1>6, LateAt, ReceiveAt
    DEF Next, CastStep, Quiet, vars, castVars, redisVars

LEMMA StepShownFits ==
  TypeOK /\ Bounded /\ Addressed /\ ShownFits /\ [Next]_vars => ShownFits'
  <1> SUFFICES ASSUME TypeOK, Bounded, Addressed, ShownFits, [Next]_vars
               PROVE  ShownFits'
    OBVIOUS
  <1>1. ASSUME NEW b \in Caster, Prepare(b) PROVE ShownFits'
    <2>1. PICK ch \in Channel, n \in Number :
            /\ DOMAIN log' = DOMAIN log \cup {n}
            /\ \A m \in DOMAIN log : log'[m] = log[m]
            /\ UNCHANGED <<linked, shown>>
      BY <1>1, PrepareAt
    <2>2. \A i \in Instance : For(i) \subseteq DOMAIN log /\ For(i) \subseteq For(i)'
      BY <2>1 DEF For, Own
    <2> QED
      BY <2>1, <2>2 DEF ShownFits
  <1>2. ASSUME NEW i \in Instance, NEW n \in For(i), Offer(i, n),
               UNCHANGED <<linked, log>>
        PROVE  ShownFits'
    <2>1. n \in DOMAIN log
      BY DEF For, Own
    <2>2. \A j \in Instance, ch \in Channel :
            shown'[j][ch] = IF j = i /\ ch = log[n].channel THEN n ELSE shown[j][ch]
      BY <1>2, <2>1, OfferAt
    <2>3. \A j \in Instance : For(j)' = For(j)
      BY <1>2 DEF For, Own
    <2> QED
      BY <1>2, <2>2, <2>3 DEF ShownFits
  <1>3. ASSUME NEW i \in Instance, Deliver(i) PROVE ShownFits'
    <2>1. /\ queue[i] # <<>> /\ queue[i] \in Seq(DOMAIN log)
          /\ Head(queue[i]) \in DOMAIN log /\ Offer(i, Head(queue[i]))
          /\ UNCHANGED <<linked, log>>
      BY <1>3, DeliverAt
    <2>2. Head(queue[i]) \in Elements(queue[i])
      BY <2>1, TailElements
    <2>3. Head(queue[i]) \in For(i)
      BY <2>1, <2>2 DEF Addressed, For, Own
    <2> QED
      BY <1>2, <2>1, <2>3
  <1>4. ASSUME NEW i \in Instance, NEW ch \in Channel, Receive(i, ch)
        PROVE  ShownFits'
    <2>1. /\ inbox[i][ch] # <<>> /\ inbox[i][ch] \in Seq(DOMAIN log)
          /\ Head(inbox[i][ch]) \in DOMAIN log /\ Offer(i, Head(inbox[i][ch]))
          /\ UNCHANGED <<linked, log>>
      BY <1>4, ReceiveAt
    <2>2. Head(inbox[i][ch]) \in Elements(inbox[i][ch])
      BY <2>1, TailElements
    <2>3. Head(inbox[i][ch]) \in For(i)
      BY <2>1, <2>2 DEF Addressed, For
    <2> QED
      BY <1>2, <2>1, <2>3
  <1>5. CASE UNCHANGED <<linked, log, shown>>
    BY <1>5 DEF ShownFits, For, Own
  <1> QED
    BY <1>1, <1>3, <1>4, <1>5, PrepareFailsAt, EnqueueAt, PublishAt, LateAt
    DEF Next, CastStep, Quiet, vars, clientVars

-----------------------------------------------------------------------------
(***************************************************************************)
(* Copies.  The two ways of a message to the clients of an instance.        *)
(***************************************************************************)
InInbox(i, n) == Occ(inbox[i][log[n].channel], n)

LEMMA Amounts ==
  ASSUME TypeOK, Bounded, NEW i \in Instance, NEW n \in DOMAIN log
  PROVE  /\ n \in Number /\ log[n].channel \in Channel
         /\ copies[i][n] \in Nat /\ sent[n] \in Nat /\ stray[n] \in Nat
         /\ InInbox(i, n) \in Nat
  <1>1. /\ n \in Number /\ log[n].channel \in Channel
        /\ sent[n] \in Nat /\ stray[n] \in Nat
        /\ inbox[i][log[n].channel] \in Seq(DOMAIN log)
    BY TypesAt
  <1>2. copies[i][n] \in Nat
    BY <1>1 DEF TypeOK
  <1> QED
    BY <1>1, <1>2, PlacesFinite DEF InInbox

\* A step after which a message has not been offered more often than it was
\* sent more often, or has less to come.
LEMMA CountedStill ==
  ASSUME TypeOK, Bounded, Counted, UNCHANGED <<linked, log>>,
         \A i \in Instance, n \in Number : n \notin DOMAIN log => copies'[i][n] = 0,
         \A i \in Instance, n \in DOMAIN log :
           /\ copies'[i][n] \in Nat /\ One(ByQueue(i, n)') \in {0, 1}
           /\ stray'[n] \in Nat /\ InInbox(i, n)' \in Nat /\ sent'[n] \in Nat
           /\ IF Paired(i, n)
              THEN copies'[i][n] + One(ByQueue(i, n)') + stray'[n] + InInbox(i, n)' - sent'[n]
                     <= copies[i][n] + One(ByQueue(i, n)) + stray[n] + InInbox(i, n) - sent[n]
              ELSE copies'[i][n] + One(ByQueue(i, n)') <= copies[i][n] + One(ByQueue(i, n))
  PROVE  Counted'
  <1> SUFFICES ASSUME NEW i \in Instance, NEW n \in DOMAIN log
               PROVE  copies'[i][n] + One(ByQueue(i, n)') + ByRedis(i, n)' <= Limit(i, n)'
    BY DEF Counted, One
  <1>1. /\ copies'[i][n] \in Nat /\ One(ByQueue(i, n)') \in {0, 1}
        /\ stray'[n] \in Nat /\ InInbox(i, n)' \in Nat /\ sent'[n] \in Nat
        /\ IF Paired(i, n)
           THEN copies'[i][n] + One(ByQueue(i, n)') + stray'[n] + InInbox(i, n)' - sent'[n]
                  <= copies[i][n] + One(ByQueue(i, n)) + stray[n] + InInbox(i, n) - sent[n]
           ELSE copies'[i][n] + One(ByQueue(i, n)') <= copies[i][n] + One(ByQueue(i, n))
    OBVIOUS
  <1>2. /\ copies[i][n] \in Nat /\ sent[n] \in Nat /\ stray[n] \in Nat
        /\ InInbox(i, n) \in Nat
    BY Amounts
  <1>3. /\ One(ByQueue(i, n)) \in {0, 1} /\ One(log[n].from = i) \in {0, 1}
        /\ One(log[n].from = i)' = One(log[n].from = i)
        /\ Paired(i, n)' <=> Paired(i, n)
    BY DEF One, Paired
  <1>4. copies[i][n] + One(ByQueue(i, n)) + ByRedis(i, n) <= Limit(i, n)
    BY DEF Counted
  <1>5. CASE Paired(i, n)
    <2>1. ByRedis(i, n) = stray[n] + InInbox(i, n) /\ ByRedis(i, n)' = stray'[n] + InInbox(i, n)'
      BY <1>1, <1>3, <1>5 DEF ByRedis, InInbox
    <2>2. /\ Limit(i, n) = One(log[n].from = i) + sent[n]
          /\ Limit(i, n)' = One(log[n].from = i) + sent'[n]
      BY <1>1, <1>3, <1>5 DEF Limit
    <2> QED
      BY <1>1, <1>2, <1>3, <1>4, <1>5, <2>1, <2>2
  <1>6. CASE ~Paired(i, n)
    <2>1. ByRedis(i, n) = 0 /\ ByRedis(i, n)' = 0
      BY <1>3, <1>6 DEF ByRedis
    <2>2. /\ Limit(i, n) = One(log[n].from = i)
          /\ Limit(i, n)' = One(log[n].from = i)
      BY <1>3, <1>6 DEF Limit
    <2> QED
      BY <1>1, <1>2, <1>3, <1>4, <1>6, <2>1, <2>2
  <1> QED
    BY <1>5, <1>6

LEMMA PassedCounts ==
  ASSUME TypeOK, Bounded, NEW n \in DOMAIN log, NEW to \in SUBSET linked,
         log' = log,
         \A i \in Instance, ch \in Channel :
           inbox'[i][ch] = IF i \in to /\ ch = log[n].channel
                           THEN Append(inbox[i][ch], n)
                           ELSE inbox[i][ch]
  PROVE  \A i \in Instance, m \in DOMAIN log :
           /\ InInbox(i, m)' \in Nat
           /\ InInbox(i, m)' <= InInbox(i, m) + (IF m = n THEN 1 ELSE 0)
  <1> SUFFICES ASSUME NEW i \in Instance, NEW m \in DOMAIN log
               PROVE  /\ InInbox(i, m)' \in Nat
                      /\ InInbox(i, m)' <= InInbox(i, m) + (IF m = n THEN 1 ELSE 0)
    OBVIOUS
  <1>1. /\ inbox[i][log[m].channel] \in Seq(DOMAIN log)
        /\ log[m].channel \in Channel /\ InInbox(i, m) \in Nat
    BY Amounts, TypesAt
  <1>2. CASE inbox'[i][log[m].channel] = Append(inbox[i][log[m].channel], n)
    <2>1. InInbox(i, m)' = InInbox(i, m) + (IF m = n THEN 1 ELSE 0)
      BY <1>1, <1>2, OccAppend DEF InInbox
    <2> QED
      BY <1>1, <2>1
  <1>3. CASE inbox'[i][log[m].channel] = inbox[i][log[m].channel]
    <2>1. InInbox(i, m)' = InInbox(i, m)
      BY <1>3 DEF InInbox
    <2> QED
      BY <1>1, <2>1
  <1> QED
    BY <1>1, <1>2, <1>3

LEMMA StepCounted ==
  TypeOK /\ Bounded /\ Addressed /\ Single /\ Counted /\ [Next]_vars => Counted'
  <1> SUFFICES ASSUME TypeOK, Bounded, Addressed, Single, Counted, [Next]_vars
               PROVE  Counted'
    OBVIOUS
  <1>q. /\ \A i \in Instance : queue[i] \in Seq(DOMAIN log)
        /\ \A i \in Instance, ch \in Channel : inbox[i][ch] \in Seq(DOMAIN log)
        /\ \A n \in DOMAIN log : log[n].from \in Instance /\ log[n].channel \in Channel
    BY TypesAt
  <1>a. \A i \in Instance, n \in DOMAIN log :
          /\ n \in Number /\ One(ByQueue(i, n)) \in {0, 1}
          /\ copies[i][n] \in Nat /\ sent[n] \in Nat /\ stray[n] \in Nat
          /\ InInbox(i, n) \in Nat
    BY Amounts DEF One
  <1>z. \A i \in Instance, n \in Number : n \notin DOMAIN log => copies[i][n] = 0
    BY DEF Counted
  <1>1. ASSUME NEW b \in Caster, Prepare(b) PROVE Counted'
    <2>1. PICK ch \in Channel, n \in Number :
            /\ ~Busy(b) /\ n \notin DOMAIN log /\ DOMAIN log' = DOMAIN log \cup {n}
            /\ \A m \in DOMAIN log : log'[m] = log[m]
            /\ log'[n] = [from |-> Home(b), channel |-> ch]
            /\ at'[b] = "enqueue" /\ held'[b] = n
            /\ \A o \in Caster \ {b} : at'[o] = at[o] /\ held'[o] = held[o]
            /\ UNCHANGED <<linked, queue, sent, stray, inbox, copies>>
      BY <1>1, PrepareAt
    <2>2. \A m \in DOMAIN log : ToQueue(m)' <=> ToQueue(m)
      BY <2>1 DEF ToQueue, Busy
    <2>3. ASSUME NEW i \in Instance, NEW m \in DOMAIN log
          PROVE  copies'[i][m] + One(ByQueue(i, m)') + ByRedis(i, m)' <= Limit(i, m)'
      <3>1. ByQueue(i, m)' <=> ByQueue(i, m)
        BY <2>1, <2>2 DEF ByQueue
      <3>2. ByRedis(i, m)' = ByRedis(i, m) /\ Limit(i, m)' = Limit(i, m)
        BY <2>1 DEF ByRedis, Limit, Paired
      <3>3. copies[i][m] + One(ByQueue(i, m)) + ByRedis(i, m) <= Limit(i, m)
        BY DEF Counted
      <3> QED
        BY <2>1, <3>1, <3>2, <3>3 DEF One
    <2>4. ASSUME NEW i \in Instance
          PROVE  copies'[i][n] + One(ByQueue(i, n)') + ByRedis(i, n)' <= Limit(i, n)'
      <3>1. copies'[i][n] = 0
        BY <2>1 DEF Counted
      <3>2. n \notin Elements(inbox[i][ch])
        BY <2>1, <1>q, ElementsOf
      <3>3. Occ(inbox[i][ch], n) = 0
        BY <3>2, <1>q, OccNone
      <3>4. stray[n] = 0 /\ sent[n] = 0
        BY <2>1 DEF TypeOK
      <3>5. ByRedis(i, n)' = 0
        BY <2>1, <3>3, <3>4 DEF ByRedis
      <3>6. Limit(i, n)' = One((log[n].from = i)')
        BY <2>1, <3>4 DEF Limit, One
      <3>7. One(ByQueue(i, n)') <= One((log[n].from = i)')
        BY DEF ByQueue, One
      <3> QED
        BY <3>1, <3>5, <3>6, <3>7 DEF One
    <2>5. \A i \in Instance, m \in DOMAIN log' :
            copies'[i][m] + One(ByQueue(i, m)') + ByRedis(i, m)' <= Limit(i, m)'
      BY <2>1, <2>3, <2>4
    <2> QED
      BY <2>1, <2>5, <1>z DEF Counted, One
  <1>2. ASSUME UNCHANGED <<linked, log, sent, stray, inbox, copies>>,
               \A i \in Instance, n \in DOMAIN log : ByQueue(i, n)' <=> ByQueue(i, n)
        PROVE  Counted'
    BY <1>2 DEF Counted, One, ByRedis, Limit, Paired
  <1>3. ASSUME NEW b \in Caster, PrepareFails(b) PROVE Counted'
    <2>1. /\ ~Busy(b) /\ at'[b] = "off"
          /\ \A o \in Caster \ {b} : at'[o] = at[o] /\ held'[o] = held[o]
          /\ UNCHANGED <<linked, log, queue, sent, stray, inbox, copies>>
      BY <1>3, PrepareFailsAt
    <2>2. \A m : ToQueue(m)' <=> ToQueue(m)
      BY <2>1 DEF ToQueue, Busy
    <2> QED
      BY <1>2, <2>1, <2>2 DEF ByQueue
  <1>4. ASSUME NEW b \in Caster, Enqueue(b) PROVE Counted'
    <2>n. PICK n : n = held[b]
      OBVIOUS
    <2>1. /\ n = held[b] /\ at[b] = "enqueue" /\ Busy(b) /\ n \in DOMAIN log
          /\ Home(b) \in Instance /\ log[n].from = Home(b)
          /\ queue'[Home(b)] = Append(queue[Home(b)], n)
          /\ \A j \in Instance \ {Home(b)} : queue'[j] = queue[j]
          /\ \A o \in Caster \ {b} : at'[o] = at[o] /\ held'[o] = held[o]
          /\ at'[b] # "enqueue"
          /\ UNCHANGED <<linked, log, sent, stray, inbox, copies>>
      BY <1>4, <2>n, EnqueueAt, CarriedFits
    <2>2. Elements(queue'[Home(b)]) = Elements(queue[Home(b)]) \cup {n}
      BY <2>1, <1>q, AppendElements
    <2>3. ASSUME NEW i \in Instance, NEW m \in DOMAIN log
          PROVE  ByQueue(i, m)' <=> ByQueue(i, m)
      <3>1. CASE m # n
        <4>1. ToQueue(m)' <=> ToQueue(m)
          BY <2>1, <3>1 DEF ToQueue
        <4>2. m \in Elements(queue'[i]) <=> m \in Elements(queue[i])
          BY <2>1, <2>2, <3>1
        <4> QED
          BY <2>1, <4>1, <4>2 DEF ByQueue
      <3>2. CASE m = n
        <4>1. ToQueue(n) /\ n \in Elements(queue'[Home(b)])
          BY <2>1, <2>2 DEF ToQueue
        <4> QED
          BY <2>1, <3>2, <4>1 DEF ByQueue
      <3> QED
        BY <3>1, <3>2
    <2> QED
      BY <1>2, <2>1, <2>3
  <1>5. ASSUME NEW b \in Caster, Publish(b)
        PROVE  \A i \in Instance, n \in DOMAIN log : ByQueue(i, n)' <=> ByQueue(i, n)
    <2>1. /\ at[b] = "publish"
          /\ \A o \in Caster :
               \/ at'[o] = at[o] /\ held'[o] = held[o]
               \/ o = b /\ at'[b] \in {"off", "market"}
          /\ UNCHANGED <<log, queue>>
      BY <1>5, PublishAt
    <2>2. \A m : ToQueue(m)' <=> ToQueue(m)
      BY <2>1 DEF ToQueue
    <2> QED
      BY <2>1, <2>2 DEF ByQueue
  <1>6. ASSUME NEW b \in Caster, PublishAnswered(b) PROVE Counted'
    <2>1. /\ held[b] \in DOMAIN log
          /\ \A n \in Number : sent'[n] = IF n = held[b] THEN sent[n] + 1 ELSE sent[n]
          /\ UNCHANGED <<linked, log, stray, copies>>
      BY <1>6, AnsweredAt
    <2>2. \A i \in Instance, n \in DOMAIN log : ByQueue(i, n)' <=> ByQueue(i, n)
      BY <1>5, <1>6 DEF Publish
    <2>3. PICK to \in SUBSET linked :
            \A i \in Instance, ch \in Channel :
              inbox'[i][ch] = IF i \in to /\ ch = log[held[b]].channel
                              THEN Append(inbox[i][ch], held[b])
                              ELSE inbox[i][ch]
      BY <1>6, AnsweredAt
    <2>4. \A i \in Instance, n \in DOMAIN log :
            /\ InInbox(i, n)' \in Nat
            /\ InInbox(i, n)' <= InInbox(i, n) + (IF n = held[b] THEN 1 ELSE 0)
      BY <2>1, <2>3, PassedCounts
    <2>5. ASSUME NEW i \in Instance, NEW n \in DOMAIN log
          PROVE  /\ copies'[i][n] \in Nat /\ One(ByQueue(i, n)') \in {0, 1}
                 /\ stray'[n] \in Nat /\ InInbox(i, n)' \in Nat /\ sent'[n] \in Nat
                 /\ IF Paired(i, n)
                    THEN copies'[i][n] + One(ByQueue(i, n)') + stray'[n] + InInbox(i, n)' - sent'[n]
                           <= copies[i][n] + One(ByQueue(i, n)) + stray[n] + InInbox(i, n) - sent[n]
                    ELSE copies'[i][n] + One(ByQueue(i, n)') <= copies[i][n] + One(ByQueue(i, n))
      <3>1. One(ByQueue(i, n)') = One(ByQueue(i, n)) /\ sent'[n] \in Nat
        BY <2>1, <2>2, <1>a DEF One
      <3> QED
        BY <2>1, <2>4, <3>1, <1>a
    <2> QED
      BY <2>1, <2>5, <1>z, CountedStill
  <1>7. ASSUME NEW b \in Caster, PublishUnanswered(b) PROVE Counted'
    <2>1. /\ held[b] \in DOMAIN log
          /\ \A n \in Number :
               /\ sent'[n] = IF n = held[b] THEN sent[n] + 1 ELSE sent[n]
               /\ stray'[n] = IF n = held[b] THEN stray[n] + 1 ELSE stray[n]
          /\ UNCHANGED <<linked, log, inbox, copies>>
      BY <1>7, UnansweredAt
    <2>2. \A i \in Instance, n \in DOMAIN log : ByQueue(i, n)' <=> ByQueue(i, n)
      BY <1>5, <1>7 DEF Publish
    <2>3. ASSUME NEW i \in Instance, NEW n \in DOMAIN log
          PROVE  /\ copies'[i][n] \in Nat /\ One(ByQueue(i, n)') \in {0, 1}
                 /\ stray'[n] \in Nat /\ InInbox(i, n)' \in Nat /\ sent'[n] \in Nat
                 /\ IF Paired(i, n)
                    THEN copies'[i][n] + One(ByQueue(i, n)') + stray'[n] + InInbox(i, n)' - sent'[n]
                           <= copies[i][n] + One(ByQueue(i, n)) + stray[n] + InInbox(i, n) - sent[n]
                    ELSE copies'[i][n] + One(ByQueue(i, n)') <= copies[i][n] + One(ByQueue(i, n))
      <3>1. /\ One(ByQueue(i, n)') = One(ByQueue(i, n))
            /\ InInbox(i, n)' = InInbox(i, n)
            /\ sent'[n] \in Nat /\ stray'[n] \in Nat
            /\ stray'[n] - sent'[n] = stray[n] - sent[n]
        BY <2>1, <2>2, <1>a DEF One, InInbox
      <3> QED
        BY <2>1, <3>1, <1>a
    <2> QED
      BY <2>1, <2>3, <1>z, CountedStill
  <1>8. ASSUME NEW l \in Number, Late(l) PROVE Counted'
    <2>1. /\ l \in DOMAIN log /\ stray[l] > 0
          /\ \A n \in Number : stray'[n] = IF n = l THEN stray[l] - 1 ELSE stray[n]
          /\ UNCHANGED <<linked, log, at, on, held, queue, sent, copies>>
      BY <1>8, LateAt
    <2>2. \A i \in Instance, n \in DOMAIN log : ByQueue(i, n)' <=> ByQueue(i, n)
      BY <2>1 DEF ByQueue, ToQueue
    <2>3. PICK to \in SUBSET linked :
            \A i \in Instance, ch \in Channel :
              inbox'[i][ch] = IF i \in to /\ ch = log[l].channel
                              THEN Append(inbox[i][ch], l)
                              ELSE inbox[i][ch]
      BY <1>8, LateAt
    <2>4. \A i \in Instance, n \in DOMAIN log :
            /\ InInbox(i, n)' \in Nat
            /\ InInbox(i, n)' <= InInbox(i, n) + (IF n = l THEN 1 ELSE 0)
      BY <2>1, <2>3, PassedCounts
    <2>5. ASSUME NEW i \in Instance, NEW n \in DOMAIN log
          PROVE  /\ copies'[i][n] \in Nat /\ One(ByQueue(i, n)') \in {0, 1}
                 /\ stray'[n] \in Nat /\ InInbox(i, n)' \in Nat /\ sent'[n] \in Nat
                 /\ IF Paired(i, n)
                    THEN copies'[i][n] + One(ByQueue(i, n)') + stray'[n] + InInbox(i, n)' - sent'[n]
                           <= copies[i][n] + One(ByQueue(i, n)) + stray[n] + InInbox(i, n) - sent[n]
                    ELSE copies'[i][n] + One(ByQueue(i, n)') <= copies[i][n] + One(ByQueue(i, n))
      <3>1. One(ByQueue(i, n)') = One(ByQueue(i, n)) /\ stray'[n] \in Nat
        BY <2>1, <2>2, <1>a DEF One
      <3> QED
        BY <2>1, <2>4, <3>1, <1>a
    <2> QED
      BY <2>1, <2>5, <1>z, CountedStill
  <1>9. ASSUME NEW d \in Instance, Deliver(d) PROVE Counted'
    <2>n. PICK h : h = Head(queue[d])
      OBVIOUS
    <2>1. /\ h = Head(queue[d]) /\ h \in DOMAIN log
          /\ queue'[d] = Tail(queue[d]) /\ queue[d] # <<>>
          /\ \A j \in Instance \ {d} : queue'[j] = queue[j]
          /\ Offer(d, h)
          /\ UNCHANGED <<linked, log, at, on, held, sent, stray, inbox>>
      BY <1>9, <2>n, DeliverAt
    <2>2. /\ h \in Elements(queue[d])
          /\ Elements(queue[d]) = Elements(queue'[d]) \cup {h}
          /\ h \notin Elements(queue'[d])
      <3>1. NoRepeat(queue[d])
        BY DEF Single
      <3> QED
        BY <2>1, <3>1, <1>q, TailElements
    <2>3. log[h].from = d
      BY <2>2 DEF Addressed
    <2>4. \A m : ToQueue(m)' <=> ToQueue(m)
      BY <2>1 DEF ToQueue
    <2>5. ~ToQueue(h)
      <3> SUFFICES ASSUME NEW b \in Caster, at[b] = "enqueue", held[b] = h
                   PROVE  FALSE
        BY DEF ToQueue
      <3>1. Home(b) = d
        BY <2>3, CarriedFits DEF Busy
      <3> QED
        BY <2>2, <3>1 DEF Single
    <2>6. ByQueue(d, h) /\ ~ByQueue(d, h)'
      BY <2>1, <2>2, <2>3, <2>4, <2>5 DEF ByQueue
    <2>7. \A j \in Instance, m \in DOMAIN log :
            j # d \/ m # h => (ByQueue(j, m)' <=> ByQueue(j, m))
      BY <2>1, <2>2, <2>4 DEF ByQueue
    <2>8. \A j \in Instance, m \in Number :
            copies'[j][m] = IF j = d /\ m = h THEN copies[d][h] + 1 ELSE copies[j][m]
      BY <2>1, OfferAt
    <2>9. ASSUME NEW i \in Instance, NEW n \in DOMAIN log
          PROVE  /\ copies'[i][n] \in Nat /\ One(ByQueue(i, n)') \in {0, 1}
                 /\ stray'[n] \in Nat /\ InInbox(i, n)' \in Nat /\ sent'[n] \in Nat
                 /\ IF Paired(i, n)
                    THEN copies'[i][n] + One(ByQueue(i, n)') + stray'[n] + InInbox(i, n)' - sent'[n]
                           <= copies[i][n] + One(ByQueue(i, n)) + stray[n] + InInbox(i, n) - sent[n]
                    ELSE copies'[i][n] + One(ByQueue(i, n)') <= copies[i][n] + One(ByQueue(i, n))
      <3>1. /\ copies'[i][n] \in Nat /\ One(ByQueue(i, n)') \in {0, 1}
            /\ copies'[i][n] + One(ByQueue(i, n)') = copies[i][n] + One(ByQueue(i, n))
        BY <2>1, <2>6, <2>7, <2>8, <1>a DEF One
      <3>2. InInbox(i, n)' = InInbox(i, n)
        BY <2>1 DEF InInbox
      <3>3. sent'[n] = sent[n] /\ stray'[n] = stray[n]
        BY <2>1
      <3>4. /\ InInbox(i, n)' \in Nat /\ InInbox(i, n) \in Nat
            /\ sent[n] \in Nat /\ stray[n] \in Nat
        BY <3>2, <1>a
      <3>5. copies[i][n] \in Nat /\ One(ByQueue(i, n)) \in {0, 1}
        BY <1>a
      <3> QED
        BY <3>1, <3>2, <3>3, <3>4, <3>5
    <2> QED
      BY <2>1, <2>8, <2>9, <1>z, CountedStill
  <1>10. ASSUME NEW r \in Instance, NEW ch \in Channel, Receive(r, ch)
         PROVE  Counted'
    <2>n. PICK h : h = Head(inbox[r][ch])
      OBVIOUS
    <2>1. /\ h = Head(inbox[r][ch]) /\ inbox[r][ch] # <<>> /\ h \in DOMAIN log
          /\ \A j \in Instance, c \in Channel :
               inbox'[j][c] = IF j = r /\ c = ch THEN Tail(inbox[r][ch])
                              ELSE inbox[j][c]
          /\ Offer(r, h)
          /\ UNCHANGED <<linked, log, at, on, held, queue, sent, stray>>
      BY <1>10, <2>n, ReceiveAt
    <2>2. Paired(r, h) /\ log[h].channel = ch
      <3>1. h \in Elements(inbox[r][ch])
        BY <2>1, <1>q, TailElements
      <3> QED
        BY <3>1 DEF Addressed, Paired
    <2>3. \A i \in Instance, n \in DOMAIN log : ByQueue(i, n)' <=> ByQueue(i, n)
      BY <2>1 DEF ByQueue, ToQueue
    <2>4. ASSUME NEW i \in Instance, NEW n \in DOMAIN log
          PROVE  /\ InInbox(i, n)' \in Nat
                 /\ InInbox(i, n) = InInbox(i, n)'
                      + (IF i = r /\ n = h THEN 1 ELSE 0)
      <3>1. CASE i = r /\ log[n].channel = ch
        <4>1. /\ inbox'[i][ch] = Tail(inbox[r][ch]) /\ inbox[r][ch] \in Seq(DOMAIN log)
              /\ Tail(inbox[r][ch]) \in Seq(DOMAIN log)
          BY <2>1, <3>1, <1>q, TailElements
        <4>2. Occ(inbox[r][ch], n) = Occ(Tail(inbox[r][ch]), n) + (IF n = h THEN 1 ELSE 0)
          BY <2>1, <4>1, OccTail
        <4>3. Occ(Tail(inbox[r][ch]), n) \in Nat
          BY <4>1, PlacesFinite
        <4> QED
          BY <2>1, <3>1, <4>1, <4>2, <4>3 DEF InInbox
      <3>2. CASE ~(i = r /\ log[n].channel = ch)
        <4>1. inbox'[i][log[n].channel] = inbox[i][log[n].channel]
          BY <2>1, <3>2, <1>q
        <4>2. InInbox(i, n)' = InInbox(i, n)
          BY <2>1, <4>1 DEF InInbox
        <4> QED
          BY <2>2, <3>2, <4>2, <1>a
      <3> QED
        BY <3>1, <3>2
    <2>5. \A j \in Instance, m \in Number :
            copies'[j][m] = IF j = r /\ m = h THEN copies[r][h] + 1 ELSE copies[j][m]
      BY <2>1, OfferAt
    <2>6. ASSUME NEW i \in Instance, NEW n \in DOMAIN log
          PROVE  /\ copies'[i][n] \in Nat /\ One(ByQueue(i, n)') \in {0, 1}
                 /\ stray'[n] \in Nat /\ InInbox(i, n)' \in Nat /\ sent'[n] \in Nat
                 /\ IF Paired(i, n)
                    THEN copies'[i][n] + One(ByQueue(i, n)') + stray'[n] + InInbox(i, n)' - sent'[n]
                           <= copies[i][n] + One(ByQueue(i, n)) + stray[n] + InInbox(i, n) - sent[n]
                    ELSE copies'[i][n] + One(ByQueue(i, n)') <= copies[i][n] + One(ByQueue(i, n))
      <3>1. One(ByQueue(i, n)') = One(ByQueue(i, n))
        BY <2>3 DEF One
      <3>2. /\ copies'[i][n] \in Nat
            /\ copies'[i][n] = copies[i][n] + (IF i = r /\ n = h THEN 1 ELSE 0)
        BY <2>5, <1>a
      <3>3. /\ InInbox(i, n)' \in Nat
            /\ InInbox(i, n) = InInbox(i, n)' + (IF i = r /\ n = h THEN 1 ELSE 0)
        BY <2>4
      <3>4. ~Paired(i, n) => copies'[i][n] = copies[i][n]
        BY <2>2, <3>2, <1>a
      <3>5. sent'[n] = sent[n] /\ stray'[n] = stray[n]
        BY <2>1
      <3>6. sent[n] \in Nat /\ stray[n] \in Nat /\ One(ByQueue(i, n)) \in {0, 1}
        BY <1>a
      <3>7. copies[i][n] \in Nat
        BY <1>a
      <3> QED
        BY <3>1, <3>2, <3>3, <3>4, <3>5, <3>6, <3>7
    <2> QED
      BY <2>1, <2>5, <2>6, <1>z, CountedStill
  <1>11. CASE UNCHANGED vars
    BY <1>2, <1>11 DEF vars, castVars, redisVars, clientVars, ByQueue, ToQueue
  <1> QED
    BY <1>1, <1>3, <1>4, <1>6, <1>7, <1>8, <1>9, <1>10, <1>11
    DEF Next, CastStep, Publish, Quiet

LEMMA OfferedCounts ==
  ASSUME TypeOK, Bounded, NEW i \in Instance, NEW n \in DOMAIN log, Offer(i, n)
  PROVE  /\ copies'[i][n] > 0
         /\ \A j \in Instance, m \in Number :
              copies[j][m] > 0 => copies'[j][m] > 0
  <1>1. \A j \in Instance, m \in Number : copies[j][m] \in Nat
    BY DEF TypeOK
  <1>2. n \in Number
    BY TypesAt
  <1> QED
    BY <1>1, <1>2, OfferAt

LEMMA StepReached ==
  TypeOK /\ Bounded /\ Addressed /\ Reached /\ [Next]_vars => Reached'
  <1> SUFFICES ASSUME TypeOK, Bounded, Addressed, Reached, [Next]_vars, ~lost'
               PROVE  \A i \in Instance, n \in DOMAIN log' :
                        Paired(i, n)' => \/ ToRedis(n)' \/ copies'[i][n] > 0
                                         \/ n \in Elements(inbox[i][log[n].channel])'
    BY DEF Reached
  <1> DEFINE There(i, n) ==
        ToRedis(n) \/ copies[i][n] > 0 \/ n \in Elements(inbox[i][log[n].channel])
  <1>q. /\ \A i \in Instance, ch \in Channel : inbox[i][ch] \in Seq(DOMAIN log)
        /\ \A n \in DOMAIN log : n \in Number /\ log[n].channel \in Channel
    BY TypesAt
  <1>1. ASSUME NEW b \in Caster, Prepare(b)
        PROVE  \A i \in Instance, n \in DOMAIN log' : Paired(i, n)' => There(i, n)'
    <2>1. PICK n \in Number :
            /\ ~Busy(b) /\ DOMAIN log' = DOMAIN log \cup {n}
            /\ \A m \in DOMAIN log : log'[m] = log[m]
            /\ at'[b] = "enqueue" /\ held'[b] = n
            /\ \A o \in Caster \ {b} : at'[o] = at[o] /\ held'[o] = held[o]
            /\ UNCHANGED <<linked, inbox, copies, lost>>
      BY <1>1, PrepareAt
    <2>2. ToRedis(n)' /\ \A m : ToRedis(m) => ToRedis(m)'
      BY <2>1 DEF ToRedis, Busy
    <2>3. ASSUME NEW i \in Instance, NEW m \in DOMAIN log, Paired(i, m)'
          PROVE  There(i, m)'
      <3>1. Paired(i, m)
        BY <2>1, <2>3 DEF Paired
      <3>2. There(i, m)
        BY <2>1, <3>1 DEF Reached
      <3> QED
        BY <2>1, <2>2, <3>2
    <2> QED
      BY <2>1, <2>2, <2>3
  <1>2. ASSUME UNCHANGED <<linked, log>>, ~lost,
               \A i \in Instance, n \in DOMAIN log :
                 Paired(i, n) /\ There(i, n) => There(i, n)'
        PROVE  \A i \in Instance, n \in DOMAIN log' : Paired(i, n)' => There(i, n)'
    <2>1. \A i \in Instance, n \in DOMAIN log : Paired(i, n)' <=> Paired(i, n)
      BY <1>2 DEF Paired
    <2>2. \A i \in Instance, n \in DOMAIN log : Paired(i, n) => There(i, n)
      BY <1>2 DEF Reached
    <2> HIDE DEF There
    <2> QED
      BY <1>2, <2>1, <2>2
  <1>3. ASSUME NEW b \in Caster, PrepareFails(b)
        PROVE  \A i \in Instance, n \in DOMAIN log' : Paired(i, n)' => There(i, n)'
    <2>1. /\ ~Busy(b)
          /\ \A o \in Caster \ {b} : at'[o] = at[o] /\ held'[o] = held[o]
          /\ UNCHANGED <<linked, log, inbox, copies, lost>>
      BY <1>3, PrepareFailsAt
    <2>2. \A m : ToRedis(m) => ToRedis(m)'
      BY <2>1 DEF ToRedis, Busy
    <2> QED
      BY <1>2, <2>1, <2>2
  <1>4. ASSUME NEW b \in Caster, Enqueue(b)
        PROVE  \A i \in Instance, n \in DOMAIN log' : Paired(i, n)' => There(i, n)'
    <2>1. /\ Busy(b) /\ log[held[b]].from = Home(b)
          /\ Home(b) \in linked => at'[b] = "publish" /\ held'[b] = held[b]
          /\ \A o \in Caster \ {b} : at'[o] = at[o] /\ held'[o] = held[o]
          /\ UNCHANGED <<linked, log, inbox, copies, lost>>
      BY <1>4, EnqueueAt, CarriedFits
    <2>2. ASSUME NEW i \in Instance, NEW n \in DOMAIN log, Paired(i, n), ToRedis(n)
          PROVE  ToRedis(n)'
      <3>1. PICK o \in Caster : Busy(o) /\ held[o] = n
        BY <2>2 DEF ToRedis
      <3>2. CASE o = b
        BY <2>1, <2>2, <3>1, <3>2 DEF Paired, ToRedis, Busy
      <3>3. CASE o # b
        BY <2>1, <3>1, <3>3 DEF ToRedis, Busy
      <3> QED
        BY <3>2, <3>3
    <2> QED
      BY <1>2, <2>1, <2>2
  <1>5. ASSUME NEW p \in DOMAIN log, NEW to \in SUBSET linked,
               \A i \in Instance, ch \in Channel :
                 inbox'[i][ch] = IF i \in to /\ ch = log[p].channel
                                 THEN Append(inbox[i][ch], p)
                                 ELSE inbox[i][ch],
               log' = log
        PROVE  \A i \in Instance, n \in DOMAIN log :
                 /\ n \in Elements(inbox[i][log[n].channel])
                      => n \in Elements(inbox[i][log[n].channel])'
                 /\ n = p /\ i \in to => n \in Elements(inbox[i][log[n].channel])'
    <2> SUFFICES ASSUME NEW i \in Instance, NEW n \in DOMAIN log
                 PROVE  /\ n \in Elements(inbox[i][log[n].channel])
                             => n \in Elements(inbox[i][log[n].channel])'
                        /\ n = p /\ i \in to
                             => n \in Elements(inbox[i][log[n].channel])'
      OBVIOUS
    <2>1. /\ inbox[i][log[n].channel] \in Seq(DOMAIN log)
          /\ log[n].channel \in Channel
      BY <1>q
    <2>2. Elements(Append(inbox[i][log[n].channel], p))
            = Elements(inbox[i][log[n].channel]) \cup {p}
      BY <2>1, AppendElements
    <2>3. Elements(inbox[i][log[n].channel])' = Elements(inbox'[i][log[n].channel])
      BY <1>5 DEF Elements
    <2> QED
      BY <1>5, <2>1, <2>2, <2>3
  <1>6. ASSUME NEW b \in Caster, PublishAnswered(b)
        PROVE  \A i \in Instance, n \in DOMAIN log' : Paired(i, n)' => There(i, n)'
    <2>1. /\ Busy(b) /\ held[b] \in DOMAIN log
          /\ \A o \in Caster \ {b} : at'[o] = at[o] /\ held'[o] = held[o]
          /\ UNCHANGED <<linked, log, copies>>
      BY <1>6, AnsweredAt
    <2>2. PICK to \in SUBSET linked :
            /\ \A i \in Instance, ch \in Channel :
                 inbox'[i][ch] = IF i \in to /\ ch = log[held[b]].channel
                                 THEN Append(inbox[i][ch], held[b])
                                 ELSE inbox[i][ch]
            /\ ~lost' => ~lost /\ to = linked
      BY <1>6, AnsweredAt
    <2>3. \A m : ToRedis(m) => ToRedis(m)' \/ m = held[b]
      BY <2>1 DEF ToRedis, Busy
    <2>4. \A i \in Instance, n \in DOMAIN log :
            /\ n \in Elements(inbox[i][log[n].channel])
                 => n \in Elements(inbox[i][log[n].channel])'
            /\ n = held[b] /\ i \in to => n \in Elements(inbox[i][log[n].channel])'
      BY <2>1, <2>2, <1>5
    <2>5. \A i \in Instance, n \in DOMAIN log :
            Paired(i, n) /\ There(i, n) => There(i, n)'
      BY <2>1, <2>2, <2>3, <2>4 DEF Paired
    <2> QED
      BY <1>2, <2>1, <2>2, <2>5
  <1>7. ASSUME NEW b \in Caster, PublishUnanswered(b)
        PROVE  \A i \in Instance, n \in DOMAIN log' : Paired(i, n)' => There(i, n)'
    <2>1. ~lost /\ UNCHANGED <<at, held, linked, log, inbox, copies>>
      BY <1>7, UnansweredAt
    <2>2. \A m : ToRedis(m) => ToRedis(m)'
      BY <2>1 DEF ToRedis, Busy
    <2> QED
      BY <1>2, <2>1, <2>2
  <1>8. ASSUME NEW l \in Number, Late(l)
        PROVE  \A i \in Instance, n \in DOMAIN log' : Paired(i, n)' => There(i, n)'
    <2>1. l \in DOMAIN log /\ UNCHANGED <<at, held, linked, log, copies>>
      BY <1>8, LateAt
    <2>2. PICK to \in SUBSET linked :
            /\ \A i \in Instance, ch \in Channel :
                 inbox'[i][ch] = IF i \in to /\ ch = log[l].channel
                                 THEN Append(inbox[i][ch], l)
                                 ELSE inbox[i][ch]
            /\ ~lost' => ~lost /\ to \in {{}, linked}
      BY <1>8, LateAt
    <2>3. \A m : ToRedis(m) => ToRedis(m)'
      BY <2>1 DEF ToRedis, Busy
    <2>4. \A i \in Instance, n \in DOMAIN log :
            n \in Elements(inbox[i][log[n].channel])
              => n \in Elements(inbox[i][log[n].channel])'
      BY <2>1, <2>2, <1>5
    <2> QED
      BY <1>2, <2>1, <2>2, <2>3, <2>4
  <1>9. ASSUME NEW d \in Instance, Deliver(d)
        PROVE  \A i \in Instance, n \in DOMAIN log' : Paired(i, n)' => There(i, n)'
    <2>1. /\ Head(queue[d]) \in DOMAIN log /\ Offer(d, Head(queue[d]))
          /\ UNCHANGED <<at, held, linked, log, inbox, lost>>
      BY <1>9, DeliverAt
    <2>2. \A j \in Instance, m \in Number : copies[j][m] > 0 => copies'[j][m] > 0
      BY <2>1, OfferedCounts
    <2>3. \A m : ToRedis(m) => ToRedis(m)'
      BY <2>1 DEF ToRedis, Busy
    <2> QED
      BY <1>2, <1>q, <2>1, <2>2, <2>3
  <1>10. ASSUME NEW r \in Instance, NEW ch \in Channel, Receive(r, ch)
         PROVE  \A i \in Instance, n \in DOMAIN log' : Paired(i, n)' => There(i, n)'
    <2>n. PICK h : h = Head(inbox[r][ch])
      OBVIOUS
    <2>1. /\ h = Head(inbox[r][ch]) /\ h \in DOMAIN log /\ inbox[r][ch] # <<>>
          /\ \A j \in Instance, c \in Channel :
               inbox'[j][c] = IF j = r /\ c = ch THEN Tail(inbox[r][ch])
                              ELSE inbox[j][c]
          /\ Offer(r, h)
          /\ UNCHANGED <<at, held, linked, log, lost>>
      BY <1>10, <2>n, ReceiveAt
    <2>2. /\ copies'[r][h] > 0
          /\ \A j \in Instance, m \in Number : copies[j][m] > 0 => copies'[j][m] > 0
      BY <2>1, OfferedCounts
    <2>3. \A m : ToRedis(m) => ToRedis(m)'
      BY <2>1 DEF ToRedis, Busy
    <2>4. Elements(inbox[r][ch]) = Elements(Tail(inbox[r][ch])) \cup {h}
      BY <2>1, <1>q, TailElements
    <2>5. ASSUME NEW i \in Instance, NEW n \in DOMAIN log,
                 n \in Elements(inbox[i][log[n].channel])
          PROVE  There(i, n)'
      <3>1. CASE i = r /\ log[n].channel = ch
        <4>1. inbox'[i][log[n].channel] = Tail(inbox[r][ch])
          BY <2>1, <3>1
        <4>2. n = h \/ n \in Elements(inbox'[i][log[n].channel])
          BY <2>4, <2>5, <3>1, <4>1
        <4> QED
          BY <2>1, <2>2, <3>1, <4>2
      <3>2. CASE ~(i = r /\ log[n].channel = ch)
        <4>1. inbox'[i][log[n].channel] = inbox[i][log[n].channel]
          BY <2>1, <3>2, <1>q
        <4> QED
          BY <2>1, <2>5, <4>1
      <3> QED
        BY <3>1, <3>2
    <2>6. \A i \in Instance, n \in DOMAIN log :
            Paired(i, n) /\ There(i, n) => There(i, n)'
      BY <2>2, <2>3, <2>5, <1>q
    <2> QED
      BY <1>2, <2>1, <2>6
  <1>11. CASE UNCHANGED vars
    <2>1. UNCHANGED <<at, held, linked, log, inbox, copies, lost>>
      BY <1>11 DEF vars, castVars, redisVars, clientVars, historyVars
    <2>2. \A m : ToRedis(m) => ToRedis(m)'
      BY <2>1 DEF ToRedis, Busy
    <2> QED
      BY <1>2, <2>1, <2>2
  <1> QED
    BY <1>1, <1>3, <1>4, <1>6, <1>7, <1>8, <1>9, <1>10, <1>11
    DEF Next, CastStep, Publish, Quiet

LEMMA StepOwnKept ==
  TypeOK /\ Bounded /\ OwnKept /\ Addressed /\ [Next]_vars => OwnKept'
  <1> SUFFICES ASSUME TypeOK, Bounded, OwnKept, Addressed, [Next]_vars
               PROVE  OwnKept'
    OBVIOUS
  <1>q. /\ \A i \in Instance : queue[i] \in Seq(DOMAIN log)
        /\ \A i \in Instance : Own(i) \subseteq DOMAIN log
        /\ DOMAIN log \subseteq Number
    BY TypesAt DEF Own
  <1>1. ASSUME NEW b \in Caster, Prepare(b) PROVE OwnKept'
    <2>1. PICK ch \in Channel, n \in Number :
            /\ ~Busy(b) /\ DOMAIN log' = DOMAIN log \cup {n}
            /\ \A m \in DOMAIN log : log'[m] = log[m]
            /\ at'[b] = "enqueue" /\ held'[b] = n
            /\ \A o \in Caster \ {b} : at'[o] = at[o] /\ held'[o] = held[o]
            /\ UNCHANGED <<queue, copies>>
      BY <1>1, PrepareAt
    <2>2. ToQueue(n)' /\ \A m : ToQueue(m) => ToQueue(m)'
      BY <2>1 DEF ToQueue, Busy
    <2>3. \A i \in Instance : Own(i)' \subseteq Own(i) \cup {n}
      BY <2>1 DEF Own
    <2> QED
      BY <2>1, <2>2, <2>3 DEF OwnKept
  <1>2. ASSUME NEW b \in Caster, PrepareFails(b) PROVE OwnKept'
    <2>1. /\ ~Busy(b)
          /\ \A o \in Caster \ {b} : at'[o] = at[o] /\ held'[o] = held[o]
          /\ UNCHANGED <<log, queue, copies>>
      BY <1>2, PrepareFailsAt
    <2>2. \A m : ToQueue(m) => ToQueue(m)'
      BY <2>1 DEF ToQueue, Busy
    <2> QED
      BY <2>1, <2>2 DEF OwnKept, Own
  <1>3. ASSUME NEW b \in Caster, Enqueue(b) PROVE OwnKept'
    <2>1. /\ Busy(b) /\ held[b] \in DOMAIN log /\ Home(b) \in Instance
          /\ log[held[b]].from = Home(b)
          /\ queue'[Home(b)] = Append(queue[Home(b)], held[b])
          /\ \A j \in Instance \ {Home(b)} : queue'[j] = queue[j]
          /\ \A o \in Caster \ {b} : at'[o] = at[o] /\ held'[o] = held[o]
          /\ UNCHANGED <<log, copies>>
      BY <1>3, EnqueueAt, CarriedFits
    <2>2. Elements(queue'[Home(b)]) = Elements(queue[Home(b)]) \cup {held[b]}
      BY <2>1, <1>q, AppendElements
    <2>3. \A m : ToQueue(m) /\ m # held[b] => ToQueue(m)'
      BY <2>1 DEF ToQueue
    <2>4. ASSUME NEW i \in Instance, NEW n \in Own(i)
          PROVE  ToQueue(n)' \/ n \in Elements(queue'[i]) \/ copies[i][n] > 0
      <3>1. CASE n = held[b]
        <4>1. i = Home(b)
          BY <2>1, <2>4, <3>1 DEF Own
        <4> QED
          BY <2>2, <3>1, <4>1
      <3>2. CASE n # held[b]
        BY <2>1, <2>2, <2>3, <2>4, <3>2 DEF OwnKept
      <3> QED
        BY <3>1, <3>2
    <2> QED
      BY <2>1, <2>4 DEF OwnKept, Own
  <1>4. ASSUME NEW b \in Caster, Publish(b) PROVE OwnKept'
    <2>1. /\ at[b] = "publish"
          /\ \A o \in Caster :
               \/ at'[o] = at[o] /\ held'[o] = held[o]
               \/ o = b /\ at'[b] \in {"off", "market"}
          /\ UNCHANGED <<log, queue, copies>>
      BY <1>4, PublishAt
    <2>2. \A m : ToQueue(m) => ToQueue(m)'
      BY <2>1 DEF ToQueue
    <2> QED
      BY <2>1, <2>2 DEF OwnKept, Own
  <1>5. ASSUME NEW i \in Instance, Deliver(i) PROVE OwnKept'
    <2>n. PICK n : n = Head(queue[i])
      OBVIOUS
    <2>1. /\ n = Head(queue[i]) /\ n \in DOMAIN log /\ queue[i] # <<>>
          /\ queue'[i] = Tail(queue[i])
          /\ \A j \in Instance \ {i} : queue'[j] = queue[j]
          /\ Offer(i, n) /\ UNCHANGED <<log, at, held>>
      BY <1>5, <2>n, DeliverAt
    <2>2. Elements(queue[i]) = Elements(queue'[i]) \cup {n}
      BY <2>1, <1>q, TailElements
    <2>3. /\ copies'[i][n] > 0
          /\ \A j \in Instance, m \in Number : copies[j][m] > 0 => copies'[j][m] > 0
      BY <2>1, OfferedCounts
    <2>4. ASSUME NEW j \in Instance, NEW m \in Own(j)
          PROVE  ToQueue(m) \/ m \in Elements(queue'[j]) \/ copies'[j][m] > 0
      <3>1. m \in Number
        BY <1>q
      <3>2. ToQueue(m) \/ m \in Elements(queue[j]) \/ copies[j][m] > 0
        BY DEF OwnKept
      <3> QED
        BY <2>1, <2>2, <2>3, <3>1, <3>2
    <2> QED
      BY <2>1, <2>4 DEF OwnKept, Own, ToQueue
  <1>6. ASSUME NEW i \in Instance, NEW ch \in Channel, Receive(i, ch)
        PROVE  OwnKept'
    <2>1. /\ UNCHANGED <<log, at, held, queue>>
          /\ \A j \in Instance, m \in Number : copies[j][m] > 0 => copies'[j][m] > 0
      BY <1>6, OfferedCounts, ReceiveAt
    <2>2. \A j \in Instance : \A m \in Own(j) : m \in Number
      BY <1>q
    <2> QED
      BY <2>1, <2>2 DEF OwnKept, Own, ToQueue
  <1>7. ASSUME NEW n \in Number, Late(n) PROVE OwnKept'
    <2>1. UNCHANGED <<log, at, held, queue, copies>>
      BY <1>7, LateAt
    <2> QED
      BY <2>1 DEF OwnKept, Own, ToQueue
  <1>8. CASE UNCHANGED vars
    BY <1>8 DEF vars, castVars, clientVars, OwnKept, Own, ToQueue
  <1> QED
    BY <1>1, <1>2, <1>3, <1>4, <1>5, <1>6, <1>7, <1>8 DEF Next, CastStep, Quiet

-----------------------------------------------------------------------------
(***************************************************************************)
(* Order.                                                                   *)
(***************************************************************************)
LEMMA StepFresh ==
  TypeOK /\ Bounded /\ Addressed /\ Single /\ ShownFits /\ Fresh /\ [Next]_vars
    => Fresh'
  <1> SUFFICES ASSUME TypeOK, Bounded, Addressed, Single, ShownFits, Fresh,
                      [Next]_vars, ~raced'
               PROVE  /\ \A b \in Caster : (Busy(b) => Newest(on[b], held[b]))'
                      /\ \A n \in DOMAIN log' :
                           (stray[n] > 0 => Newest(log[n].channel, n))'
                      /\ \A i \in Instance \ linked' : Rising(i)' /\ Later(i)'
    BY DEF Fresh
  <1>q. /\ \A i \in Instance : queue[i] \in Seq(DOMAIN log)
        /\ DOMAIN log \subseteq Number /\ DOMAIN log \subseteq Nat \ {0}
        /\ \A n \in DOMAIN log : log[n].from \in Instance /\ log[n].channel \in Channel
        /\ \A i \in Instance, ch \in Channel : shown[i][ch] \in Nat
    <2>1. \A i \in Instance, ch \in Channel : shown[i][ch] \in 0 .. Len(log)
      BY DEF TypeOK
    <2> QED
      BY <2>1, TypesAt DEF Number
  <1>e. \A i \in Instance : \A k \in 1 .. Len(queue[i]) :
          queue[i][k] \in DOMAIN log /\ queue[i][k] \in Elements(queue[i])
    BY <1>q, ElementOfSeq DEF Elements
  <1>h. \A b \in Caster : Busy(b) => held[b] \in DOMAIN log
    BY DEF TypeOK
  <1> DEFINE Kept == /\ \A b \in Caster : (Busy(b) => Newest(on[b], held[b]))'
                     /\ \A n \in DOMAIN log' :
                          (stray[n] > 0 => Newest(log[n].channel, n))'
                     /\ \A i \in Instance \ linked' : Rising(i)' /\ Later(i)'
  <1>s. ASSUME log' = log, ~raced,
               \A n \in DOMAIN log :
                 stray'[n] > 0 => stray[n] > 0 \/ Newest(log[n].channel, n)
        PROVE  \A n \in DOMAIN log' : (stray[n] > 0 => Newest(log[n].channel, n))'
    BY <1>s DEF Fresh, Newest
  <1>1. ASSUME NEW b \in Caster, Prepare(b) PROVE Kept
    <2>1. PICK ch \in Channel, n \in Number :
            /\ ~Busy(b) /\ n \notin DOMAIN log /\ DOMAIN log' = DOMAIN log \cup {n}
            /\ \A m \in DOMAIN log : log'[m] = log[m] /\ m < n
            /\ log'[n] = [from |-> Home(b), channel |-> ch]
            /\ at'[b] = "enqueue" /\ on'[b] = ch /\ held'[b] = n
            /\ \A o \in Caster \ {b} :
                 at'[o] = at[o] /\ on'[o] = on[o] /\ held'[o] = held[o]
            /\ stray[n] = 0 /\ UNCHANGED <<linked, queue, stray, shown>>
      BY <1>1, PrepareAt
    <2>a. /\ ~raced /\ \A o \in Caster : Busy(o) => on[o] # ch
          /\ \A m \in DOMAIN log : stray[m] > 0 => log[m].channel # ch
      BY <1>1, <2>1, PreparedAlone
    <2>2. \A m \in DOMAIN log' : m <= n
      BY <2>1, <1>q DEF Number
    <2>3. ASSUME NEW o \in Caster, Busy(o)' PROVE Newest(on[o], held[o])'
      <3>1. CASE o = b
        BY <2>1, <2>2, <3>1 DEF Newest
      <3>2. CASE o # b
        <4>1. /\ Busy(o) /\ on'[o] = on[o] /\ held'[o] = held[o] /\ on[o] # ch
              /\ Newest(on[o], held[o])
          BY <2>1, <2>a, <2>3, <3>2 DEF Busy, Fresh
        <4> QED
          BY <2>1, <4>1 DEF Newest
      <3> QED
        BY <3>1, <3>2
    <2>b. ASSUME NEW m \in DOMAIN log', stray'[m] > 0
          PROVE  Newest(log[m].channel, m)'
      <3>1. m \in DOMAIN log
        BY <2>1, <2>b
      <3>2. Newest(log[m].channel, m) /\ log[m].channel # ch
        BY <2>1, <2>a, <2>b, <3>1 DEF Fresh
      <3> QED
        BY <2>1, <3>1, <3>2 DEF Newest
    <2>4. ASSUME NEW i \in Instance \ linked PROVE Rising(i)' /\ Later(i)'
      <3>1. Rising(i) /\ Later(i)
        BY <2>a DEF Fresh
      <3>2. Rising(i)'
        BY <2>1, <3>1, <1>e DEF Rising
      <3>3. \A m \in Elements(queue[i]) : m \in DOMAIN log
        BY <1>q, ElementsOf
      <3>4. ToQueue(n)' /\ \A m \in DOMAIN log : ToQueue(m) => ToQueue(m)'
        BY <2>1 DEF ToQueue, Busy
      <3>5. Own(i)' \subseteq Own(i) \cup {n} /\ Own(i) \subseteq DOMAIN log
        BY <2>1 DEF Own
      <3>6. Later(i)'
        BY <2>1, <3>1, <3>3, <3>4, <3>5 DEF Later
      <3> QED
        BY <3>2, <3>6
    <2> QED
      BY <2>1, <2>3, <2>b, <2>4
  <1>2. ASSUME NEW b \in Caster, PrepareFails(b) PROVE Kept
    <2>1. /\ ~Busy(b) /\ at'[b] = "off"
          /\ \A o \in Caster \ {b} :
               at'[o] = at[o] /\ on'[o] = on[o] /\ held'[o] = held[o]
          /\ UNCHANGED <<linked, log, queue, stray, shown, raced>>
      BY <1>2, PrepareFailsAt
    <2>2. \A n : ToQueue(n) => ToQueue(n)'
      BY <2>1 DEF ToQueue, Busy
    <2> QED
      BY <2>1, <2>2 DEF Fresh, Newest, Rising, Later, Own, Busy
  <1>3. ASSUME NEW b \in Caster, Enqueue(b) PROVE Kept
    <2>n. PICK n : n = held[b]
      OBVIOUS
    <2>1. /\ n = held[b] /\ at[b] = "enqueue" /\ Busy(b) /\ n \in DOMAIN log
          /\ Home(b) \in Instance
          /\ log[n].from = Home(b) /\ log[n].channel = on[b]
          /\ queue'[Home(b)] = Append(queue[Home(b)], n)
          /\ \A j \in Instance \ {Home(b)} : queue'[j] = queue[j]
          /\ \A o \in Caster \ {b} :
               at'[o] = at[o] /\ on'[o] = on[o] /\ held'[o] = held[o]
          /\ ~raced /\ UNCHANGED <<linked, log, stray, shown>>
      BY <1>3, <2>n, EnqueueAt, CarriedFits
    <2>2. Busy(b)' => on'[b] = on[b] /\ held'[b] = held[b]
      BY <1>3, EnqueueAt DEF Busy
    <2>3. ASSUME NEW o \in Caster, Busy(o)' PROVE Newest(on[o], held[o])'
      <3>1. Busy(o) /\ on'[o] = on[o] /\ held'[o] = held[o]
        BY <2>1, <2>2, <2>3 DEF Busy
      <3> QED
        BY <2>1, <3>1 DEF Fresh, Newest
    <2>4. Newest(on[b], n)
      BY <2>1 DEF Fresh
    <2>5. \A m : ToQueue(m) /\ m # n => ToQueue(m)'
      BY <2>1 DEF ToQueue
    <2>6. ASSUME NEW i \in Instance \ linked PROVE Rising(i)' /\ Later(i)'
      <3>1. Rising(i) /\ Later(i)
        BY <2>1 DEF Fresh
      <3>2. CASE i # Home(b)
        <4>1. queue'[i] = queue[i] /\ n \notin Own(i) /\ Own(i)' = Own(i)
          BY <2>1, <3>2 DEF Own
        <4> QED
          BY <2>1, <2>5, <3>1, <4>1 DEF Rising, Later
      <3>3. CASE i = Home(b)
        <4>1. /\ queue'[i] = Append(queue[i], n) /\ Len(queue[i]) \in Nat
              /\ Len(queue'[i]) = Len(queue[i]) + 1
              /\ queue'[i][Len(queue[i]) + 1] = n
              /\ \A k \in 1 .. Len(queue[i]) : queue'[i][k] = queue[i][k]
              /\ Elements(queue'[i]) = Elements(queue[i]) \cup {n}
          <5>1. queue'[i] = Append(queue[i], n) /\ queue[i] \in Seq(DOMAIN log)
            BY <2>1, <3>3, <1>q
          <5>2. Len(queue[i]) \in Nat
            BY <5>1, LenProperties
          <5> QED
            BY <2>1, <5>1, <5>2, AppendElements
        <4>2. \A k \in 1 .. Len(queue[i]) :
                log[queue[i][k]].channel = on[b] => queue[i][k] < n
          <5>1. n \notin Elements(queue[i])
            BY <2>1, <3>3 DEF Single
          <5> QED
            BY <2>1, <2>4, <5>1, <1>e, <1>q DEF Newest
        <4>3. ASSUME NEW j \in 1 .. Len(queue'[i]), NEW k \in 1 .. Len(queue'[i]),
                     j < k, log[queue'[i][j]].channel = log[queue'[i][k]].channel
              PROVE  queue'[i][j] < queue'[i][k]
          <5>1. j \in 1 .. Len(queue[i])
            BY <4>1, <4>3
          <5>2. CASE k = Len(queue[i]) + 1
            BY <2>1, <4>1, <4>2, <4>3, <5>1, <5>2
          <5>3. CASE k # Len(queue[i]) + 1
            <6>1. k \in 1 .. Len(queue[i])
              BY <4>1, <5>3
            <6> QED
              BY <3>1, <4>1, <4>3, <5>1, <6>1 DEF Rising
          <5> QED
            BY <5>2, <5>3
        <4>4. shown[i][on[b]] <= n
          <5>1. CASE shown[i][on[b]] = 0
            BY <2>1, <5>1, <1>q
          <5>2. CASE shown[i][on[b]] # 0
            <6>1. on[b] \in Channel
              BY <2>1, <1>q
            <6>2. /\ shown[i][on[b]] \in DOMAIN log
                  /\ log[shown[i][on[b]]].channel = on[b]
              BY <5>2, <6>1 DEF ShownFits, For, Own
            <6> QED
              BY <2>4, <6>2 DEF Newest
          <5> QED
            BY <5>1, <5>2
        <4>5. \A m \in Elements(queue'[i]) : shown[i][log[m].channel] <= m
          BY <2>1, <3>1, <4>1, <4>4 DEF Later
        <4>6. \A m \in Own(i) :
                \/ ToQueue(m)' \/ m \in Elements(queue'[i])
                \/ m <= shown[i][log[m].channel]
          BY <2>5, <3>1, <4>1 DEF Later
        <4>7. Own(i)' = Own(i)
          BY <2>1 DEF Own
        <4>8. Later(i)'
          BY <2>1, <4>5, <4>6, <4>7 DEF Later
        <4> QED
          BY <2>1, <4>3, <4>8 DEF Rising
      <3> QED
        BY <3>2, <3>3
    <2> QED
      BY <2>1, <2>3, <2>6, <1>s
  <1>4. ASSUME NEW b \in Caster, Publish(b) PROVE Kept
    <2>1. /\ Busy(b) /\ at[b] = "publish"
          /\ \A o \in Caster :
               \/ at'[o] = at[o] /\ on'[o] = on[o] /\ held'[o] = held[o]
               \/ o = b /\ at'[b] \in {"off", "market"}
          /\ UNCHANGED <<linked, log, queue, shown, raced>>
      BY <1>4, PublishAt
    <2>2. \A n : ToQueue(n) => ToQueue(n)'
      BY <2>1 DEF ToQueue
    <2>3. \A o \in Caster : (Busy(o) => Newest(on[o], held[o]))'
      BY <2>1 DEF Fresh, Newest, Busy
    <2>4. \A i \in Instance \ linked' : Rising(i)' /\ Later(i)'
      BY <2>1, <2>2 DEF Fresh, Rising, Later, Own
    <2>5. \A n \in DOMAIN log :
            stray'[n] > 0 => stray[n] > 0 \/ Newest(log[n].channel, n)
      <3>1. CASE PublishAnswered(b)
        BY <3>1, AnsweredAt
      <3>2. CASE PublishUnanswered(b)
        <4>1. \A n \in Number :
                stray'[n] = IF n = held[b] THEN stray[n] + 1 ELSE stray[n]
          BY <3>2, UnansweredAt
        <4>2. Newest(log[held[b]].channel, held[b])
          <5>1. log[held[b]].channel = on[b]
            BY <2>1, CarriedFits
          <5> QED
            BY <2>1, <5>1 DEF Fresh
        <4> QED
          BY <4>1, <4>2, <1>q
      <3> QED
        BY <1>4, <3>1, <3>2 DEF Publish
    <2> QED
      BY <2>1, <2>3, <2>4, <2>5, <1>s
  <1>5. ASSUME NEW i \in Instance, Deliver(i) PROVE Kept
    <2>n. PICK n : n = Head(queue[i])
      OBVIOUS
    <2>1. /\ n = Head(queue[i]) /\ n \in DOMAIN log
          /\ queue'[i] = Tail(queue[i]) /\ queue[i] # <<>>
          /\ \A j \in Instance \ {i} : queue'[j] = queue[j]
          /\ ~raced /\ UNCHANGED <<linked, log, at, on, held, stray>>
      BY <1>5, <2>n, DeliverAt
    <2>2. \A j \in Instance, ch \in Channel :
            shown'[j][ch] = IF j = i /\ ch = log[n].channel THEN n ELSE shown[j][ch]
      BY <1>5, <2>n, DeliverAt, OfferAt
    <2>3. \A j \in Instance : Own(j)' = Own(j) /\ Own(j) \subseteq DOMAIN log
      BY <2>1 DEF Own
    <2>4. \A m : ToQueue(m)' <=> ToQueue(m)
      BY <2>1 DEF ToQueue
    <2>5. \A o \in Caster : (Busy(o) => Newest(on[o], held[o]))'
      BY <2>1 DEF Fresh, Newest, Busy
    <2>6. ASSUME NEW j \in Instance \ linked PROVE Rising(j)' /\ Later(j)'
      <3>1. Rising(j) /\ Later(j)
        BY <2>1 DEF Fresh
      <3>2. CASE j # i
        <4>1. /\ queue'[j] = queue[j]
              /\ \A ch \in Channel : shown'[j][ch] = shown[j][ch]
          BY <2>1, <2>2, <3>2
        <4>2. Elements(queue[j]) \subseteq DOMAIN log
          BY <1>q, ElementsOf
        <4>3. Rising(j)'
          BY <2>1, <3>1, <4>1 DEF Rising
        <4> QED
          BY <2>1, <2>3, <2>4, <3>1, <4>1, <4>2, <4>3, <1>q DEF Later
      <3>3. CASE j = i
        <4>1. /\ Len(queue'[i]) = Len(queue[i]) - 1 /\ Len(queue[i]) \in Nat \ {0}
              /\ \A k \in 1 .. Len(queue'[i]) : queue'[i][k] = queue[i][k + 1]
              /\ n = queue[i][1]
              /\ Elements(queue[i]) = Elements(queue'[i]) \cup {n}
              /\ Elements(queue[i]) \subseteq DOMAIN log
          BY <2>1, <1>q, TailElements, ElementsOf
        <4>2. ASSUME NEW k \in 1 .. Len(queue'[i]), NEW l \in 1 .. Len(queue'[i]),
                     k < l, log[queue'[i][k]].channel = log[queue'[i][l]].channel
              PROVE  queue'[i][k] < queue'[i][l]
          <5>q. /\ Len(queue'[i]) = Len(queue[i]) - 1 /\ Len(queue[i]) \in Nat \ {0}
                /\ k \in 1 .. Len(queue'[i]) /\ l \in 1 .. Len(queue'[i]) /\ k < l
            BY <4>1, <4>2
          <5>1. /\ k + 1 \in 1 .. Len(queue[i]) /\ l + 1 \in 1 .. Len(queue[i])
                /\ k + 1 < l + 1
            BY <5>q
          <5>2. queue'[i][k] = queue[i][k + 1] /\ queue'[i][l] = queue[i][l + 1]
            BY <4>1
          <5> QED
            BY <3>1, <3>3, <4>2, <5>1, <5>2 DEF Rising
        <4>3. ASSUME NEW m \in Elements(queue'[i]), log[m].channel = log[n].channel
              PROVE  n < m
          <5>1. PICK k \in 1 .. Len(queue'[i]) : m = queue'[i][k]
            BY DEF Elements
          <5>2. /\ k + 1 \in 1 .. Len(queue[i]) /\ 1 \in 1 .. Len(queue[i])
                /\ 1 < k + 1 /\ m = queue[i][k + 1]
            BY <4>1, <5>1
          <5> QED
            BY <3>1, <3>3, <4>1, <4>3, <5>2 DEF Rising
        <4>4. \A m \in Elements(queue'[i]) : shown'[i][log[m].channel] <= m
          <5> SUFFICES ASSUME NEW m \in Elements(queue'[i])
                       PROVE  shown'[i][log[m].channel] <= m
            OBVIOUS
          <5>1. m \in Elements(queue[i]) /\ log[m].channel \in Channel
            BY <4>1, <1>q
          <5>2. n \in Nat /\ m \in Nat
            BY <2>1, <4>1, <5>1, <1>q
          <5>3. CASE log[m].channel = log[n].channel
            BY <2>2, <4>3, <5>1, <5>2, <5>3
          <5>4. CASE log[m].channel # log[n].channel
            BY <2>2, <3>1, <3>3, <5>1, <5>4 DEF Later
          <5> QED
            BY <5>3, <5>4
        <4>5. ASSUME NEW m \in Own(i)
              PROVE  \/ ToQueue(m) \/ m \in Elements(queue'[i])
                     \/ m <= shown'[i][log[m].channel]
          <5>1. /\ log[m].channel \in Channel /\ m \in Nat /\ n \in Nat
                /\ shown[i][log[m].channel] \in Nat
            BY <2>1, <2>3, <1>q
          <5>2. \/ ToQueue(m) \/ m \in Elements(queue[i])
                \/ m <= shown[i][log[m].channel]
            BY <3>1, <3>3 DEF Later
          <5>3. shown[i][log[n].channel] <= n
            BY <3>1, <3>3, <4>1 DEF Later
          <5>4. CASE log[m].channel = log[n].channel
            <6>1. shown'[i][log[m].channel] = n
              BY <2>2, <5>1, <5>4
            <6> QED
              BY <4>1, <5>1, <5>2, <5>3, <5>4, <6>1
          <5>5. CASE log[m].channel # log[n].channel
            BY <2>2, <4>1, <5>1, <5>2, <5>5
          <5> QED
            BY <5>4, <5>5
        <4>6. Later(i)'
          BY <2>1, <2>3, <2>4, <4>4, <4>5 DEF Later
        <4> QED
          BY <2>1, <3>3, <4>2, <4>6 DEF Rising
      <3> QED
        BY <3>2, <3>3
    <2> QED
      BY <2>1, <2>5, <2>6, <1>s
  <1>6. ASSUME NEW i \in Instance, NEW ch \in Channel, Receive(i, ch)
        PROVE  Kept
    <2>n. PICK n : n = Head(inbox[i][ch])
      OBVIOUS
    <2>1. /\ n \in Elements(inbox[i][ch]) /\ n \in DOMAIN log
          /\ \A j \in Instance, c \in Channel :
               shown'[j][c] = IF j = i /\ c = log[n].channel THEN n ELSE shown[j][c]
          /\ UNCHANGED <<linked, log, at, on, held, queue, stray, raced>>
      BY <1>6, <2>n, ReceiveAt, OfferAt, TailElements
    <2>2. i \in linked
      BY <2>1 DEF Addressed
    <2>3. \A j \in Instance \ linked, c \in Channel : shown'[j][c] = shown[j][c]
      BY <2>1, <2>2
    <2>4. /\ \A m : ToQueue(m)' <=> ToQueue(m)
          /\ \A o \in Caster : (Busy(o) => Newest(on[o], held[o]))'
          /\ ~raced
      BY <2>1 DEF ToQueue, Fresh, Newest, Busy
    <2>5. ASSUME NEW j \in Instance \ linked PROVE Rising(j)' /\ Later(j)'
      <3>1. Rising(j) /\ Later(j)
        BY <2>4 DEF Fresh
      <3>2. Elements(queue[j]) \subseteq DOMAIN log /\ Own(j) \subseteq DOMAIN log
        BY <1>q, ElementsOf DEF Own
      <3>3. Own(j)' = Own(j)
        BY <2>1 DEF Own
      <3>4. Rising(j)'
        BY <2>1, <3>1 DEF Rising
      <3>5. \A m \in DOMAIN log : shown'[j][log[m].channel] = shown[j][log[m].channel]
        BY <2>3, <1>q
      <3>6. Later(j)'
        BY <2>1, <2>4, <3>1, <3>2, <3>3, <3>5 DEF Later
      <3> QED
        BY <3>4, <3>6
    <2> QED
      BY <2>1, <2>4, <2>5, <1>s
  <1>7. ASSUME NEW l \in Number, Late(l) PROVE Kept
    <2>1. /\ \A n \in Number : stray'[n] = IF n = l THEN stray[l] - 1 ELSE stray[n]
          /\ stray[l] > 0
          /\ UNCHANGED <<linked, log, at, on, held, queue, shown, raced>>
      BY <1>7, LateAt
    <2>2. \A n \in DOMAIN log : stray'[n] > 0 => stray[n] > 0
      BY <2>1, <1>q
    <2>3. /\ \A o \in Caster : (Busy(o) => Newest(on[o], held[o]))'
          /\ \A i \in Instance \ linked' : Rising(i)' /\ Later(i)'
      BY <2>1 DEF Fresh, Newest, Rising, Later, Own, ToQueue, Busy
    <2> QED
      BY <2>1, <2>2, <2>3, <1>s
  <1>8. CASE UNCHANGED vars
    BY <1>8
    DEF vars, castVars, redisVars, clientVars, historyVars, Fresh, Newest, Rising,
        Later, Own, ToQueue, Busy
  <1> QED
    BY <1>1, <1>2, <1>3, <1>4, <1>5, <1>6, <1>7, <1>8 DEF Next, CastStep, Quiet

LEMMA StepOrdered ==
  /\ TypeOK /\ Bounded /\ Addressed /\ Single /\ Reached /\ ShownFits /\ Fresh
  /\ Ordered /\ [Next]_vars
  => Ordered'
  <1> SUFFICES ASSUME TypeOK, Bounded, Addressed, Single, Reached, ShownFits,
                      Fresh, Ordered, [Next]_vars, ~lost', ~lagged',
                      NEW ch \in Channel
               PROVE  \E p \in 0 .. Len(log') :
                        LastPassed(ch, p)' /\ (~raced' => Passed(ch, p)')
    BY DEF Ordered
  <1> DEFINE Kept == \E p \in 0 .. Len(log') :
                       LastPassed(ch, p)' /\ (~raced' => Passed(ch, p)')
  <1>q. /\ \A i \in Instance : queue[i] \in Seq(DOMAIN log)
        /\ \A i \in Instance, c \in Channel : inbox[i][c] \in Seq(DOMAIN log)
        /\ \A n \in DOMAIN log : log[n].from \in Instance /\ log[n].channel \in Channel
        /\ DOMAIN log = 1 .. Len(log) /\ Len(log) \in Nat
        /\ linked \subseteq Instance
    BY TypesAt DEF TypeOK
  <1>h. \A b \in Caster : Busy(b) => held[b] \in DOMAIN log
    BY DEF TypeOK
  <1>p. ASSUME ~lost, ~lagged
        PROVE  \E p \in 0 .. Len(log) : LastPassed(ch, p) /\ (~raced => Passed(ch, p))
    BY <1>p DEF Ordered
  <1>1. ASSUME NEW b \in Caster, Prepare(b) PROVE Kept
    <2>1. PICK c \in Channel, n \in Number :
            /\ ~Busy(b) /\ n = Len(log) + 1 /\ Len(log') = n /\ n \notin DOMAIN log
            /\ DOMAIN log' = DOMAIN log \cup {n}
            /\ \A m \in DOMAIN log : log'[m] = log[m]
            /\ at'[b] = "enqueue" /\ held'[b] = n
            /\ \A o \in Caster \ {b} : at'[o] = at[o] /\ held'[o] = held[o]
            /\ UNCHANGED <<linked, inbox, shown, lost, lagged>>
      BY <1>1, PrepareAt
    <2>a. ~raced' => ~raced
      BY <1>1, PreparedAlone
    <2>2. PICK p \in 0 .. Len(log) : LastPassed(ch, p) /\ (~raced => Passed(ch, p))
      BY <2>1, <1>p
    <2>3. p \in 0 .. Len(log')
      BY <2>1, <1>q
    <2>4. \A o \in Caster : at[o] = "publish" => at'[o] = "publish" /\ held'[o] = held[o]
      BY <2>1 DEF Busy
    <2>5. LastPassed(ch, p)'
      BY <2>1, <2>2, <2>4 DEF LastPassed
    <2>6. ToRedis(n)' /\ \A m : ToRedis(m) => ToRedis(m)'
      BY <2>1 DEF ToRedis, Busy
    <2>7. Passed(ch, p) => Passed(ch, p)'
      BY <2>1, <2>6 DEF Passed
    <2> QED
      BY <2>1, <2>a, <2>2, <2>3, <2>5, <2>7
  <1>2. ASSUME NEW b \in Caster, PrepareFails(b) PROVE Kept
    <2>1. /\ ~Busy(b) /\ at'[b] = "off"
          /\ \A o \in Caster \ {b} : at'[o] = at[o] /\ held'[o] = held[o]
          /\ UNCHANGED <<linked, log, inbox, shown, lost, lagged, raced>>
      BY <1>2, PrepareFailsAt
    <2>2. PICK p \in 0 .. Len(log) : LastPassed(ch, p) /\ (~raced => Passed(ch, p))
      BY <2>1, <1>p
    <2>3. \A o \in Caster : at[o] = "publish" => at'[o] = "publish" /\ held'[o] = held[o]
      BY <2>1 DEF Busy
    <2>4. LastPassed(ch, p)'
      BY <2>1, <2>2, <2>3 DEF LastPassed
    <2>5. \A m : ToRedis(m) => ToRedis(m)'
      BY <2>1 DEF ToRedis, Busy
    <2>6. Passed(ch, p) => Passed(ch, p)'
      BY <2>1, <2>5 DEF Passed
    <2> QED
      BY <2>1, <2>2, <2>4, <2>6
  <1>3. ASSUME NEW b \in Caster, Enqueue(b) PROVE Kept
    <2>1. /\ at[b] = "enqueue" /\ Busy(b) /\ log[held[b]].from = Home(b)
          /\ \A o \in Caster \ {b} : at'[o] = at[o] /\ held'[o] = held[o]
          /\ UNCHANGED <<linked, log, inbox, shown, lost, lagged, raced>>
      BY <1>3, EnqueueAt, CarriedFits
    <2>2. Home(b) \in linked => at'[b] = "publish" /\ held'[b] = held[b]
      BY <1>3, EnqueueAt
    <2>3. PICK p \in 0 .. Len(log) : LastPassed(ch, p) /\ (~raced => Passed(ch, p))
      BY <2>1, <1>p
    <2>4. \A o \in Caster : at[o] = "publish" => at'[o] = "publish" /\ held'[o] = held[o]
      BY <2>1
    <2>5. LastPassed(ch, p)'
      BY <2>1, <2>3, <2>4 DEF LastPassed
    <2>6. \A m : log[m].from \in linked /\ ToRedis(m) => ToRedis(m)'
      BY <2>1, <2>2 DEF ToRedis, Busy
    <2>7. Passed(ch, p) => Passed(ch, p)'
      BY <2>1, <2>6 DEF Passed
    <2> QED
      BY <2>1, <2>3, <2>5, <2>7
  <1>n. ASSUME NEW n \in DOMAIN log, n # 0, log[n].channel = ch,
               \A i \in linked : inbox'[i][ch] = Append(inbox[i][ch], n),
               ~raced' => Newest(ch, n),
               UNCHANGED <<linked, log>>
        PROVE  Kept
    <2>1. ASSUME NEW i \in linked
          PROVE  inbox'[i][ch] # <<>> /\ inbox'[i][ch][Len(inbox'[i][ch])] = n
      <3>1. inbox'[i][ch] = Append(inbox[i][ch], n) /\ inbox[i][ch] \in Seq(DOMAIN log)
        BY <1>n, <1>q
      <3> QED
        BY <3>1, AppendElements
    <2>2. LastPassed(ch, n)'
      BY <1>n, <2>1 DEF LastPassed
    <2>3. ~raced' => Passed(ch, n)'
      BY <1>n DEF Newest, Passed
    <2>4. n \in 0 .. Len(log')
      BY <1>n, <1>q
    <2> QED
      BY <2>2, <2>3, <2>4
  <1>4. ASSUME NEW b \in Caster, PublishAnswered(b) PROVE Kept
    <2>n. PICK n : n = held[b]
      OBVIOUS
    <2>1. /\ n = held[b] /\ at[b] = "publish" /\ Busy(b) /\ n \in DOMAIN log
          /\ log[n].channel = on[b]
          /\ at'[b] \in {"off", "market"}
          /\ \A o \in Caster \ {b} : at'[o] = at[o] /\ held'[o] = held[o]
          /\ UNCHANGED <<linked, log, shown, lagged, raced>>
      BY <1>4, <2>n, AnsweredAt, CarriedFits
    <2>2. /\ ~lost
          /\ \A i \in Instance, c \in Channel :
               inbox'[i][c] = IF i \in linked /\ c = log[n].channel
                              THEN Append(inbox[i][c], n)
                              ELSE inbox[i][c]
      BY <1>4, <2>n, AnsweredAt
    <2>3. \A m \in DOMAIN log : m # n /\ ToRedis(m) => ToRedis(m)'
      BY <2>1 DEF ToRedis, Busy
    <2>4. CASE ch = log[n].channel
      <3>1. ~raced' => Newest(ch, n)
        BY <2>1, <2>4 DEF Fresh
      <3>2. \A i \in linked : inbox'[i][ch] = Append(inbox[i][ch], n)
        BY <2>2, <2>4, <1>q
      <3>3. n \in DOMAIN log /\ n # 0 /\ UNCHANGED <<linked, log>>
        BY <2>1, <1>q
      <3> QED
        BY <2>4, <3>1, <3>2, <3>3, <1>n
    <2>5. CASE ch # log[n].channel
      <3>1. PICK p \in 0 .. Len(log) : LastPassed(ch, p) /\ (~raced => Passed(ch, p))
        BY <2>1, <2>2, <1>p
      <3>2. \A i \in linked : inbox'[i][ch] = inbox[i][ch]
        BY <2>1, <2>2, <2>5, <1>q
      <3>3. ASSUME NEW i \in linked, NEW o \in Caster,
                   at[o] = "publish", held[o] = shown[i][ch]
            PROVE  at'[o] = "publish" /\ held'[o] = shown[i][ch]
        <4>1. o # b
          <5> SUFFICES ASSUME shown[i][ch] = n PROVE FALSE
            BY <2>1, <3>3
          <5>1. n # 0 /\ i \in Instance
            BY <2>1, <1>q
          <5>2. log[n].channel = ch
            BY <5>1 DEF ShownFits
          <5> QED
            BY <2>5, <5>2
        <4> QED
          BY <2>1, <3>3, <4>1
      <3>4. LastPassed(ch, p)'
        BY <2>1, <3>1, <3>2, <3>3 DEF LastPassed
      <3>5. Passed(ch, p) => Passed(ch, p)'
        BY <2>1, <2>3, <2>5 DEF Passed
      <3> QED
        BY <2>1, <3>1, <3>4, <3>5
    <2> QED
      BY <2>4, <2>5
  <1>u. ASSUME NEW b \in Caster, PublishUnanswered(b) PROVE Kept
    <2>1. ~lost /\ UNCHANGED <<at, held>>
      BY <1>u, UnansweredAt
    <2>2. UNCHANGED <<linked, log, inbox, shown, lagged, raced>>
      BY <1>u, UnansweredAt
    <2>3. PICK p \in 0 .. Len(log) : LastPassed(ch, p) /\ (~raced => Passed(ch, p))
      BY <2>1, <2>2, <1>p
    <2> QED
      BY <2>1, <2>2, <2>3 DEF LastPassed, Passed, ToRedis, Busy
  <1>l. ASSUME NEW n \in Number, Late(n) PROVE Kept
    <2>1. /\ n \in DOMAIN log /\ stray[n] > 0
          /\ UNCHANGED <<linked, log, at, held, shown, lagged, raced>>
      BY <1>l, LateAt
    <2>2. PICK to \in SUBSET linked :
            /\ \A i \in Instance, c \in Channel :
                 inbox'[i][c] = IF i \in to /\ c = log[n].channel
                                THEN Append(inbox[i][c], n)
                                ELSE inbox[i][c]
            /\ ~lost' => ~lost /\ to \in {{}, linked}
      BY <1>l, LateAt
    <2>3. CASE to = linked /\ ch = log[n].channel
      <3>1. ~raced' => Newest(ch, n)
        BY <2>1, <2>3 DEF Fresh
      <3>2. \A i \in linked : inbox'[i][ch] = Append(inbox[i][ch], n)
        BY <2>2, <2>3, <1>q
      <3> QED
        BY <2>1, <2>3, <3>1, <3>2, <1>n, <1>q
    <2>4. CASE to = {} \/ ch # log[n].channel
      <3>1. \A i \in linked : inbox'[i][ch] = inbox[i][ch]
        BY <2>2, <2>4, <1>q
      <3>2. PICK p \in 0 .. Len(log) : LastPassed(ch, p) /\ (~raced => Passed(ch, p))
        BY <2>1, <2>2, <1>p
      <3> QED
        BY <2>1, <3>1, <3>2 DEF LastPassed, Passed, ToRedis, Busy
    <2> QED
      BY <2>2, <2>3, <2>4
  <1>5. ASSUME NEW i \in Instance, Deliver(i) PROVE Kept
    <2>n. PICK n : n = Head(queue[i])
      OBVIOUS
    <2>1. /\ n = Head(queue[i]) /\ n \in DOMAIN log /\ queue[i] # <<>>
          /\ n \in Elements(queue[i])
          /\ ~lagged /\ copies[i][n] = 0
          /\ UNCHANGED <<linked, log, at, on, held, inbox, lost, raced>>
      BY <1>5, <2>n, <1>q, DeliverAt, TailElements
    <2>2. \A j \in Instance, c \in Channel :
            shown'[j][c] = IF j = i /\ c = log[n].channel THEN n ELSE shown[j][c]
      BY <1>5, <2>n, DeliverAt, OfferAt
    <2>3. PICK p \in 0 .. Len(log) : LastPassed(ch, p) /\ (~raced => Passed(ch, p))
      BY <2>1, <1>p
    <2>4. log[n].from = i
      BY <2>1 DEF Addressed
    <2>5. ASSUME i \in linked, inbox[i][log[n].channel] = <<>>
          PROVE  \E b \in Caster : at[b] = "publish" /\ held[b] = n
      <3>1. n \notin Elements(inbox[i][log[n].channel])
        BY <2>1, <2>5, <1>q, ElementsOf
      <3>2. ToRedis(n)
        BY <2>1, <2>4, <2>5, <3>1 DEF Reached, Paired
      <3>3. PICK b \in Caster : Busy(b) /\ held[b] = n
        BY <3>2 DEF ToRedis
      <3>4. Home(b) = i
        BY <2>4, <3>3, CarriedFits
      <3>5. at[b] # "enqueue"
        BY <2>1, <3>3, <3>4 DEF Single
      <3> QED
        BY <3>3, <3>5 DEF Busy
    <2>6. LastPassed(ch, p)'
      <3> SUFFICES ASSUME NEW j \in linked
                   PROVE  IF inbox[j][ch] = <<>>
                          THEN \/ shown'[j][ch] = p
                               \/ \E b \in Caster :
                                    at[b] = "publish" /\ held[b] = shown'[j][ch]
                          ELSE inbox[j][ch][Len(inbox[j][ch])] = p
        BY <2>1 DEF LastPassed
      <3>1. CASE j = i /\ ch = log[n].channel
        BY <2>2, <2>3, <2>5, <3>1 DEF LastPassed
      <3>2. CASE ~(j = i /\ ch = log[n].channel)
        <4>1. shown'[j][ch] = shown[j][ch]
          BY <2>2, <3>2, <1>q
        <4> QED
          BY <2>3, <4>1 DEF LastPassed
      <3> QED
        BY <3>1, <3>2
    <2>7. Passed(ch, p) => Passed(ch, p)'
      BY <2>1 DEF Passed, ToRedis, Busy
    <2> QED
      BY <2>1, <2>3, <2>6, <2>7
  <1>6. ASSUME NEW i \in Instance, NEW c \in Channel, Receive(i, c)
        PROVE  Kept
    <2>n. PICK n : n = Head(inbox[i][c])
      OBVIOUS
    <2>1. /\ n = Head(inbox[i][c]) /\ inbox[i][c] # <<>> /\ n \in DOMAIN log
          /\ \A j \in Instance, d \in Channel :
               inbox'[j][d] = IF j = i /\ d = c THEN Tail(inbox[i][c])
                              ELSE inbox[j][d]
          /\ UNCHANGED <<linked, log, at, on, held, queue, lost, lagged, raced>>
      BY <1>6, <2>n, ReceiveAt
    <2>2. /\ n \in Elements(inbox[i][c])
          /\ IF Tail(inbox[i][c]) = <<>> THEN n = inbox[i][c][Len(inbox[i][c])]
             ELSE Tail(inbox[i][c])[Len(Tail(inbox[i][c]))]
                    = inbox[i][c][Len(inbox[i][c])]
      BY <2>1, <1>q, TailElements
    <2>3. log[n].channel = c
      BY <2>2 DEF Addressed
    <2>4. \A j \in Instance, d \in Channel :
            shown'[j][d] = IF j = i /\ d = c THEN n ELSE shown[j][d]
      BY <1>6, <2>n, <2>3, ReceiveAt, OfferAt
    <2>5. PICK p \in 0 .. Len(log) : LastPassed(ch, p) /\ (~raced => Passed(ch, p))
      BY <2>1, <1>p
    <2>6. LastPassed(ch, p)'
      <3> SUFFICES ASSUME NEW j \in linked
                   PROVE  IF inbox'[j][ch] = <<>>
                          THEN \/ shown'[j][ch] = p
                               \/ \E b \in Caster :
                                    at[b] = "publish" /\ held[b] = shown'[j][ch]
                          ELSE inbox'[j][ch][Len(inbox'[j][ch])] = p
        BY <2>1 DEF LastPassed
      <3>1. CASE j = i /\ ch = c
        <4>1. inbox[i][c][Len(inbox[i][c])] = p
          BY <2>1, <2>5, <3>1 DEF LastPassed
        <4>2. inbox'[j][ch] = Tail(inbox[i][c]) /\ shown'[j][ch] = n
          BY <2>1, <2>4, <3>1
        <4> QED
          BY <2>2, <4>1, <4>2
      <3>2. CASE ~(j = i /\ ch = c)
        <4>1. inbox'[j][ch] = inbox[j][ch] /\ shown'[j][ch] = shown[j][ch]
          BY <2>1, <2>4, <3>2, <1>q
        <4> QED
          BY <2>5, <4>1 DEF LastPassed
      <3> QED
        BY <3>1, <3>2
    <2>7. Passed(ch, p) => Passed(ch, p)'
      BY <2>1 DEF Passed, ToRedis, Busy
    <2> QED
      BY <2>1, <2>5, <2>6, <2>7
  <1>7. CASE UNCHANGED vars
    <2>1. PICK p \in 0 .. Len(log) : LastPassed(ch, p) /\ (~raced => Passed(ch, p))
      BY <1>7, <1>p DEF vars, historyVars
    <2> QED
      BY <1>7, <2>1
      DEF vars, castVars, redisVars, clientVars, historyVars, LastPassed, Passed, ToRedis, Busy
  <1> QED
    BY <1>1, <1>2, <1>3, <1>4, <1>u, <1>l, <1>5, <1>6, <1>7
    DEF Next, CastStep, Publish, Quiet

LEMMA InitHolds ==
  Init => /\ Addressed /\ Single /\ Counted /\ Reached /\ OwnKept
          /\ ShownFits /\ Fresh /\ Ordered
  <1> SUFFICES ASSUME Init
               PROVE  /\ Addressed /\ Single /\ Counted /\ Reached /\ OwnKept
                      /\ ShownFits /\ Fresh /\ Ordered
    OBVIOUS
  <1>1. /\ \A b \in Caster : at[b] = "off" /\ ~Busy(b)
        /\ DOMAIN log = {} /\ Len(log) = 0
        /\ \A i \in Instance : queue[i] = <<>>
        /\ \A i \in Instance, ch \in Channel : inbox[i][ch] = <<>> /\ shown[i][ch] = 0
        /\ \A i \in Instance, n \in Number : copies[i][n] = 0
    BY DEF Init, Busy
  <1>2. Elements(<<>>) = {} /\ NoRepeat(<<>>)
    BY DEF Elements, NoRepeat
  <1>3. Addressed /\ Single
    BY <1>1, <1>2 DEF Addressed, Single
  <1>4. Counted /\ Reached /\ OwnKept /\ ShownFits
    BY <1>1 DEF Counted, Reached, OwnKept, Own, ShownFits
  <1>5. Fresh
    BY <1>1, <1>2 DEF Fresh, Rising, Later, Own
  <1>6. linked \subseteq Instance
    BY DEF Init
  <1>7. \A ch \in Channel : LastPassed(ch, 0) /\ Passed(ch, 0)
    BY <1>1, <1>6 DEF LastPassed, Passed
  <1>8. Ordered
    BY <1>1, <1>7 DEF Ordered
  <1> QED
    BY <1>3, <1>4, <1>5, <1>8

-----------------------------------------------------------------------------
IInv ==
  /\ TypeOK /\ Bounded
  /\ Addressed /\ Single /\ Counted /\ Reached /\ OwnKept
  /\ ShownFits /\ Fresh /\ Ordered

\* The inductive invariant holds in every state.
THEOREM InvariantHolds == Spec => []IInv
  <1>1. Init => IInv
    BY InitTyped, InitHolds DEF IInv
  <1>2. IInv /\ [Next]_vars => IInv'
    BY StepTyped, StepAddressed, StepSingle, StepCounted, StepReached, StepOwnKept,
       StepShownFits, StepFresh, StepOrdered
    DEF IInv
  <1> QED
    BY <1>1, <1>2, PTL DEF Spec

\* The values of every variable, for any number of instances and goroutines.
THEOREM InstancesTyped == Spec => []TypeOK
  <1>1. IInv => TypeOK
    BY DEF IInv
  <1> QED
    BY <1>1, InvariantHolds, PTL

\* An instance offers a message to its clients once for itself and, if it has
\* Redis, at most once for every time its publisher sent it, however many
\* instances share their messages and however often go-redis tries.
THEOREM OncePerCommandHolds == Spec => []OncePerCommand
  <1>1. ASSUME IInv PROVE OncePerCommand
    <2> SUFFICES ASSUME NEW i \in Instance, NEW n \in DOMAIN log
                 PROVE  copies[i][n]
                          <= (IF n \in Own(i) THEN 1 ELSE 0)
                             + (IF {log[n].from, i} \subseteq linked THEN sent[n]
                                ELSE 0)
      BY DEF OncePerCommand
    <2>1. TypeOK /\ Bounded
      BY <1>1 DEF IInv
    <2>2. /\ copies[i][n] \in Nat /\ sent[n] \in Nat /\ stray[n] \in Nat
          /\ InInbox(i, n) \in Nat
      BY <2>1, Amounts
    <2>3. copies[i][n] + One(ByQueue(i, n)) + ByRedis(i, n) <= Limit(i, n)
      BY <1>1 DEF IInv, Counted
    <2>4. One(ByQueue(i, n)) \in Nat /\ ByRedis(i, n) \in Nat
      BY <2>2 DEF One, ByRedis, InInbox
    <2>5. Limit(i, n) = (IF n \in Own(i) THEN 1 ELSE 0)
                        + (IF {log[n].from, i} \subseteq linked THEN sent[n] ELSE 0)
      BY DEF Limit, One, Own, Paired
    <2>6. Limit(i, n) \in Nat
      BY <2>2 DEF Limit, One
    <2> QED
      BY <2>2, <2>3, <2>4, <2>5, <2>6
  <1> QED
    BY <1>1, InvariantHolds, PTL

\* At rest nothing has been forgotten: every message was offered to the clients
\* of its own instance, whatever Redis did, and if Redis has lost nothing, to
\* the clients of every other instance too.
THEOREM AllOfferedHolds == Spec => []AllOffered
  <1>1. ASSUME IInv PROVE AllOffered
    <2> SUFFICES ASSUME AtRest, NEW i \in Instance, NEW n \in For(i)
                 PROVE  n \in Own(i) \/ ~lost => copies[i][n] > 0
      BY DEF AllOffered, For
    <2>1. n \in DOMAIN log /\ log[n].channel \in Channel
      BY <1>1, TypesAt DEF IInv, For, Own
    <2>2. /\ \A b \in Caster : ~Busy(b) /\ at[b] # "enqueue"
          /\ queue[i] = <<>> /\ inbox[i][log[n].channel] = <<>>
      BY <2>1 DEF AtRest, Busy
    <2>3. Elements(<<>>) = {}
      BY DEF Elements
    <2>4. /\ ~ToQueue(n) /\ ~ToRedis(n)
          /\ n \notin Elements(queue[i])
          /\ n \notin Elements(inbox[i][log[n].channel])
      BY <2>2, <2>3 DEF ToQueue, ToRedis
    <2>5. n \in Own(i) => copies[i][n] > 0
      BY <1>1, <2>4 DEF IInv, OwnKept
    <2>6. n \notin Own(i) => Paired(i, n)
      BY DEF For, Paired
    <2>7. ~lost /\ Paired(i, n) => copies[i][n] > 0
      BY <1>1, <2>1, <2>4 DEF IInv, Reached
    <2> QED
      BY <2>5, <2>6, <2>7
  <1> QED
    BY <1>1, InvariantHolds, PTL

LEMMA RestShows ==
  ASSUME IInv, AtRest, ~lost, ~lagged, NEW ch \in Channel
  PROVE  \E p \in 0 .. Len(log) :
           /\ \A i \in linked : shown[i][ch] = p
           /\ ~raced => \A n \in DOMAIN log :
                log[n].channel = ch /\ log[n].from \in linked => n <= p
  <1>1. PICK p \in 0 .. Len(log) : LastPassed(ch, p) /\ (~raced => Passed(ch, p))
    BY DEF IInv, Ordered
  <1>2. /\ \A b \in Caster : ~Busy(b) /\ at[b] # "publish"
        /\ \A i \in linked : inbox[i][ch] = <<>>
    BY DEF AtRest, Busy, IInv, TypeOK
  <1>3. \A n : ~ToRedis(n)
    BY <1>2 DEF ToRedis
  <1> QED
    BY <1>1, <1>2, <1>3 DEF LastPassed, Passed

\* At rest the linked instances show the same, for any number of them, if
\* Redis has lost nothing and Run was never behind it.
THEOREM AgreeAtRestHolds == Spec => []AgreeAtRest
  <1>1. ASSUME IInv PROVE AgreeAtRest
    <2> SUFFICES ASSUME AtRest, ~lost, ~lagged, NEW i \in linked, NEW j \in linked
                 PROVE  shown[i] = shown[j]
      BY DEF AgreeAtRest
    <2>1. shown[i] \in [Channel -> 0 .. Len(log)] /\ shown[j] \in [Channel -> 0 .. Len(log)]
      BY <1>1 DEF IInv, TypeOK
    <2>2. \A ch \in Channel : shown[i][ch] = shown[j][ch]
      BY <1>1, RestShows
    <2> QED
      BY <2>1, <2>2
  <1> QED
    BY <1>1, InvariantHolds, PTL

\* And without two goroutines at one channel at once they show the newest
\* message meant for them; so does an instance without Redis.
THEOREM NewestAtRestHolds == Spec => []NewestAtRest
  <1>1. ASSUME IInv PROVE NewestAtRest
    <2> SUFFICES ASSUME AtRest, ~lost, ~lagged, ~raced,
                        NEW i \in Instance, NEW ch \in Channel
                 PROVE  shown[i][ch] = Max({n \in For(i) : log[n].channel = ch} \cup {0})
      BY DEF NewestAtRest
    <2> DEFINE M == {n \in For(i) : log[n].channel = ch} \cup {0}
    <2>1. /\ DOMAIN log = 1 .. Len(log) /\ Len(log) \in Nat
          /\ \A n \in DOMAIN log : log[n].channel \in Channel
          /\ shown[i][ch] \in 0 .. Len(log)
      BY <1>1, TypesAt DEF IInv, TypeOK
    <2>2. M \subseteq 0 .. Len(log)
      BY <2>1 DEF For, Own
    <2>3. shown[i][ch] \in M
      BY <1>1, <2>1 DEF IInv, ShownFits
    <2>4. ASSUME NEW n \in M PROVE n <= shown[i][ch]
      <3>1. CASE n = 0
        BY <2>1, <3>1
      <3>2. CASE i \in linked /\ n # 0
        <4>1. PICK p \in 0 .. Len(log) :
                /\ \A j \in linked : shown[j][ch] = p
                /\ \A m \in DOMAIN log :
                     log[m].channel = ch /\ log[m].from \in linked => m <= p
          BY <1>1, RestShows
        <4>2. n \in DOMAIN log /\ log[n].channel = ch /\ log[n].from \in linked
          BY <3>2 DEF For, Own
        <4> QED
          BY <3>2, <4>1, <4>2
      <3>3. CASE i \notin linked /\ n # 0
        <4>1. n \in Own(i) /\ log[n].channel = ch
          BY <3>3 DEF For, Own
        <4>2. Later(i)
          BY <1>1, <3>3 DEF IInv, Fresh
        <4>3. ~ToQueue(n) /\ n \notin Elements(queue[i])
          BY DEF AtRest, ToQueue, Busy, Elements
        <4> QED
          BY <4>1, <4>2, <4>3 DEF Later
      <3> QED
        BY <3>1, <3>2, <3>3
    <2> HIDE DEF M
    <2>5. \A x \in M : (\A y \in M : y <= x) => x = shown[i][ch]
      BY <2>1, <2>2, <2>3, <2>4
    <2>6. Max(M) = CHOOSE x \in M : \A y \in M : x >= y
      BY DEF Max
    <2> QED
      BY <2>2, <2>3, <2>4, <2>5, <2>6 DEF M
  <1> QED
    BY <1>1, InvariantHolds, PTL
=============================================================================
