----------------------- MODULE ProviderRateLimitProofs -----------------------
(***************************************************************************)
(* The rolling window of ProviderRateLimit, its slots, and the number of   *)
(* upstream calls, for any number of streams and any limits.               *)
(***************************************************************************)
EXTENDS ProviderRateLimit, SequenceTheorems, FiniteSetTheorems, TLAPS

(* requestTimes is the end of the history of grants; what has been popped  *)
(* from it was granted a window ago or earlier.                            *)
Older == Len(granted) - Len(requestTimes)

WindowInv ==
  /\ now \in Nat
  /\ requestTimes \in Seq(Nat) /\ granted \in Seq(Nat)
  /\ Len(requestTimes) <= Rate /\ Len(requestTimes) <= Len(granted)
  /\ \A i \in 1..Len(requestTimes) : requestTimes[i] = granted[Older + i]
  /\ \A i \in 1..Len(granted) : granted[i] <= now
  /\ \A i \in 1..Older : Expired(granted[i])
  /\ StrictWindow

(* Dropping the first k elements of a sequence.                            *)
LEMMA DropProperties ==
  ASSUME NEW q \in Seq(Nat), NEW k \in 0..Len(q)
  PROVE  LET r == SubSeq(q, k + 1, Len(q))
         IN  /\ r \in Seq(Nat)
             /\ Len(r) = Len(q) - k
             /\ \A i \in 1..(Len(q) - k) : r[i] = q[k + i]
<1>1. Len(q) \in Nat /\ k \in Nat /\ k <= Len(q)
  OBVIOUS
<1>2. \A i \in (k + 1)..Len(q) : q[i] \in Nat
  BY <1>1
<1> QED BY <1>1, <1>2, SubSeqProperties

(* What is older grows by what is popped.                                  *)
LEMMA OlderGrows ==
  ASSUME NEW a \in Nat, NEW b \in Nat, NEW c \in Nat, NEW k \in Nat, k <= b, a = c + b
  PROVE  a - (b - k) = c + k
  OBVIOUS

(* The lengths of the two sequences.                                       *)
LEMMA Lengths ==
  ASSUME WindowInv, NEW k \in 0..Len(requestTimes)
  PROVE  /\ Len(requestTimes) \in Nat /\ Len(granted) \in Nat /\ Older \in Nat
         /\ k \in Nat /\ k <= Len(requestTimes)
         /\ Rate \in Nat /\ Rate > 0 /\ Window \in Nat /\ now \in Nat
         /\ Len(requestTimes) <= Rate
         /\ Len(granted) = Older + Len(requestTimes)
<1>1. Rate \in Nat /\ Rate > 0 /\ Window \in Nat
  BY LimitAssumption
<1>2. /\ requestTimes \in Seq(Nat) /\ granted \in Seq(Nat) /\ now \in Nat
      /\ Len(requestTimes) <= Rate /\ Len(requestTimes) <= Len(granted)
  BY DEF WindowInv
<1>3. Len(requestTimes) \in Nat /\ Len(granted) \in Nat
  BY <1>2
<1> QED BY <1>1, <1>2, <1>3 DEF Older

(* The first k entries of requestTimes, when they are popped, join what is *)
(* a window old.                                                           *)
LEMMA PoppedIsOld ==
  ASSUME WindowInv, NEW k \in 0..Len(requestTimes), Pops(k)
  PROVE  \A i \in 1..(Older + k) : Expired(granted[i])
<1>1. /\ Len(requestTimes) \in Nat /\ Older \in Nat /\ k \in Nat /\ k <= Len(requestTimes)
  BY Lengths
<1>2. \A i \in 1..Len(requestTimes) : requestTimes[i] = granted[Older + i]
  BY DEF WindowInv
<1>3. \A i \in 1..k : Expired(requestTimes[i])
  BY DEF Pops
<1>4. \A i \in 1..Older : Expired(granted[i])
  BY DEF WindowInv
<1> SUFFICES ASSUME NEW i \in 1..(Older + k) PROVE Expired(granted[i])
  OBVIOUS
<1>5. CASE i <= Older
  BY <1>1, <1>4, <1>5
<1>6. CASE i > Older
  <2>1. i - Older \in 1..k /\ i - Older \in 1..Len(requestTimes) /\ Older + (i - Older) = i
    BY <1>1, <1>6
  <2> QED BY <1>2, <1>3, <2>1
<1> QED BY <1>1, <1>5, <1>6

(* A grant comes a window or more after the one Rate grants before it.     *)
LEMMA GrantKeepsWindow ==
  ASSUME WindowInv, NEW k \in 0..Len(requestTimes), Pops(k), UNCHANGED now,
         Len(requestTimes) - k < Rate, granted' = Append(granted, now),
         requestTimes' = Append(SubSeq(requestTimes, k + 1, Len(requestTimes)), now)
  PROVE  WindowInv'
<1> DEFINE live == SubSeq(requestTimes, k + 1, Len(requestTimes))
<1>1. /\ Len(requestTimes) \in Nat /\ Len(granted) \in Nat /\ Older \in Nat
      /\ k \in Nat /\ k <= Len(requestTimes)
      /\ Rate \in Nat /\ Rate > 0 /\ Window \in Nat /\ now \in Nat
      /\ Len(requestTimes) <= Rate
      /\ Len(granted) = Older + Len(requestTimes)
  BY Lengths
<1>2. /\ live \in Seq(Nat) /\ Len(live) = Len(requestTimes) - k
      /\ \A i \in 1..(Len(requestTimes) - k) : live[i] = requestTimes[k + i]
  BY DropProperties DEF WindowInv
<1> HIDE DEF live
<1>3. /\ requestTimes' \in Seq(Nat) /\ Len(requestTimes') = Len(requestTimes) - k + 1
      /\ \A i \in 1..(Len(requestTimes) - k) : requestTimes'[i] = requestTimes[k + i]
      /\ requestTimes'[Len(requestTimes) - k + 1] = now
  BY <1>1, <1>2, AppendProperties DEF live
<1>4. /\ granted' \in Seq(Nat) /\ Len(granted') = Len(granted) + 1
      /\ \A i \in 1..Len(granted) : granted'[i] = granted[i]
      /\ granted'[Len(granted) + 1] = now
  <2>1. granted \in Seq(Nat) /\ now \in Nat
    BY DEF WindowInv
  <2> QED BY <2>1, AppendProperties
<1>5. Older' = Older + k
  <2>1. Len(requestTimes') = Len(requestTimes) - k + 1 /\ Len(granted') = Len(granted) + 1
    BY <1>3, <1>4
  <2>2. Older' = Len(granted') - Len(requestTimes')
    BY DEF Older
  <2> QED BY <1>1, <2>1, <2>2
<1>6. \A i \in 1..Older' : Expired(granted[i])
  BY <1>5, PoppedIsOld
<1>7. \A i \in 1..Len(requestTimes') : requestTimes'[i] = granted'[Older' + i]
  <2> SUFFICES ASSUME NEW i \in 1..Len(requestTimes')
               PROVE  requestTimes'[i] = granted'[Older' + i]
    OBVIOUS
  <2>1. CASE i = Len(requestTimes) - k + 1
    <3>1. Older' + i = Len(granted) + 1
      BY <1>1, <1>5, <2>1
    <3> QED BY <1>3, <1>4, <2>1, <3>1
  <2>2. CASE i # Len(requestTimes) - k + 1
    <3>1. i \in 1..(Len(requestTimes) - k) /\ k + i \in 1..Len(requestTimes)
      <4> DEFINE n == Len(requestTimes)
      <4>1. Len(requestTimes') = n - k + 1
        BY <1>3
      <4>2. n \in Nat /\ k \in Nat /\ k <= n /\ i # n - k + 1
        BY <1>1, <2>2
      <4>3. i \in 1..(n - k + 1)
        BY <4>1
      <4> HIDE DEF n
      <4>4. i \in 1..(n - k) /\ k + i \in 1..n
        BY <4>2, <4>3
      <4> QED BY <4>4 DEF n
    <3>2. requestTimes[k + i] = granted[Older + (k + i)]
      BY <3>1 DEF WindowInv
    <3>3. Older + (k + i) = Older' + i /\ Older + (k + i) \in 1..Len(granted)
      BY <1>1, <1>5, <3>1
    <3> QED BY <1>3, <1>4, <3>1, <3>2, <3>3
  <2> QED BY <2>1, <2>2
<1>8. \A i \in 1..Len(granted') : granted'[i] <= now'
  <2> SUFFICES ASSUME NEW i \in 1..Len(granted') PROVE granted'[i] <= now'
    OBVIOUS
  <2>1. i \in 1..Len(granted) \/ i = Len(granted) + 1
    <3>1. Len(granted') = Len(granted) + 1 /\ Len(granted) \in Nat
      BY <1>1, <1>4
    <3> QED BY <3>1
  <2>2. CASE i \in 1..Len(granted)
    <3>1. granted[i] <= now /\ granted'[i] = granted[i]
      BY <1>4, <2>2 DEF WindowInv
    <3> QED BY <3>1
  <2>3. CASE i = Len(granted) + 1
    <3>1. granted'[i] = now /\ now \in Nat
      BY <1>1, <1>4, <2>3
    <3> QED BY <3>1
  <2> QED BY <2>1, <2>2, <2>3
<1>9. \A i \in 1..Older' : Expired(granted[i])'
  <2> SUFFICES ASSUME NEW i \in 1..Older' PROVE Expired(granted[i])'
    OBVIOUS
  <2>1. Older' \in Nat /\ Older' <= Len(granted)
    BY <1>1, <1>5
  <2>2. i \in 1..Len(granted)
    BY <1>1, <2>1
  <2>3. granted'[i] = granted[i] /\ Expired(granted[i])
    BY <1>4, <1>6, <2>2
  <2> QED BY <2>3 DEF Expired
<1>10. StrictWindow'
  <2> SUFFICES ASSUME NEW i \in 1..Len(granted'), NEW j \in 1..Len(granted'), j = i + Rate
               PROVE  granted'[j] >= granted'[i] + Window
    BY <1>4 DEF StrictWindow
  <2>1. CASE j \in 1..Len(granted)
    <3>1. i \in 1..Len(granted) /\ DOMAIN granted = 1..Len(granted)
      BY <1>1, <2>1 DEF WindowInv
    <3> QED BY <1>4, <2>1, <3>1 DEF WindowInv, StrictWindow
  <2>2. CASE j \notin 1..Len(granted)
    <3>1. j = Len(granted) + 1 /\ i \in 1..Len(granted)
      <4> DEFINE n == Len(granted)
      <4>1. Len(granted') = n + 1
        BY <1>4
      <4>2. n \in Nat /\ Rate \in Nat /\ Rate > 0 /\ j \notin 1..n
        BY <1>1, <2>2
      <4>3. i \in 1..(n + 1) /\ j \in 1..(n + 1)
        BY <4>1
      <4> HIDE DEF n
      <4>4. j = n + 1 /\ i \in 1..n
        BY <4>2, <4>3
      <4> QED BY <4>4 DEF n
    <3>2. i \in 1..Older'
      BY <1>1, <1>5, <3>1
    <3> QED BY <1>4, <1>6, <3>1, <3>2 DEF Expired
  <2> QED BY <2>1, <2>2
<1>11. Len(requestTimes') <= Rate /\ Len(requestTimes') <= Len(granted')
  <2>1. /\ Len(requestTimes') = Len(requestTimes) - k + 1
        /\ Len(granted') = Len(granted) + 1
    BY <1>3, <1>4
  <2>2. \A t, g, o, r \in Nat :
          (k \in Nat /\ k <= t /\ t - k < r /\ g = o + t)
            => t - k + 1 <= r /\ t - k + 1 <= g + 1
    OBVIOUS
  <2>3. Len(requestTimes) - k + 1 <= Rate /\ Len(requestTimes) - k + 1 <= Len(granted) + 1
    BY <1>1, <2>2
  <2> QED BY <2>1, <2>3
<1> QED BY <1>1, <1>3, <1>4, <1>7, <1>8, <1>9, <1>10, <1>11 DEF WindowInv

(* A refusal only pops what has expired.                                   *)
LEMMA RefusalKeepsWindow ==
  ASSUME WindowInv, NEW k \in 0..Len(requestTimes), Pops(k), UNCHANGED <<now, granted>>,
         requestTimes' = SubSeq(requestTimes, k + 1, Len(requestTimes))
  PROVE  WindowInv'
<1>1. /\ Len(requestTimes) \in Nat /\ Len(granted) \in Nat /\ Older \in Nat
      /\ k \in Nat /\ k <= Len(requestTimes) /\ Rate \in Nat
      /\ Len(requestTimes) <= Rate
      /\ Len(granted) = Older + Len(requestTimes)
  BY Lengths
<1>2. /\ requestTimes' \in Seq(Nat) /\ Len(requestTimes') = Len(requestTimes) - k
      /\ \A i \in 1..(Len(requestTimes) - k) : requestTimes'[i] = requestTimes[k + i]
  BY DropProperties DEF WindowInv
<1>3. Older' = Older + k
  <2>1. Older' = Len(granted) - Len(requestTimes') /\ Len(requestTimes') = Len(requestTimes) - k
    BY <1>2 DEF Older
  <2>2. Len(granted) - (Len(requestTimes) - k) = Older + k
    BY <1>1, OlderGrows
  <2> QED BY <2>1, <2>2
<1>4. \A i \in 1..Older' : Expired(granted[i])
  BY <1>3, PoppedIsOld
<1>5. \A i \in 1..Len(requestTimes') : requestTimes'[i] = granted[Older' + i]
  <2> SUFFICES ASSUME NEW i \in 1..Len(requestTimes')
               PROVE  requestTimes'[i] = granted[Older' + i]
    OBVIOUS
  <2>1. k + i \in 1..Len(requestTimes) /\ Older + (k + i) = Older' + i
    BY <1>1, <1>2, <1>3
  <2>2. requestTimes[k + i] = granted[Older + (k + i)]
    BY <2>1 DEF WindowInv
  <2> QED BY <1>2, <2>1, <2>2
<1>6. Len(requestTimes') <= Rate /\ Len(requestTimes') <= Len(granted')
  BY <1>1, <1>2
<1>7. \A i \in 1..Len(granted) : granted'[i] <= now'
  BY DEF WindowInv
<1>8. \A i \in 1..Older' : Expired(granted[i])'
  BY <1>4 DEF Expired
<1>9. StrictWindow'
  BY DEF WindowInv, StrictWindow
<1>10. now' \in Nat /\ granted' \in Seq(Nat)
  BY DEF WindowInv
<1> QED BY <1>2, <1>5, <1>6, <1>7, <1>8, <1>9, <1>10 DEF WindowInv

(* Either way, a round of the window preserves the invariant.              *)
LEMMA AcquireSlotKeepsWindow ==
  ASSUME WindowInv, NEW s, AcquireSlot(s), UNCHANGED now
  PROVE  WindowInv'
<1>1. PICK k \in 0..Len(requestTimes) :
        LET live == SubSeq(requestTimes, k + 1, Len(requestTimes))
        IN  /\ Pops(k)
            /\ \/ /\ Len(live) < Rate /\ requestTimes' = Append(live, now)
                  /\ granted' = Append(granted, now)
               \/ requestTimes' = live /\ UNCHANGED granted
  BY DEF AcquireSlot, Grant, historyVars
<1>2. Len(SubSeq(requestTimes, k + 1, Len(requestTimes))) = Len(requestTimes) - k
  BY DropProperties DEF WindowInv
<1> QED BY <1>1, <1>2, GrantKeepsWindow, RefusalKeepsWindow

(* Every other step leaves requestTimes and granted alone.                 *)
LEMMA WindowStep == WindowInv /\ [Next]_vars => WindowInv'
<1> SUFFICES ASSUME WindowInv, [Next]_vars PROVE WindowInv'
  OBVIOUS
<1> USE DEF historyVars, limiterVars, streamVars
<1>1. ASSUME UNCHANGED <<now, requestTimes, granted>> PROVE WindowInv'
  BY <1>1 DEF WindowInv, Older, Expired, StrictWindow
<1>2. ASSUME NEW s \in Stream, WaitIfBlocked(s), UNCHANGED now PROVE WindowInv'
  BY <1>1, <1>2, AcquireSlotKeepsWindow DEF WaitIfBlocked
<1>3. ASSUME NEW s \in Stream, StreamStep(s) PROVE WindowInv'
  <2>1. \/ WaitIfBlocked(s) /\ UNCHANGED now
        \/ AcquireSlot(s) /\ UNCHANGED now
        \/ UNCHANGED <<now, requestTimes, granted>>
    BY <1>3
       DEF StreamStep, Open, TakeSlot, WakeForWindow, WakeForRetry, CallSucceeds,
           RetryLater, GiveUp, RetryDowngraded, Fail, Close, Disconnect
  <2> QED BY <1>1, <1>2, <2>1, AcquireSlotKeepsWindow
<1>4. CASE Tick
  <2>1. now' = now + 1 /\ UNCHANGED <<requestTimes, granted>>
    BY <1>4 DEF Tick
  <2>2. \A t \in Nat : Expired(t) => Expired(t)'
    BY <2>1, LimitAssumption DEF WindowInv, Expired
  <2>3. Older' = Older /\ Older \in Nat /\ Older <= Len(granted)
    BY <2>1 DEF Older, WindowInv
  <2>4. \A i \in 1..Len(granted) : granted[i] \in Nat
    BY DEF WindowInv
  <2>5. \A i \in 1..Older : Expired(granted[i])'
    <3>1. \A i \in 1..Older : i \in 1..Len(granted)
      BY <2>3 DEF WindowInv
    <3>2. \A i \in 1..Older : Expired(granted[i])
      BY DEF WindowInv
    <3>3. now \in Nat /\ Window \in Nat
      BY LimitAssumption DEF WindowInv
    <3>4. \A t \in Nat : t + Window <= now => t + Window <= now + 1
      BY <3>3
    <3>5. \A i \in 1..Older : granted[i] + Window <= now + 1
      BY <2>4, <3>1, <3>2, <3>4 DEF Expired
    <3> QED BY <2>1, <3>5 DEF Expired
  <2>6. \A i \in 1..Len(granted) : granted[i] <= now'
    BY <2>1, <2>4 DEF WindowInv
  <2> QED BY <2>1, <2>3, <2>5, <2>6 DEF WindowInv, StrictWindow
<1>5. CASE UNCHANGED vars
  BY <1>1, <1>5 DEF vars
<1> QED BY <1>3, <1>4, <1>5 DEF Next

(* The docstring's guarantee, at most rate_limit acquisitions in a window, *)
(* holds for every number of streams, every limit and every schedule.      *)
THEOREM WindowNeverExceeded == Spec => []StrictWindow
<1>1. Init => WindowInv
  BY LimitAssumption DEF Init, WindowInv, Older, StrictWindow
<1>2. WindowInv => StrictWindow
  BY DEF WindowInv
<1> QED BY <1>1, <1>2, WindowStep, PTL DEF Spec

-----------------------------------------------------------------------------
(* The semaphore.                                                          *)

StreamPhase == {"idle", "queued", "done"} \cup Holding

Holders == {s \in Stream : phase[s] \in Holding}

SlotInv ==
  /\ phase \in [Stream -> StreamPhase]
  /\ slots \in Nat
  /\ waiters \in Seq(Stream)
  /\ \A i, j \in DOMAIN waiters : waiters[i] = waiters[j] => i = j
  /\ SlotAccounting

(* What a sequence without duplicates is left with by taking one out.      *)
LEMMA TailMembers ==
  ASSUME NEW q \in Seq(Stream), q # <<>>,
         \A i, j \in DOMAIN q : q[i] = q[j] => i = j
  PROVE  /\ Head(q) \in ToSet(q) /\ Head(q) \in Stream
         /\ Tail(q) \in Seq(Stream)
         /\ ToSet(Tail(q)) = ToSet(q) \ {Head(q)}
         /\ \A i, j \in DOMAIN Tail(q) : Tail(q)[i] = Tail(q)[j] => i = j
<1>1. /\ Tail(q) \in Seq(Stream) /\ Len(Tail(q)) = Len(q) - 1
      /\ \A i \in 1..Len(Tail(q)) : Tail(q)[i] = q[i + 1]
  BY HeadTailProperties
<1>2. DOMAIN q = 1..Len(q) /\ Len(q) \in Nat /\ Len(q) > 0 /\ Head(q) = q[1]
      /\ DOMAIN Tail(q) = 1..(Len(q) - 1)
  BY <1>1
<1>3. \A i \in 1..Len(q) : i = 1 \/ (i - 1 \in 1..(Len(q) - 1) /\ q[i] = Tail(q)[i - 1])
  BY <1>1, <1>2
<1>4. \A i \in 1..(Len(q) - 1) : i + 1 \in 1..Len(q) /\ i + 1 # 1 /\ Tail(q)[i] = q[i + 1]
  BY <1>1, <1>2
<1> DEFINE t == Tail(q)  m == Len(q)  h == Head(q)
<1>5. 1 \in 1..m /\ h = q[1] /\ DOMAIN q = 1..m /\ DOMAIN t = 1..(m - 1)
  BY <1>2
<1>6. \A i, j \in 1..(m - 1) : t[i] = t[j] => i = j
  BY <1>2, <1>4
<1>7. h \in Stream /\ t \in Seq(Stream)
  BY <1>1, <1>5
<1> HIDE DEF t, m, h
<1>8. ToSet(t) \subseteq ToSet(q) \ {h}
  <2>1. \A i \in 1..(m - 1) : \E j \in 1..m : j # 1 /\ t[i] = q[j]
    BY <1>4 DEF t, m
  <2> QED BY <1>5, <2>1 DEF ToSet
<1>9. ToSet(q) \ {h} \subseteq ToSet(t)
  <2>1. \A i \in 1..m : q[i] # h => \E j \in 1..(m - 1) : q[i] = t[j]
    BY <1>3, <1>5 DEF t, m
  <2> QED BY <1>5, <2>1 DEF ToSet
<1>10. h \in ToSet(q)
  BY <1>5 DEF ToSet
<1>11. ToSet(t) = ToSet(q) \ {h} /\ \A i, j \in DOMAIN t : t[i] = t[j] => i = j
  BY <1>5, <1>6, <1>8, <1>9
<1> QED BY <1>7, <1>10, <1>11 DEF t, h

LEMMA AppendMembers ==
  ASSUME NEW q \in Seq(Stream), NEW s \in Stream, s \notin ToSet(q),
         \A i, j \in DOMAIN q : q[i] = q[j] => i = j
  PROVE  /\ Append(q, s) \in Seq(Stream)
         /\ ToSet(Append(q, s)) = ToSet(q) \cup {s}
         /\ \A i, j \in DOMAIN Append(q, s) : Append(q, s)[i] = Append(q, s)[j] => i = j
<1> DEFINE r == Append(q, s)
<1>1. /\ r \in Seq(Stream) /\ Len(r) = Len(q) + 1 /\ Len(q) \in Nat
      /\ \A i \in 1..Len(q) : r[i] = q[i]
      /\ r[Len(q) + 1] = s
  BY AppendProperties
<1>2. DOMAIN r = 1..(Len(q) + 1) /\ DOMAIN q = 1..Len(q)
  BY <1>1
<1> HIDE DEF r
<1>3. \A i \in DOMAIN r : (i \in DOMAIN q /\ r[i] = q[i]) \/ (i = Len(q) + 1 /\ r[i] = s)
  BY <1>1, <1>2
<1>4. DOMAIN q \subseteq DOMAIN r /\ Len(q) + 1 \in DOMAIN r
  BY <1>1, <1>2
<1>5. ToSet(r) = ToSet(q) \cup {s}
  BY <1>1, <1>2, <1>3, <1>4 DEF ToSet
<1>6. \A i, j \in DOMAIN r : r[i] = r[j] => i = j
  BY <1>3 DEF ToSet
<1> QED BY <1>1, <1>5, <1>6 DEF r

LEMMA RemoveAtMembers ==
  ASSUME NEW q \in Seq(Stream), NEW k \in DOMAIN q,
         \A i, j \in DOMAIN q : q[i] = q[j] => i = j
  PROVE  /\ RemoveAt(q, k) \in Seq(Stream)
         /\ ToSet(RemoveAt(q, k)) = ToSet(q) \ {q[k]}
         /\ \A i, j \in DOMAIN RemoveAt(q, k) : RemoveAt(q, k)[i] = RemoveAt(q, k)[j] => i = j
<1> DEFINE n == Len(q)  a == SubSeq(q, 1, k - 1)  b == SubSeq(q, k + 1, n)  r == RemoveAt(q, k)
<1>1. n \in Nat /\ k \in 1..n /\ DOMAIN q = 1..n /\ \A i \in 1..n : q[i] \in Stream
  OBVIOUS
<1>2. /\ a \in Seq(Stream) /\ Len(a) = k - 1
      /\ \A i \in 1..(k - 1) : a[i] = q[i]
  <2>1. \A i \in 1..(k - 1) : q[i] \in Stream
    BY <1>1
  <2>2. /\ a \in Seq(Stream) /\ Len(a) = IF 1 <= k - 1 THEN k - 1 - 1 + 1 ELSE 0
        /\ \A i \in 1..(k - 1 - 1 + 1) : a[i] = q[1 + i - 1]
    BY <1>1, <2>1, SubSeqProperties
  <2> QED BY <1>1, <2>2
<1>3. /\ b \in Seq(Stream) /\ Len(b) = n - k
      /\ \A i \in 1..(n - k) : b[i] = q[k + i]
  <2>1. \A i \in (k + 1)..n : q[i] \in Stream
    BY <1>1
  <2>2. /\ b \in Seq(Stream) /\ Len(b) = IF k + 1 <= n THEN n - (k + 1) + 1 ELSE 0
        /\ \A i \in 1..(n - (k + 1) + 1) : b[i] = q[k + 1 + i - 1]
    BY <1>1, <2>1, SubSeqProperties
  <2> QED BY <1>1, <2>2
<1>4. r = a \o b
  BY DEF RemoveAt
<1> HIDE DEF a, b, r
<1>5. /\ r \in Seq(Stream) /\ Len(r) = n - 1
      /\ \A i \in 1..(n - 1) : r[i] = IF i <= k - 1 THEN a[i] ELSE b[i - (k - 1)]
  <2>1. /\ r \in Seq(Stream) /\ Len(r) = Len(a) + Len(b)
        /\ \A i \in 1..(Len(a) + Len(b)) : r[i] = IF i <= Len(a) THEN a[i] ELSE b[i - Len(a)]
    <3>1. a \in Seq(Stream) /\ b \in Seq(Stream)
      BY <1>2, <1>3
    <3>2. /\ a \o b \in Seq(Stream) /\ Len(a \o b) = Len(a) + Len(b)
          /\ \A i \in 1..(Len(a) + Len(b)) :
               (a \o b)[i] = IF i <= Len(a) THEN a[i] ELSE b[i - Len(a)]
      BY <3>1, ConcatProperties
    <3> QED BY <1>4, <3>2
  <2>2. Len(a) + Len(b) = n - 1
    BY <1>1, <1>2, <1>3
  <2> QED BY <1>2, <2>1, <2>2
<1>6. \A i \in 1..(n - 1) : r[i] = IF i < k THEN q[i] ELSE q[i + 1]
  <2> SUFFICES ASSUME NEW i \in 1..(n - 1) PROVE r[i] = IF i < k THEN q[i] ELSE q[i + 1]
    OBVIOUS
  <2>1. CASE i < k
    BY <1>1, <1>2, <1>5, <2>1
  <2>2. CASE ~(i < k)
    <3>1. r[i] = b[i - (k - 1)] /\ i - (k - 1) \in 1..(n - k) /\ k + (i - (k - 1)) = i + 1
      BY <1>1, <1>5, <2>2
    <3>2. b[i - (k - 1)] = q[k + (i - (k - 1))]
      BY <1>3, <3>1
    <3> QED BY <2>2, <3>1, <3>2
  <2> QED BY <2>1, <2>2
<1>7. DOMAIN r = 1..(n - 1)
  BY <1>5
<1> HIDE DEF n
<1>8. \A i \in 1..n : i # k =>
        (IF i < k THEN i \in 1..(n - 1) /\ r[i] = q[i]
                  ELSE i - 1 \in 1..(n - 1) /\ r[i - 1] = q[i])
  BY <1>1, <1>6
<1>9. ToSet(q) \ {q[k]} \subseteq ToSet(r)
  BY <1>1, <1>7, <1>8 DEF ToSet
<1>10. ToSet(r) \subseteq ToSet(q) \ {q[k]}
  <2>1. \A i \in 1..(n - 1) : \E j \in 1..n : j # k /\ r[i] = q[j]
    BY <1>1, <1>6
  <2> QED BY <1>1, <1>7, <2>1 DEF ToSet
<1>11. \A i, j \in 1..(n - 1) : r[i] = r[j] => i = j
  <2> DEFINE at(i) == IF i < k THEN i ELSE i + 1
  <2>1. \A i \in 1..(n - 1) : at(i) \in 1..n /\ r[i] = q[at(i)]
    BY <1>1, <1>6
  <2>2. \A i, j \in 1..(n - 1) : at(i) = at(j) => i = j
    BY <1>1
  <2> HIDE DEF at
  <2> QED BY <1>1, <2>1, <2>2
<1> QED BY <1>5, <1>7, <1>9, <1>10, <1>11 DEF r

(* The number of holders after one comes or goes.                          *)
LEMMA HolderCount ==
  ASSUME NEW s \in Stream
  PROVE  /\ Cardinality(Holders) \in Nat
         /\ s \notin Holders => Cardinality(Holders \cup {s}) = Cardinality(Holders) + 1
         /\ s \in Holders => Cardinality(Holders \ {s}) = Cardinality(Holders) - 1
<1>1. IsFiniteSet(Holders)
  BY StreamAssumption, FS_Subset DEF Holders
<1> QED BY <1>1, FS_CardinalityType, FS_AddElement, FS_RemoveElement

(* A holder stays one.                                                     *)
LEMMA HolderStays ==
  ASSUME SlotInv, NEW s \in Stream, NEW p \in Holding, phase[s] \in Holding,
         phase' = [phase EXCEPT ![s] = p], UNCHANGED <<slots, waiters>>
  PROVE  SlotInv'
<1>1. phase' \in [Stream -> StreamPhase]
  BY DEF SlotInv, StreamPhase
<1>2. Holders' = Holders
  BY DEF Holders, SlotInv
<1>3. {t \in Stream : phase'[t] = "queued"} = {t \in Stream : phase[t] = "queued"}
  BY DEF SlotInv, Holding, Sleeping
<1> QED BY <1>1, <1>2, <1>3 DEF SlotInv, SlotAccounting, Holders

(* wait_if_blocked and the window keep the slot.                           *)
LEMMA WaitPhase ==
  ASSUME NEW s \in Stream, WaitIfBlocked(s) \/ AcquireSlot(s)
  PROVE  /\ \E p \in {"calling", "blocked", "throttled"} : phase' = [phase EXCEPT ![s] = p]
BY DEF WaitIfBlocked, AcquireSlot, Grant, SleepUntil

LEMMA ReleaseKeepsSlots ==
  ASSUME SlotInv, NEW s \in Stream, phase[s] \in Holding, Release(s, "done")
  PROVE  SlotInv'
<1>1. s \in Holders
  BY DEF Holders
<1>2. ToSet(waiters) = {t \in Stream : phase[t] = "queued"} /\ waiters \in Seq(Stream)
  BY DEF SlotInv, SlotAccounting
<1>3. CASE waiters = <<>>
  <2>1. phase' = [phase EXCEPT ![s] = "done"] /\ slots' = slots + 1 /\ waiters' = waiters
    BY <1>3 DEF Release
  <2>2. phase' \in [Stream -> StreamPhase]
    BY <2>1 DEF SlotInv, StreamPhase
  <2>3. Holders' = Holders \ {s}
    BY <2>1 DEF Holders, SlotInv, Holding, Sleeping
  <2>4. {t \in Stream : phase'[t] = "queued"} = {t \in Stream : phase[t] = "queued"}
    BY <2>1 DEF SlotInv, Holding, Sleeping
  <2>5. slots' + Cardinality(Holders') = MaxConcurrency /\ slots' \in Nat
    <3>1. slots + Cardinality(Holders) = MaxConcurrency /\ slots \in Nat
      BY DEF SlotInv, SlotAccounting, Holders
    <3> QED BY <1>1, <2>1, <2>3, <3>1, HolderCount
  <2> QED BY <1>3, <2>1, <2>2, <2>4, <2>5 DEF SlotInv, SlotAccounting, Holders
<1>4. CASE waiters # <<>>
  <2> DEFINE h == Head(waiters)
  <2>1. /\ h \in ToSet(waiters) /\ h \in Stream /\ Tail(waiters) \in Seq(Stream)
        /\ ToSet(Tail(waiters)) = ToSet(waiters) \ {h}
        /\ \A i, j \in DOMAIN Tail(waiters) : Tail(waiters)[i] = Tail(waiters)[j] => i = j
    BY <1>4, TailMembers DEF SlotInv
  <2>2. phase[h] = "queued" /\ h # s
    BY <1>2, <2>1 DEF Holding, Sleeping
  <2>3. /\ phase' = [phase EXCEPT ![s] = "done", ![h] = "handed"]
        /\ slots' = slots /\ waiters' = Tail(waiters)
    BY <1>4 DEF Release
  <2> HIDE DEF h
  <2>4. phase' \in [Stream -> StreamPhase]
    BY <2>1, <2>3 DEF SlotInv, StreamPhase, Holding
  <2>5. phase'[s] = "done" /\ phase'[h] = "handed" /\ \A t \in Stream \ {s, h} : phase'[t] = phase[t]
    BY <2>1, <2>2, <2>3 DEF SlotInv
  <2>6. Holders' = (Holders \ {s}) \cup {h} /\ h \notin Holders
    BY <2>1, <2>2, <2>5 DEF Holders, Holding, Sleeping
  <2>7. {t \in Stream : phase'[t] = "queued"} = {t \in Stream : phase[t] = "queued"} \ {h}
    BY <1>1, <2>1, <2>2, <2>5 DEF Holders, Holding, Sleeping
  <2>8. Cardinality(Holders') = Cardinality(Holders)
    <3>1. IsFiniteSet(Holders) /\ IsFiniteSet(Holders \ {s}) /\ Cardinality(Holders) \in Nat
      BY StreamAssumption, FS_Subset, FS_CardinalityType DEF Holders
    <3>2. Cardinality(Holders \ {s}) = Cardinality(Holders) - 1
      BY <1>1, HolderCount
    <3>3. Cardinality((Holders \ {s}) \cup {h}) = Cardinality(Holders \ {s}) + 1
      BY <2>6, <3>1, FS_AddElement
    <3> QED BY <2>6, <3>1, <3>2, <3>3
  <2>9. slots = 0
    BY <1>4 DEF SlotInv, SlotAccounting
  <2> QED BY <1>2, <2>1, <2>3, <2>4, <2>7, <2>8, <2>9 DEF SlotInv, SlotAccounting, Holders
<1> QED BY <1>3, <1>4

LEMMA OpenKeepsSlots ==
  ASSUME SlotInv, NEW s \in Stream, Open(s)
  PROVE  SlotInv'
<1>1. phase[s] = "idle" /\ s \notin Holders
  BY DEF Open, Holders, Holding, Sleeping
<1>2. /\ ToSet(waiters) = {t \in Stream : phase[t] = "queued"} /\ waiters \in Seq(Stream)
      /\ slots + Cardinality(Holders) = MaxConcurrency /\ slots \in Nat
  BY DEF SlotInv, SlotAccounting, Holders
<1>3. CASE slots > 0
  <2>1. PICK p \in {"calling", "blocked", "throttled"} : phase' = [phase EXCEPT ![s] = p]
    BY <1>3, WaitPhase DEF Open
  <2>2. slots' = slots - 1 /\ waiters' = waiters /\ waiters = <<>>
    BY <1>2, <1>3 DEF Open, SlotInv, SlotAccounting
  <2>3. phase' \in [Stream -> StreamPhase]
    BY <2>1 DEF SlotInv, StreamPhase, Holding, Sleeping
  <2>4. Holders' = Holders \cup {s}
    BY <2>1 DEF Holders, SlotInv, Holding, Sleeping
  <2>5. {t \in Stream : phase'[t] = "queued"} = {t \in Stream : phase[t] = "queued"}
    BY <1>1, <2>1 DEF SlotInv
  <2>6. slots' + Cardinality(Holders') = MaxConcurrency /\ slots' \in Nat
    BY <1>1, <1>2, <1>3, <2>2, <2>4, HolderCount
  <2> QED BY <2>2, <2>3, <2>5, <2>6 DEF SlotInv, SlotAccounting, Holders
<1>4. CASE ~(slots > 0)
  <2>1. /\ slots = 0 /\ slots' = slots /\ waiters' = Append(waiters, s)
        /\ phase' = [phase EXCEPT ![s] = "queued"]
    BY <1>2, <1>4 DEF Open
  <2>2. phase' \in [Stream -> StreamPhase] /\ phase'[s] = "queued"
        /\ \A t \in Stream \ {s} : phase'[t] = phase[t]
    BY <2>1 DEF SlotInv, StreamPhase
  <2>3. Holders' = Holders
    BY <1>1, <2>2 DEF Holders, Holding, Sleeping
  <2>4. {t \in Stream : phase'[t] = "queued"} = {t \in Stream : phase[t] = "queued"} \cup {s}
    BY <2>2
  <2>5. s \notin ToSet(waiters)
    BY <1>1, <1>2
  <2>6. /\ waiters' \in Seq(Stream) /\ ToSet(waiters') = ToSet(waiters) \cup {s}
        /\ \A i, j \in DOMAIN waiters' : waiters'[i] = waiters'[j] => i = j
    BY <2>1, <2>5, AppendMembers DEF SlotInv
  <2> QED BY <1>2, <2>1, <2>2, <2>3, <2>4, <2>6 DEF SlotInv, SlotAccounting, Holders
<1> QED BY <1>3, <1>4

(* A client that leaves while it is queued gives up its place only.        *)
LEMMA LeaveQueueKeepsSlots ==
  ASSUME SlotInv, NEW s \in Stream, phase[s] = "queued", Disconnect(s)
  PROVE  SlotInv'
<1>1. PICK k \in DOMAIN waiters : waiters[k] = s /\ waiters' = RemoveAt(waiters, k)
  BY DEF Disconnect, Holding, Sleeping
<1>2. phase' = [phase EXCEPT ![s] = "done"] /\ slots' = slots
  BY DEF Disconnect, Holding, Sleeping
<1>3. phase' \in [Stream -> StreamPhase] /\ phase'[s] = "done"
      /\ \A t \in Stream \ {s} : phase'[t] = phase[t]
  BY <1>2 DEF SlotInv, StreamPhase
<1>4. Holders' = Holders
  BY <1>3 DEF Holders, Holding, Sleeping
<1>5. {t \in Stream : phase'[t] = "queued"} = {t \in Stream : phase[t] = "queued"} \ {s}
  BY <1>3
<1>6. /\ waiters' \in Seq(Stream) /\ ToSet(waiters') = ToSet(waiters) \ {s}
      /\ \A i, j \in DOMAIN waiters' : waiters'[i] = waiters'[j] => i = j
  BY <1>1, RemoveAtMembers DEF SlotInv
<1>7. slots = 0
  <2>1. waiters # <<>>
    BY <1>1
  <2> QED BY <2>1 DEF SlotInv, SlotAccounting
<1> QED BY <1>2, <1>3, <1>4, <1>5, <1>6, <1>7 DEF SlotInv, SlotAccounting, Holders

LEMMA SlotStep == SlotInv /\ [Next]_vars => SlotInv'
<1> SUFFICES ASSUME SlotInv, [Next]_vars PROVE SlotInv'
  OBVIOUS
<1> USE DEF historyVars, limiterVars, streamVars
<1>1. ASSUME UNCHANGED <<phase, slots, waiters>> PROVE SlotInv'
  BY <1>1 DEF SlotInv, SlotAccounting
<1>2. ASSUME NEW s \in Stream,
             \/ TakeSlot(s) \/ WakeForWindow(s) \/ WakeForRetry(s) \/ RetryDowngraded(s)
      PROVE  SlotInv'
  <2>1. phase[s] \in Holding /\ UNCHANGED <<slots, waiters>>
    BY <1>2 DEF TakeSlot, WakeForWindow, WakeForRetry, RetryDowngraded, Holding, Sleeping
  <2>2. PICK p \in {"calling", "blocked", "throttled"} : phase' = [phase EXCEPT ![s] = p]
    BY <1>2, WaitPhase DEF TakeSlot, WakeForWindow, WakeForRetry, RetryDowngraded
  <2>3. p \in Holding
    BY DEF Holding, Sleeping
  <2> QED BY <2>1, <2>2, <2>3, HolderStays
<1>3. ASSUME NEW s \in Stream, CallSucceeds(s) \/ RetryLater(s) \/ GiveUp(s) \/ Fail(s)
      PROVE  SlotInv'
  <2>1. phase[s] \in Holding /\ UNCHANGED <<slots, waiters>>
    BY <1>3 DEF CallSucceeds, RetryLater, GiveUp, Fail, Holding
  <2>2. PICK p \in {"streaming", "backoff", "failing"} : phase' = [phase EXCEPT ![s] = p]
    BY <1>3 DEF CallSucceeds, RetryLater, GiveUp, Fail, SleepUntil
  <2>3. p \in Holding
    BY DEF Holding, Sleeping
  <2> QED BY <2>1, <2>2, <2>3, HolderStays
<1>4. ASSUME NEW s \in Stream, Close(s) PROVE SlotInv'
  BY <1>4, ReleaseKeepsSlots DEF Close, Holding
<1>5. ASSUME NEW s \in Stream, Disconnect(s) PROVE SlotInv'
  BY <1>5, ReleaseKeepsSlots, LeaveQueueKeepsSlots DEF Disconnect
<1>6. CASE Tick
  BY <1>1, <1>6 DEF Tick
<1>7. CASE UNCHANGED vars
  BY <1>1, <1>7 DEF vars
<1> QED BY <1>2, <1>3, <1>4, <1>5, <1>6, <1>7, OpenKeepsSlots DEF Next, StreamStep

LEMMA SlotInit == Init => SlotInv
<1> SUFFICES ASSUME Init PROVE SlotInv
  OBVIOUS
<1>1. Holders = {} /\ {t \in Stream : phase[t] = "queued"} = {}
  BY DEF Init, Holders, Holding, Sleeping
<1>2. Cardinality(Holders) = 0
  BY <1>1, FS_EmptySet
<1>3. ToSet(waiters) = {} /\ waiters \in Seq(Stream) /\ waiters = <<>>
  BY DEF Init, ToSet
<1>4. slots = MaxConcurrency /\ slots \in Nat /\ phase \in [Stream -> StreamPhase]
  BY LimitAssumption DEF Init, StreamPhase
<1> QED BY <1>1, <1>2, <1>3, <1>4 DEF SlotInv, SlotAccounting, Holders

(* Slots are neither lost nor invented, and nobody waits while one is      *)
(* free, for every number of streams and every way in which they end       *)
(* (rate_limit.py:171-181).                                                *)
THEOREM SlotsAreConserved == Spec => []SlotAccounting
<1>1. SlotInv => SlotAccounting
  BY DEF SlotInv
<1> QED BY <1>1, SlotInit, SlotStep, PTL DEF Spec

-----------------------------------------------------------------------------
(* The number of upstream calls.  A stream has called once for each        *)
(* attempt it has begun, and before that as often as its first body was    *)
(* allowed to.                                                             *)
Earlier(s) == IF s \in downgraded THEN MaxRetries + 1 ELSE 0
Called     == {"calling", "streaming", "failing", "done"}

CallsInv ==
  /\ calls \in [Stream -> Nat] /\ attempt \in [Stream -> 0..MaxRetries]
  /\ \A s \in Stream : calls[s] <= Earlier(s) + attempt[s] + (IF phase[s] \in Called THEN 1 ELSE 0)

(* A step of one stream, the rest of which is arithmetic.                  *)
LEMMA OneStream ==
  ASSUME CallsInv, NEW s \in Stream,
         calls' \in [Stream -> Nat], attempt' \in [Stream -> 0..MaxRetries],
         \A t \in Stream \ {s} :
           /\ calls'[t] = calls[t] /\ attempt'[t] = attempt[t]
           /\ phase'[t] \in Called <=> phase[t] \in Called
           /\ t \in downgraded' <=> t \in downgraded,
         calls'[s] <= Earlier(s)' + attempt'[s] + (IF phase'[s] \in Called THEN 1 ELSE 0)
  PROVE  CallsInv'
<1>1. ASSUME NEW t \in Stream, t # s
      PROVE  calls'[t] <= Earlier(t)' + attempt'[t] + (IF phase'[t] \in Called THEN 1 ELSE 0)
  <2>1. Earlier(t)' = Earlier(t)
    BY <1>1 DEF Earlier
  <2> QED BY <1>1, <2>1 DEF CallsInv
<1> QED BY <1>1 DEF CallsInv

(* wait_if_blocked, with the window: it calls at most once.                *)
LEMMA WaitCalls ==
  ASSUME CallsInv, SlotInv, NEW s \in Stream, WaitIfBlocked(s) \/ AcquireSlot(s)
  PROVE  /\ calls' \in [Stream -> Nat]
         /\ \A t \in Stream \ {s} : calls'[t] = calls[t] /\ phase'[t] = phase[t]
         /\ calls'[s] = calls[s] + (IF phase'[s] \in Called THEN 1 ELSE 0)
<1>1. \/ calls' = [calls EXCEPT ![s] = @ + 1] /\ phase' = [phase EXCEPT ![s] = "calling"]
      \/ calls' = calls /\ \E p \in {"blocked", "throttled"} : phase' = [phase EXCEPT ![s] = p]
  BY DEF WaitIfBlocked, AcquireSlot, Grant, SleepUntil, historyVars
<1>2. phase' = [phase EXCEPT ![s] = phase'[s]] /\ calls[s] \in Nat
  BY <1>1 DEF SlotInv, CallsInv
<1>3. CASE calls' = [calls EXCEPT ![s] = @ + 1] /\ phase' = [phase EXCEPT ![s] = "calling"]
  BY <1>2, <1>3 DEF CallsInv, SlotInv, Called
<1>4. CASE calls' = calls /\ \E p \in {"blocked", "throttled"} : phase' = [phase EXCEPT ![s] = p]
  BY <1>2, <1>4 DEF CallsInv, SlotInv, Called
<1> QED BY <1>1, <1>3, <1>4

LEMMA Arithmetic ==
  ASSUME CallsInv, NEW s \in Stream
  PROVE  /\ MaxRetries \in Nat /\ calls[s] \in Nat /\ attempt[s] \in Nat
         /\ attempt[s] <= MaxRetries /\ Earlier(s) \in Nat
         /\ phase[s] \in Called => calls[s] <= Earlier(s) + attempt[s] + 1
         /\ phase[s] \notin Called => calls[s] <= Earlier(s) + attempt[s]
BY LimitAssumption DEF CallsInv, Earlier

(* Handing a slot over, or leaving the queue, calls nobody.                *)
LEMMA LeaveCalls ==
  ASSUME CallsInv, SlotInv, NEW s \in Stream,
         \/ Release(s, "done") /\ phase[s] \in Holding
         \/ phase' = [phase EXCEPT ![s] = "done"],
         UNCHANGED <<calls, attempt, downgraded>>
  PROVE  CallsInv'
<1>1. phase'[s] = "done" /\ \A t \in Stream \ {s} : phase'[t] \in Called <=> phase[t] \in Called
  <2>1. CASE phase' = [phase EXCEPT ![s] = "done"]
    BY <2>1 DEF SlotInv
  <2>2. CASE phase' = [phase EXCEPT ![s] = "done", ![Head(waiters)] = "handed"]
             /\ waiters # <<>> /\ phase[s] \in Holding
    <3>1. Head(waiters) \in ToSet(waiters) /\ Head(waiters) \in Stream
      BY <2>2, TailMembers DEF SlotInv
    <3>2. phase[Head(waiters)] = "queued" /\ Head(waiters) # s
      BY <2>2, <3>1 DEF SlotInv, SlotAccounting, Holding, Sleeping
    <3> QED BY <2>2, <3>1, <3>2 DEF SlotInv, Called
  <2> QED BY <2>1, <2>2 DEF Release
<1>2. calls'[s] <= Earlier(s)' + attempt'[s] + (IF phase'[s] \in Called THEN 1 ELSE 0)
  BY <1>1, Arithmetic DEF Earlier, Called
<1> QED BY <1>1, <1>2, OneStream DEF CallsInv

LEMMA CallsStep == SlotInv /\ CallsInv /\ [Next]_vars => CallsInv'
<1> SUFFICES ASSUME SlotInv, CallsInv, [Next]_vars PROVE CallsInv'
  OBVIOUS
<1> USE DEF historyVars, limiterVars, streamVars
<1>1. ASSUME UNCHANGED <<phase, calls, attempt, downgraded>> PROVE CallsInv'
  BY <1>1 DEF CallsInv, Earlier
<1>2. ASSUME NEW s \in Stream,
             \/ Open(s) /\ slots > 0
             \/ TakeSlot(s) \/ WakeForWindow(s) \/ WakeForRetry(s)
      PROVE  CallsInv'
  <2>1. /\ WaitIfBlocked(s) \/ AcquireSlot(s)
        /\ phase[s] \notin Called /\ UNCHANGED <<attempt, downgraded>>
    BY <1>2 DEF Open, TakeSlot, WakeForWindow, WakeForRetry, Called
  <2>2. calls'[s] = calls[s] + (IF phase'[s] \in Called THEN 1 ELSE 0)
    BY <2>1, WaitCalls
  <2>3. calls'[s] <= Earlier(s)' + attempt'[s] + (IF phase'[s] \in Called THEN 1 ELSE 0)
    BY <2>1, <2>2, Arithmetic DEF Earlier
  <2> QED BY <2>1, <2>3, WaitCalls, OneStream DEF CallsInv
<1>3. ASSUME NEW s \in Stream, Open(s), ~(slots > 0) PROVE CallsInv'
  <2>1. phase[s] \notin Called /\ phase' = [phase EXCEPT ![s] = "queued"]
        /\ UNCHANGED <<calls, attempt, downgraded>>
    BY <1>3 DEF Open, Called
  <2>2. \A t \in Stream : phase'[t] \in Called <=> phase[t] \in Called
    BY <2>1 DEF SlotInv, Called
  <2> QED BY <2>1, <2>2 DEF CallsInv, Earlier
<1>4. ASSUME NEW s \in Stream, CallSucceeds(s) \/ GiveUp(s) \/ Fail(s) PROVE CallsInv'
  <2>1. /\ phase[s] \in Called /\ UNCHANGED <<calls, attempt, downgraded>>
        /\ \E p \in {"streaming", "failing"} : phase' = [phase EXCEPT ![s] = p]
    BY <1>4 DEF CallSucceeds, GiveUp, Fail, Called
  <2>2. \A t \in Stream : phase'[t] \in Called <=> phase[t] \in Called
    BY <2>1 DEF SlotInv, Called
  <2> QED BY <2>1, <2>2 DEF CallsInv, Earlier
<1>5. ASSUME NEW s \in Stream, RetryLater(s) PROVE CallsInv'
  <2>1. /\ phase[s] \in Called /\ UNCHANGED <<calls, downgraded>> /\ attempt[s] < MaxRetries
        /\ attempt' = [attempt EXCEPT ![s] = @ + 1]
        /\ phase' = [phase EXCEPT ![s] = "backoff"]
    BY <1>5 DEF RetryLater, SleepUntil, Called
  <2>2. attempt'[s] = attempt[s] + 1 /\ phase'[s] = "backoff"
    BY <2>1 DEF CallsInv, SlotInv
  <2>3. attempt' \in [Stream -> 0..MaxRetries]
    BY <2>1, Arithmetic DEF CallsInv
  <2>4. calls'[s] <= Earlier(s)' + attempt'[s] + (IF phase'[s] \in Called THEN 1 ELSE 0)
    BY <2>1, <2>2, Arithmetic DEF Earlier, Called
  <2>5. \A t \in Stream \ {s} : attempt'[t] = attempt[t] /\ phase'[t] = phase[t]
    BY <2>1 DEF CallsInv, SlotInv
  <2> QED BY <2>1, <2>3, <2>4, <2>5, OneStream DEF CallsInv
<1>6. ASSUME NEW s \in Stream, RetryDowngraded(s) PROVE CallsInv'
  <2>1. /\ phase[s] \in Called /\ s \notin downgraded /\ downgraded' = downgraded \cup {s}
        /\ attempt' = [attempt EXCEPT ![s] = 0] /\ WaitIfBlocked(s)
    BY <1>6 DEF RetryDowngraded, Called
  <2>2. calls'[s] = calls[s] + (IF phase'[s] \in Called THEN 1 ELSE 0)
    BY <2>1, WaitCalls
  <2>3. Earlier(s) = 0 /\ Earlier(s)' = MaxRetries + 1 /\ attempt'[s] = 0
    BY <2>1 DEF Earlier, CallsInv
  <2>4. calls'[s] <= Earlier(s)' + attempt'[s] + (IF phase'[s] \in Called THEN 1 ELSE 0)
    BY <2>1, <2>2, <2>3, Arithmetic
  <2>5. attempt' \in [Stream -> 0..MaxRetries] /\ \A t \in Stream \ {s} : attempt'[t] = attempt[t]
    BY <2>1, LimitAssumption DEF CallsInv
  <2> QED BY <2>1, <2>4, <2>5, WaitCalls, OneStream
<1>7. ASSUME NEW s \in Stream, Close(s) \/ Disconnect(s) PROVE CallsInv'
  BY <1>7, LeaveCalls DEF Close, Disconnect, Holding
<1>8. CASE Tick
  BY <1>1, <1>8 DEF Tick
<1>9. CASE UNCHANGED vars
  BY <1>1, <1>9 DEF vars
<1> QED BY <1>2, <1>3, <1>4, <1>5, <1>6, <1>7, <1>8, <1>9 DEF Next, StreamStep

(* Retries of a 429, inside and outside the one downgraded retry, never    *)
(* add up to more calls than two full rounds (rate_limit.py:207-260).      *)
THEOREM CallsAreBounded == Spec => []CallsBounded
<1>1. Init => CallsInv
  BY LimitAssumption DEF Init, CallsInv, Earlier
<1>2. CallsInv => CallsBounded
  <2> SUFFICES ASSUME CallsInv, NEW s \in Stream
               PROVE  calls[s] <= (IF s \in downgraded THEN 2 ELSE 1) * (MaxRetries + 1)
    BY DEF CallsBounded
  <2>1. calls[s] <= Earlier(s) + MaxRetries + 1 /\ MaxRetries \in Nat
    BY Arithmetic
  <2>2. CASE s \in downgraded
    BY <2>1, <2>2 DEF Earlier
  <2>3. CASE s \notin downgraded
    BY <2>1, <2>3 DEF Earlier
  <2> QED BY <2>2, <2>3
<1> QED BY <1>1, <1>2, SlotInit, SlotStep, CallsStep, PTL DEF Spec
=============================================================================
