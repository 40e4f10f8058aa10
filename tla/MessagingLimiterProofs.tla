------------------------ MODULE MessagingLimiterProofs ------------------------
(***************************************************************************)
(* The futures of MessagingLimiter, its flood wait and the edit it shows   *)
(* last, for any number of requests and keys and any limits.               *)
(***************************************************************************)
EXTENDS MessagingLimiter, SequenceTheorems, TLAPS

Queued(k) == \E i \in 1..Len(queue) : queue[i] = k

(* _queue_list names, once each, the keys that _queue_map holds.           *)
QueueInv ==
  /\ queue \in Seq(Key)
  /\ func \in [Key -> Request \cup {NoRequest}]
  /\ \A i, j \in 1..Len(queue) : queue[i] = queue[j] => i = j
  /\ \A k \in Key : InMap(k) <=> Queued(k)

(* The worker holds a task exactly between TakeTask and the end of the send. *)
WorkerInv ==
  /\ worker \in {"waiting", "pausing", "acquiring", "sending", "stopped"}
  /\ worker \in {"waiting", "stopped"} => current = NoRequest /\ batch = {}
  /\ worker \notin {"waiting", "stopped"} => current \in Request
  /\ batch \subseteq Request

(* A request has a key, an attempt that was counted and a place in the map *)
(* or the batch only once it is made.                                      *)
CallerInv ==
  /\ phase \in [Request -> {"none", "waiting", "backoff", "done", "failed", "cancelled"}]
  /\ key \in [Request -> Key \cup {NoKey}]
  /\ attempt \in [Request -> Nat]
  /\ futures \in [Key -> SUBSET Request]
  /\ newest \in [Key -> Request \cup {NoRequest}]
  /\ shown \in [Key -> Request \cup {NoRequest}]
  /\ \A r \in Request : phase[r] = "none" <=> key[r] = NoKey
  /\ \A r \in Request : phase[r] = "backoff" => attempt[r] > 0
  /\ \A k \in Key : InMap(k) => key[func[k]] = k
  /\ current \in Request => key[current] \in Key

FutureInv ==
  /\ \A k \in Key : ~InMap(k) => futures[k] = {}
  /\ \A r \in batch : phase[r] \in {"waiting", "cancelled"} /\ key[r] = key[current]
  /\ \A k \in Key : \A r \in futures[k] :
       phase[r] \in {"waiting", "cancelled"} /\ key[r] = k /\ r \notin batch
  /\ worker # "stopped" =>
       \A r \in Request : phase[r] = "waiting" => r \in batch \/ \E k \in Key : r \in futures[k]

Unretried(k) == \A r \in Of(k) : attempt[r] = 0

(* As long as no request for k was retried, the map holds the newest one or *)
(* none, and a func that is older than it is followed by it.               *)
LatestInv ==
  \A k \in Key :
    /\ newest[k] \in Request => key[newest[k]] = k
    /\ Of(k) # {} => newest[k] \in Request
    /\ Unretried(k) =>
         /\ InMap(k) => func[k] = newest[k] /\ newest[k] \in futures[k]
         /\ current \in Request /\ key[current] = k => current = newest[k] \/ InMap(k)
         /\ newest[k] \in Request /\ phase[newest[k]] = "done" => shown[k] = newest[k]

LimiterInv == QueueInv /\ WorkerInv /\ CallerInv /\ FutureInv

-----------------------------------------------------------------------------
(* The queue.                                                              *)

(* What Enqueue does to the queue: a key is added at its end, once.        *)
LEMMA EnqueueKeepsQueue ==
  ASSUME QueueInv, NEW r \in Request, NEW k \in Key, Enqueue(r, k)
  PROVE  QueueInv'
<1>1. queue \in Seq(Key) /\ func \in [Key -> Request \cup {NoRequest}]
  BY DEF QueueInv
<1>2. func' \in [Key -> Request \cup {NoRequest}]
  BY <1>1 DEF Enqueue
<1>3. r # NoRequest
  BY RequestAssumption
<1>4. \A j \in Key : InMap(j)' <=> InMap(j) \/ j = k
  BY <1>1, <1>3 DEF Enqueue, InMap
<1>5. CASE InMap(k)
  <2>1. queue' = queue
    BY <1>5 DEF Enqueue
  <2> QED BY <1>2, <1>4, <1>5, <2>1 DEF QueueInv, Queued
<1>6. CASE ~InMap(k)
  <2> DEFINE n == Len(queue)
  <2>1. queue' = Append(queue, k)
    BY <1>6 DEF Enqueue
  <2>2. /\ n \in Nat /\ queue' \in Seq(Key) /\ Len(queue') = n + 1
        /\ \A i \in 1..n : queue'[i] = queue[i]
        /\ queue'[n + 1] = k
    BY <1>1, <2>1, AppendProperties
  <2>3. \A i \in 1..n : queue[i] # k
    BY <1>6 DEF QueueInv, Queued
  <2>4. \A i, j \in 1..n : queue[i] = queue[j] => i = j
    BY DEF QueueInv
  <2>5. \A j \in Key : InMap(j) <=> \E i \in 1..n : queue[i] = j
    BY DEF QueueInv, Queued
  <2> HIDE DEF n
  <2>6. 1..(n + 1) = 1..n \cup {n + 1} /\ n + 1 \notin 1..n
    BY <2>2
  <2>7. \A i, j \in 1..(n + 1) : queue'[i] = queue'[j] => i = j
    BY <2>2, <2>3, <2>4, <2>6
  <2>8. \A j \in Key : InMap(j)' <=> \E i \in 1..(n + 1) : queue'[i] = j
    BY <1>4, <2>2, <2>5, <2>6
  <2> QED BY <1>2, <2>2, <2>7, <2>8 DEF QueueInv, Queued
<1> QED BY <1>5, <1>6

(* TakeTask takes the only entry of the key that it takes out of the map.  *)
LEMMA TakeTaskKeepsQueue ==
  ASSUME QueueInv, TakeTask
  PROVE  /\ QueueInv'
         /\ Head(queue) \in Key
         /\ func[Head(queue)] \in Request
<1> DEFINE n == Len(queue)
<1> DEFINE k == Head(queue)
<1>1. queue \in Seq(Key) /\ queue # <<>> /\ queue' = Tail(queue)
  BY DEF QueueInv, TakeTask
<1>2. func \in [Key -> Request \cup {NoRequest}]
  BY DEF QueueInv
<1>3. /\ k \in Key /\ k = queue[1]
      /\ n \in Nat /\ n >= 1 /\ queue' \in Seq(Key) /\ Len(queue') = n - 1
      /\ \A i \in 1..(n - 1) : queue'[i] = queue[i + 1]
  BY <1>1, HeadTailProperties
<1>4. \A i, j \in 1..n : queue[i] = queue[j] => i = j
  BY DEF QueueInv
<1>5. \A j \in Key : func[j] # NoRequest <=> \E i \in 1..n : queue[i] = j
  BY DEF QueueInv, Queued, InMap
<1>6. func' = [func EXCEPT ![k] = NoRequest]
  BY DEF TakeTask
<1> HIDE DEF n, k
<1>7. func' \in [Key -> Request \cup {NoRequest}]
  BY <1>2, <1>6
<1>8. 1 \in 1..n /\ \A i \in 1..(n - 1) : i + 1 \in 1..n /\ i + 1 # 1
  BY <1>3
<1>9. \A i, j \in 1..(n - 1) : queue'[i] = queue'[j] => i = j
  <2> SUFFICES ASSUME NEW i \in 1..(n - 1), NEW j \in 1..(n - 1), queue'[i] = queue'[j]
               PROVE  i = j
    OBVIOUS
  <2>1. i + 1 = j + 1
    BY <1>3, <1>4, <1>8
  <2> QED BY <2>1
<1>10. \A j \in Key : func'[j] # NoRequest <=> \E i \in 1..(n - 1) : queue'[i] = j
  <2> SUFFICES ASSUME NEW j \in Key
               PROVE  func'[j] # NoRequest <=> \E i \in 1..(n - 1) : queue'[i] = j
    OBVIOUS
  <2>1. CASE j = k
    <3>1. \A i \in 1..(n - 1) : queue[i + 1] # queue[1]
      BY <1>4, <1>8
    <3> QED BY <1>2, <1>3, <1>6, <2>1, <3>1
  <2>2. CASE j # k
    <3>1. func'[j] = func[j]
      BY <1>2, <1>6, <2>2
    <3>2. ASSUME NEW i \in 1..n, queue[i] = j
          PROVE  \E h \in 1..(n - 1) : queue'[h] = j
      <4>1. i # 1 /\ i \in Nat /\ n \in Nat
        BY <1>3, <2>2, <3>2
      <4>2. i - 1 \in 1..(n - 1) /\ (i - 1) + 1 = i
        BY <4>1
      <4>3. queue'[i - 1] = queue[i]
        BY <1>3, <4>2
      <4> QED BY <3>2, <4>2, <4>3
    <3>3. ASSUME NEW h \in 1..(n - 1), queue'[h] = j
          PROVE  \E i \in 1..n : queue[i] = j
      BY <1>3, <1>8, <3>3
    <3> QED BY <1>5, <3>1, <3>2, <3>3
  <2> QED BY <2>1, <2>2
<1>11. QueueInv'
  BY <1>3, <1>7, <1>9, <1>10 DEF QueueInv, Queued, InMap
<1>12. func[k] # NoRequest
  BY <1>3, <1>5, <1>8
<1> QED BY <1>2, <1>3, <1>11, <1>12 DEF k

LEMMA QueueStep ==
  ASSUME QueueInv, CallerInv, [Next]_vars
  PROVE  QueueInv'
<1>1. ASSUME NEW r \in Request, NEW k \in Key, Submit(r, k)
      PROVE  QueueInv'
  BY <1>1, EnqueueKeepsQueue DEF Submit
<1>2. ASSUME NEW r \in Request, Retry(r)
      PROVE  QueueInv'
  <2>1. key[r] \in Key
    BY <1>2 DEF CallerInv, Retry
  <2> QED BY <1>2, <2>1, EnqueueKeepsQueue DEF Retry
<1>3. CASE TakeTask
  BY <1>3, TakeTaskKeepsQueue
<1>4. CASE UNCHANGED <<queue, func>>
  BY <1>4 DEF QueueInv, Queued, InMap
<1> QED
  BY <1>1, <1>2, <1>3, <1>4
  DEF Next, WorkerStep, CancelCaller, PauseOver, Acquire, SendSucceeds, SendFails, Shutdown,
      Tick, vars, limiterVars

-----------------------------------------------------------------------------
(* The worker and the callers.                                             *)

LEMMA WorkerKeeps ==
  ASSUME QueueInv, WorkerInv, CallerInv, [Next]_vars
  PROVE  WorkerInv'
<1>1. CASE TakeTask
  <2>1. Head(queue) \in Key /\ func[Head(queue)] \in Request
    BY <1>1, TakeTaskKeepsQueue
  <2>2. futures[Head(queue)] \subseteq Request
    BY <2>1 DEF CallerInv
  <2>3. current' = func[Head(queue)] /\ batch' = futures[Head(queue)]
        /\ worker' \in {"pausing", "acquiring"}
    BY <1>1 DEF TakeTask
  <2> QED BY <2>1, <2>2, <2>3 DEF WorkerInv
<1>2. CASE PauseOver \/ Acquire
  BY <1>2 DEF WorkerInv, PauseOver, Acquire
<1>3. CASE SendSucceeds \/ SendFails \/ Shutdown
  BY <1>3 DEF WorkerInv, SendSucceeds, SendFails, Shutdown
<1>4. CASE UNCHANGED workerVars
  BY <1>4 DEF WorkerInv, workerVars
<1> QED
  BY <1>1, <1>2, <1>3, <1>4
  DEF Next, WorkerStep, Submit, Retry, CancelCaller, Tick, vars, limiterVars

(* The maps of the limiter and of the history keep their types when a      *)
(* request is entered.                                                     *)
LEMMA EnqueueKeepsTypes ==
  ASSUME QueueInv, CallerInv, NEW r \in Request, NEW k \in Key, Enqueue(r, k)
  PROVE  /\ futures' \in [Key -> SUBSET Request]
         /\ \A j \in Key :
              /\ func'[j] = (IF j = k THEN r ELSE func[j])
              /\ futures'[j] = (IF j = k THEN futures[k] \cup {r} ELSE futures[j])
BY DEF QueueInv, CallerInv, Enqueue

LEMMA CallerKeeps ==
  ASSUME QueueInv, WorkerInv, CallerInv, [Next]_vars
  PROVE  CallerInv'
<1> USE RequestAssumption
<1>1. ASSUME NEW r \in Request, NEW k \in Key, Submit(r, k)
      PROVE  CallerInv'
  <2>1. /\ phase' = [phase EXCEPT ![r] = "waiting"] /\ key' = [key EXCEPT ![r] = k]
        /\ newest' = [newest EXCEPT ![k] = r] /\ phase[r] = "none" /\ Enqueue(r, k)
        /\ UNCHANGED <<attempt, shown, current>>
    BY <1>1 DEF Submit, workerVars
  <2>2. key[r] = NoKey
    BY <2>1 DEF CallerInv
  <2>3. \A j \in Key : InMap(j)' => key'[func'[j]] = j
    <3> SUFFICES ASSUME NEW j \in Key, InMap(j)' PROVE key'[func'[j]] = j
      OBVIOUS
    <3>0. func'[j] = IF j = k THEN r ELSE func[j]
      BY <2>1, EnqueueKeepsTypes
    <3>1. CASE j = k
      BY <2>1, <3>0, <3>1 DEF CallerInv
    <3>2. CASE j # k
      <4>1. InMap(j) /\ func'[j] = func[j] /\ func[j] \in Request
        BY <3>0, <3>2 DEF InMap, QueueInv
      <4>2. key[func[j]] = j /\ func[j] # r
        BY <2>2, <4>1 DEF CallerInv
      <4> QED BY <2>1, <4>1, <4>2 DEF CallerInv
    <3> QED BY <3>1, <3>2
  <2>4. current \in Request => key'[current] \in Key
    BY <2>1, <2>2 DEF CallerInv
  <2>5. futures' \in [Key -> SUBSET Request]
    BY <2>1, EnqueueKeepsTypes
  <2> QED BY <2>1, <2>2, <2>3, <2>4, <2>5 DEF CallerInv
<1>2. ASSUME NEW r \in Request, Retry(r)
      PROVE  CallerInv'
  <2>1. /\ phase[r] = "backoff" /\ phase' = [phase EXCEPT ![r] = "waiting"]
        /\ Enqueue(r, key[r])
        /\ UNCHANGED <<key, attempt, newest, shown, current>>
    BY <1>2 DEF Retry, workerVars, historyVars
  <2>2. key[r] \in Key
    BY <2>1 DEF CallerInv
  <2>3. \A j \in Key : InMap(j)' => key'[func'[j]] = j
    <3> SUFFICES ASSUME NEW j \in Key, InMap(j)'
                 PROVE  key[func'[j]] = j
      BY <2>1
    <3>1. func'[j] = IF j = key[r] THEN r ELSE func[j]
      <4>1. func' = [func EXCEPT ![key[r]] = r] /\ func \in [Key -> Request \cup {NoRequest}]
        BY <2>1 DEF Enqueue, QueueInv
      <4> QED BY <4>1
    <3>2. CASE j = key[r]
      BY <3>1, <3>2
    <3>3. CASE j # key[r]
      <4>1. func'[j] = func[j] /\ InMap(j)
        BY <3>1, <3>3 DEF InMap
      <4> QED BY <4>1 DEF CallerInv
    <3> QED BY <3>2, <3>3
  <2>4. futures' \in [Key -> SUBSET Request]
    BY <2>1, <2>2, EnqueueKeepsTypes
  <2> QED BY <2>1, <2>2, <2>3, <2>4 DEF CallerInv
<1>3. ASSUME NEW r \in Request, CancelCaller(r)
      PROVE  CallerInv'
  BY <1>3 DEF CallerInv, CancelCaller, limiterVars, workerVars, historyVars, InMap
<1>4. CASE TakeTask
  <2>1. /\ Head(queue) \in Key /\ func[Head(queue)] \in Request
        /\ func' = [func EXCEPT ![Head(queue)] = NoRequest]
        /\ futures' = [futures EXCEPT ![Head(queue)] = {}]
        /\ current' = func[Head(queue)]
        /\ UNCHANGED <<phase, key, attempt, newest, shown>>
    BY <1>4, TakeTaskKeepsQueue DEF TakeTask, callerVars, historyVars
  <2>2. \A j \in Key : InMap(j)' => InMap(j) /\ func'[j] = func[j]
    BY <2>1 DEF InMap, QueueInv
  <2>3. key[func[Head(queue)]] = Head(queue)
    BY <2>1 DEF CallerInv, InMap
  <2> QED BY <2>1, <2>2, <2>3 DEF CallerInv
<1>5. CASE PauseOver \/ Acquire
  BY <1>5 DEF CallerInv, PauseOver, Acquire, limiterVars, callerVars, historyVars, InMap
<1>6. CASE SendSucceeds
  <2>1. current \in Request /\ key[current] \in Key
    BY <1>6 DEF SendSucceeds, WorkerInv, CallerInv
  <2> QED BY <1>6, <2>1 DEF CallerInv, SendSucceeds, limiterVars, InMap, Waiting
<1>7. CASE SendFails
  <2>1. PICK flood \in BOOLEAN, transient \in BOOLEAN :
          LET again == {r \in Waiting \cap forgotten : transient /\ attempt[r] < MaxRetries}
          IN  /\ phase' = [r \in Request |-> IF r \in again THEN "backoff"
                                             ELSE IF r \in Waiting THEN "failed" ELSE phase[r]]
              /\ attempt' = [r \in Request |-> IF r \in again THEN attempt[r] + 1 ELSE attempt[r]]
    BY <1>7 DEF SendFails
  <2>2. UNCHANGED <<func, futures, key, newest, shown>> /\ current' = NoRequest
    BY <1>7 DEF SendFails, historyVars
  <2>3. \A r \in Waiting : phase[r] = "waiting"
    BY DEF Waiting
  <2>4. \A r \in Request : key[r] = NoKey => r \notin Waiting
    BY <2>3 DEF CallerInv
  <2> QED BY <2>1, <2>2, <2>3, <2>4 DEF CallerInv, InMap
<1>8. CASE Shutdown \/ Tick \/ UNCHANGED vars
  BY <1>8
  DEF CallerInv, Shutdown, Tick, limiterVars, workerVars, callerVars, historyVars, vars, InMap
<1> QED BY <1>1, <1>2, <1>3, <1>4, <1>5, <1>6, <1>7, <1>8 DEF Next, WorkerStep

-----------------------------------------------------------------------------
(* The futures.                                                            *)

LEMMA SubmitKeepsFutures ==
  ASSUME LimiterInv, NEW r \in Request, NEW k \in Key, Submit(r, k)
  PROVE  FutureInv'
<1>1. /\ phase' = [phase EXCEPT ![r] = "waiting"] /\ key' = [key EXCEPT ![r] = k]
      /\ phase[r] = "none" /\ Enqueue(r, k)
      /\ UNCHANGED <<worker, current, batch>>
  BY DEF Submit, workerVars
<1>2. \A j \in Key : /\ func'[j] = (IF j = k THEN r ELSE func[j])
                     /\ futures'[j] = (IF j = k THEN futures[k] \cup {r} ELSE futures[j])
  BY <1>1, EnqueueKeepsTypes DEF LimiterInv
<1>3. r \notin batch /\ \A j \in Key : r \notin futures[j]
  BY <1>1 DEF LimiterInv, FutureInv
<1>4. batch # {} => current \in Request /\ current # r
  <2>1. current \in Request => phase[current] # "none"
    BY RequestAssumption DEF LimiterInv, CallerInv
  <2> QED BY <1>1, <2>1 DEF LimiterInv, WorkerInv
<1>5. \A q \in Request : q # r => phase'[q] = phase[q] /\ key'[q] = key[q]
  BY <1>1 DEF LimiterInv, CallerInv
<1>6. phase'[r] = "waiting" /\ key'[r] = k
  BY <1>1 DEF LimiterInv, CallerInv
<1>7. \A j \in Key : ~InMap(j)' => futures'[j] = {}
  BY <1>2, RequestAssumption DEF InMap, LimiterInv, FutureInv
<1>8. \A q \in batch' : phase'[q] \in {"waiting", "cancelled"} /\ key'[q] = key'[current']
  BY <1>1, <1>3, <1>4, <1>5 DEF LimiterInv, WorkerInv, FutureInv
<1>9. \A j \in Key : \A q \in futures'[j] :
        phase'[q] \in {"waiting", "cancelled"} /\ key'[q] = j /\ q \notin batch'
  <2> SUFFICES ASSUME NEW j \in Key, NEW q \in futures'[j]
               PROVE  phase'[q] \in {"waiting", "cancelled"} /\ key'[q] = j /\ q \notin batch'
    OBVIOUS
  <2>1. CASE q = r
    BY <1>1, <1>2, <1>3, <1>6, <2>1
  <2>2. CASE q # r
    <3>1. q \in futures[j] /\ q \in Request
      BY <1>2, <2>2 DEF LimiterInv, CallerInv
    <3> QED BY <1>1, <1>5, <2>2, <3>1 DEF LimiterInv, FutureInv
  <2> QED BY <2>1, <2>2
<1>10. worker' # "stopped" => \A q \in Request : phase'[q] = "waiting" =>
         q \in batch' \/ \E j \in Key : q \in futures'[j]
  BY <1>1, <1>2, <1>5 DEF LimiterInv, FutureInv
<1> QED BY <1>7, <1>8, <1>9, <1>10 DEF FutureInv

LEMMA RetryKeepsFutures ==
  ASSUME LimiterInv, NEW r \in Request, Retry(r)
  PROVE  FutureInv'
<1> DEFINE k == key[r]
<1>1. /\ phase[r] = "backoff" /\ phase' = [phase EXCEPT ![r] = "waiting"]
      /\ Enqueue(r, k) /\ UNCHANGED <<key, worker, current, batch>>
  BY DEF Retry, workerVars
<1>2. k \in Key /\ key'[r] = k
  BY <1>1 DEF LimiterInv, CallerInv
<1> HIDE DEF k
<1>3. \A j \in Key : /\ func'[j] = (IF j = k THEN r ELSE func[j])
                     /\ futures'[j] = (IF j = k THEN futures[k] \cup {r} ELSE futures[j])
  BY <1>1, <1>2, EnqueueKeepsTypes DEF LimiterInv
<1>4. r \notin batch /\ \A j \in Key : r \notin futures[j]
  BY <1>1 DEF LimiterInv, FutureInv
<1>5. phase'[r] = "waiting" /\ \A q \in Request : q # r => phase'[q] = phase[q]
  BY <1>1 DEF LimiterInv, CallerInv
<1>6. \A j \in Key : ~InMap(j)' => futures'[j] = {}
  BY <1>3, RequestAssumption DEF InMap, LimiterInv, FutureInv
<1>7. \A q \in batch' : phase'[q] \in {"waiting", "cancelled"} /\ key'[q] = key'[current']
  BY <1>1, <1>4, <1>5 DEF LimiterInv, WorkerInv, FutureInv
<1>8. \A j \in Key : \A q \in futures'[j] :
        phase'[q] \in {"waiting", "cancelled"} /\ key'[q] = j /\ q \notin batch'
  <2> SUFFICES ASSUME NEW j \in Key, NEW q \in futures'[j]
               PROVE  phase'[q] \in {"waiting", "cancelled"} /\ key'[q] = j /\ q \notin batch'
    OBVIOUS
  <2>1. CASE q = r
    BY <1>1, <1>2, <1>3, <1>4, <1>5, <2>1
  <2>2. CASE q # r
    <3>1. q \in futures[j] /\ q \in Request
      BY <1>3, <2>2 DEF LimiterInv, CallerInv
    <3> QED BY <1>1, <1>5, <2>2, <3>1 DEF LimiterInv, FutureInv
  <2> QED BY <2>1, <2>2
<1>9. worker' # "stopped" => \A q \in Request : phase'[q] = "waiting" =>
        q \in batch' \/ \E j \in Key : q \in futures'[j]
  BY <1>1, <1>2, <1>3, <1>5 DEF LimiterInv, FutureInv
<1> QED BY <1>6, <1>7, <1>8, <1>9 DEF FutureInv

(* The worker takes every future of a key with its func.                   *)
LEMMA TakeTaskKeepsFutures ==
  ASSUME LimiterInv, TakeTask
  PROVE  FutureInv'
<1> DEFINE k == Head(queue)
<1>1. k \in Key /\ func[k] \in Request
  BY TakeTaskKeepsQueue DEF LimiterInv
<1>2. /\ current' = func[k] /\ batch' = futures[k]
      /\ func' = [func EXCEPT ![k] = NoRequest]
      /\ futures' = [futures EXCEPT ![k] = {}]
      /\ worker = "waiting" /\ worker' # "stopped"
      /\ UNCHANGED <<phase, key>>
  BY DEF TakeTask, callerVars
<1> HIDE DEF k
<1>3. \A j \in Key : /\ func'[j] = (IF j = k THEN NoRequest ELSE func[j])
                     /\ futures'[j] = (IF j = k THEN {} ELSE futures[j])
  BY <1>2 DEF LimiterInv, QueueInv, CallerInv
<1>4. batch = {}
  BY <1>2 DEF LimiterInv, WorkerInv
<1>5. key[func[k]] = k
  BY <1>1, RequestAssumption DEF LimiterInv, CallerInv, InMap
<1>6. \A j \in Key : ~InMap(j)' => futures'[j] = {}
  BY <1>3 DEF InMap, LimiterInv, FutureInv
<1>7. \A q \in batch' : phase'[q] \in {"waiting", "cancelled"} /\ key'[q] = key'[current']
  BY <1>1, <1>2, <1>5 DEF LimiterInv, FutureInv
<1>8. \A j \in Key : \A q \in futures'[j] :
        phase'[q] \in {"waiting", "cancelled"} /\ key'[q] = j /\ q \notin batch'
  BY <1>1, <1>2, <1>3 DEF LimiterInv, FutureInv
<1>9. \A q \in Request : phase'[q] = "waiting" => q \in batch' \/ \E j \in Key : q \in futures'[j]
  BY <1>2, <1>3, <1>4 DEF LimiterInv, FutureInv
<1> QED BY <1>6, <1>7, <1>8, <1>9 DEF FutureInv

(* A send that ends answers the batch and leaves the other futures alone.  *)
LEMMA AnswerKeepsFutures ==
  ASSUME LimiterInv, worker = "sending", worker' = "waiting", batch' = {},
         UNCHANGED <<func, futures, key>>,
         \A r \in Waiting : phase'[r] # "waiting",
         \A r \in Request \ Waiting : phase'[r] = phase[r]
  PROVE  FutureInv'
<1>1. Waiting \subseteq batch
  BY DEF Waiting
<1>2. \A j \in Key : ~InMap(j)' => futures'[j] = {}
  BY DEF InMap, LimiterInv, FutureInv
<1>3. \A j \in Key : \A q \in futures'[j] :
        phase'[q] \in {"waiting", "cancelled"} /\ key'[q] = j /\ q \notin batch'
  <2>1. \A j \in Key : \A q \in futures[j] : q \in Request /\ q \notin Waiting
    BY <1>1 DEF LimiterInv, CallerInv, FutureInv
  <2> QED BY <2>1 DEF LimiterInv, FutureInv
<1>4. \A q \in Request : phase'[q] = "waiting" => q \in batch' \/ \E j \in Key : q \in futures'[j]
  <2> SUFFICES ASSUME NEW q \in Request, phase'[q] = "waiting"
               PROVE  \E j \in Key : q \in futures[j]
    OBVIOUS
  <2>1. q \notin Waiting /\ phase[q] = "waiting"
    OBVIOUS
  <2>2. q \notin batch
    BY <2>1 DEF Waiting
  <2> QED BY <2>1, <2>2 DEF LimiterInv, FutureInv
<1> QED BY <1>2, <1>3, <1>4 DEF FutureInv

LEMMA FutureStep ==
  ASSUME LimiterInv, [Next]_vars
  PROVE  FutureInv'
<1>1. ASSUME NEW r \in Request, CancelCaller(r)
      PROVE  FutureInv'
  <2>1. /\ phase[r] = "waiting" /\ phase' = [phase EXCEPT ![r] = "cancelled"]
        /\ UNCHANGED <<func, futures, key, worker, current, batch>>
    BY <1>1 DEF CancelCaller, limiterVars, workerVars
  <2>2. \A q \in Request : phase'[q] = IF q = r THEN "cancelled" ELSE phase[q]
    BY <2>1 DEF LimiterInv, CallerInv
  <2>3. batch \subseteq Request /\ \A j \in Key : futures[j] \subseteq Request
    BY DEF LimiterInv, WorkerInv, CallerInv
  <2> QED BY <2>1, <2>2, <2>3 DEF LimiterInv, FutureInv, InMap
<1>2. CASE SendSucceeds
  <2>1. phase' = [r \in Request |-> IF r \in Waiting THEN "done" ELSE phase[r]]
    BY <1>2 DEF SendSucceeds
  <2>2. /\ \A r \in Waiting : phase'[r] # "waiting"
        /\ \A r \in Request \ Waiting : phase'[r] = phase[r]
    BY <2>1 DEF LimiterInv, WorkerInv, Waiting
  <2> QED BY <1>2, <2>2, AnswerKeepsFutures DEF SendSucceeds, limiterVars
<1>3. CASE SendFails
  <2>1. PICK again \in SUBSET Waiting :
          phase' = [r \in Request |-> IF r \in again THEN "backoff"
                                      ELSE IF r \in Waiting THEN "failed" ELSE phase[r]]
    BY <1>3 DEF SendFails
  <2>2. /\ \A r \in Waiting : phase'[r] # "waiting"
        /\ \A r \in Request \ Waiting : phase'[r] = phase[r]
    BY <2>1 DEF LimiterInv, WorkerInv, Waiting
  <2> QED BY <1>3, <2>2, AnswerKeepsFutures DEF SendFails
<1>4. CASE PauseOver \/ Acquire
  BY <1>4
  DEF PauseOver, Acquire, limiterVars, callerVars, LimiterInv, FutureInv, InMap
<1>5. CASE Shutdown
  BY <1>5 DEF Shutdown, limiterVars, callerVars, LimiterInv, FutureInv, InMap
<1>6. CASE Tick \/ UNCHANGED vars
  BY <1>6
  DEF Tick, vars, limiterVars, workerVars, callerVars, LimiterInv, FutureInv, InMap
<1> QED
  BY <1>1, <1>2, <1>3, <1>4, <1>5, <1>6, SubmitKeepsFutures, RetryKeepsFutures,
     TakeTaskKeepsFutures
  DEF Next, WorkerStep

-----------------------------------------------------------------------------
(* The newest edit.                                                        *)

(* A request that enters the map as the newest of its key.                 *)
LEMMA SubmitKeepsLatest ==
  ASSUME LimiterInv, LatestInv, NEW r \in Request, NEW k \in Key, Submit(r, k)
  PROVE  LatestInv'
<1> USE RequestAssumption
<1>1. /\ phase' = [phase EXCEPT ![r] = "waiting"] /\ key' = [key EXCEPT ![r] = k]
      /\ newest' = [newest EXCEPT ![k] = r]
      /\ phase[r] = "none" /\ Enqueue(r, k)
      /\ UNCHANGED <<current, attempt, shown>>
  BY DEF Submit, workerVars
<1>2. \A j \in Key : /\ func'[j] = (IF j = k THEN r ELSE func[j])
                     /\ futures'[j] = (IF j = k THEN futures[k] \cup {r} ELSE futures[j])
  BY <1>1, EnqueueKeepsTypes DEF LimiterInv
<1>3. key[r] = NoKey /\ \A q \in Request : phase'[q] = (IF q = r THEN "waiting" ELSE phase[q])
                                        /\ key'[q] = (IF q = r THEN k ELSE key[q])
  BY <1>1 DEF LimiterInv, CallerInv
<1>4. \A j \in Key : newest'[j] = (IF j = k THEN r ELSE newest[j])
  BY <1>1 DEF LimiterInv, CallerInv
<1> SUFFICES ASSUME NEW j \in Key
             PROVE  /\ newest'[j] \in Request => key'[newest'[j]] = j
                    /\ Of(j)' # {} => newest'[j] \in Request
                    /\ Unretried(j)' =>
                         /\ InMap(j)' => func'[j] = newest'[j] /\ newest'[j] \in futures'[j]
                         /\ current' \in Request /\ key'[current'] = j
                              => current' = newest'[j] \/ InMap(j)'
                         /\ newest'[j] \in Request /\ phase'[newest'[j]] = "done"
                              => shown'[j] = newest'[j]
  BY DEF LatestInv
<1>5. CASE j = k
  BY <1>2, <1>3, <1>4, <1>5 DEF InMap
<1>6. CASE j # k
  <2>1. /\ func'[j] = func[j] /\ futures'[j] = futures[j] /\ newest'[j] = newest[j]
        /\ shown'[j] = shown[j]
    BY <1>1, <1>2, <1>4, <1>6
  <2>2. Of(j)' = Of(j) /\ (Unretried(j)' <=> Unretried(j))
    BY <1>1, <1>3, <1>6 DEF Of, Unretried
  <2>3. newest[j] \in Request => key[newest[j]] = j /\ newest[j] # r
    BY <1>3 DEF LatestInv
  <2>4. current \in Request => current # r
    BY <1>3 DEF LimiterInv, CallerInv
  <2> QED BY <1>1, <1>3, <2>1, <2>2, <2>3, <2>4 DEF LatestInv, InMap
<1> QED BY <1>5, <1>6

(* A key one of whose requests is being retried is outside the promise.    *)
LEMMA RetryKeepsLatest ==
  ASSUME LimiterInv, LatestInv, NEW r \in Request, Retry(r)
  PROVE  LatestInv'
<1> DEFINE k == key[r]
<1>1. /\ phase[r] = "backoff" /\ phase' = [phase EXCEPT ![r] = "waiting"]
      /\ Enqueue(r, k)
      /\ UNCHANGED <<key, current, attempt, newest, shown>>
  BY DEF Retry, workerVars, historyVars
<1>2. k \in Key
  BY <1>1 DEF LimiterInv, CallerInv
<1>3. ~Unretried(k)
  BY <1>1 DEF LimiterInv, CallerInv, Unretried, Of
<1> HIDE DEF k
<1>4. \A j \in Key : /\ func'[j] = (IF j = k THEN r ELSE func[j])
                     /\ futures'[j] = (IF j = k THEN futures[k] \cup {r} ELSE futures[j])
  BY <1>1, <1>2, EnqueueKeepsTypes DEF LimiterInv
<1>5. \A q \in Request : phase'[q] = "done" => phase[q] = "done"
  BY <1>1 DEF LimiterInv, CallerInv
<1>6. \A j \in Key : Of(j)' = Of(j) /\ (Unretried(j)' <=> Unretried(j))
  BY <1>1 DEF Of, Unretried
<1>7. \A j \in Key : Unretried(j) => func'[j] = func[j] /\ futures'[j] = futures[j]
  BY <1>3, <1>4
<1> QED BY <1>1, <1>5, <1>6, <1>7 DEF LatestInv, InMap

LEMMA TakeTaskKeepsLatest ==
  ASSUME LimiterInv, LatestInv, TakeTask
  PROVE  LatestInv'
<1> DEFINE k == Head(queue)
<1>1. k \in Key /\ func[k] \in Request
  BY TakeTaskKeepsQueue DEF LimiterInv
<1>2. /\ current' = func[k]
      /\ func' = [func EXCEPT ![k] = NoRequest]
      /\ futures' = [futures EXCEPT ![k] = {}]
      /\ worker = "waiting" /\ current = NoRequest
      /\ UNCHANGED <<phase, key, attempt, newest, shown>>
  BY DEF TakeTask, callerVars, historyVars, LimiterInv, WorkerInv
<1> HIDE DEF k
<1>3. \A j \in Key : /\ func'[j] = (IF j = k THEN NoRequest ELSE func[j])
                     /\ futures'[j] = (IF j = k THEN {} ELSE futures[j])
  BY <1>2 DEF LimiterInv, QueueInv, CallerInv
<1>4. InMap(k) /\ key[func[k]] = k
  BY <1>1, RequestAssumption DEF LimiterInv, CallerInv, InMap
<1>5. \A j \in Key : Of(j)' = Of(j) /\ (Unretried(j)' <=> Unretried(j))
  BY <1>2 DEF Of, Unretried
<1>6. \A j \in Key : InMap(j)' => j # k /\ InMap(j)
  BY <1>3 DEF InMap
<1>7. \A j \in Key : Unretried(j) /\ key[current'] = j => current' = newest[j]
  BY <1>1, <1>2, <1>4 DEF LatestInv
<1> QED BY <1>2, <1>3, <1>5, <1>6, <1>7 DEF LatestInv

(* A func that is not the newest of its key is never the answer to the     *)
(* newest: that one's future is still in the map.                          *)
LEMMA SendSucceedsKeepsLatest ==
  ASSUME LimiterInv, LatestInv, SendSucceeds
  PROVE  LatestInv'
<1>1. /\ worker = "sending" /\ current' = NoRequest
      /\ shown' = [shown EXCEPT ![key[current]] = current]
      /\ phase' = [r \in Request |-> IF r \in Waiting THEN "done" ELSE phase[r]]
      /\ UNCHANGED <<func, futures, key, attempt, newest>>
  BY DEF SendSucceeds, limiterVars
<1>2. current \in Request /\ key[current] \in Key
  BY <1>1 DEF LimiterInv, WorkerInv, CallerInv
<1>3. \A j \in Key : shown'[j] = IF j = key[current] THEN current ELSE shown[j]
  BY <1>1, <1>2 DEF LimiterInv, CallerInv
<1>4. \A j \in Key : Of(j)' = Of(j) /\ (Unretried(j)' <=> Unretried(j))
  BY <1>1 DEF Of, Unretried
<1>5. \A r \in Waiting : r \in batch /\ key[r] = key[current]
  BY DEF Waiting, LimiterInv, FutureInv
<1>6. ASSUME NEW j \in Key, Unretried(j), newest[j] \in Request, phase'[newest[j]] = "done"
      PROVE  shown'[j] = newest[j]
  <2>1. key[newest[j]] = j
    BY <1>6 DEF LatestInv
  <2>2. newest[j] \in Waiting \/ phase[newest[j]] = "done"
    BY <1>1, <1>6
  <2>3. CASE j = key[current]
    <3>1. ~InMap(j)
      <4> SUFFICES ASSUME InMap(j) PROVE FALSE
        OBVIOUS
      <4>1. newest[j] \in futures[j]
        BY <1>6 DEF LatestInv
      <4>2. newest[j] \notin batch /\ phase[newest[j]] # "done"
        BY <4>1 DEF LimiterInv, FutureInv
      <4> QED BY <1>5, <2>2, <4>2
    <3> QED BY <1>2, <1>3, <1>6, <2>3, <3>1 DEF LatestInv
  <2>4. CASE j # key[current]
    BY <1>3, <1>5, <1>6, <2>1, <2>2, <2>4 DEF LatestInv
  <2> QED BY <2>3, <2>4
<1> QED BY <1>1, <1>4, <1>6, RequestAssumption DEF LatestInv, InMap

LEMMA SendFailsKeepsLatest ==
  ASSUME LimiterInv, LatestInv, SendFails
  PROVE  LatestInv'
<1>1. /\ current' = NoRequest /\ UNCHANGED <<func, futures, key, newest, shown>>
  BY DEF SendFails, historyVars
<1>2. PICK again \in SUBSET Request :
        /\ phase' = [r \in Request |-> IF r \in again THEN "backoff"
                                       ELSE IF r \in Waiting THEN "failed" ELSE phase[r]]
        /\ attempt' = [r \in Request |-> IF r \in again THEN attempt[r] + 1 ELSE attempt[r]]
  <2>1. Waiting \subseteq Request
    BY DEF Waiting, LimiterInv, WorkerInv
  <2>2. PICK flood \in BOOLEAN, transient \in BOOLEAN :
          LET again == {r \in Waiting \cap forgotten : transient /\ attempt[r] < MaxRetries}
          IN  /\ phase' = [r \in Request |-> IF r \in again THEN "backoff"
                                             ELSE IF r \in Waiting THEN "failed" ELSE phase[r]]
              /\ attempt' = [r \in Request |-> IF r \in again THEN attempt[r] + 1 ELSE attempt[r]]
    BY DEF SendFails
  <2> DEFINE again == {r \in Waiting \cap forgotten : transient /\ attempt[r] < MaxRetries}
  <2>3. again \in SUBSET Request
    BY <2>1
  <2> QED BY <2>2, <2>3
<1>3. \A r \in Request : phase'[r] = "done" => phase[r] = "done"
  BY <1>2
<1>4. \A r \in Request : attempt'[r] = 0 => attempt[r] = 0
  BY <1>2 DEF LimiterInv, CallerInv
<1>5. \A j \in Key : Of(j)' = Of(j) /\ (Unretried(j)' => Unretried(j))
  BY <1>1, <1>4 DEF Of, Unretried
<1> QED BY <1>1, <1>3, <1>5, RequestAssumption DEF LatestInv, InMap

LEMMA LatestStep ==
  ASSUME LimiterInv, LatestInv, [Next]_vars
  PROVE  LatestInv'
<1>1. ASSUME NEW r \in Request, CancelCaller(r)
      PROVE  LatestInv'
  <2>1. \A q \in Request : phase'[q] = "done" => phase[q] = "done"
    BY <1>1 DEF CancelCaller, LimiterInv, CallerInv
  <2> QED BY <1>1, <2>1
    DEF CancelCaller, limiterVars, workerVars, historyVars, LatestInv, InMap, Of, Unretried
<1>2. CASE Shutdown
  BY <1>2, RequestAssumption
  DEF Shutdown, limiterVars, callerVars, historyVars, LatestInv, InMap, Of, Unretried
<1>3. CASE PauseOver \/ Acquire \/ Tick \/ UNCHANGED vars
  BY <1>3
  DEF PauseOver, Acquire, Tick, vars, limiterVars, workerVars, callerVars, historyVars,
      LatestInv, InMap, Of, Unretried
<1> QED
  BY <1>1, <1>2, <1>3, SubmitKeepsLatest, RetryKeepsLatest, TakeTaskKeepsLatest,
     SendSucceedsKeepsLatest, SendFailsKeepsLatest
  DEF Next, WorkerStep

-----------------------------------------------------------------------------
(* The theorems.                                                           *)

LEMMA InitLimiter ==
  ASSUME Init
  PROVE  LimiterInv /\ LatestInv
<1>1. QueueInv
  BY DEF Init, QueueInv, InMap, Queued
<1>2. WorkerInv /\ CallerInv
  BY RequestAssumption DEF Init, WorkerInv, CallerInv, InMap
<1>3. FutureInv /\ LatestInv
  BY RequestAssumption DEF Init, FutureInv, LatestInv, InMap, Of
<1> QED BY <1>1, <1>2, <1>3 DEF LimiterInv

(* _queue_list and _queue_map agree, and every task and future of the      *)
(* MessagingRateLimiter is in one place, whatever is merged or retried.    *)
THEOREM LimiterInvariant == Spec => [](LimiterInv /\ LatestInv)
<1>1. Init => LimiterInv /\ LatestInv
  BY InitLimiter
<1>2. LimiterInv /\ LatestInv /\ [Next]_vars => (LimiterInv /\ LatestInv)'
  <2> SUFFICES ASSUME LimiterInv, LatestInv, [Next]_vars
               PROVE  (LimiterInv /\ LatestInv)'
    OBVIOUS
  <2>1. QueueInv' /\ WorkerInv' /\ CallerInv'
    BY QueueStep, WorkerKeeps, CallerKeeps DEF LimiterInv
  <2>2. FutureInv' /\ LatestInv'
    BY FutureStep, LatestStep
  <2> QED BY <2>1, <2>2 DEF LimiterInv
<1> QED BY <1>1, <1>2, PTL DEF Spec

(* The future of every caller that waits is in the batch or the map, under *)
(* its own key and once, until the limiter shuts down.                     *)
THEOREM FuturesKept == Spec => []NoFutureForgotten
<1>1. LimiterInv => NoFutureForgotten
  BY DEF LimiterInv, FutureInv, NoFutureForgotten
<1> QED BY <1>1, LimiterInvariant, PTL

(* The merge of edits by dedup_key loses none that is newer than what was  *)
(* sent: when all of a message's edits are answered and none was retried,  *)
(* the chat shows the newest.                                              *)
THEOREM LatestShown == Spec => []LatestIsShownUnlessRetried
<1>1. LatestInv => LatestIsShownUnlessRetried
  <2> SUFFICES ASSUME LatestInv, NEW k \in Key, Settled(k), \A r \in Of(k) : attempt[r] = 0
               PROVE  shown[k] = newest[k]
    BY DEF LatestIsShownUnlessRetried
  <2>1. newest[k] \in Request /\ key[newest[k]] = k
    BY DEF LatestInv, Settled
  <2>2. phase[newest[k]] = "done"
    BY <2>1 DEF Settled, Of
  <2> QED BY <2>1, <2>2 DEF LatestInv, Unretried
<1> QED BY <1>1, LimiterInvariant, PTL

(* The worker leaves a flood wait when it is over, and only its own send   *)
(* starts another, which is no shorter than what the error let it read.    *)
PauseInv ==
  /\ pause \in Nat /\ owed \in Nat /\ owed <= pause
  /\ worker = "acquiring" => pause = 0

(* No send starts before the wait that the worker has read from a flood    *)
(* error is over, or the default wait when it could read none              *)
(* (limiter.py:166-190), whatever is queued meanwhile and however long the *)
(* window makes it wait.                                                   *)
THEOREM FloodWaitKept == Spec => PauseRespected
<1>1. Init => PauseInv
  BY DEF Init, PauseInv
<1>2. PauseInv /\ [Next]_vars => PauseInv'
  <2> SUFFICES ASSUME PauseInv, [Next]_vars PROVE PauseInv'
    OBVIOUS
  <2>1. CASE SendFails
    <3>1. \/ \E asked \in Asked, readable \in BOOLEAN : FloodError(asked, readable)
          \/ UNCHANGED <<pause, owed>>
      BY <2>1 DEF SendFails
    <3>2. worker' = "waiting"
      BY <2>1 DEF SendFails
    <3> QED BY <3>1, <3>2, LimitAssumption DEF PauseInv, FloodError
  <2>2. CASE Tick
    BY <2>2 DEF PauseInv, Tick, Less, workerVars
  <2>3. CASE TakeTask \/ PauseOver \/ Acquire
    BY <2>3 DEF PauseInv, TakeTask, PauseOver, Acquire, limiterVars, historyVars
  <2>4. CASE UNCHANGED <<pause, owed, worker>>
    BY <2>4 DEF PauseInv
  <2>5. CASE SendSucceeds \/ Shutdown
    BY <2>5 DEF PauseInv, SendSucceeds, Shutdown, limiterVars, historyVars
  <2> QED
    BY <2>1, <2>2, <2>3, <2>4, <2>5
    DEF Next, WorkerStep, Submit, Retry, CancelCaller, vars, limiterVars, workerVars, historyVars
<1>3. PauseInv /\ [Next]_vars => [worker' = "sending" /\ worker # "sending" => pause = 0 /\ owed = 0]_vars
  <2> SUFFICES ASSUME PauseInv, Next, worker' = "sending", worker # "sending"
               PROVE  pause = 0 /\ owed = 0
    BY DEF vars, workerVars
  <2>1. Acquire
    BY
    DEF Next, WorkerStep, Submit, Retry, CancelCaller, TakeTask, PauseOver, SendSucceeds, SendFails,
        Shutdown, Tick, limiterVars, workerVars
  <2> QED BY <2>1 DEF Acquire, PauseInv
<1> QED BY <1>1, <1>2, <1>3, PTL DEF Spec, PauseRespected
=============================================================================
