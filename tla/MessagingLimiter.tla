---------------------------- MODULE MessagingLimiter ----------------------------
(***************************************************************************)
(* The MessagingRateLimiter through which the bot sends and edits its chat *)
(* messages: a queue that keeps one task per dedup_key, the worker that    *)
(* runs the tasks one at a time within the rate limit and outside a flood  *)
(* wait, and the callers that wait for the result or retry on their own.   *)
(*                                                                         *)
(* The condition's lock is never held across a suspension, except by the   *)
(* wait that gives it up, so that what is done under it is one step.  A    *)
(* time limit is counted down in ticks; a sleep ends when it is over or    *)
(* any time later.                                                         *)
(***************************************************************************)
EXTENDS Naturals, FiniteSets, SequencesExt

CONSTANTS Request,        \* calls of enqueue and fire_and_forget
          Key,            \* dedup_keys: the messages that are edited
          NoRequest, NoKey,
          Rate, Window,   \* MESSAGING_RATE_LIMIT per MESSAGING_RATE_WINDOW
          MaxRetries,     \* max_retries of fire_and_forget
          Asked,          \* the seconds that flood errors ask for
          DefaultWait     \* the seconds kept when the error does not tell: 30

ASSUME RequestAssumption ==
  IsFiniteSet(Request) /\ NoRequest \notin Request /\ NoKey \notin Key
ASSUME LimitAssumption ==
  /\ Rate \in Nat \ {0} /\ Window \in Nat \ {0} /\ {MaxRetries, DefaultWait} \subseteq Nat
  /\ Asked \subseteq Nat

VARIABLES
  \* MessagingRateLimiter
  queue,      \* _queue_list
  func,       \* _queue_map, split in two: the request whose func is kept
  futures,    \*   and those whose futures wait for it
  pause,      \* what is left of _paused_until
  times,      \* what is left of the window, for each entry of the limiter's _times
  \* the worker
  worker,           \* waiting, pausing, acquiring, sending, stopped
  current, batch,   \* the request whose func it runs, and for whom
  \* the callers
  phase, key, \* none, waiting, backoff, done, failed, cancelled; its dedup_key
  forgotten,  \* requests made by fire_and_forget
  attempt, backoff,
  \* history, read by the properties only
  owed,       \* what is left of the wait that the last flood error asked
              \*   for, in a form that the worker reads
  newest,     \* the last request made for each key
  shown       \* the last request whose func has succeeded

limiterVars == <<queue, func, futures, pause, times>>
workerVars  == <<worker, current, batch>>
callerVars  == <<phase, key, forgotten, attempt, backoff>>
historyVars == <<owed, newest, shown>>
vars        == <<limiterVars, workerVars, callerVars, historyVars>>

Init ==
  /\ queue = <<>>
  /\ func = [k \in Key |-> NoRequest] /\ futures = [k \in Key |-> {}]
  /\ pause = 0 /\ owed = 0 /\ times = <<>>
  /\ worker = "waiting" /\ current = NoRequest /\ batch = {}
  /\ phase = [r \in Request |-> "none"]
  /\ key = [r \in Request |-> NoKey]
  /\ forgotten = {}
  /\ attempt = [r \in Request |-> 0]
  /\ backoff = [r \in Request |-> 0]
  /\ newest = [k \in Key |-> NoRequest]
  /\ shown = [k \in Key |-> NoRequest]

-----------------------------------------------------------------------------
(* Callers.                                                                *)

InMap(k) == func[k] # NoRequest

(* Wrong variants of Enqueue: the futures of what is replaced are          *)
(* forgotten; the older func is kept.                                      *)

EnqueueForgets(r, k) ==
  /\ func' = [func EXCEPT ![k] = r]
  /\ futures' = [futures EXCEPT ![k] = {r}]
  /\ queue' = IF InMap(k) THEN queue ELSE Append(queue, k)

EnqueueKeepsOld(r, k) ==
  /\ func' = IF InMap(k) THEN func ELSE [func EXCEPT ![k] = r]
  /\ futures' = [futures EXCEPT ![k] = @ \cup {r}]
  /\ queue' = IF InMap(k) THEN queue ELSE Append(queue, k)

(* _enqueue_internal_multi: a task that is queued already gets the newer   *)
(* func, and one more future, and keeps its place.                         *)
Enqueue(r, k) ==
  /\ func' = [func EXCEPT ![k] = r]
  /\ futures' = [futures EXCEPT ![k] = @ \cup {r}]
  /\ queue' = IF InMap(k) THEN queue ELSE Append(queue, k)

(* enqueue, or fire_and_forget and the first step of its task.             *)
Submit(r, k) ==
  /\ phase[r] = "none"
  /\ phase' = [phase EXCEPT ![r] = "waiting"]
  /\ key' = [key EXCEPT ![r] = k]
  /\ \/ UNCHANGED forgotten
     \/ forgotten' = forgotten \cup {r}
  /\ newest' = [newest EXCEPT ![k] = r]
  /\ Enqueue(r, k)
  /\ UNCHANGED <<pause, times, workerVars, attempt, backoff, owed, shown>>

(* fire_and_forget enqueues its own func once more.                        *)
Retry(r) ==
  /\ phase[r] = "backoff"
  /\ backoff[r] = 0
  /\ phase' = [phase EXCEPT ![r] = "waiting"]
  /\ Enqueue(r, key[r])
  /\ UNCHANGED <<pause, times, workerVars, key, forgotten, attempt, backoff, historyVars>>

(* The task that awaits enqueue is cancelled: its future is done, and stays *)
(* in its list; what it asked for is sent all the same.                    *)
CancelCaller(r) ==
  /\ phase[r] = "waiting"
  /\ r \notin forgotten
  /\ phase' = [phase EXCEPT ![r] = "cancelled"]
  /\ UNCHANGED <<limiterVars, workerVars, key, forgotten, attempt, backoff, historyVars>>

-----------------------------------------------------------------------------
(* The worker.                                                             *)

(* Wrong variant of TakeTask: the flood wait is not looked at.             *)
TakeTaskAtOnce ==
  /\ worker = "waiting"
  /\ queue # <<>>
  /\ LET k == Head(queue)
     IN  /\ current' = func[k]
         /\ batch' = futures[k]
         /\ func' = [func EXCEPT ![k] = NoRequest]
         /\ futures' = [futures EXCEPT ![k] = {}]
  /\ queue' = Tail(queue)
  /\ worker' = "acquiring"
  /\ UNCHANGED <<pause, times, callerVars, historyVars>>

(* The task at the head is taken out of the queue.                         *)
TakeTask ==
  /\ worker = "waiting"
  /\ queue # <<>>
  /\ LET k == Head(queue)
     IN  /\ current' = func[k]
         /\ batch' = futures[k]
         /\ func' = [func EXCEPT ![k] = NoRequest]
         /\ futures' = [futures EXCEPT ![k] = {}]
  /\ queue' = Tail(queue)
  /\ worker' = IF pause > 0 THEN "pausing" ELSE "acquiring"
  /\ UNCHANGED <<pause, times, callerVars, historyVars>>

PauseOver ==
  /\ worker = "pausing"
  /\ pause = 0
  /\ worker' = "acquiring"
  /\ UNCHANGED <<limiterVars, current, batch, callerVars, historyVars>>

(* A wrong variant of Acquire: the entries that have left the window are   *)
(* not dropped.                                                            *)

AcquireUnpruned ==
  /\ worker = "acquiring"
  /\ Len(times) < Rate
  /\ times' = Append(times, Window)
  /\ worker' = "sending"
  /\ UNCHANGED <<queue, func, futures, pause, current, batch, callerVars, historyVars>>

(* SlidingWindowLimiter.acquire, which only the worker calls.              *)
Acquire ==
  LET live == SelectSeq(times, LAMBDA left : left > 0)
  IN  /\ worker = "acquiring"
      /\ Len(live) < Rate
      /\ times' = Append(live, Window)
      /\ worker' = "sending"
      /\ UNCHANGED <<queue, func, futures, pause, current, batch, callerVars, historyVars>>

(* The futures that are not done yet. *)
Waiting == {r \in batch : phase[r] = "waiting"}

(* func() returns: every such future has its result.                       *)
SendSucceeds ==
  /\ worker = "sending"
  /\ worker' = "waiting"
  /\ shown' = [shown EXCEPT ![key[current]] = current]
  /\ phase' = [r \in Request |-> IF r \in Waiting THEN "done" ELSE phase[r]]
  /\ current' = NoRequest
  /\ batch' = {}
  /\ UNCHANGED <<limiterVars, key, forgotten, attempt, backoff, owed, newest>>

(* The error speaks of a flood or a wait: the worker is to pause for the   *)
(* seconds it asks for, when they are in e.seconds or follow "after " in   *)
(* its text, and for DefaultWait when they are not.  Telegram's RetryAfter *)
(* has retry_after and "Retry in N seconds", which are not read.           *)
FloodError(asked, readable) ==
  /\ pause' = IF readable THEN asked ELSE DefaultWait
  /\ owed' = IF readable THEN asked ELSE 0

(* func() raises: every such future has the error, which may ask for a flood    *)
(* wait, and may look transient to the callers that retry.                 *)
SendFails ==
  \E transient \in BOOLEAN :
    LET again == {r \in Waiting \cap forgotten : transient /\ attempt[r] < MaxRetries}
    IN  /\ worker = "sending"
        /\ worker' = "waiting"
        /\ \/ \E asked \in Asked, readable \in BOOLEAN : FloodError(asked, readable)
           \/ UNCHANGED <<pause, owed>>
        /\ phase' = [r \in Request |-> IF r \in again THEN "backoff"
                                       ELSE IF r \in Waiting THEN "failed" ELSE phase[r]]
        /\ backoff' = [r \in Request |-> IF r \in again THEN 2^attempt[r] ELSE backoff[r]]
        /\ attempt' = [r \in Request |-> IF r \in again THEN attempt[r] + 1 ELSE attempt[r]]
        /\ current' = NoRequest
        /\ batch' = {}
        /\ UNCHANGED <<queue, func, futures, times, key, forgotten, newest, shown>>

(* shutdown: the worker is cancelled wherever it waits, and the futures it *)
(* has taken or not yet taken are never resolved.                          *)
Shutdown ==
  /\ worker # "stopped"
  /\ worker' = "stopped"
  /\ current' = NoRequest
  /\ batch' = {}
  /\ UNCHANGED <<limiterVars, callerVars, historyVars>>

Less(n) == IF n = 0 THEN 0 ELSE n - 1

Tick ==
  /\ pause' = Less(pause) /\ owed' = Less(owed)
  /\ times' = [i \in DOMAIN times |-> Less(times[i])]
  /\ backoff' = [r \in Request |-> Less(backoff[r])]
  /\ UNCHANGED <<queue, func, futures, workerVars, phase, key, forgotten, attempt, newest, shown>>

-----------------------------------------------------------------------------
WorkerStep == TakeTask \/ PauseOver \/ Acquire \/ SendSucceeds \/ SendFails

Next ==
  \/ \E r \in Request, k \in Key : Submit(r, k)
  \/ \E r \in Request : Retry(r) \/ CancelCaller(r)
  \/ WorkerStep
  \/ Shutdown
  \/ Tick

Spec == Init /\ [][Next]_vars

(* The event loop runs what can run, time goes on, and a send ends with a  *)
(* result or an error.                                                     *)
FairSpec == Spec /\ WF_vars(WorkerStep) /\ WF_vars(Tick) /\ \A r \in Request : WF_vars(Retry(r))

-----------------------------------------------------------------------------
(* Properties.                                                             *)

(* However tasks are merged and retried, each caller that waits has its    *)
(* future in one place, with its own key, where it will be resolved; no    *)
(* caller that has its answer, or sleeps before it retries, has one left.  *)
NoFutureForgotten ==
  worker # "stopped" =>
    \A r \in Request :
      /\ phase[r] = "waiting" => r \in batch \/ \E k \in Key : r \in futures[k]
      /\ r \in batch => phase[r] \in {"waiting", "cancelled"} /\ key[r] = key[current]
      /\ \A k \in Key : r \in futures[k] =>
           phase[r] \in {"waiting", "cancelled"} /\ key[r] = k /\ r \notin batch

(* After a flood error nothing is sent until the wait it asks for is over, *)
(* if the worker can read that wait from the error; for one that it cannot *)
(* read, DefaultWait is kept, be it shorter or longer (limiter.py:166-190). *)
PauseRespected ==
  [][worker' = "sending" /\ worker # "sending" => pause = 0 /\ owed = 0]_vars

Of(k) == {r \in Request : key[r] = k}
Settled(k) == Of(k) # {} /\ \A r \in Of(k) : phase[r] = "done"

(* ... which holds unless one of them was retried.                         *)
LatestIsShownUnlessRetried ==
  \A k \in Key : Settled(k) /\ (\A r \in Of(k) : attempt[r] = 0) => shown[k] = newest[k]

(* Every caller gets a result or an error, unless the limiter shuts down.  *)
RequestsEnd ==
  \A r \in Request :
    phase[r] = "waiting" ~> phase[r] \in {"done", "failed", "cancelled"} \/ worker = "stopped"
=============================================================================
