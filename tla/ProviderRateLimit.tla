--------------------------- MODULE ProviderRateLimit ---------------------------
(***************************************************************************)
(* The GlobalRateLimiter every provider of the proxy shares, driven by the *)
(* streams that use it: a stream takes a concurrency slot, waits for the   *)
(* reactive block and for the rolling window, calls the upstream model,    *)
(* retries a 429, and gives its slot back however it ends.                 *)
(*                                                                         *)
(* Time is counted in ticks.  A step is the code between two suspension    *)
(* points, which takes no time; a sleep ends when its time is over or any  *)
(* time later.  The lock of the rolling window is never held across a      *)
(* suspension, so that it is never waited for.                             *)
(***************************************************************************)
EXTENDS Naturals, FiniteSets, SequencesExt

CONSTANTS Stream,           \* the streams that are opened
          Native,           \* those of LM Studio and llama.cpp (plain httpx)
          Rate, Window,     \* rate_limit requests per rate_window ticks
          MaxConcurrency,
          MaxRetries, BaseDelay, MaxDelay, Jitter,  \* of execute_with_retry
          Cooldown,         \* map_error's set_blocked(60)
          MaxTime           \* bound on the clock

ASSUME StreamAssumption == IsFiniteSet(Stream) /\ Native \subseteq Stream
ASSUME LimitAssumption ==
  /\ Rate \in Nat \ {0} /\ Window \in Nat \ {0} /\ MaxConcurrency \in Nat \ {0}
  /\ {MaxRetries, BaseDelay, MaxDelay, Jitter, Cooldown, MaxTime} \subseteq Nat

VARIABLES
  now,
  \* GlobalRateLimiter
  requestTimes,   \* _request_times
  blockedUntil,   \* _blocked_until
  slots,          \* the value of _concurrency_sem
  waiters,        \* the streams waiting for it, first come first served
  \* one stream of a provider
  phase,
  wake,           \* when its asyncio.sleep ends
  attempt,        \* the loop variable of execute_with_retry
  downgraded,     \* streams that are using the retry body
  \* history, read by the properties only
  granted,        \* the times of all grants so far
  calls           \* number of upstream calls of each stream

limiterVars == <<requestTimes, blockedUntil, slots, waiters>>
streamVars  == <<phase, wake, attempt, downgraded>>
historyVars == <<granted, calls>>
vars        == <<now, limiterVars, streamVars, historyVars>>

(* queued: waiting for the semaphore.   handed: woken with a slot.         *)
(* blocked, throttled, backoff: the three sleeps.   calling: fn() awaits   *)
(* the response.   failing: its error is being sent to the client.         *)
Sleeping == {"blocked", "throttled", "backoff"}
Holding == {"handed", "calling", "streaming", "failing"} \cup Sleeping

Init ==
  /\ now = 0
  /\ requestTimes = <<>>
  /\ blockedUntil = 0
  /\ slots = MaxConcurrency
  /\ waiters = <<>>
  /\ phase = [s \in Stream |-> "idle"]
  /\ wake = [s \in Stream |-> 0]
  /\ attempt = [s \in Stream |-> 0]
  /\ downgraded = {}
  /\ granted = <<>>
  /\ calls = [s \in Stream |-> 0]

-----------------------------------------------------------------------------
(* The limiter.                                                            *)

Expired(t) == t + Window <= now

(* The prefix of requestTimes that the while loop pops has length k.       *)
Pops(k) ==
  /\ \A i \in 1..k : Expired(requestTimes[i])
  /\ k < Len(requestTimes) => ~Expired(requestTimes[k + 1])

SleepUntil(s, reason, t) ==
  /\ phase' = [phase EXCEPT ![s] = reason]
  /\ wake' = [wake EXCEPT ![s] = t]

Grant(s, live) ==
  /\ requestTimes' = Append(live, now)
  /\ granted' = Append(granted, now)
  /\ calls' = [calls EXCEPT ![s] = @ + 1]
  /\ phase' = [phase EXCEPT ![s] = "calling"]
  /\ UNCHANGED wake

(* A wrong variant of AcquireSlot: it grants one request too many.         *)
AcquireSlotOneMore(s) ==
  \E k \in 0..Len(requestTimes) :
    LET live == SubSeq(requestTimes, k + 1, Len(requestTimes))
    IN  /\ Pops(k)
        /\ \/ Len(live) <= Rate /\ Grant(s, live)
           \/ /\ Len(live) > Rate
              /\ requestTimes' = live
              /\ SleepUntil(s, "throttled", live[1] + Window)
              /\ UNCHANGED historyVars

(* One round of _acquire_proactive_slot.  A grant is followed by the call  *)
(* without a suspension.                                                   *)
AcquireSlot(s) ==
  \E k \in 0..Len(requestTimes) :
    LET live == SubSeq(requestTimes, k + 1, Len(requestTimes))
    IN  /\ Pops(k)
        /\ \/ Len(live) < Rate /\ Grant(s, live)
           \/ /\ Len(live) >= Rate
              /\ requestTimes' = live
              /\ SleepUntil(s, "throttled", live[1] + Window)
              /\ UNCHANGED historyVars

(* wait_if_blocked: the block is looked at once, before the window.        *)
WaitIfBlocked(s) ==
  \/ now >= blockedUntil /\ AcquireSlot(s)
  \/ /\ now < blockedUntil
     /\ SleepUntil(s, "blocked", blockedUntil)
     /\ UNCHANGED <<requestTimes, historyVars>>

(* Wrong variant of Release: the slot goes to a waiter and is counted as   *)
(* free as well.                                                           *)
ReleaseTwice(s, next) ==
  /\ slots' = slots + 1
  /\ \/ /\ waiters = <<>>
        /\ phase' = [phase EXCEPT ![s] = next]
        /\ UNCHANGED waiters
     \/ /\ waiters # <<>>
        /\ waiters' = Tail(waiters)
        /\ phase' = [phase EXCEPT ![s] = next, ![Head(waiters)] = "handed"]

(* Semaphore.release: the first waiter gets the slot.                      *)
Release(s, next) ==
  \/ /\ waiters = <<>>
     /\ slots' = slots + 1
     /\ phase' = [phase EXCEPT ![s] = next]
     /\ UNCHANGED waiters
  \/ /\ waiters # <<>>
     /\ waiters' = Tail(waiters)
     /\ phase' = [phase EXCEPT ![s] = next, ![Head(waiters)] = "handed"]
     /\ UNCHANGED slots

-----------------------------------------------------------------------------
(* The streams.                                                            *)

(* A request is received: concurrency_slot, then the first attempt.        *)
Open(s) ==
  /\ phase[s] = "idle"
  /\ \/ /\ slots > 0
        /\ slots' = slots - 1
        /\ WaitIfBlocked(s)
        /\ UNCHANGED waiters
     \/ /\ slots = 0
        /\ waiters' = Append(waiters, s)
        /\ phase' = [phase EXCEPT ![s] = "queued"]
        /\ UNCHANGED <<slots, requestTimes, wake, historyVars>>
  /\ UNCHANGED <<now, blockedUntil, attempt, downgraded>>

TakeSlot(s) ==
  /\ phase[s] = "handed"
  /\ WaitIfBlocked(s)
  /\ UNCHANGED <<now, blockedUntil, slots, waiters, attempt, downgraded>>

(* After either sleep of wait_if_blocked comes a round of the window.      *)
WakeForWindow(s) ==
  /\ phase[s] \in {"blocked", "throttled"}
  /\ now >= wake[s]
  /\ AcquireSlot(s)
  /\ UNCHANGED <<now, blockedUntil, slots, waiters, attempt, downgraded>>

WakeForRetry(s) ==
  /\ phase[s] = "backoff"
  /\ now >= wake[s]
  /\ WaitIfBlocked(s)
  /\ UNCHANGED <<now, blockedUntil, slots, waiters, attempt, downgraded>>

CallSucceeds(s) ==
  /\ phase[s] = "calling"
  /\ phase' = [phase EXCEPT ![s] = "streaming"]
  /\ UNCHANGED <<now, limiterVars, wake, attempt, downgraded, historyVars>>

Capped(d) == IF d < MaxDelay THEN d ELSE MaxDelay

(* The upstream answers 429, which the openai client raises as an error    *)
(* and execute_with_retry retries.                                         *)
RetryLater(s) ==
  /\ phase[s] = "calling" /\ s \notin Native
  /\ attempt[s] < MaxRetries
  /\ \E jitter \in 0..Jitter :
       LET until == now + Capped(BaseDelay * 2^attempt[s]) + jitter
       IN  blockedUntil' = until /\ SleepUntil(s, "backoff", until)
  /\ attempt' = [attempt EXCEPT ![s] = @ + 1]
  /\ UNCHANGED <<now, requestTimes, slots, waiters, downgraded, historyVars>>

(* A 429 that is not retried any more, or is one of httpx: map_error       *)
(* blocks everything for the cooldown.                                     *)
GiveUp(s) ==
  /\ phase[s] = "calling"
  /\ s \in Native \/ attempt[s] = MaxRetries
  /\ blockedUntil' = now + Cooldown
  /\ phase' = [phase EXCEPT ![s] = "failing"]
  /\ UNCHANGED <<now, requestTimes, slots, waiters, wake, attempt, downgraded,
                 historyVars>>

(* Wrong variant of RetryDowngraded: the body is downgraded every time.    *)
RetryAlways(s) ==
  /\ phase[s] = "calling" /\ s \notin Native
  /\ attempt' = [attempt EXCEPT ![s] = 0]
  /\ WaitIfBlocked(s)
  /\ UNCHANGED <<now, blockedUntil, slots, waiters, downgraded>>

(* NIM rejects a field with a 400: _create_stream runs execute_with_retry  *)
(* once more with a body that lacks it.                                    *)
RetryDowngraded(s) ==
  /\ phase[s] = "calling" /\ s \notin Native
  /\ s \notin downgraded
  /\ downgraded' = downgraded \cup {s}
  /\ attempt' = [attempt EXCEPT ![s] = 0]
  /\ WaitIfBlocked(s)
  /\ UNCHANGED <<now, blockedUntil, slots, waiters>>

(* Any other error, of the call or in the middle of the stream; the latter *)
(* may be a 429 too.                                                       *)
Fail(s) ==
  /\ phase[s] \in {"calling", "streaming"}
  /\ phase' = [phase EXCEPT ![s] = "failing"]
  /\ \/ UNCHANGED blockedUntil
     \/ phase[s] = "streaming" /\ blockedUntil' = now + Cooldown
  /\ UNCHANGED <<now, requestTimes, slots, waiters, wake, attempt, downgraded,
                 historyVars>>

(* The stream, or its error, has been sent: the slot is given back.        *)
Close(s) ==
  /\ phase[s] \in {"streaming", "failing"}
  /\ Release(s, "done")
  /\ UNCHANGED <<now, requestTimes, blockedUntil, wake, attempt, downgraded,
                 historyVars>>

(* The client goes away while the stream is suspended somewhere.           *)
Disconnect(s) ==
  /\ \/ phase[s] \in Holding /\ Release(s, "done")
     \/ /\ phase[s] = "queued"
        /\ \E i \in DOMAIN waiters : waiters[i] = s /\ waiters' = RemoveAt(waiters, i)
        /\ phase' = [phase EXCEPT ![s] = "done"]
        /\ UNCHANGED slots
  /\ UNCHANGED <<now, requestTimes, blockedUntil, wake, attempt, downgraded,
                 historyVars>>

Tick ==
  /\ now < MaxTime
  /\ now' = now + 1
  /\ UNCHANGED <<limiterVars, streamVars, historyVars>>

StreamStep(s) ==
  \/ Open(s)
  \/ TakeSlot(s)
  \/ WakeForWindow(s)
  \/ WakeForRetry(s)
  \/ CallSucceeds(s)
  \/ RetryLater(s)
  \/ GiveUp(s)
  \/ RetryDowngraded(s)
  \/ Fail(s)
  \/ Close(s)
  \/ Disconnect(s)

Next == Tick \/ \E s \in Stream : StreamStep(s)

Spec == Init /\ [][Next]_vars

-----------------------------------------------------------------------------
(* Properties.                                                             *)

(* "At most rate_limit acquisitions in any interval of length              *)
(* rate_window", whatever sleeps, wakes and gives up in between: a grant   *)
(* and the rate_limit-th grant after it are at least a window apart.       *)
StrictWindow ==
  \A i, j \in DOMAIN granted : j = i + Rate => granted[j] >= granted[i] + Window

(* No slot is lost or invented by errors, retries, hand-overs and clients  *)
(* that go away; and nobody waits while a slot is free.                    *)
SlotAccounting ==
  /\ slots + Cardinality({s \in Stream : phase[s] \in Holding}) = MaxConcurrency
  /\ waiters # <<>> => slots = 0
  /\ ToSet(waiters) = {s \in Stream : phase[s] = "queued"}

(* A request reaches the upstream model at most once for each attempt, and *)
(* again for each attempt with the downgraded body.                        *)
CallsBounded ==
  \A s \in Stream :
    calls[s] <= (IF s \in downgraded THEN 2 ELSE 1) * (MaxRetries + 1)
=============================================================================
