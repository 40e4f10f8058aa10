-------------------------- MODULE SessionStoreProofs --------------------------
(***************************************************************************)
(* What the file and the store owe each other, for any number of timers,   *)
(* changes, failing writes and restarts.                                   *)
(***************************************************************************)
EXTENDS SessionStore, SequenceTheorems, FunctionTheorems, FiniteSetTheorems, TLAPS

(* Threads have phases, and only timers wait.                              *)
PhaseInv ==
  /\ phase \in [Thread -> Phase]
  /\ snap \in [Thread -> {snap[t] : t \in Thread}]
  /\ phase[Main] \notin Waiting

(* While the newest snapshot was taken with nobody else saving, either its *)
(* thread is the only one that saves and has the file for itself, or the   *)
(* file has it, or a write has failed and the store is dirty again.        *)
SaveInv ==
  ~raced =>
    \/ \E t \in Thread :
         /\ phase[t] \in Saving /\ snap[t] = newest
         /\ phase[t] = "writing" => sole = t
         /\ \A u \in Thread \ {t} : phase[u] \notin Saving
    \/ /\ \A u \in Thread : phase[u] \notin Saving
       /\ disk = newest \/ dirty

-----------------------------------------------------------------------------
(* A change cancels a timer that waits, starts another, and touches no     *)
(* thread that saves.                                                      *)
LEMMA ChangeEffect ==
  ASSUME PhaseInv, NEW s, Change(s)
  PROVE  /\ dirty' = TRUE /\ store' = s
         /\ \A t \in Thread : phase'[t] \in Saving <=> phase[t] \in Saving
         /\ \A t \in Thread : phase[t] \in Saving => phase'[t] = phase[t]
         /\ \E t \in Timer : phase'[t] \in Waiting
         /\ phase' \in [Thread -> Phase] /\ phase'[Main] \notin Waiting
         /\ UNCHANGED <<snap, fileVars, newest, raced>>
<1>1. PICK new \in Timer :
        /\ Cancelled(new) = "none"
        /\ phase' = [t \in Thread |-> IF t = new THEN "armed" ELSE Cancelled(t)]
        /\ dirty' = TRUE
  BY DEF Change, ScheduleSave
<1>2. store' = s /\ UNCHANGED <<snap, fileVars, newest, raced>>
  BY DEF Change
<1>3. \A t \in Thread : Cancelled(t) = phase[t] \/ (phase[t] = "armed" /\ Cancelled(t) = "none")
  BY DEF Cancelled
<1>4. Main \in Thread /\ new \in Thread /\ new # Main
  BY ThreadAssumption DEF Thread
<1>5. phase[new] \notin Saving
  BY <1>1, <1>3, <1>4 DEF Saving, PhaseInv
<1>6. \A t \in Thread : phase[t] \in Saving => Cancelled(t) = phase[t]
  BY <1>3 DEF Saving
<1>7. \A t \in Thread : Cancelled(t) \in Saving => phase[t] \in Saving
  BY <1>3 DEF Saving
<1>8. \A t \in Thread : phase'[t] \in Saving <=> phase[t] \in Saving
  BY <1>1, <1>5, <1>6, <1>7 DEF Saving
<1>9. \A t \in Thread : phase[t] \in Saving => phase'[t] = phase[t]
  BY <1>1, <1>5, <1>6
<1>10. phase'[new] \in Waiting
  BY <1>1, <1>4 DEF Waiting
<1>11. phase' \in [Thread -> Phase]
  BY <1>1, <1>3 DEF PhaseInv, Phase
<1>12. phase'[Main] \notin Waiting
  BY <1>1, <1>3, <1>4 DEF PhaseInv, Waiting
<1> QED BY <1>1, <1>2, <1>8, <1>9, <1>10, <1>11, <1>12

(* A thread that begins to save holds the newest snapshot.                 *)
LEMMA BeginSaveEffect ==
  ASSUME NEW t \in Thread, NEW s, NEW rest \in [Thread -> Phase],
         \A u \in Thread \ {t} : rest[u] \in Saving <=> phase[u] \in Saving,
         \A u \in Thread : rest[u] \in Waiting => phase[u] \in Waiting,
         PhaseInv, BeginSave(t, s, rest)
  PROVE  /\ PhaseInv'
         /\ SaveInv'
         /\ newest' = s
<1>1. /\ phase' = [rest EXCEPT ![t] = "opening"]
      /\ snap' = [snap EXCEPT ![t] = s]
      /\ newest' = s
      /\ raced' = \E u \in Thread \ {t} : phase[u] \in Saving
  BY DEF BeginSave
<1>2. phase' \in [Thread -> Phase]
  BY <1>1 DEF Phase
<1>3. phase'[Main] \notin Waiting
  BY <1>1, ThreadAssumption DEF PhaseInv, Thread, Waiting
<1>4. phase'[t] = "opening" /\ snap'[t] = s
  BY <1>1 DEF PhaseInv
<1>5. DOMAIN snap' = Thread /\ snap' = [u \in Thread |-> snap'[u]]
  BY <1>1 DEF PhaseInv
<1>6. PhaseInv'
  BY <1>2, <1>3, <1>5 DEF PhaseInv
<1>7. ASSUME ~raced' PROVE \A u \in Thread \ {t} : phase'[u] \notin Saving
  BY <1>1, <1>7
<1>8. SaveInv'
  <2> SUFFICES ASSUME ~raced'
               PROVE  \E v \in Thread :
                        /\ phase'[v] \in Saving /\ snap'[v] = newest'
                        /\ phase'[v] = "writing" => sole' = v
                        /\ \A u \in Thread \ {v} : phase'[u] \notin Saving
    BY DEF SaveInv
  <2>1. phase'[t] \in Saving /\ phase'[t] # "writing" /\ snap'[t] = newest'
    BY <1>1, <1>4 DEF Saving
  <2> QED BY <1>7, <2>1
<1> QED BY <1>1, <1>6, <1>8

(* flush_pending_save and clear_all take the snapshot themselves.          *)
LEMMA FlushEffect ==
  ASSUME PhaseInv, NEW s, FlushSave(s)
  PROVE  PhaseInv' /\ SaveInv' /\ newest' = s /\ dirty' = FALSE
<1> DEFINE rest == [t \in Thread |-> Cancelled(t)]
<1>1. \A t \in Thread : Cancelled(t) = phase[t] \/ (phase[t] = "armed" /\ Cancelled(t) = "none")
  BY DEF Cancelled
<1>2. rest \in [Thread -> Phase]
  BY <1>1 DEF PhaseInv, Phase
<1>3. \A u \in Thread : rest[u] \in Saving <=> phase[u] \in Saving
  BY <1>1 DEF Saving
<1>4. \A u \in Thread : rest[u] \in Waiting => phase[u] \in Waiting
  BY <1>1 DEF Waiting
<1>5. BeginSave(Main, s, rest) /\ dirty' = FALSE
  BY DEF FlushSave
<1>6. Main \in Thread
  BY DEF Thread
<1> HIDE DEF rest
<1> QED BY <1>2, <1>3, <1>4, <1>5, <1>6, BeginSaveEffect

StoreInv == PhaseInv /\ SaveInv /\ NoLostUpdate /\ DirtyIsScheduled

(* A method that changes the store leaves it dirty and scheduled.          *)
LEMMA ChangeKeepsInv ==
  ASSUME StoreInv, NEW s, Change(s)
  PROVE  StoreInv'
<1>1. PhaseInv /\ SaveInv
  BY DEF StoreInv
<1>2. /\ dirty' = TRUE
      /\ \A t \in Thread : phase'[t] \in Saving <=> phase[t] \in Saving
      /\ \A t \in Thread : phase[t] \in Saving => phase'[t] = phase[t]
      /\ \E t \in Timer : phase'[t] \in Waiting
      /\ phase' \in [Thread -> Phase] /\ phase'[Main] \notin Waiting
      /\ UNCHANGED <<snap, fileVars, newest, raced>>
  BY <1>1, ChangeEffect
<1>3. PhaseInv'
  BY <1>1, <1>2 DEF PhaseInv
<1>4. SaveInv'
  <2> SUFFICES ASSUME ~raced PROVE SaveInv'
    BY <1>2 DEF SaveInv
  <2>1. CASE \A u \in Thread : phase[u] \notin Saving
    BY <1>2, <2>1 DEF SaveInv
  <2>2. CASE \E t \in Thread :
               /\ phase[t] \in Saving /\ snap[t] = newest
               /\ phase[t] = "writing" => sole = t
               /\ \A u \in Thread \ {t} : phase[u] \notin Saving
    <3>1. PICK t \in Thread :
            /\ phase[t] \in Saving /\ snap[t] = newest
            /\ phase[t] = "writing" => sole = t
            /\ \A u \in Thread \ {t} : phase[u] \notin Saving
      BY <2>2
    <3>2. /\ phase'[t] \in Saving /\ snap'[t] = newest'
          /\ phase'[t] = "writing" => sole' = t
          /\ \A u \in Thread \ {t} : phase'[u] \notin Saving
      BY <1>2, <3>1 DEF fileVars
    <3> QED BY <3>2 DEF SaveInv
  <2> QED BY <1>1, <2>1, <2>2 DEF SaveInv
<1>5. NoLostUpdate' /\ DirtyIsScheduled'
  BY <1>2 DEF NoLostUpdate, DirtyIsScheduled
<1> QED BY <1>3, <1>4, <1>5 DEF StoreInv

(* The methods.                                                            *)
LEMMA MethodKeepsInv ==
  ASSUME StoreInv, Method
  PROVE  StoreInv'
<1>1. PhaseInv
  BY DEF StoreInv
<1>2. CASE ClearAll
  <2>1. FlushSave(EmptyStore) /\ store' = EmptyStore
    BY <1>2 DEF ClearAll
  <2> QED BY <1>1, <2>1, FlushEffect DEF StoreInv, NoLostUpdate, DirtyIsScheduled
<1>3. CASE FlushPendingSave
  <2>1. FlushSave(store) /\ store' = store
    BY <1>3 DEF FlushPendingSave
  <2> QED BY <1>1, <2>1, FlushEffect DEF StoreInv, NoLostUpdate, DirtyIsScheduled
<1>4. CASE \E s : Change(s)
  BY <1>4, ChangeKeepsInv
<1>5. ClearAll \/ FlushPendingSave \/ \E s : Change(s)
  BY DEF Method, RecordMessageId, SaveTree, RegisterNode, RemoveNodeMappings, RemoveTree
<1> QED BY <1>2, <1>3, <1>4, <1>5

(* A timer's snapshot, or its return with nothing to do.                   *)
LEMMA SaveFromTimerKeepsInv ==
  ASSUME StoreInv, NEW t \in Thread, SaveFromTimer(t)
  PROVE  StoreInv'
<1>1. PhaseInv /\ SaveInv /\ NoLostUpdate /\ DirtyIsScheduled
  BY DEF StoreInv
<1>2. phase[t] = "fired" /\ store' = store
  BY DEF SaveFromTimer
<1>3. CASE dirty
  <2>1. dirty' = FALSE /\ BeginSave(t, store, phase)
    BY <1>3 DEF SaveFromTimer
  <2>2. phase \in [Thread -> Phase]
    BY <1>1 DEF PhaseInv
  <2>3. PhaseInv' /\ SaveInv' /\ newest' = store
    BY <1>1, <2>1, <2>2, BeginSaveEffect
  <2> QED BY <1>2, <2>1, <2>3 DEF StoreInv, NoLostUpdate, DirtyIsScheduled
<1>4. CASE ~dirty
  <2>1. /\ phase' = [phase EXCEPT ![t] = "none"]
        /\ UNCHANGED <<snap, dirty, newest, raced, store, failed, fileVars>>
    BY <1>4 DEF SaveFromTimer, fileVars
  <2>2. PhaseInv'
    BY <1>1, <2>1 DEF PhaseInv, Phase, Waiting
  <2>3. \A u \in Thread : phase'[u] \in Saving <=> phase[u] \in Saving
    BY <1>1, <1>2, <2>1 DEF PhaseInv, Saving
  <2>4. \A u \in Thread : phase'[u] = "writing" => phase[u] = "writing"
    BY <1>1, <1>2, <2>1 DEF PhaseInv
  <2>5. SaveInv'
    BY <1>1, <2>1, <2>3, <2>4 DEF SaveInv, fileVars
  <2>6. NoLostUpdate' /\ DirtyIsScheduled'
    BY <1>1, <1>4, <2>1 DEF NoLostUpdate, DirtyIsScheduled
  <2> QED BY <2>2, <2>5, <2>6 DEF StoreInv
<1> QED BY <1>3, <1>4

(* The wait of a timer ends: it waits for the lock.                        *)
LEMMA FireKeepsInv ==
  ASSUME StoreInv, NEW t \in Thread, Fire(t)
  PROVE  StoreInv'
<1>1. PhaseInv /\ SaveInv /\ NoLostUpdate /\ DirtyIsScheduled
  BY DEF StoreInv
<1>2. /\ phase[t] = "armed" /\ phase' = [phase EXCEPT ![t] = "fired"]
      /\ UNCHANGED <<store, dirty, snap, disk, sole, newest, failed, raced>>
  BY DEF Fire, storeVars, fileVars, historyVars
<1>3. PhaseInv'
  BY <1>1, <1>2 DEF PhaseInv, Phase, Waiting
<1>4. \A u \in Thread : /\ phase'[u] \in Saving <=> phase[u] \in Saving
                        /\ phase'[u] = "writing" => phase[u] = "writing"
                        /\ phase[u] \in Waiting => phase'[u] \in Waiting
  BY <1>1, <1>2 DEF PhaseInv, Saving, Waiting
<1>5. SaveInv'
  BY <1>1, <1>2, <1>4 DEF SaveInv
<1>6. DirtyIsScheduled'
  BY <1>1, <1>2, <1>4 DEF DirtyIsScheduled, Thread
<1>7. NoLostUpdate'
  BY <1>1, <1>2 DEF NoLostUpdate
<1> QED BY <1>3, <1>5, <1>6, <1>7 DEF StoreInv

(* The file is opened: a thread that saves alone has it for itself.        *)
LEMMA OpenFileKeepsInv ==
  ASSUME StoreInv, NEW t \in Thread, OpenFile(t)
  PROVE  StoreInv'
<1>1. PhaseInv /\ SaveInv /\ NoLostUpdate /\ DirtyIsScheduled
  BY DEF StoreInv
<1>2. /\ phase[t] = "opening" /\ phase' = [phase EXCEPT ![t] = "writing"] /\ sole' = t
      /\ UNCHANGED <<store, dirty, snap, newest, failed, raced>>
  BY DEF OpenFile, storeVars, historyVars
<1>3. PhaseInv'
  BY <1>1, <1>2 DEF PhaseInv, Phase, Waiting
<1>4. \A u \in Thread : /\ phase'[u] \in Saving <=> phase[u] \in Saving
                        /\ phase[u] \in Waiting => phase'[u] \in Waiting
  BY <1>1, <1>2 DEF PhaseInv, Saving, Waiting
<1>5. SaveInv'
  <2> SUFFICES ASSUME ~raced
               PROVE  \E v \in Thread :
                        /\ phase'[v] \in Saving /\ snap'[v] = newest'
                        /\ phase'[v] = "writing" => sole' = v
                        /\ \A u \in Thread \ {v} : phase'[u] \notin Saving
    BY <1>2 DEF SaveInv
  <2>1. PICK v \in Thread : /\ phase[v] \in Saving /\ snap[v] = newest
                            /\ \A u \in Thread \ {v} : phase[u] \notin Saving
    BY <1>1, <1>2 DEF SaveInv, Saving
  <2>2. v = t
    BY <1>2, <2>1 DEF Saving
  <2> QED BY <1>2, <1>4, <2>1, <2>2
<1>6. DirtyIsScheduled'
  BY <1>1, <1>2, <1>4 DEF DirtyIsScheduled, Thread
<1>7. NoLostUpdate'
  BY <1>1, <1>2 DEF NoLostUpdate
<1> QED BY <1>3, <1>5, <1>6, <1>7 DEF StoreInv

(* A thread is done with its write.                                        *)
LEMMA DoneEffect ==
  ASSUME PhaseInv, NEW t \in Thread, phase[t] \in Saving, Done(t)
  PROVE  /\ PhaseInv'
         /\ phase'[t] \notin Saving
         /\ \A u \in Thread \ {t} : phase'[u] = phase[u] /\ snap'[u] = snap[u]
         /\ \A u \in Thread : phase[u] \in Waiting => phase'[u] \in Waiting
<1>1. phase' = [phase EXCEPT ![t] = "none"] /\ snap' = [snap EXCEPT ![t] = EmptyStore]
  BY DEF Done
<1>2. phase' \in [Thread -> Phase] /\ phase'[Main] \notin Waiting
  BY <1>1 DEF PhaseInv, Phase, Waiting
<1>3. DOMAIN snap' = Thread /\ snap' = [u \in Thread |-> snap'[u]]
  BY <1>1 DEF PhaseInv
<1>4. PhaseInv'
  BY <1>2, <1>3 DEF PhaseInv
<1>5. phase'[t] \notin Saving
  BY <1>1 DEF PhaseInv, Saving
<1>6. \A u \in Thread \ {t} : phase'[u] = phase[u] /\ snap'[u] = snap[u]
  BY <1>1 DEF PhaseInv
<1>7. \A u \in Thread : phase[u] \in Waiting => phase'[u] \in Waiting
  BY <1>6 DEF Saving, Waiting
<1> QED BY <1>4, <1>5, <1>6, <1>7

(* A write ends well, or fails.                                            *)
LEMMA EndOfWriteKeepsInv ==
  ASSUME StoreInv, NEW t \in Thread, CloseFile(t) \/ FailWrite(t)
  PROVE  StoreInv'
<1>1. PhaseInv /\ SaveInv /\ NoLostUpdate /\ DirtyIsScheduled
  BY DEF StoreInv
<1>2. phase[t] \in Saving /\ Done(t) /\ UNCHANGED <<store, newest, raced>>
  BY DEF CloseFile, FailWrite, Saving, storeVars, historyVars
<1>3. /\ PhaseInv'
      /\ phase'[t] \notin Saving
      /\ \A u \in Thread \ {t} : phase'[u] = phase[u] /\ snap'[u] = snap[u]
      /\ \A u \in Thread : phase[u] \in Waiting => phase'[u] \in Waiting
  BY <1>1, <1>2, DoneEffect
<1>4. dirty' \/ (dirty' = dirty /\ phase[t] = "writing" /\ (sole = t => disk' = snap[t]))
  BY DEF CloseFile, FailWrite, storeVars
<1>5. SaveInv'
  <2> SUFFICES ASSUME ~raced
               PROVE  /\ \A u \in Thread : phase'[u] \notin Saving
                      /\ disk' = newest' \/ dirty'
    BY <1>2 DEF SaveInv
  <2>1. PICK v \in Thread : /\ phase[v] \in Saving /\ snap[v] = newest
                            /\ phase[v] = "writing" => sole = v
                            /\ \A u \in Thread \ {v} : phase[u] \notin Saving
    BY <1>1, <1>2 DEF SaveInv
  <2>2. v = t
    BY <1>2, <2>1
  <2> QED BY <1>2, <1>3, <1>4, <2>1, <2>2
<1>6. NoLostUpdate'
  BY <1>1, <1>2, <1>4 DEF NoLostUpdate
<1>7. DirtyIsScheduled'
  <2>1. failed' \/ (failed' = failed /\ dirty' = dirty)
    BY DEF CloseFile, FailWrite, storeVars, historyVars
  <2> QED BY <1>1, <1>3, <2>1 DEF DirtyIsScheduled, Thread
<1> QED BY <1>3, <1>5, <1>6, <1>7 DEF StoreInv

(* A new process has what it has read.                                     *)
LEMMA RestartKeepsInv ==
  ASSUME StoreInv, Restart
  PROVE  StoreInv'
<1>1. /\ store' = disk /\ newest' = disk /\ disk' = disk
      /\ snap' = [t \in Thread |-> EmptyStore]
      /\ \/ phase' = [t \in Thread |-> "none"] /\ dirty' = FALSE
         \/ /\ \E t \in Timer :
                 phase' = [u \in Thread |-> IF u = t THEN "armed" ELSE "none"]
            /\ dirty' = TRUE
  BY DEF Restart
<1>2. phase' \in [Thread -> Phase]
  BY <1>1 DEF Phase
<1>3. \A t \in Thread : phase'[t] \notin Saving
  BY <1>1 DEF Saving
<1>4. phase'[Main] \notin Waiting
  BY <1>1, ThreadAssumption DEF Thread, Waiting
<1>5. PhaseInv'
  BY <1>1, <1>2, <1>4 DEF PhaseInv
<1>6. SaveInv'
  BY <1>1, <1>3 DEF SaveInv
<1>7. NoLostUpdate' /\ DirtyIsScheduled'
  BY <1>1 DEF NoLostUpdate, DirtyIsScheduled, Waiting, Thread
<1> QED BY <1>5, <1>6, <1>7 DEF StoreInv

-----------------------------------------------------------------------------
(* The invariant holds at first, and no step breaks it.                    *)
LEMMA StoreInvHolds == Spec => []StoreInv
<1>1. Init => StoreInv
  BY DEF Init, StoreInv, PhaseInv, SaveInv, NoLostUpdate, DirtyIsScheduled, Phase,
         Waiting, Saving, Thread
<1>2. StoreInv /\ [Next]_vars => StoreInv'
  <2> SUFFICES ASSUME StoreInv, [Next]_vars PROVE StoreInv'
    OBVIOUS
  <2>1. CASE \E t \in Thread : ThreadStep(t)
    BY <2>1, FireKeepsInv, SaveFromTimerKeepsInv, OpenFileKeepsInv, EndOfWriteKeepsInv
       DEF ThreadStep
  <2>2. CASE Method
    BY <2>2, MethodKeepsInv
  <2>3. CASE Restart
    BY <2>3, RestartKeepsInv
  <2>4. CASE UNCHANGED vars
    BY <2>4 DEF vars, storeVars, threadVars, fileVars, countVars, historyVars, StoreInv,
                PhaseInv, SaveInv, NoLostUpdate, DirtyIsScheduled
  <2> QED BY <2>1, <2>2, <2>3, <2>4 DEF Next
<1> QED BY <1>1, <1>2, PTL DEF Spec

(* No change is lost to a save that overlaps it.                           *)
THEOREM ChangesAreNotLost == Spec => []NoLostUpdate
<1>1. StoreInv => NoLostUpdate
  BY DEF StoreInv
<1> QED BY <1>1, StoreInvHolds, PTL

(* A dirty store has a timer, even when an older one has wiped its         *)
(* reference, or a write has failed since the last change.                 *)
THEOREM DirtyStoreIsScheduled == Spec => []DirtyIsScheduled
<1>1. StoreInv => DirtyIsScheduled
  BY DEF StoreInv
<1> QED BY <1>1, StoreInvHolds, PTL

(* Once nothing is left to save the file has what the store has, unless    *)
(* two threads were writing at the same time.                              *)
THEOREM FileCatchesUp == Spec => []QuietIsSaved
<1>1. StoreInv => QuietIsSaved
  BY DEF StoreInv, SaveInv, NoLostUpdate, QuietIsSaved, Quiet
<1> QED BY <1>1, StoreInvHolds, PTL

-----------------------------------------------------------------------------
(* The message log.                                                        *)

(* A log of messages, each of which is in it once.                         *)
Log == {q \in Seq(Msg) : \A i, j \in 1..Len(q) : q[i] = q[j] => i = j}

(* What a store is made of, with such a log.                               *)
Stored(s) ==
  /\ s = [trees |-> s.trees, mapping |-> s.mapping, log |-> s.log]
  /\ s.log \in Log

(* The store and whatever may become the store again.                      *)
LogInv ==
  /\ Stored(store) /\ seen = ToSet(store.log)
  /\ Stored(disk)
  /\ DOMAIN snap = Thread /\ \A t \in Thread : Stored(snap[t])

LEMMA EmptyIsStored == Stored(EmptyStore)
BY EmptySeq DEF Stored, EmptyStore, Log

(* A message that is not in a log may be added to it.                      *)
LEMMA AppendToLog ==
  ASSUME NEW q \in Log, NEW m \in Msg, m \notin ToSet(q)
  PROVE  /\ Append(q, m) \in Log
         /\ ToSet(Append(q, m)) = ToSet(q) \cup {m}
<1> DEFINE n == Len(q)
<1> DEFINE longer == Append(q, m)
<1>1. /\ n \in Nat /\ longer \in Seq(Msg) /\ Len(longer) = n + 1
      /\ \A i \in 1..n : longer[i] = q[i]
      /\ longer[n + 1] = m
  BY AppendProperties DEF Log
<1>2. DOMAIN q = 1..n /\ DOMAIN longer = 1..(n + 1)
  BY <1>1, LenProperties DEF Log
<1>3. \A i \in 1..n : q[i] # m
  BY <1>2 DEF ToSet
<1>4. \A i, j \in 1..n : q[i] = q[j] => i = j
  BY DEF Log
<1>5. 1..(n + 1) = 1..n \cup {n + 1} /\ n + 1 \notin 1..n
  BY <1>1
<1>6. ToSet(q) = {q[i] : i \in 1..n} /\ ToSet(longer) = {longer[i] : i \in 1..(n + 1)}
  BY <1>2 DEF ToSet
<1> HIDE DEF n, longer
<1>7. \A i, j \in 1..(n + 1) : longer[i] = longer[j] => i = j
  BY <1>1, <1>3, <1>4, <1>5
<1>8. ToSet(longer) = ToSet(q) \cup {m}
  BY <1>1, <1>5, <1>6
<1> QED BY <1>1, <1>7, <1>8 DEF Log, longer

(* What is left of a log when its oldest entries are dropped.              *)
LEMMA LastOfLog ==
  ASSUME NEW q \in Log
  PROVE  LastOf(q) \in Log
<1> DEFINE n == Len(q)
<1> DEFINE last == SubSeq(q, n - Cap + 1, n)
<1> SUFFICES ASSUME Cap > 0, n > Cap PROVE last \in Log
  BY DEF LastOf
<1>1. n \in Nat /\ Cap \in Nat /\ q \in Seq(Msg)
  BY BoundAssumption, LenProperties DEF Log
<1>2. \A i \in (n - Cap + 1)..n : q[i] \in Msg
  <2>1. \A i \in 1..n : q[i] \in Msg
    BY <1>1, ElementOfSeq
  <2> HIDE DEF n
  <2> QED BY <1>1, <2>1
<1>3. /\ last \in Seq(Msg)
      /\ Len(last) = Cap
      /\ \A i \in 1..Cap : last[i] = q[n - Cap + i]
  <2> HIDE DEF n
  <2>1. n - Cap + 1 \in Int /\ n \in Int /\ n - Cap + 1 <= n
    BY <1>1
  <2>2. n - (n - Cap + 1) + 1 = Cap
        /\ \A i \in Int : (n - Cap + 1) + i - 1 = n - Cap + i
    BY <1>1
  <2> QED BY <1>1, <1>2, <2>1, <2>2, SubSeqProperties
<1>4. \A i, j \in 1..n : q[i] = q[j] => i = j
  BY DEF Log
<1> HIDE DEF n, last
<1>5. \A i \in 1..Cap : n - Cap + i \in 1..n
  BY <1>1
<1>6. \A i, j \in 1..Cap : last[i] = last[j] => i = j
  <2> SUFFICES ASSUME NEW i \in 1..Cap, NEW j \in 1..Cap, last[i] = last[j]
               PROVE  i = j
    OBVIOUS
  <2>1. n - Cap + i = n - Cap + j
    BY <1>3, <1>4, <1>5
  <2> QED BY <1>1, <2>1
<1> QED BY <1>3, <1>6 DEF Log

(* A method that leaves the log alone, or changes it to another.           *)
LEMMA ChangeKeepsLog ==
  ASSUME LogInv, NEW s, Change(s), Stored(s), seen' = ToSet(s.log)
  PROVE  LogInv'
BY DEF LogInv, Change, Stored, fileVars

LEMMA MethodKeepsLog ==
  ASSUME LogInv, Method
  PROVE  LogInv'
<1>1. ASSUME NEW m \in Msg, RecordMessageId(m)
      PROVE  LogInv'
  <2> DEFINE longer == Append(store.log, m)
  <2> DEFINE log == LastOf(longer)
  <2>1. /\ m \notin seen
        /\ Change([store EXCEPT !.log = log])
        /\ seen' = IF log = longer THEN seen \cup {m} ELSE ToSet(log)
    BY <1>1 DEF RecordMessageId
  <2>2. longer \in Log /\ ToSet(longer) = seen \cup {m}
    BY <2>1, AppendToLog DEF LogInv, Stored
  <2>3. log \in Log
    BY <2>2, LastOfLog
  <2> HIDE DEF longer, log
  <2>4. seen' = ToSet(log)
    BY <2>1, <2>2
  <2>5. [store EXCEPT !.log = log] = [trees |-> store.trees, mapping |-> store.mapping, log |-> log]
    BY DEF LogInv, Stored
  <2>6. Stored([store EXCEPT !.log = log]) /\ [store EXCEPT !.log = log].log = log
    BY <2>3, <2>5 DEF Stored
  <2> QED BY <2>1, <2>4, <2>6, ChangeKeepsLog
<1>2. ASSUME NEW s, Change(s), UNCHANGED seen,
             s.log = store.log, s = [trees |-> s.trees, mapping |-> s.mapping, log |-> s.log]
      PROVE  LogInv'
  <2>1. Stored(s) /\ seen' = ToSet(s.log)
    BY <1>2 DEF LogInv, Stored
  <2> QED BY <1>2, <2>1, ChangeKeepsLog
<1>3. \A x, y : LET s == [store EXCEPT !.trees = x, !.mapping = y]
                IN  /\ s.log = store.log
                    /\ s = [trees |-> s.trees, mapping |-> s.mapping, log |-> s.log]
  <2> TAKE x, y
  <2> DEFINE t == [store EXCEPT !.trees = x]
  <2>1. t = [trees |-> x, mapping |-> store.mapping, log |-> store.log]
    BY DEF LogInv, Stored
  <2>2. [store EXCEPT !.trees = x, !.mapping = y] = [t EXCEPT !.mapping = y]
    OBVIOUS
  <2> HIDE DEF t
  <2>3. [t EXCEPT !.mapping = y] = [trees |-> x, mapping |-> y, log |-> store.log]
    BY <2>1
  <2> QED BY <2>2, <2>3
<1>4. \A y : LET s == [store EXCEPT !.mapping = y]
             IN  /\ s.log = store.log
                 /\ s = [trees |-> s.trees, mapping |-> s.mapping, log |-> s.log]
  BY DEF LogInv, Stored
<1>5. ASSUME NEW r \in Root, NEW ns \in SUBSET Node, SaveTree(r, ns)
      PROVE  LogInv'
  BY <1>2, <1>3, <1>5 DEF SaveTree
<1>6. ASSUME NEW n \in Node, NEW r \in Root, RegisterNode(n, r)
      PROVE  LogInv'
  BY <1>2, <1>4, <1>6 DEF RegisterNode
<1>7. ASSUME NEW ns \in SUBSET Node, RemoveNodeMappings(ns)
      PROVE  LogInv'
  BY <1>2, <1>4, <1>7 DEF RemoveNodeMappings
<1>8. ASSUME NEW r \in Root, RemoveTree(r)
      PROVE  LogInv'
  BY <1>2, <1>3, <1>8 DEF RemoveTree
<1>9. CASE ClearAll
  <2>1. /\ store' = EmptyStore /\ seen' = {} /\ disk' = disk
        /\ snap' = [snap EXCEPT ![Main] = EmptyStore]
    BY <1>9 DEF ClearAll, FlushSave, BeginSave, fileVars
  <2>2. ToSet(EmptyStore.log) = {}
    BY DEF EmptyStore, ToSet
  <2> QED BY <2>1, <2>2, EmptyIsStored DEF LogInv
<1>10. CASE FlushPendingSave
  BY <1>10 DEF FlushPendingSave, FlushSave, BeginSave, fileVars, LogInv
<1> QED BY <1>1, <1>5, <1>6, <1>7, <1>8, <1>9, <1>10 DEF Method

LEMMA ThreadKeepsLog ==
  ASSUME LogInv, NEW t \in Thread, ThreadStep(t)
  PROVE  LogInv'
<1>1. CASE Fire(t)
  BY <1>1 DEF Fire, storeVars, fileVars, LogInv
<1>2. CASE SaveFromTimer(t)
  BY <1>2 DEF SaveFromTimer, BeginSave, fileVars, LogInv
<1>3. CASE OpenFile(t)
  BY <1>3, EmptyIsStored DEF OpenFile, storeVars, LogInv
<1>4. CASE CloseFile(t)
  BY <1>4, EmptyIsStored DEF CloseFile, Done, storeVars, LogInv
<1>5. CASE FailWrite(t)
  BY <1>5, EmptyIsStored DEF FailWrite, Done, fileVars, LogInv
<1> QED BY <1>1, <1>2, <1>3, <1>4, <1>5 DEF ThreadStep

(* A log has as many entries as it has messages.                           *)
LEMMA LogCardinality ==
  ASSUME NEW q \in Log
  PROVE  Len(q) = Cardinality(ToSet(q))
<1> DEFINE n == Len(q)
<1>1. n \in Nat /\ q \in [1..n -> Msg] /\ DOMAIN q = 1..n
  BY LenProperties DEF Log
<1>2. ToSet(q) = {q[i] : i \in 1..n}
  BY <1>1 DEF ToSet
<1>3. \A i, j \in 1..n : q[i] = q[j] => i = j
  BY DEF Log
<1> HIDE DEF n
<1>4. q \in [1..n -> ToSet(q)] /\ \A m \in ToSet(q) : \E i \in 1..n : q[i] = m
  BY <1>1, <1>2
<1>5. q \in Bijection(1..n, ToSet(q))
  BY <1>3, <1>4, Fun_IsBij
<1>6. IsFiniteSet(1..n) /\ Cardinality(1..n) = n
  BY <1>1, FS_Interval
<1>7. ExistsBijection(1..n, ToSet(q))
  BY <1>5 DEF ExistsBijection
<1> QED BY <1>6, <1>7, FS_Bijection DEF n

(* record_message_id keeps the log and the set it is searched by together, *)
(* each message once, although the log drops its oldest entries, through   *)
(* every save, clear and restart (session.py:159-197).                     *)
THEOREM LogAndIdsAgree == Spec => []LogIdsAgree
<1>1. Init => LogInv
  <2>1. ToSet(EmptyStore.log) = {}
    BY DEF EmptyStore, ToSet
  <2> QED BY <2>1, EmptyIsStored DEF Init, LogInv
<1>2. LogInv /\ [Next]_vars => LogInv'
  <2> SUFFICES ASSUME LogInv, [Next]_vars PROVE LogInv'
    OBVIOUS
  <2>1. CASE Restart
    BY <2>1, EmptyIsStored DEF Restart, LogInv
  <2>2. CASE UNCHANGED vars
    BY <2>2 DEF vars, storeVars, threadVars, fileVars, LogInv
  <2> QED BY <2>1, <2>2, MethodKeepsLog, ThreadKeepsLog DEF Next
<1>3. LogInv => LogIdsAgree
  BY LogCardinality DEF LogInv, Stored, LogIdsAgree
<1> QED BY <1>1, <1>2, <1>3, PTL DEF Spec
=============================================================================
