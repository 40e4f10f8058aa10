------------------------------ MODULE SessionStore ------------------------------
(***************************************************************************)
(* The bot's SessionStore: what it knows of trees, nodes and messages, and *)
(* the JSON file it is saved to.  The event loop's thread calls the        *)
(* store's methods; a change starts a timer, and the timer's thread takes  *)
(* a snapshot and writes it.  Whatever is done under the store's lock is   *)
(* one step.  Writing is not under the lock: opening the file truncates    *)
(* it, and the content is there when it has been written and closed.       *)
(*                                                                         *)
(* The message log is that of one chat: chats do not interact.  Tree data  *)
(* is abstracted to the set of the tree's nodes.                           *)
(***************************************************************************)
EXTENDS Naturals, FiniteSets, SequencesExt, Functions

CONSTANTS Root, Node,    \* tree ids, and the ids of nodes and status messages
          Msg,           \* message ids of the log
          Cap,           \* MAX_MESSAGE_LOG_ENTRIES_PER_CHAT, 0 if not set
          Timer, Main,   \* timer threads, and the thread of the event loop
          NoTimer,
          MaxChanges, MaxFailures, MaxCrashes  \* bounds

Thread == Timer \cup {Main}

ASSUME IdAssumption == Root \subseteq Node /\ IsFiniteSet(Node) /\ IsFiniteSet(Msg)
ASSUME ThreadAssumption == Main \notin Timer /\ NoTimer \notin Thread
ASSUME BoundAssumption == {Cap, MaxChanges, MaxFailures, MaxCrashes} \subseteq Nat

VARIABLES
  \* SessionStore
  store,      \* _trees, _node_to_tree and _message_log
  seen,       \* _message_log_ids
  dirty,      \* _dirty
  timer,      \* _save_timer
  \* threads
  phase,      \* armed, fired: a timer before and after its wait is over
  snap,       \* opening, writing: the snapshot a thread is writing
  \* the file
  disk,       \* what _load would make of it: nothing, if json.load cannot parse it
  sole,       \* the thread that opened it, if nothing else was done to it since
  \* counters
  changes, failures, crashes,
  \* history, read by the properties only
  newest,     \* the newest snapshot, or what was loaded
  failed,     \* a write has failed since the last change
  raced       \* another thread was saving when the newest snapshot was taken

storeVars   == <<store, seen, dirty, timer>>
threadVars  == <<phase, snap>>
fileVars    == <<disk, sole>>
countVars   == <<changes, failures, crashes>>
historyVars == <<newest, failed, raced>>
vars        == <<storeVars, threadVars, fileVars, countVars, historyVars>>

EmptyMap   == [x \in {} |-> {}]
EmptyStore == [trees |-> EmptyMap, mapping |-> EmptyMap, log |-> <<>>]

Phase   == {"none", "armed", "fired", "opening", "writing"}
Waiting == {"armed", "fired"}
Saving  == {"opening", "writing"}

(* Python's d[k] = v and d.pop(k, None).                                   *)
With(f, S, v) == [x \in DOMAIN f \cup S |-> IF x \in S THEN v ELSE f[x]]
Dropped(f, S) == Restrict(f, DOMAIN f \ S)

Init ==
  /\ store = EmptyStore /\ seen = {} /\ dirty = FALSE /\ timer = NoTimer
  /\ phase = [t \in Thread |-> "none"]
  /\ snap = [t \in Thread |-> EmptyStore]
  /\ disk = EmptyStore /\ sole = NoTimer
  /\ changes = 0 /\ failures = 0 /\ crashes = 0
  /\ newest = EmptyStore /\ failed = FALSE /\ raced = FALSE

-----------------------------------------------------------------------------
(* Saving.                                                                 *)

(* cancel() has no effect on a timer whose wait is over.                   *)
Cancelled(t) == IF t = timer /\ phase[t] = "armed" THEN "none" ELSE phase[t]

(* Wrong variant of ScheduleSave: the pending timer is cancelled, no other *)
(* one is started.                                                         *)
ScheduleSaveCancelsOnly ==
  /\ phase' = [t \in Thread |-> Cancelled(t)]
  /\ timer' = NoTimer
  /\ dirty' = TRUE

(* _schedule_save: the debounce starts again with a new timer.             *)
ScheduleSave ==
  \E new \in Timer :
    /\ Cancelled(new) = "none"
    /\ timer' = new
    /\ phase' = [t \in Thread |-> IF t = new THEN "armed" ELSE Cancelled(t)]
    /\ dirty' = TRUE

(* A thread has taken the snapshot s and goes to write it.                 *)
BeginSave(t, s, rest) ==
  /\ phase' = [rest EXCEPT ![t] = "opening"]
  /\ snap' = [snap EXCEPT ![t] = s]
  /\ newest' = s
  /\ raced' = \E u \in Thread \ {t} : phase[u] \in Saving

(* _flush_save, by the event loop's thread.                                *)
FlushSave(s) ==
  /\ BeginSave(Main, s, [t \in Thread |-> Cancelled(t)])
  /\ timer' = NoTimer
  /\ dirty' = FALSE

(* The timer's wait is over.                                               *)
Fire(t) ==
  /\ phase[t] = "armed"
  /\ phase' = [phase EXCEPT ![t] = "fired"]
  /\ UNCHANGED <<storeVars, snap, fileVars, countVars, historyVars>>

(* Wrong variant of SaveFromTimer: the dirty flag is not cleared.          *)
SaveFromTimerKeepsDirty(t) ==
  /\ phase[t] = "fired"
  /\ timer' = NoTimer
  /\ BeginSave(t, store, phase)
  /\ UNCHANGED <<store, seen, dirty, fileVars, countVars, failed>>

(* _save_from_timer: the snapshot.  The reference it resets may by now be  *)
(* one to a newer timer.                                                   *)
SaveFromTimer(t) ==
  /\ phase[t] = "fired"
  /\ timer' = NoTimer
  /\ \/ /\ ~dirty
        /\ phase' = [phase EXCEPT ![t] = "none"]
        /\ UNCHANGED <<snap, dirty, newest, raced>>
     \/ /\ dirty
        /\ dirty' = FALSE
        /\ BeginSave(t, store, phase)
  /\ UNCHANGED <<store, seen, fileVars, countVars, failed>>

(* _write_data opens the file, which truncates it.                         *)
OpenFile(t) ==
  /\ phase[t] = "opening"
  /\ phase' = [phase EXCEPT ![t] = "writing"]
  /\ disk' = EmptyStore
  /\ sole' = t
  /\ UNCHANGED <<storeVars, snap, countVars, historyVars>>

Done(t) ==
  /\ phase' = [phase EXCEPT ![t] = "none"]
  /\ snap' = [snap EXCEPT ![t] = EmptyStore]

(* The content is written and the file closed.  Two threads that write at  *)
(* the same time each write from the start of the file: one content lies   *)
(* over the other, and shows alone only if it is the longer one.           *)
CloseFile(t) ==
  /\ phase[t] = "writing"
  /\ disk' \in IF sole = t THEN {snap[t]} ELSE {snap[t], EmptyStore}
  /\ sole' = NoTimer
  /\ Done(t)
  /\ UNCHANGED <<storeVars, countVars, historyVars>>

(* Wrong variant of FailWrite: the error is logged and nothing else.       *)
FailWriteForgets(t) ==
  /\ phase[t] \in Saving
  /\ failures < MaxFailures
  /\ failures' = failures + 1
  /\ Done(t)
  /\ failed' = TRUE
  /\ UNCHANGED <<storeVars, fileVars, changes, crashes, newest, raced>>

(* Opening or writing raises: the store is dirty again, without a timer.   *)
FailWrite(t) ==
  /\ phase[t] \in Saving
  /\ failures < MaxFailures
  /\ failures' = failures + 1
  /\ Done(t)
  /\ dirty' = TRUE
  /\ failed' = TRUE
  /\ \/ phase[t] = "opening" /\ UNCHANGED fileVars
     \/ phase[t] = "writing" /\ disk' \in {disk, EmptyStore} /\ sole' = NoTimer
  /\ UNCHANGED <<store, seen, timer, changes, crashes, newest, raced>>

-----------------------------------------------------------------------------
(* The methods, called by the event loop's thread.                         *)

Call ==
  /\ phase[Main] = "none"
  /\ changes < MaxChanges
  /\ changes' = changes + 1
  /\ failed' = FALSE

(* A method that changes the store to s and schedules a save.              *)
Change(s) ==
  /\ Call
  /\ store' = s
  /\ ScheduleSave
  /\ UNCHANGED <<snap, fileVars, failures, crashes, newest, raced>>

LastOf(q) == IF Cap > 0 /\ Len(q) > Cap THEN SubSeq(q, Len(q) - Cap + 1, Len(q)) ELSE q

(* Wrong variant of RecordMessageId: the ids of what falls out of the log  *)
(* stay in the set.                                                        *)
RecordMessageIdKeepsSeen(m) ==
  LET log == LastOf(Append(store.log, m))
  IN  /\ m \notin seen
      /\ Change([store EXCEPT !.log = log])
      /\ seen' = seen \cup {m}

(* record_message_id, of a message that is not in the log.                 *)
RecordMessageId(m) ==
  LET longer == Append(store.log, m)
      log    == LastOf(longer)
  IN  /\ m \notin seen
      /\ Change([store EXCEPT !.log = log])
      /\ seen' = IF log = longer THEN seen \cup {m} ELSE ToSet(log)

SaveTree(r, ns) ==
  /\ Change([store EXCEPT !.trees = With(@, {r}, ns), !.mapping = With(@, ns, r)])
  /\ UNCHANGED seen

RegisterNode(n, r) ==
  /\ Change([store EXCEPT !.mapping = With(@, {n}, r)])
  /\ UNCHANGED seen

RemoveNodeMappings(ns) ==
  /\ Change([store EXCEPT !.mapping = Dropped(@, ns)])
  /\ UNCHANGED seen

RemoveTree(r) ==
  /\ r \in DOMAIN store.trees
  /\ Change([store EXCEPT !.trees = Dropped(@, {r}), !.mapping = Dropped(@, store.trees[r])])
  /\ UNCHANGED seen

(* Wrong variant of ClearAll: the emptied store is saved like any change,  *)
(* but no timer is started.                                                *)
ClearAllUnsaved ==
  /\ Call
  /\ store' = EmptyStore
  /\ seen' = {}
  /\ UNCHANGED <<dirty, timer, threadVars, fileVars, failures, crashes, newest, raced>>

(* clear_all: the empty store is written before the method returns.        *)
ClearAll ==
  /\ Call
  /\ store' = EmptyStore
  /\ seen' = {}
  /\ FlushSave(EmptyStore)
  /\ UNCHANGED <<fileVars, failures, crashes>>

(* flush_pending_save, when the server shuts down.                         *)
FlushPendingSave ==
  /\ Call
  /\ FlushSave(store)
  /\ UNCHANGED <<store, seen, fileVars, failures, crashes>>

(* The process ends, at any moment, and another is started: _load reads    *)
(* the file, and nodes that were not settled are marked and synced back.   *)
Restart ==
  /\ crashes < MaxCrashes
  /\ crashes' = crashes + 1
  /\ store' = disk
  /\ seen' = ToSet(disk.log)
  /\ snap' = [t \in Thread |-> EmptyStore]
  /\ sole' = NoTimer
  /\ newest' = disk
  /\ failed' = FALSE
  /\ raced' = FALSE
  /\ \/ /\ phase' = [t \in Thread |-> "none"]
        /\ timer' = NoTimer
        /\ dirty' = FALSE
     \/ /\ disk.trees # EmptyMap
        /\ \E t \in Timer :
             /\ phase' = [u \in Thread |-> IF u = t THEN "armed" ELSE "none"]
             /\ timer' = t
        /\ dirty' = TRUE
  /\ UNCHANGED <<disk, changes, failures>>

-----------------------------------------------------------------------------
Method ==
  \/ \E m \in Msg : RecordMessageId(m)
  \/ \E r \in Root, ns \in SUBSET Node : r \in ns /\ SaveTree(r, ns)
  \/ \E n \in Node, r \in Root : RegisterNode(n, r)
  \/ \E ns \in SUBSET Node : RemoveNodeMappings(ns)
  \/ \E r \in Root : RemoveTree(r)
  \/ ClearAll
  \/ FlushPendingSave

ThreadStep(t) ==
  \/ Fire(t)
  \/ SaveFromTimer(t)
  \/ OpenFile(t)
  \/ CloseFile(t)
  \/ FailWrite(t)

Next ==
  \/ \E t \in Thread : ThreadStep(t)
  \/ Method
  \/ Restart

Spec == Init /\ [][Next]_vars

(* A timer's wait ends, its thread gets the lock, and a write ends.        *)
Fairness ==
  \A t \in Thread : WF_vars(Fire(t) \/ SaveFromTimer(t) \/ OpenFile(t) \/ CloseFile(t))

FairSpec == Spec /\ Fairness
-----------------------------------------------------------------------------
(* Properties.                                                             *)

(* No change is lost to a save that overlaps it: a store that is not dirty *)
(* is the one the newest snapshot was taken of.                            *)
NoLostUpdate == ~dirty => store = newest

(* A dirty store has a timer that will save it, even when an older timer   *)
(* has wiped the reference to it, except after a write that failed.        *)
DirtyIsScheduled == dirty => failed \/ \E t \in Timer : phase[t] \in Waiting

Quiet == ~dirty /\ \A t \in Thread : phase[t] \notin Saving

(* When nothing is left to be saved the file has what the store has, as    *)
(* long as no two threads write at the same time.                          *)
QuietIsSaved == Quiet /\ ~raced => disk = store

(* The ids the log is searched by are those that are in it, each once,     *)
(* whatever fell out of it.                                                *)
LogIdsAgree == seen = ToSet(store.log) /\ Len(store.log) = Cardinality(seen)

(* A change is saved in the end, or its write fails.                       *)
ChangesAreSaved == dirty ~> Quiet \/ failed
=============================================================================
