----------------------------- MODULE CliSessions -----------------------------
(***************************************************************************)
(* The Claude CLI processes of the messaging bot: CLISessionManager with   *)
(* its lock and its maps, CLISession.start_task and stop, the registry of  *)
(* pids, the tasks that run the nodes of the conversations' trees, the     *)
(* commands that cancel those they can reach, and the end of the server.   *)
(*                                                                         *)
(* A step is the code one asyncio task runs between two suspensions.  An   *)
(* asyncio.Lock that is free is taken without suspending, so a section     *)
(* under it is part of the step that enters it; only a section that stops  *)
(* a living process holds the lock across steps.                           *)
(*                                                                         *)
(* task.cancel() and the CancelledError it causes are two steps: in        *)
(* between, other tasks run, and the cancelled task takes no other step.   *)
(***************************************************************************)
EXTENDS Naturals, FiniteSets, SequencesExt

CONSTANTS Node,       \* the nodes whose tasks run the CLI
          Command,    \* those who give commands to the whole bot: /stop,
          Clear,      \*   or, of them, /clear, one after the other
          Lifespan,   \* the server's lifespan, which stops the sessions too
          Nobody      \* no task

ASSUME ActorAssumption ==
  /\ Lifespan \notin Node \cup Command
  /\ Nobody \notin Node \cup Command \cup {Lifespan}
  /\ Node \cap Command = {}
  /\ Clear \subseteq Command

VARIABLES
  phase,       \* where each node's task is
  where,       \* the map of the manager its session is in
  captured,    \* nodes whose handler has a captured_session_id
  proc,        \* its CLI process
  termed,      \* nodes whose process has been sent SIGTERM
  registered,  \* nodes whose pid is in process_registry._pids
  abandoned,   \* nodes whose start_task generator awaits its aclose()
  selfStop,    \* nodes with a shielded stop() task of their own
  cancelReq,   \* tasks with a CancelledError on its way
  errored,     \* nodes marked ERROR, which a /stop reply cancels no more
  tree,        \* the tree each task belongs to, named by its root
  known,       \* the trees of the repository that handler.tree_queue has
  busy,        \* trees with is_processing
  current,     \* the task each tree has in _current_task
  unreached,   \* history: tasks that opened a session as a cancel_all()
               \*   passed them by
  holder,      \* the task inside a section of CLISessionManager._lock
  waiters,     \* the tasks that wait for it, in order
  stopAll,     \* where each stop_all() is
  todo,        \* what the stop_all() under the lock has left to stop
  victim,      \* the session it is stopping
  life,        \* the server's loop
  awaited,     \* tasks the end of the loop waits for
  cut,         \* history: nodes a stop() of which was cancelled half way
  missed       \* history: nodes a stop_all() forgot with their process alive

taskVars  == <<phase, cancelReq, errored>>
treeVars  == <<tree, known, busy, current, unreached>>
procVars  == <<proc, termed, registered, abandoned, selfStop>>
lockVars  == <<holder, waiters>>
allVars   == <<stopAll, todo, victim>>
lifeVars  == <<life, awaited>>
vars      == <<taskVars, treeVars, where, captured, procVars, lockVars, allVars, lifeVars, cut, missed>>

Stopper == Command \cup {Lifespan}

Suspended == {"created", "wantSession", "starting", "reading", "wantRegister",
              "draining", "selfStopping", "wantRemove", "removing"}
Phase     == Suspended \cup {"idle", "finishing", "done"}
Waiting   == {"wantSession", "wantRegister", "wantRemove"}

(* self.process is assigned and its returncode is None, so that stop()     *)
(* has something to stop.  While create_subprocess_exec is awaited the     *)
(* process lives, but self.process is still None.                          *)
Stoppable(n) == proc[n] = "alive" /\ phase[n] # "starting"

LoopRuns == life \in {"serving", "stopping", "ending"}
Steps(n) == LoopRuns /\ n \notin cancelReq

Without(q, a) == RemoveFirst(q, a)
FreeFor(q)    == holder = Nobody /\ q = <<>>
Turn(a)       == holder = Nobody /\ waiters # <<>> /\ Head(waiters) = a

Init ==
  /\ phase = [n \in Node |-> "idle"]
  /\ where = [n \in Node |-> "nowhere"]
  /\ captured = {}
  /\ proc = [n \in Node |-> "none"]
  /\ termed = {} /\ registered = {} /\ abandoned = {} /\ selfStop = {}
  /\ cancelReq = {} /\ errored = {}
  /\ tree = [n \in Node |-> Nobody] /\ current = [r \in Node |-> Nobody]
  /\ known = {} /\ busy = {} /\ unreached = {}
  /\ holder = Nobody /\ waiters = <<>>
  /\ stopAll = [s \in Stopper |-> "off"] /\ todo = {} /\ victim = Nobody
  /\ life = "serving" /\ awaited = {}
  /\ cut = {} /\ missed = {}

-----------------------------------------------------------------------------
(* A node's task, as far as it uses the CLI.                               *)

(* A message that starts a conversation, or a reply in a tree that is free: *)
(* the task of its node is created.                                        *)
CreateTask(n) ==
  /\ life = "serving" /\ phase[n] = "idle"
  /\ phase' = [phase EXCEPT ![n] = "created"]
  /\ \E r \in {n} \cup (known \ busy) :
       /\ tree' = [tree EXCEPT ![n] = r]
       /\ known' = known \cup {r}
       /\ busy' = busy \cup {r}
       /\ current' = [current EXCEPT ![r] = n]
  /\ UNCHANGED <<unreached, captured, missed, cancelReq, errored, where, procVars, lockVars,
                 allVars, lifeVars, cut>>

(* get_or_create_session(None) under the lock, then start_task up to the   *)
(* spawning of the process.                                                *)
Open(n) ==
  /\ phase' = [phase EXCEPT ![n] = "starting"]
  /\ where' = [where EXCEPT ![n] = "pending"]
  /\ proc' = [proc EXCEPT ![n] = "alive"]
  /\ UNCHANGED <<holder, termed>>

AskSession(n) ==
  /\ Steps(n) /\ phase[n] = "created" /\ n \notin errored
  /\ \/ FreeFor(waiters) /\ Open(n) /\ UNCHANGED waiters
     \/ /\ ~FreeFor(waiters)
        /\ phase' = [phase EXCEPT ![n] = "wantSession"]
        /\ waiters' = Append(waiters, n)
        /\ UNCHANGED <<where, proc, holder, termed>>
  /\ UNCHANGED <<treeVars, captured, missed, cancelReq, errored, registered, abandoned,
                 selfStop, allVars, lifeVars, cut>>

GetSession(n) ==
  /\ Steps(n) /\ phase[n] = "wantSession" /\ Turn(n)
  /\ Open(n) /\ waiters' = Tail(waiters)
  /\ UNCHANGED <<treeVars, captured, missed, cancelReq, errored, registered, abandoned,
                 selfStop, allVars, lifeVars, cut>>

(* create_subprocess_exec returns: self.process is set, the pid registered. *)
Spawned(n) ==
  /\ Steps(n) /\ phase[n] = "starting"
  /\ phase' = [phase EXCEPT ![n] = "reading"]
  /\ registered' = registered \cup {n}
  /\ UNCHANGED <<treeVars, captured, missed, cancelReq, errored, where, proc, termed, abandoned,
                 selfStop, lockVars, allVars, lifeVars, cut>>

(* The section of remove_session: the session leaves its map, and a living *)
(* process is stopped with the lock held.                                  *)
InMap(n) == where[n] = IF n \in captured THEN "sessions" ELSE "pending"

(* A wrong variant of Removal: the process is not stopped. *)
RemovalOnly(n, live) ==
  /\ where' = [where EXCEPT ![n] = IF InMap(n) THEN "nowhere" ELSE @]
  /\ phase' = [phase EXCEPT ![n] = "finishing"]
  /\ holder' = Nobody
  /\ UNCHANGED termed

Removal(n, live) ==
  /\ where' = [where EXCEPT ![n] = IF InMap(n) THEN "nowhere" ELSE @]
  /\ \/ /\ InMap(n) /\ live
        /\ phase' = [phase EXCEPT ![n] = "removing"]
        /\ holder' = n
        /\ termed' = termed \cup {n}
     \/ /\ ~(InMap(n) /\ live)
        /\ phase' = [phase EXCEPT ![n] = "finishing"]
        /\ holder' = Nobody
        /\ UNCHANGED termed

(* The `finally' of _process_node_impl, with q the other waiting tasks. *)
Leave(n, live, q) ==
  \/ FreeFor(q) /\ Removal(n, live) /\ waiters' = q
  \/ /\ ~FreeFor(q)
     /\ phase' = [phase EXCEPT ![n] = "wantRemove"]
     /\ waiters' = Append(q, n)
     /\ UNCHANGED <<where, holder, termed>>

(* Spawning fails, and start_task raises. *)
SpawnFails(n) ==
  /\ Steps(n) /\ phase[n] = "starting"
  /\ proc' = [proc EXCEPT ![n] = "dead"]
  /\ Leave(n, FALSE, waiters)
  /\ UNCHANGED <<treeVars, captured, missed, cancelReq, errored, registered, abandoned,
                 selfStop, allVars, lifeVars, cut>>

(* The first event with a session id: register_real_session_id.  When a    *)
(* stop_all() has emptied the maps it returns False, which the handler     *)
(* ignores; the node is IN_PROGRESS again, even if it was marked ERROR.     *)

(* A wrong variant of Rename: the handler does not keep the new id. *)
RenameInMap(n) ==
  /\ where' = [where EXCEPT ![n] = IF @ = "pending" THEN "sessions" ELSE @]
  /\ errored' = errored \ {n}
  /\ UNCHANGED captured

Rename(n) ==
  /\ where' = [where EXCEPT ![n] = IF @ = "pending" THEN "sessions" ELSE @]
  /\ captured' = captured \cup {n}
  /\ errored' = errored \ {n}

ReportSession(n) ==
  /\ Steps(n) /\ phase[n] = "reading" /\ n \notin captured
  /\ \/ FreeFor(waiters) /\ Rename(n) /\ UNCHANGED <<phase, waiters>>
     \/ /\ ~FreeFor(waiters)
        /\ phase' = [phase EXCEPT ![n] = "wantRegister"]
        /\ waiters' = Append(waiters, n)
        /\ UNCHANGED <<where, captured, errored>>
  /\ UNCHANGED <<treeVars, cancelReq, procVars, holder, allVars, lifeVars, cut, missed>>

Register(n) ==
  /\ Steps(n) /\ phase[n] = "wantRegister" /\ Turn(n)
  /\ Rename(n)
  /\ phase' = [phase EXCEPT ![n] = "reading"]
  /\ waiters' = Tail(waiters)
  /\ UNCHANGED <<treeVars, cancelReq, procVars, holder, allVars, lifeVars, cut, missed>>

(* mark_node_error(): the node, and those of its tree that are pending.  It *)
(* looks for the tree in the present repository.  Once the trees are       *)
(* forgotten, any task that has not begun may be marked with it.           *)
MarkFailed(n) ==
  \E lost \in SUBSET {m \in Node : tree[m] = tree[n] /\ phase[m] = "created"} :
    errored' = IF tree[n] \in known THEN errored \cup {n} \cup lost
               ELSE IF life = "serving" THEN errored ELSE errored \cup lost

(* The handler fails on an event: its `async for' drops the generator. *)

(* A wrong variant: its session is removed as if the process had ended. *)
HandlerFailsOnly(n) ==
  /\ Steps(n) /\ phase[n] = "reading"
  /\ abandoned' = abandoned \cup {n}
  /\ MarkFailed(n)
  /\ Leave(n, FALSE, waiters)
  /\ UNCHANGED <<treeVars, captured, missed, cancelReq, proc, registered, selfStop, allVars,
                 lifeVars, cut>>

HandlerFails(n) ==
  /\ Steps(n) /\ phase[n] = "reading"
  /\ abandoned' = abandoned \cup {n}
  /\ MarkFailed(n)
  /\ Leave(n, proc[n] = "alive", waiters)
  /\ UNCHANGED <<treeVars, captured, missed, cancelReq, proc, registered, selfStop, allVars,
                 lifeVars, cut>>

(* The process closes its output; start_task waits for it to end. *)
EndOfOutput(n) ==
  /\ Steps(n) /\ phase[n] = "reading"
  /\ phase' = [phase EXCEPT ![n] = "draining"]
  /\ UNCHANGED <<treeVars, captured, missed, cancelReq, errored, where, procVars, lockVars,
                 allVars, lifeVars, cut>>

(* process.wait() returns, the generator ends, the session is removed. *)
Drained(n) ==
  /\ Steps(n) /\ phase[n] = "draining" /\ proc[n] = "dead"
  /\ registered' = registered \ {n}
  /\ Leave(n, FALSE, waiters)
  /\ UNCHANGED <<treeVars, captured, missed, cancelReq, errored, proc, abandoned, selfStop,
                 allVars, lifeVars, cut>>

(* The shielded stop() of a cancelled task ends; the task, if it still     *)
(* waits for it, raises through start_task and the handler.                *)
SelfStopped(n) ==
  /\ LoopRuns /\ n \in selfStop /\ proc[n] = "dead"
  /\ selfStop' = selfStop \ {n}
  /\ registered' = registered \ {n}
  /\ \/ Steps(n) /\ phase[n] = "selfStopping" /\ Leave(n, FALSE, waiters)
     \/ /\ ~(Steps(n) /\ phase[n] = "selfStopping")
        /\ UNCHANGED <<phase, where, termed, lockVars>>
  /\ UNCHANGED <<treeVars, captured, missed, cancelReq, errored, proc, abandoned, allVars,
                 lifeVars, cut>>

RemoveSession(n) ==
  /\ Steps(n) /\ phase[n] = "wantRemove" /\ Turn(n)
  /\ Removal(n, proc[n] = "alive") /\ waiters' = Tail(waiters)
  /\ UNCHANGED <<treeVars, captured, missed, cancelReq, errored, proc, registered, abandoned,
                 selfStop, allVars, lifeVars, cut>>

Removed(n) ==
  /\ Steps(n) /\ phase[n] = "removing" /\ proc[n] = "dead"
  /\ phase' = [phase EXCEPT ![n] = "finishing"]
  /\ registered' = registered \ {n}
  /\ holder' = Nobody
  /\ UNCHANGED <<treeVars, captured, missed, cancelReq, errored, where, proc, termed, abandoned,
                 selfStop, waiters, allVars, lifeVars, cut>>

(* _process_next, in the `finally' of process_node, or at once for a node  *)
(* that is marked ERROR before its task runs: the tree is free, unless the *)
(* queue, which only a busy tree has, gives it a next node.  That one may  *)
(* have been marked with a parent that failed.                             *)
Finish(n) ==
  /\ \/ LoopRuns /\ phase[n] = "finishing"
     \/ Steps(n) /\ phase[n] = "created" /\ n \in errored
  /\ \/ /\ phase' = [phase EXCEPT ![n] = "done"]
        /\ busy' = busy \ {tree[n]}
        /\ UNCHANGED <<tree, current, errored>>
     \/ \E next \in Node :
          /\ phase[next] = "idle"
          /\ phase' = [phase EXCEPT ![n] = "done", ![next] = "created"]
          /\ errored' \in {errored, errored \cup {next}}
          /\ \/ /\ life = "serving" /\ tree[n] \in busy
                /\ tree' = [tree EXCEPT ![next] = tree[n]]
                /\ current' = [current EXCEPT ![tree[n]] = next]
             \/ life # "serving" /\ UNCHANGED <<tree, current>>
          /\ UNCHANGED busy
  /\ UNCHANGED <<known, unreached, captured, missed, cancelReq, where, procVars, lockVars,
                 allVars, lifeVars, cut>>

(* aclose() of a dropped generator runs its `finally'. *)
CloseGenerator(n) ==
  /\ LoopRuns /\ n \in abandoned
  /\ abandoned' = abandoned \ {n}
  /\ registered' = registered \ {n}
  /\ UNCHANGED <<treeVars, captured, missed, taskVars, where, proc, termed, selfStop, lockVars,
                 allVars, lifeVars, cut>>

-----------------------------------------------------------------------------
(* The CancelledError reaches the task, wherever it is suspended.  Its node *)
(* was marked ERROR when it was cancelled.                                 *)
CancelArrives(n) ==
  /\ LoopRuns /\ n \in cancelReq
  /\ cancelReq' = cancelReq \ {n}
  /\ \/ /\ phase[n] = "created"                  \* the coroutine never runs
        /\ phase' = [phase EXCEPT ![n] = "done"]
        /\ UNCHANGED <<where, procVars, lockVars, cut>>
     \/ /\ phase[n] = "wantSession"
        /\ phase' = [phase EXCEPT ![n] = "finishing"]
        /\ waiters' = Without(waiters, n)
        /\ UNCHANGED <<where, procVars, holder, cut>>
     \/ /\ phase[n] = "starting"                 \* asyncio kills the child
        /\ proc' = [proc EXCEPT ![n] = "dead"]
        /\ Leave(n, FALSE, waiters)
        /\ UNCHANGED <<registered, abandoned, selfStop, cut>>
     \/ /\ phase[n] = "reading"                  \* shield(self.stop())
        /\ phase' = [phase EXCEPT ![n] = "selfStopping"]
        /\ selfStop' = selfStop \cup {n}
        /\ termed' = termed \cup {n}
        /\ UNCHANGED <<where, proc, registered, abandoned, lockVars, cut>>
     \/ /\ phase[n] = "wantRegister"
        /\ abandoned' = abandoned \cup {n}
        /\ Leave(n, proc[n] = "alive", Without(waiters, n))
        /\ UNCHANGED <<proc, registered, selfStop, cut>>
     \/ /\ phase[n] \in {"draining", "selfStopping"}
        /\ registered' = registered \ {n}
        /\ Leave(n, proc[n] = "alive", waiters)
        /\ UNCHANGED <<proc, abandoned, selfStop, cut>>
     \/ /\ phase[n] = "wantRemove"               \* the session stays in its map
        /\ phase' = [phase EXCEPT ![n] = "finishing"]
        /\ waiters' = Without(waiters, n)
        /\ cut' = cut \cup {n}
        /\ UNCHANGED <<where, procVars, holder>>
     \/ /\ phase[n] = "removing"                 \* stop() ends without kill()
        /\ phase' = [phase EXCEPT ![n] = "finishing"]
        /\ holder' = Nobody
        /\ cut' = cut \cup {n}
        /\ UNCHANGED <<where, procVars, waiters>>
  /\ UNCHANGED <<treeVars, captured, missed, errored, allVars, lifeVars>>

(* "/stop" in reply to a node: cancel_node.  The task of a node that is no *)
(* longer the current one of its tree is not cancelled, only marked.       *)
IsCurrent(n) == tree[n] \in busy /\ current[tree[n]] = n

StopTask(n) ==
  /\ life = "serving" /\ phase[n] \in Suspended /\ n \notin errored
  /\ tree[n] \in known
  /\ cancelReq' = IF IsCurrent(n) THEN cancelReq \cup {n} ELSE cancelReq
  /\ errored' = errored \cup {n}
  /\ UNCHANGED <<treeVars, captured, missed, phase, where, procVars, lockVars, allVars,
                 lifeVars, cut>>

-----------------------------------------------------------------------------
Known == {n \in Node : where[n] # "nowhere"}

(* stop_all(): one session after the other, then the maps are emptied.  A  *)
(* session without a living process is passed over without suspending.     *)
StopSessions(s, left) ==
  \/ \E m \in left, passed \in SUBSET {k \in left : ~Stoppable(k)} :
       /\ Stoppable(m)
       /\ stopAll' = [stopAll EXCEPT ![s] = "stopping"]
       /\ victim' = m
       /\ todo' = left \ (passed \cup {m})
       /\ termed' = termed \cup {m}
       /\ holder' = s
       /\ UNCHANGED <<where, missed>>
  \/ /\ \A m \in left : ~Stoppable(m)
     /\ stopAll' = [stopAll EXCEPT ![s] = IF s \in Command \ Clear THEN "off" ELSE "done"]
     /\ where' = [n \in Node |-> "nowhere"]
     /\ missed' = missed \cup {n \in Known : proc[n] = "alive"}
     /\ victim' = Nobody /\ todo' = {} /\ holder' = Nobody
     /\ UNCHANGED termed

AskStopAll(s) ==
  \/ FreeFor(waiters) /\ StopSessions(s, Known) /\ UNCHANGED waiters
  \/ /\ ~FreeFor(waiters)
     /\ stopAll' = [stopAll EXCEPT ![s] = "waiting"]
     /\ waiters' = Append(waiters, s)
     /\ UNCHANGED <<where, termed, holder, todo, victim, missed>>

(* The tasks that the trees of the repository have under way.              *)
UnderWay == {n \in Node : tree[n] \in known /\ phase[n] \in Suspended}

(* cancel_tree() cancels _current_task and no other: neither a task that   *)
(* another one of its tree has overtaken, nor one of a tree that the       *)
(* repository has no more.                                                 *)
Reached == {n \in UnderWay : current[tree[n]] = n}

(* cancel_all(), of which `cancelled' are the tasks that it cancels: all   *)
(* that is under way is marked ERROR, and the trees are free.              *)
CancelAll(cancelled) ==
  /\ cancelReq' = cancelReq \cup cancelled
  /\ errored' = errored \cup UnderWay
  /\ busy' = busy \ known
  /\ unreached' = unreached \cup {n \in Node \ Reached : phase[n] \in {"wantSession", "starting"}}
  /\ UNCHANGED <<tree, known, current>>

(* "/stop", or the beginning of "/clear": cancel_all(), and stop_all() at  *)
(* once.                                                                   *)

(* A wrong variant: a task that is starting its CLI is not cancelled. *)
StopAllButStarting(s) ==
  /\ life = "serving" /\ s \in Command /\ stopAll[s] = "off"
  /\ CancelAll({n \in Reached : phase[n] # "starting"})
  /\ AskStopAll(s)
  /\ UNCHANGED <<captured, phase, proc, registered, abandoned, selfStop, lifeVars, cut>>

StopAllTasks(s) ==
  /\ life = "serving" /\ s \in Command /\ stopAll[s] = "off"
  /\ CancelAll(Reached)
  /\ AskStopAll(s)
  /\ UNCHANGED <<captured, phase, proc, registered, abandoned, selfStop, lifeVars, cut>>

EnterStopAll(s) ==
  /\ LoopRuns /\ stopAll[s] = "waiting" /\ Turn(s)
  /\ StopSessions(s, Known) /\ waiters' = Tail(waiters)
  /\ UNCHANGED <<treeVars, captured, taskVars, proc, registered, abandoned, selfStop, lifeVars,
                 cut>>

NextVictim(s) ==
  /\ LoopRuns /\ stopAll[s] = "stopping" /\ proc[victim] = "dead"
  /\ registered' = registered \ {victim}
  /\ StopSessions(s, todo)
  /\ UNCHANGED <<treeVars, captured, taskVars, proc, abandoned, selfStop, waiters, lifeVars, cut>>

(* The end of "/clear", some time after its stop_all(): handler.tree_queue  *)
(* is replaced by a manager that knows no tree.                            *)
ReplaceTrees(s) ==
  /\ life = "serving" /\ s \in Clear /\ stopAll[s] = "done"
  /\ stopAll' = [stopAll EXCEPT ![s] = "off"]
  /\ known' = {}
  /\ UNCHANGED <<tree, busy, current, unreached, captured, missed, taskVars, where, procVars,
                 lockVars, todo, victim, lifeVars, cut>>

-----------------------------------------------------------------------------
(* The processes.                                                          *)

(* The CLI ends, by itself or after SIGTERM; it need not heed SIGTERM. *)
ProcessExits(n) ==
  /\ proc[n] = "alive"
  /\ proc' = [proc EXCEPT ![n] = "dead"]
  /\ UNCHANGED <<treeVars, captured, missed, taskVars, where, termed, registered, abandoned,
                 selfStop, lockVars, allVars, lifeVars, cut>>

(* Five seconds after SIGTERM, a stop() that still waits uses kill(). *)
BeingStopped(n) ==
  n \in selfStop \/ phase[n] = "removing" \/ victim = n

(* A wrong variant of Kill: stop() waits without a timeout. *)
KillNever(n) == FALSE

Kill(n) == LoopRuns /\ BeingStopped(n) /\ ProcessExits(n)

-----------------------------------------------------------------------------
(* The end of the server.                                                  *)

(* Messages and commands come only while the bot serves.  The trees are    *)
(* followed no further than that: later, any task may have a next one.  Of *)
(* the marks, only those of tasks that have not begun are still read.      *)
ForgetTrees ==
  /\ errored' = {n \in errored : phase[n] = "created"}
  /\ tree' = [n \in Node |-> Nobody] /\ current' = [r \in Node |-> Nobody]
  /\ known' = {} /\ busy' = {} /\ unreached' = {}

(* lifespan, after its yield: the platform is stopped, then the sessions. *)
Shutdown ==
  /\ life = "serving" /\ life' = "stopping"
  /\ AskStopAll(Lifespan) /\ ForgetTrees
  /\ UNCHANGED <<captured, phase, cancelReq, proc, registered, abandoned, selfStop, awaited, cut>>

(* stop_all() calls that are cancelled leave the lock and the maps as they are. *)
CutShort(S) ==
  /\ stopAll' = [s \in Stopper |->
       IF s \in S /\ stopAll[s] \in {"waiting", "stopping"} THEN "cut" ELSE stopAll[s]]
  /\ waiters' = SelectSeq(waiters, LAMBDA a : a \notin S)
  /\ \/ /\ holder \in S
        /\ holder' = Nobody /\ victim' = Nobody /\ todo' = {}
     \/ holder \notin S /\ UNCHANGED <<holder, victim, todo>>

Interrupted(S) == IF holder \in S THEN {victim} ELSE {}

(* _best_effort gives stop_all() five seconds in all. *)
ShutdownTimeout ==
  /\ life = "stopping" /\ stopAll[Lifespan] \in {"waiting", "stopping"}
  /\ CutShort({Lifespan})
  /\ cut' = cut \cup Interrupted({Lifespan})
  /\ UNCHANGED <<treeVars, captured, missed, taskVars, where, procVars, lifeVars>>

(* asyncio.run cancels every task, once lifespan is over or a second       *)
(* Ctrl+C has cut it short, and runs until those tasks have ended.         *)
LoopEnds ==
  /\ life \in {"serving", "stopping"} /\ life' = "ending"
  /\ cancelReq' = {n \in Node : phase[n] \in Suspended}
  /\ awaited' = {n \in Node : phase[n] \notin {"idle", "done"}}
  /\ CutShort(Stopper)
  /\ selfStop' = {}
  /\ cut' = cut \cup Interrupted(Stopper) \cup selfStop
  /\ ForgetTrees
  /\ UNCHANGED <<captured, missed, phase, where, proc, termed, registered, abandoned>>

(* Then generators suspended at a yield are closed, and the loop with them. *)
LoopCloses ==
  /\ life = "ending" /\ \A n \in awaited : phase[n] = "done"
  /\ life' = "closed"
  /\ registered' = registered \ (abandoned \cup {n \in Node : phase[n] = "wantRegister"})
  /\ abandoned' = {}
  /\ UNCHANGED <<treeVars, captured, missed, taskVars, where, proc, termed, selfStop, lockVars,
                 allVars, awaited, cut>>

(* kill_all_best_effort, in server.py's `finally' and at exit. *)
Exit ==
  /\ life = "closed" /\ life' = "exited"
  /\ proc' = [n \in Node |-> IF n \in registered THEN "dead" ELSE proc[n]]
  /\ registered' = {}
  /\ UNCHANGED <<treeVars, captured, missed, taskVars, where, termed, abandoned, selfStop,
                 lockVars, allVars, awaited, cut>>

-----------------------------------------------------------------------------
(* The one step a suspended task can take, when it does not depend on its CLI. *)
TaskStep(n) ==
  \/ AskSession(n) \/ GetSession(n) \/ Spawned(n) \/ Register(n) \/ Drained(n)
  \/ RemoveSession(n) \/ Removed(n) \/ Finish(n) \/ CancelArrives(n)

Next ==
  \/ \E n \in Node : CreateTask(n) \/ SpawnFails(n) \/ HandlerFails(n) \/ StopTask(n)
  \/ \E n \in Node : TaskStep(n) \/ ReportSession(n) \/ EndOfOutput(n)
  \/ \E n \in Node : SelfStopped(n) \/ CloseGenerator(n) \/ ProcessExits(n) \/ Kill(n)
  \/ \E s \in Stopper : StopAllTasks(s) \/ EnterStopAll(s) \/ NextVictim(s) \/ ReplaceTrees(s)
  \/ Shutdown \/ ShutdownTimeout \/ LoopEnds \/ LoopCloses \/ Exit

Spec == Init /\ [][Next]_vars

(* The loop does not rest while a task that is on its way out, or whose    *)
(* turn at the lock it is, can go on, or a timeout has passed.  Each takes *)
(* finitely many such steps, so that this is enough for all of them.  A    *)
(* CLI that nobody stops may run for ever.                                 *)
LoopStep ==
  \/ \E n \in Node : \/ CancelArrives(n) \/ Finish(n) \/ GetSession(n) \/ Register(n)
                    \/ RemoveSession(n) \/ Removed(n) \/ SelfStopped(n) \/ Kill(n)
  \/ \E s \in Stopper : EnterStopAll(s) \/ NextVictim(s)

Fairness == WF_vars(LoopStep)

FairSpec == Spec /\ Fairness

-----------------------------------------------------------------------------
(* A process is never out of reach while the bot serves: its session is in *)
(* a map, where a later stop_all() finds it, or it is being stopped        *)
(* (manager.py:89-144, session.py:168-175).  There are two exceptions: a   *)
(* process whose stop(), after SIGTERM, was itself cancelled, and one that *)
(* stop_all() met while it was being started, when self.process is still   *)
(* None, of a task that cancel_all() had not reached (queue_manager.py:240, *)
(* 316).  Every task that cancel_all() does reach is cancelled in time.    *)
EveryProcessInReach ==
  life = "serving" =>
    \A n \in Node :
      Stoppable(n) => \/ where[n] # "nowhere" \/ BeingStopped(n)
                      \/ n \in cut /\ n \in termed
                      \/ n \in missed /\ n \in unreached

(* When the task of a node is over, no process of it is left running       *)
(* (session.py:169, "should not leave a Claude CLI subprocess running in   *)
(* the background"), unless a second cancellation cut the removal short or *)
(* stop_all() missed the process of a task that cancel_all() had not       *)
(* reached.                                                                *)
NoOrphan ==
  life = "serving" =>
    \A n \in Node :
      proc[n] = "alive" /\ phase[n] = "done" =>
        BeingStopped(n) \/ n \in cut \/ (n \in missed /\ n \in unreached)

(* A node's task takes its session out of the manager (handler.py:608),    *)
(* under the id it is kept by, however it ends.                            *)
SessionsReleased ==
  \A n \in Node : phase[n] = "done" /\ n \notin cut => where[n] = "nowhere"

(* After the exit nothing runs (process_registry.py:3, server.py:37), but  *)
(* for processes started after the loop began to end, those a cancelled    *)
(* stop() has given up, and those stop_all() met while they were being     *)
(* started, when self.process is still None.                               *)
ExitKills ==
  life = "exited" =>
    \A n \in Node : proc[n] = "alive" => n \in cut \cup missed \/ n \notin awaited

(* Every task that is cancelled, or on its way out, ends, even if its CLI  *)
(* ignores SIGTERM (session.py:246-250): as long as the loop runs, there is *)
(* always a later moment at which none is left.  A task that is only       *)
(* marked ERROR is not cancelled and may go on for as long as its CLI does. *)
Ending(n) ==
  n \in cancelReq \/ phase[n] \in {"selfStopping", "wantRemove", "removing", "finishing"}

StoppedTasksEnd == []<>(LoopRuns => \A n \in Node : ~Ending(n))
=============================================================================
