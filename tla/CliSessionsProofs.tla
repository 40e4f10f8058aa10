-------------------------- MODULE CliSessionsProofs --------------------------
(***************************************************************************)
(* The manager lets go of every session, for any number of tasks and of    *)
(* commands, whatever is cancelled and whichever process never ends.       *)
(***************************************************************************)
EXTENDS CliSessions, SequenceTheorems, WellFoundedInduction, TLAPS

Place == {"nowhere", "pending", "sessions"}

(* A task without a session has none in a map, the handler knows the id a  *)
(* session is kept by, and a task past its removal has left the maps.      *)
NodeInv(n) ==
  /\ phase[n] \in {"idle", "created", "wantSession"} => where[n] = "nowhere" /\ n \notin captured
  /\ n \in captured => where[n] # "pending"
  /\ n \notin captured => where[n] # "sessions"
  /\ phase[n] \in {"removing", "finishing", "done"} => where[n] = "nowhere" \/ n \in cut

SessionInv ==
  /\ phase \in [Node -> Phase]
  /\ where \in [Node -> Place]
  /\ \A n \in Node : NodeInv(n)

-----------------------------------------------------------------------------
(* A step of one task touches no other task's session.                     *)
LEMMA OneNode ==
  ASSUME SessionInv, NEW n \in Node,
         NEW p \in Phase, phase' = [phase EXCEPT ![n] = p],
         NEW w \in Place, where' = [where EXCEPT ![n] = w],
         captured' \in {captured, captured \cup {n}}, cut \subseteq cut',
         NodeInv(n)'
  PROVE  SessionInv'
<1>1. phase' \in [Node -> Phase] /\ where' \in [Node -> Place]
  BY DEF SessionInv
<1>2. ASSUME NEW m \in Node, m # n PROVE NodeInv(m)'
  <2>1. phase'[m] = phase[m] /\ where'[m] = where[m] /\ (m \in captured' <=> m \in captured)
    BY <1>2 DEF SessionInv
  <2>2. NodeInv(m)
    BY DEF SessionInv
  <2> QED BY <2>1, <2>2 DEF NodeInv
<1> QED BY <1>1, <1>2 DEF SessionInv

(* A step that ends no task, and either leaves the maps alone or empties   *)
(* them.                                                                   *)
LEMMA NoNode ==
  ASSUME SessionInv, UNCHANGED <<phase, captured>>, cut \subseteq cut',
         where' = where \/ where' = [n \in Node |-> "nowhere"]
  PROVE  SessionInv'
<1>1. where' \in [Node -> Place]
  BY DEF SessionInv, Place
<1>2. ASSUME NEW m \in Node PROVE NodeInv(m)'
  <2>1. where'[m] = where[m] \/ where'[m] = "nowhere"
    BY DEF SessionInv
  <2>2. NodeInv(m)
    BY DEF SessionInv
  <2> QED BY <2>1, <2>2 DEF NodeInv
<1> QED BY <1>1, <1>2 DEF SessionInv

(* remove_session finds the session under the id the handler knows.        *)
LEMMA RemovalEffect ==
  ASSUME SessionInv, NEW n \in Node, NEW live, Removal(n, live)
  PROVE  /\ where' = [where EXCEPT ![n] = "nowhere"]
         /\ \E p \in {"removing", "finishing"} : phase' = [phase EXCEPT ![n] = p]
<1>1. InMap(n) \/ where[n] = "nowhere"
  BY DEF SessionInv, NodeInv, InMap, Place
<1>2. where' = [where EXCEPT ![n] = "nowhere"]
  BY <1>1 DEF Removal, SessionInv
<1>3. \E p \in {"removing", "finishing"} : phase' = [phase EXCEPT ![n] = p]
  BY DEF Removal
<1> QED BY <1>2, <1>3

(* However a task leaves its CLI, it removes its session or waits to do it. *)
LEMMA LeaveKeeps ==
  ASSUME SessionInv, NEW n \in Node, NEW live, NEW q, Leave(n, live, q),
         captured' = captured, cut \subseteq cut'
  PROVE  SessionInv'
<1>1. CASE Removal(n, live)
  <2>1. PICK p \in {"removing", "finishing"} : phase' = [phase EXCEPT ![n] = p]
    BY <1>1, RemovalEffect
  <2>2. where' = [where EXCEPT ![n] = "nowhere"]
    BY <1>1, RemovalEffect
  <2>3. p \in Phase /\ "nowhere" \in Place
    BY DEF Phase, Suspended, Place
  <2>4. phase'[n] = p /\ where'[n] = "nowhere"
    BY <2>1, <2>2 DEF SessionInv
  <2>5. NodeInv(n)'
    BY <2>1, <2>4 DEF NodeInv
  <2> QED BY <2>1, <2>2, <2>3, <2>5, OneNode
<1>2. CASE phase' = [phase EXCEPT ![n] = "wantRemove"] /\ where' = where
  <2>1. "wantRemove" \in Phase /\ where[n] \in Place
    BY DEF Phase, Suspended, SessionInv
  <2>2. where' = [where EXCEPT ![n] = where[n]]
    BY <1>2 DEF SessionInv
  <2>3. phase'[n] = "wantRemove" /\ where'[n] = where[n] /\ NodeInv(n)
    BY <1>2 DEF SessionInv
  <2>4. NodeInv(n)'
    BY <2>3 DEF NodeInv
  <2> QED BY <1>2, <2>1, <2>2, <2>4, OneNode
<1> QED BY <1>1, <1>2 DEF Leave

(* A step that moves a task on and leaves its session where it is.         *)
LEMMA MoveKeeps ==
  ASSUME SessionInv, NEW n \in Node, NEW p \in Phase,
         phase' = [phase EXCEPT ![n] = p], where' = where, captured' = captured,
         cut \subseteq cut',
         p \in {"created", "wantSession"} => phase[n] \in {"idle", "created"},
         p \in {"finishing", "done"} =>
           \/ phase[n] \in {"created", "wantSession", "removing", "finishing"}
           \/ n \in cut',
         p \notin {"idle", "removing"}
  PROVE  SessionInv'
<1>1. where[n] \in Place /\ where' = [where EXCEPT ![n] = where[n]]
  BY DEF SessionInv
<1>2. phase'[n] = p /\ where'[n] = where[n] /\ NodeInv(n)
  BY DEF SessionInv
<1>3. NodeInv(n)'
  BY <1>2 DEF NodeInv
<1> QED BY <1>1, <1>3, OneNode

LEMMA OpenKeeps ==
  ASSUME SessionInv, NEW n \in Node, Open(n),
         phase[n] \in {"created", "wantSession"}, captured' = captured, cut' = cut
  PROVE  SessionInv'
<1>1. phase' = [phase EXCEPT ![n] = "starting"] /\ where' = [where EXCEPT ![n] = "pending"]
  BY DEF Open
<1>2. phase'[n] = "starting" /\ where'[n] = "pending"
  BY <1>1 DEF SessionInv
<1>3. NodeInv(n)'
  BY <1>2 DEF NodeInv, SessionInv
<1> QED BY <1>1, <1>3, OneNode DEF Phase, Suspended, Place

LEMMA RenameKeeps ==
  ASSUME SessionInv, NEW n \in Node, Rename(n), cut' = cut,
         phase[n] \in {"reading", "wantRegister"},
         NEW p \in {"reading"}, phase' = [phase EXCEPT ![n] = p]
  PROVE  SessionInv'
<1>1. PICK w \in Place : where' = [where EXCEPT ![n] = w] /\ w # "pending"
  <2>1. where[n] \in Place
    BY DEF SessionInv
  <2>2. CASE where[n] = "pending"
    BY <2>2 DEF Rename, Place
  <2>3. CASE where[n] # "pending"
    BY <2>1, <2>3 DEF Rename, Place
  <2> QED BY <2>2, <2>3
<1>2. phase'[n] = "reading" /\ where'[n] # "pending" /\ captured' = captured \cup {n}
  BY <1>1 DEF SessionInv, Rename
<1>3. NodeInv(n)'
  BY <1>2 DEF NodeInv
<1> QED BY <1>1, <1>2, <1>3, OneNode DEF Phase, Suspended

(* stop_all() leaves the maps alone until it empties them.                 *)
LEMMA StopSessionsEffect ==
  ASSUME NEW s, NEW left, StopSessions(s, left)
  PROVE  where' = where \/ where' = [n \in Node |-> "nowhere"]
BY DEF StopSessions

LEMMA AskStopAllEffect ==
  ASSUME NEW s, AskStopAll(s)
  PROVE  where' = where \/ where' = [n \in Node |-> "nowhere"]
BY StopSessionsEffect DEF AskStopAll

-----------------------------------------------------------------------------
LEMMA CancelKeeps ==
  ASSUME SessionInv, NEW n \in Node, CancelArrives(n)
  PROVE  SessionInv'
<1>0. captured' = captured
  BY DEF CancelArrives
<1>1. CASE phase[n] = "created"
  BY <1>0, <1>1, MoveKeeps DEF CancelArrives, Phase
<1>2. CASE phase[n] = "wantSession"
  BY <1>0, <1>2, MoveKeeps DEF CancelArrives, Phase
<1>3. CASE phase[n] = "starting"
  BY <1>0, <1>3, LeaveKeeps DEF CancelArrives
<1>4. CASE phase[n] = "reading"
  BY <1>0, <1>4, MoveKeeps DEF CancelArrives, Phase, Suspended
<1>5. CASE phase[n] = "wantRegister"
  BY <1>0, <1>5, LeaveKeeps DEF CancelArrives
<1>6. CASE phase[n] \in {"draining", "selfStopping"}
  BY <1>0, <1>6, LeaveKeeps DEF CancelArrives
<1>7. CASE phase[n] = "wantRemove"
  BY <1>0, <1>7, MoveKeeps DEF CancelArrives, Phase
<1>8. CASE phase[n] = "removing"
  BY <1>0, <1>8, MoveKeeps DEF CancelArrives, Phase, procVars
<1> QED BY <1>1, <1>2, <1>3, <1>4, <1>5, <1>6, <1>7, <1>8 DEF CancelArrives

(* The end of a task, and the beginning of the next one of its tree.        *)
LEMMA FinishEffect ==
  ASSUME SessionInv, NEW n \in Node, Finish(n)
  PROVE  /\ phase[n] \in {"created", "finishing"} /\ phase'[n] = "done"
         /\ phase' \in [Node -> Phase]
         /\ \A m \in Node : m # n =>
              phase'[m] = phase[m] \/ (phase[m] = "idle" /\ phase'[m] = "created")
<1>1. phase[n] \in {"created", "finishing"}
  BY DEF Finish
<1>2. \/ phase' = [phase EXCEPT ![n] = "done"]
      \/ \E next \in Node : /\ phase[next] = "idle"
                            /\ phase' = [phase EXCEPT ![n] = "done", ![next] = "created"]
  BY DEF Finish
<1> QED BY <1>1, <1>2 DEF SessionInv, Phase, Suspended

LEMMA TaskKeeps ==
  ASSUME SessionInv, NEW n \in Node, TaskStep(n)
  PROVE  SessionInv'
<1>1. CASE AskSession(n)
  <2>1. CASE Open(n)
    BY <1>1, <2>1, OpenKeeps DEF AskSession
  <2>2. CASE ~Open(n)
    BY <1>1, <2>2, MoveKeeps DEF AskSession, Phase, Suspended
  <2> QED BY <2>1, <2>2
<1>2. CASE GetSession(n)
  BY <1>2, OpenKeeps DEF GetSession
<1>3. CASE Spawned(n)
  BY <1>3, MoveKeeps DEF Spawned, Phase, Suspended
<1>4. CASE Register(n)
  BY <1>4, RenameKeeps DEF Register
<1>5. CASE Drained(n)
  BY <1>5, LeaveKeeps DEF Drained
<1>6. CASE RemoveSession(n)
  <2>1. PICK p \in {"removing", "finishing"} : phase' = [phase EXCEPT ![n] = p]
    BY <1>6, RemovalEffect DEF RemoveSession
  <2>2. where' = [where EXCEPT ![n] = "nowhere"]
    BY <1>6, RemovalEffect DEF RemoveSession
  <2>3. phase'[n] = p /\ where'[n] = "nowhere" /\ captured' = captured /\ cut' = cut
    BY <1>6, <2>1, <2>2 DEF RemoveSession, SessionInv
  <2>4. NodeInv(n)'
    BY <2>1, <2>3 DEF NodeInv
  <2> QED BY <2>1, <2>2, <2>3, <2>4, OneNode DEF Phase, Suspended, Place
<1>7. CASE Removed(n)
  BY <1>7, MoveKeeps DEF Removed, Phase
<1>8. CASE Finish(n)
  <2>1. where' = where /\ captured' = captured /\ cut' = cut
    BY <1>8 DEF Finish
  <2>2. ASSUME NEW m \in Node PROVE NodeInv(m)'
    <3>1. NodeInv(m)
      BY DEF SessionInv
    <3>2. CASE m = n
      BY <1>8, <2>1, <3>1, <3>2, FinishEffect DEF NodeInv
    <3>3. CASE m # n
      BY <1>8, <2>1, <3>1, <3>3, FinishEffect DEF NodeInv
    <3> QED BY <3>2, <3>3
  <2> QED BY <1>8, <2>1, <2>2, FinishEffect DEF SessionInv
<1>9. CASE CancelArrives(n)
  BY <1>9, CancelKeeps
<1> QED BY <1>1, <1>2, <1>3, <1>4, <1>5, <1>6, <1>7, <1>8, <1>9 DEF TaskStep

LEMMA NodeKeeps ==
  ASSUME SessionInv, NEW n \in Node,
         \/ CreateTask(n) \/ SpawnFails(n) \/ HandlerFails(n) \/ StopTask(n)
         \/ ReportSession(n) \/ EndOfOutput(n)
         \/ SelfStopped(n) \/ CloseGenerator(n) \/ ProcessExits(n) \/ Kill(n)
  PROVE  SessionInv'
<1>1. CASE CreateTask(n)
  <2>1. /\ phase[n] = "idle" /\ phase' = [phase EXCEPT ![n] = "created"]
        /\ UNCHANGED <<where, captured, cut>>
    BY <1>1 DEF CreateTask
  <2> QED BY <2>1, MoveKeeps DEF Phase, Suspended
<1>2. CASE SpawnFails(n)
  BY <1>2, LeaveKeeps DEF SpawnFails
<1>3. CASE HandlerFails(n)
  BY <1>3, LeaveKeeps DEF HandlerFails
<1>4. CASE StopTask(n)
  BY <1>4, NoNode DEF StopTask
<1>5. CASE ReportSession(n)
  <2>1. CASE Rename(n) /\ UNCHANGED phase
    <3>1. phase' = [phase EXCEPT ![n] = "reading"] /\ phase[n] = "reading" /\ cut' = cut
      BY <1>5, <2>1 DEF ReportSession, SessionInv
    <3> QED BY <2>1, <3>1, RenameKeeps
  <2>2. CASE phase' = [phase EXCEPT ![n] = "wantRegister"] /\ UNCHANGED <<where, captured>>
    BY <1>5, <2>2, MoveKeeps DEF ReportSession, Phase, Suspended
  <2> QED BY <1>5, <2>1, <2>2 DEF ReportSession
<1>6. CASE EndOfOutput(n)
  BY <1>6, MoveKeeps DEF EndOfOutput, Phase, Suspended
<1>7. CASE SelfStopped(n)
  <2>1. CASE Leave(n, FALSE, waiters)
    BY <1>7, <2>1, LeaveKeeps DEF SelfStopped
  <2>2. CASE UNCHANGED <<phase, where>>
    BY <1>7, <2>2, NoNode DEF SelfStopped
  <2> QED BY <1>7, <2>1, <2>2 DEF SelfStopped
<1>8. CASE CloseGenerator(n)
  BY <1>8, NoNode DEF CloseGenerator, taskVars
<1>9. CASE ProcessExits(n) \/ Kill(n)
  BY <1>9, NoNode DEF ProcessExits, Kill, taskVars
<1> QED BY <1>1, <1>2, <1>3, <1>4, <1>5, <1>6, <1>7, <1>8, <1>9

LEMMA ServerKeeps ==
  ASSUME SessionInv,
         \/ \E s \in Stopper :
              StopAllTasks(s) \/ EnterStopAll(s) \/ NextVictim(s) \/ ReplaceTrees(s)
         \/ Shutdown \/ ShutdownTimeout \/ LoopEnds \/ LoopCloses \/ Exit
  PROVE  SessionInv'
<1>1. ASSUME NEW s \in Stopper, StopAllTasks(s) PROVE SessionInv'
  BY <1>1, AskStopAllEffect, NoNode DEF StopAllTasks
<1>2. ASSUME NEW s \in Stopper, EnterStopAll(s) PROVE SessionInv'
  BY <1>2, StopSessionsEffect, NoNode DEF EnterStopAll, taskVars
<1>3. ASSUME NEW s \in Stopper, NextVictim(s) PROVE SessionInv'
  BY <1>3, StopSessionsEffect, NoNode DEF NextVictim, taskVars
<1>4. CASE Shutdown
  BY <1>4, AskStopAllEffect, NoNode DEF Shutdown
<1>5. CASE ShutdownTimeout
  BY <1>5, NoNode DEF ShutdownTimeout, taskVars
<1>6. CASE LoopEnds
  BY <1>6, NoNode DEF LoopEnds
<1>7. CASE LoopCloses
  BY <1>7, NoNode DEF LoopCloses, taskVars
<1>8. CASE Exit
  BY <1>8, NoNode DEF Exit, taskVars
<1>9. ASSUME NEW s \in Stopper, ReplaceTrees(s) PROVE SessionInv'
  BY <1>9, NoNode DEF ReplaceTrees, taskVars
<1> QED BY <1>1, <1>2, <1>3, <1>4, <1>5, <1>6, <1>7, <1>8, <1>9

-----------------------------------------------------------------------------
(* The lock.                                                               *)

(* Whoever stops a process under the lock holds it: a task that removes    *)
(* its session, or a stop_all() with its victim.                           *)
LockInv ==
  /\ proc \in [Node -> {"none", "alive", "dead"}]
  /\ stopAll \in [Stopper -> {"off", "waiting", "stopping", "done", "cut"}]
  /\ todo \subseteq Node
  /\ victim \in Node \cup {Nobody}
  /\ victim # Nobody => holder \in Stopper
  /\ \A s \in Stopper : stopAll[s] = "stopping" => holder = s
  /\ \A n \in Node : phase[n] = "removing" => holder = n

LEMMA Actors ==
  /\ Nobody \notin Stopper /\ Nobody \notin Node
  /\ Node \cap Stopper = {} /\ Lifespan \in Stopper
BY ActorAssumption DEF Stopper

(* A step that stops nothing.                                              *)
LEMMA LockFrame ==
  ASSUME LockInv, UNCHANGED <<holder, stopAll, todo, victim>>,
         proc' \in [Node -> {"none", "alive", "dead"}],
         \A n \in Node : phase'[n] = "removing" => phase[n] = "removing"
  PROVE  LockInv'
BY DEF LockInv

(* A removal starts with the lock free.                                    *)
LEMMA RemovalLock ==
  ASSUME SessionInv, LockInv, NEW n \in Node, NEW live, Removal(n, live), holder = Nobody,
         UNCHANGED allVars, proc' \in [Node -> {"none", "alive", "dead"}]
  PROVE  LockInv'
<1>1. \A m \in Node : phase[m] # "removing"
  BY Actors DEF LockInv
<1>2. victim = Nobody /\ \A s \in Stopper : stopAll[s] # "stopping"
  BY Actors DEF LockInv
<1>3. \A m \in Node : phase'[m] = "removing" => holder' = m
  BY <1>1 DEF Removal, SessionInv
<1> QED BY <1>2, <1>3 DEF LockInv, allVars

LEMMA LeaveLock ==
  ASSUME SessionInv, LockInv, NEW n \in Node, NEW live, NEW q, Leave(n, live, q),
         UNCHANGED allVars, proc' \in [Node -> {"none", "alive", "dead"}]
  PROVE  LockInv'
<1>1. CASE FreeFor(q) /\ Removal(n, live)
  BY <1>1, RemovalLock DEF FreeFor
<1>2. CASE phase' = [phase EXCEPT ![n] = "wantRemove"] /\ UNCHANGED holder
  <2>1. \A m \in Node : phase'[m] = "removing" => phase[m] = "removing"
    BY <1>2 DEF SessionInv
  <2> QED BY <1>2, <2>1, LockFrame DEF allVars
<1> QED BY <1>1, <1>2 DEF Leave

LEMMA StopSessionsLock ==
  ASSUME LockInv, NEW s \in Stopper, NEW left \in SUBSET Node, StopSessions(s, left),
         holder \in {Nobody, s}, UNCHANGED <<phase, proc>>
  PROVE  LockInv'
<1>1. \A n \in Node : phase[n] # "removing"
  BY Actors DEF LockInv
<1>2. \A u \in Stopper : u # s => stopAll[u] # "stopping"
  BY Actors DEF LockInv
<1>3. CASE \E m \in left, passed \in SUBSET {k \in left : ~Stoppable(k)} :
             /\ stopAll' = [stopAll EXCEPT ![s] = "stopping"]
             /\ victim' = m
             /\ todo' = left \ (passed \cup {m})
             /\ holder' = s
  BY <1>1, <1>2, <1>3 DEF LockInv
<1>4. CASE /\ \E v \in {"off", "done"} : stopAll' = [stopAll EXCEPT ![s] = v]
           /\ victim' = Nobody /\ todo' = {} /\ holder' = Nobody
  BY <1>1, <1>2, <1>4 DEF LockInv
<1> QED BY <1>3, <1>4 DEF StopSessions

LEMMA AskStopAllLock ==
  ASSUME LockInv, NEW s \in Stopper, AskStopAll(s), stopAll[s] # "stopping",
         UNCHANGED <<phase, proc>>
  PROVE  LockInv'
<1>1. CASE FreeFor(waiters) /\ StopSessions(s, Known)
  BY <1>1, StopSessionsLock DEF FreeFor, Known
<1>2. CASE UNCHANGED <<holder, todo, victim>> /\ stopAll' = [stopAll EXCEPT ![s] = "waiting"]
  BY <1>2 DEF LockInv
<1> QED BY <1>1, <1>2 DEF AskStopAll

LEMMA CutShortLock ==
  ASSUME LockInv, NEW S \in SUBSET Stopper, CutShort(S), UNCHANGED <<phase, proc>>
  PROVE  LockInv'
<1>1. stopAll' \in [Stopper -> {"off", "waiting", "stopping", "done", "cut"}]
  BY DEF CutShort, LockInv
<1>2. \A s \in Stopper : stopAll'[s] = "stopping" => s \notin S /\ stopAll[s] = "stopping"
  BY DEF CutShort, LockInv
<1>3. CASE holder \in S /\ holder' = Nobody /\ victim' = Nobody /\ todo' = {}
  BY <1>1, <1>2, <1>3, Actors DEF LockInv
<1>4. CASE UNCHANGED <<holder, victim, todo>>
  BY <1>1, <1>2, <1>4 DEF LockInv
<1> QED BY <1>3, <1>4 DEF CutShort

LEMMA LockStep ==
  ASSUME SessionInv, LockInv, [Next]_vars
  PROVE  LockInv'
<1>1. ASSUME NEW n \in Node, CancelArrives(n)
      PROVE  LockInv'
  <2>1. proc' \in [Node -> {"none", "alive", "dead"}] /\ UNCHANGED allVars
    BY <1>1 DEF CancelArrives, LockInv, procVars
  <2>2. CASE \E live \in BOOLEAN : \E q : Leave(n, live, q)
    BY <2>1, <2>2, LeaveLock
  <2>3. CASE phase[n] = "removing" /\ phase' = [phase EXCEPT ![n] = "finishing"] /\ holder' = Nobody
    <3>1. holder = n /\ \A m \in Node : phase'[m] # "removing"
      BY <2>3 DEF LockInv, SessionInv
    <3> QED BY <2>1, <2>3, <3>1, Actors DEF LockInv, allVars
  <2>4. CASE UNCHANGED holder
             /\ \E p \in {"done", "finishing", "selfStopping"} : phase' = [phase EXCEPT ![n] = p]
    <3>1. \A m \in Node : phase'[m] = "removing" => phase[m] = "removing"
      BY <2>4 DEF SessionInv
    <3> QED BY <2>1, <2>4, <3>1, LockFrame DEF allVars
  <2>5. \/ \E q : Leave(n, FALSE, q)
        \/ \E q : Leave(n, proc[n] = "alive", q)
        \/ phase[n] = "removing" /\ phase' = [phase EXCEPT ![n] = "finishing"] /\ holder' = Nobody
        \/ UNCHANGED holder
           /\ \E p \in {"done", "finishing", "selfStopping"} : phase' = [phase EXCEPT ![n] = p]
    BY <1>1 DEF CancelArrives, lockVars
  <2> QED BY <2>2, <2>3, <2>4, <2>5
<1>2. ASSUME NEW n \in Node, Removed(n)
      PROVE  LockInv'
  <2>1. phase[n] = "removing" /\ phase' = [phase EXCEPT ![n] = "finishing"] /\ holder' = Nobody
        /\ UNCHANGED <<proc, stopAll, todo, victim>>
    BY <1>2 DEF Removed, allVars
  <2>2. holder = n /\ \A m \in Node : phase'[m] # "removing"
    BY <2>1 DEF LockInv, SessionInv
  <2> QED BY <2>1, <2>2, Actors DEF LockInv
<1>3. ASSUME NEW n \in Node, RemoveSession(n)
      PROVE  LockInv'
  BY <1>3, RemovalLock DEF RemoveSession, Turn, LockInv
<1>4. ASSUME NEW n \in Node, SpawnFails(n) \/ HandlerFails(n) \/ Drained(n) \/ SelfStopped(n)
      PROVE  LockInv'
  <2>1. proc' \in [Node -> {"none", "alive", "dead"}] /\ UNCHANGED allVars
    BY <1>4 DEF SpawnFails, HandlerFails, Drained, SelfStopped, LockInv
  <2>2. CASE \E live \in BOOLEAN : Leave(n, live, waiters)
    BY <2>1, <2>2, LeaveLock
  <2>3. CASE UNCHANGED <<phase, holder>>
    BY <2>1, <2>3, LockFrame DEF allVars
  <2>4. \/ Leave(n, FALSE, waiters) \/ Leave(n, proc[n] = "alive", waiters)
        \/ UNCHANGED <<phase, holder>>
    BY <1>4 DEF SpawnFails, HandlerFails, Drained, SelfStopped, lockVars
  <2> QED BY <2>2, <2>3, <2>4
<1>5. ASSUME NEW n \in Node, AskSession(n) \/ GetSession(n)
      PROVE  LockInv'
  <2>1. UNCHANGED <<holder, allVars>> /\ proc' \in [Node -> {"none", "alive", "dead"}]
    BY <1>5 DEF AskSession, GetSession, Open, LockInv
  <2>2. \A m \in Node : phase'[m] = "removing" => phase[m] = "removing"
    BY <1>5 DEF AskSession, GetSession, Open, SessionInv
  <2> QED BY <2>1, <2>2, LockFrame DEF allVars
<1>6. ASSUME NEW n \in Node, \/ CreateTask(n) \/ Spawned(n) \/ Register(n) \/ ReportSession(n)
                             \/ EndOfOutput(n)
      PROVE  LockInv'
  <2>1. UNCHANGED <<holder, allVars, proc>>
    BY <1>6 DEF CreateTask, Spawned, Register, ReportSession, EndOfOutput, procVars, lockVars
  <2>2. \A m \in Node : phase'[m] = "removing" => phase[m] = "removing"
    BY <1>6 DEF CreateTask, Spawned, Register, ReportSession, EndOfOutput, SessionInv
  <2> QED BY <2>1, <2>2, LockFrame DEF allVars, LockInv
<1>7. ASSUME NEW n \in Node, Finish(n)
      PROVE  LockInv'
  <2>1. UNCHANGED <<holder, allVars, proc>>
    BY <1>7 DEF Finish, procVars, lockVars
  <2>2. \A m \in Node : phase'[m] = "removing" => phase[m] = "removing"
    BY <1>7, FinishEffect
  <2> QED BY <2>1, <2>2, LockFrame DEF allVars, LockInv
<1>8. ASSUME NEW n \in Node, CloseGenerator(n) \/ StopTask(n) \/ ProcessExits(n) \/ Kill(n)
      PROVE  LockInv'
  <2>1. UNCHANGED <<holder, allVars, phase>> /\ proc' \in [Node -> {"none", "alive", "dead"}]
    BY <1>8
    DEF CloseGenerator, StopTask, ProcessExits, Kill, taskVars, procVars, lockVars, LockInv
  <2> QED BY <2>1, LockFrame DEF allVars
<1>9. ASSUME NEW s \in Stopper, StopAllTasks(s)
      PROVE  LockInv'
  BY <1>9, AskStopAllLock DEF StopAllTasks
<1>10. ASSUME NEW s \in Stopper, EnterStopAll(s) \/ NextVictim(s)
       PROVE  LockInv'
  <2>1. holder \in {Nobody, s} /\ UNCHANGED <<phase, proc>>
        /\ \E left \in SUBSET Node : StopSessions(s, left)
    BY <1>10 DEF EnterStopAll, NextVictim, Turn, LockInv, taskVars, Known
  <2> QED BY <2>1, StopSessionsLock
<1>11. CASE Shutdown
  <2>1. CASE stopAll[Lifespan] # "stopping"
    BY <1>11, <2>1, AskStopAllLock, Actors DEF Shutdown
  <2>2. CASE stopAll[Lifespan] = "stopping"
    <3>1. holder = Lifespan /\ Lifespan # Nobody
      BY <2>2, Actors DEF LockInv
    <3> QED BY <1>11, <3>1 DEF Shutdown, AskStopAll, FreeFor, LockInv
  <2> QED BY <2>1, <2>2
<1>12. CASE ShutdownTimeout
  BY <1>12, CutShortLock, Actors DEF ShutdownTimeout, taskVars, procVars
<1>13. CASE LoopEnds
  BY <1>13, CutShortLock DEF LoopEnds
<1>14. CASE LoopCloses \/ Exit \/ UNCHANGED vars
  <2>1. UNCHANGED <<holder, allVars, phase>> /\ proc' \in [Node -> {"none", "alive", "dead"}]
    BY <1>14 DEF LoopCloses, Exit, vars, taskVars, procVars, lockVars, LockInv
  <2> QED BY <2>1, LockFrame DEF allVars
<1>15. ASSUME NEW s \in Stopper, ReplaceTrees(s)
       PROVE  LockInv'
  BY <1>15 DEF ReplaceTrees, LockInv, taskVars, procVars, lockVars
<1> QED
  BY <1>1, <1>2, <1>3, <1>4, <1>5, <1>6, <1>7, <1>8, <1>9, <1>10, <1>11, <1>12, <1>13, <1>14, <1>15
  DEF Next, TaskStep

-----------------------------------------------------------------------------
(* The processes.                                                          *)

(* A process that lives outside the maps is being stopped, or its stop was *)
(* cut short after SIGTERM, or a stop_all() passed it over while it was    *)
(* being started; then its task was cancelled before, or cancel_all() had  *)
(* not reached it.                                                         *)
ProcInv(n) ==
  /\ BeingStopped(n) => n \in termed
  /\ phase[n] \in {"idle", "created", "wantSession"} => n \notin missed
  /\ proc[n] = "alive" /\ where[n] = "nowhere" =>
       BeingStopped(n) \/ (n \in cut /\ n \in termed) \/ n \in missed
  /\ life = "serving" /\ n \in missed /\ proc[n] = "alive" =>
       (phase[n] = "starting" /\ n \in cancelReq) \/ n \in unreached

(* While the bot serves, a task that a cancel_all() passed by stays one.   *)
Recorded == life' = "serving" => unreached \subseteq unreached'

LEMMA UnreachedStays ==
  ASSUME [Next]_vars
  PROVE  Recorded
<1> SUFFICES ASSUME life' = "serving" PROVE unreached \subseteq unreached'
  BY DEF Recorded
<1>1. ASSUME NEW n \in Node,
             \/ CreateTask(n) \/ SpawnFails(n) \/ HandlerFails(n) \/ StopTask(n)
             \/ AskSession(n) \/ GetSession(n) \/ Spawned(n) \/ Register(n) \/ Drained(n)
             \/ RemoveSession(n) \/ Removed(n) \/ Finish(n) \/ CancelArrives(n)
             \/ ReportSession(n) \/ EndOfOutput(n)
             \/ SelfStopped(n) \/ CloseGenerator(n) \/ ProcessExits(n) \/ Kill(n)
      PROVE  unreached' = unreached
  BY <1>1
  DEF CreateTask, SpawnFails, HandlerFails, StopTask, AskSession, GetSession, Spawned, Register,
      Drained, RemoveSession, Removed, Finish, CancelArrives, ReportSession, EndOfOutput,
      SelfStopped, CloseGenerator, ProcessExits, Kill, treeVars
<1>2. ASSUME NEW s \in Stopper,
             StopAllTasks(s) \/ EnterStopAll(s) \/ NextVictim(s) \/ ReplaceTrees(s)
      PROVE  unreached \subseteq unreached'
  BY <1>2 DEF StopAllTasks, CancelAll, EnterStopAll, NextVictim, ReplaceTrees, treeVars
<1>3. ~Shutdown /\ ~LoopEnds /\ ~LoopCloses /\ ~Exit
  BY DEF Shutdown, LoopEnds, LoopCloses, Exit
<1>4. CASE ShutdownTimeout \/ UNCHANGED vars
  BY <1>4 DEF ShutdownTimeout, vars, treeVars
<1> QED BY <1>1, <1>2, <1>3, <1>4 DEF Next, TaskStep

(* What a step of another task leaves alone.                               *)
Untouched(m) ==
  /\ phase'[m] = phase[m] /\ where'[m] = where[m]
  /\ proc'[m] = "alive" => proc[m] = "alive"
  /\ m \in termed => m \in termed'
  /\ m \in selfStop' <=> m \in selfStop
  /\ victim' = m <=> victim = m
  /\ m \in cut => m \in cut'
  /\ m \in missed' <=> m \in missed
  /\ life' = "serving" => life = "serving"
  /\ m \in cancelReq => m \in cancelReq'
  /\ Recorded

LEMMA ProcFrame ==
  ASSUME NEW m \in Node, ProcInv(m), Untouched(m)
  PROVE  ProcInv(m)'
BY DEF ProcInv, Untouched, BeingStopped, Recorded

(* A removal stops a process that it takes out of its map.                 *)
LEMMA RemovalProc ==
  ASSUME SessionInv, NEW n \in Node, ProcInv(n), NEW live \in BOOLEAN, Removal(n, live),
         proc'[n] = "alive" => live /\ proc[n] = "alive",
         phase[n] \notin {"starting", "removing"} \/ proc'[n] # "alive",
         proc'[n] = "alive" => (n \in selfStop <=> n \in selfStop'),
         n \in selfStop' => n \in selfStop,
         UNCHANGED <<victim, missed, cut, life>>, Recorded
  PROVE  ProcInv(n)'
<1>1. where'[n] = "nowhere" /\ phase'[n] \in {"removing", "finishing"}
  BY RemovalEffect DEF SessionInv
<1>2. phase'[n] = "removing" => n \in termed'
  BY DEF Removal, SessionInv
<1>3. live /\ where[n] # "nowhere" => phase'[n] = "removing"
  BY DEF Removal, SessionInv, NodeInv, InMap, Place
<1>4. n \in termed => n \in termed'
  BY DEF Removal
<1> QED BY <1>1, <1>2, <1>3, <1>4 DEF ProcInv, BeingStopped, Recorded

LEMMA LeaveProc ==
  ASSUME SessionInv, NEW n \in Node, ProcInv(n), NEW live \in BOOLEAN, NEW q, Leave(n, live, q),
         proc'[n] = "alive" => live /\ proc[n] = "alive",
         phase[n] \notin {"starting", "removing"} \/ proc'[n] # "alive",
         proc'[n] = "alive" => (n \in selfStop <=> n \in selfStop'),
         n \in selfStop' => n \in selfStop,
         UNCHANGED <<victim, missed, cut, life>>, Recorded
  PROVE  ProcInv(n)'
<1>1. CASE Removal(n, live)
  BY <1>1, RemovalProc
<1>2. CASE phase' = [phase EXCEPT ![n] = "wantRemove"] /\ UNCHANGED <<where, termed>>
  <2>1. phase'[n] = "wantRemove" /\ where'[n] = where[n]
    BY <1>2 DEF SessionInv
  <2> QED BY <1>2, <2>1 DEF ProcInv, BeingStopped, Recorded
<1> QED BY <1>1, <1>2 DEF Leave

(* ... and leaves the other tasks alone.                                   *)
LEMMA LeaveOthers ==
  ASSUME SessionInv, NEW n \in Node, NEW live, NEW q, Leave(n, live, q) \/ Removal(n, live),
         NEW m \in Node, m # n
  PROVE  /\ phase'[m] = phase[m] /\ where'[m] = where[m]
         /\ m \in termed => m \in termed'
BY DEF Leave, Removal, SessionInv

LEMMA CancelProc ==
  ASSUME SessionInv, LockInv, Recorded, NEW n \in Node, CancelArrives(n),
         NEW m \in Node, ProcInv(m)
  PROVE  ProcInv(m)'
<1>1. UNCHANGED <<victim, missed, life>> /\ cancelReq' = cancelReq \ {n} /\ cut \subseteq cut'
  BY DEF CancelArrives, allVars, lifeVars
<1>2. CASE m # n
  <2>1. /\ proc'[m] = "alive" => proc[m] = "alive"
        /\ m \in selfStop' <=> m \in selfStop
    BY <1>2 DEF CancelArrives, procVars, LockInv
  <2>2. phase'[m] = phase[m] /\ where'[m] = where[m] /\ (m \in termed => m \in termed')
    BY <1>2, LeaveOthers DEF CancelArrives, procVars, SessionInv
  <2> QED BY <1>1, <1>2, <2>1, <2>2, ProcFrame DEF Untouched
<1>3. CASE m = n
  <2>1. CASE phase[n] = "starting"
    <3>1. Leave(n, FALSE, waiters) /\ proc'[n] = "dead" /\ UNCHANGED <<selfStop, cut>>
      BY <2>1 DEF CancelArrives, LockInv
    <3> QED BY <1>1, <1>3, <2>1, <3>1, LeaveProc
  <2>2. CASE phase[n] \in {"draining", "selfStopping"}
    <3>1. Leave(n, proc[n] = "alive", waiters) /\ UNCHANGED <<proc, selfStop, cut>>
      BY <2>2 DEF CancelArrives
    <3> QED BY <1>1, <1>3, <2>2, <3>1, LeaveProc
  <2>3. CASE phase[n] = "wantRegister"
    <3>1. Leave(n, proc[n] = "alive", Without(waiters, n)) /\ UNCHANGED <<proc, selfStop, cut>>
      BY <2>3 DEF CancelArrives
    <3> QED BY <1>1, <1>3, <2>3, <3>1, LeaveProc
  <2>4. CASE phase[n] = "removing"
    <3>1. phase'[n] = "finishing" /\ n \in cut' /\ UNCHANGED <<where, proc, termed, selfStop>>
      BY <2>4 DEF CancelArrives, SessionInv, procVars
    <3> QED BY <1>1, <1>3, <2>4, <3>1 DEF ProcInv, BeingStopped, Recorded
  <2>5. CASE phase[n] = "reading"
    <3>1. /\ phase'[n] = "selfStopping" /\ n \in termed' /\ n \in selfStop'
          /\ UNCHANGED <<where, proc>>
      BY <2>5 DEF CancelArrives, SessionInv
    <3> QED BY <1>1, <1>3, <2>5, <3>1 DEF ProcInv, BeingStopped, Recorded
  <2>6. CASE phase[n] \in {"created", "wantSession", "wantRemove"}
    <3>1. phase'[n] \in {"done", "finishing"} /\ UNCHANGED <<where, proc, termed, selfStop>>
      BY <2>6 DEF CancelArrives, SessionInv, procVars
    <3> QED BY <1>1, <1>3, <2>6, <3>1 DEF ProcInv, BeingStopped, Recorded
  <2> QED BY <2>1, <2>2, <2>3, <2>4, <2>5, <2>6 DEF CancelArrives
<1> QED BY <1>2, <1>3

LEMMA NodeProc ==
  ASSUME SessionInv, LockInv, Recorded, NEW n \in Node, NEW m \in Node, ProcInv(m),
         \/ CreateTask(n) \/ SpawnFails(n) \/ HandlerFails(n) \/ StopTask(n)
         \/ AskSession(n) \/ GetSession(n) \/ Spawned(n) \/ Register(n) \/ Drained(n)
         \/ RemoveSession(n) \/ Removed(n) \/ Finish(n)
         \/ ReportSession(n) \/ EndOfOutput(n)
         \/ SelfStopped(n) \/ CloseGenerator(n) \/ ProcessExits(n) \/ Kill(n)
  PROVE  ProcInv(m)'
<1>1. CASE SpawnFails(n) \/ HandlerFails(n) \/ Drained(n)
  <2>1. UNCHANGED <<victim, missed, cut, life, selfStop, cancelReq>>
    BY <1>1 DEF SpawnFails, HandlerFails, Drained, allVars, lifeVars
  <2>2. \/ /\ Leave(n, FALSE, waiters) /\ proc'[n] # "alive"
           /\ \A u \in Node : u # n => proc'[u] = proc[u]
        \/ Leave(n, proc[n] = "alive", waiters) /\ phase[n] = "reading" /\ proc' = proc
    BY <1>1 DEF SpawnFails, HandlerFails, Drained, LockInv
  <2>3. CASE m # n
    BY <2>1, <2>2, <2>3, LeaveOthers, ProcFrame DEF Untouched
  <2>4. CASE m = n
    BY <2>1, <2>2, <2>4, LeaveProc
  <2> QED BY <2>3, <2>4
<1>2. CASE SelfStopped(n)
  <2>1. /\ UNCHANGED <<victim, missed, cut, life, cancelReq, proc>>
        /\ selfStop' = selfStop \ {n} /\ proc[n] = "dead"
    BY <1>2 DEF SelfStopped, allVars, lifeVars
  <2>2. CASE Leave(n, FALSE, waiters)
    <3>1. CASE m # n
      BY <2>1, <2>2, <3>1, LeaveOthers, ProcFrame DEF Untouched
    <3>2. CASE m = n
      BY <2>1, <2>2, <3>2, LeaveProc
    <3> QED BY <3>1, <3>2
  <2>3. CASE UNCHANGED <<phase, where, termed>>
    BY <2>1, <2>3 DEF ProcInv, BeingStopped, Recorded
  <2> QED BY <1>2, <2>2, <2>3 DEF SelfStopped
<1>3. CASE RemoveSession(n)
  <2>1. /\ UNCHANGED <<victim, missed, cut, life, cancelReq, proc, selfStop>>
        /\ Removal(n, proc[n] = "alive") /\ phase[n] = "wantRemove"
    BY <1>3 DEF RemoveSession, allVars, lifeVars
  <2>2. CASE m # n
    BY <2>1, <2>2, LeaveOthers, ProcFrame DEF Untouched
  <2>3. CASE m = n
    BY <2>1, <2>3, RemovalProc
  <2> QED BY <2>2, <2>3
<1>4. CASE Removed(n)
  BY <1>4 DEF Removed, SessionInv, ProcInv, BeingStopped, Recorded, allVars, lifeVars
<1>5. CASE AskSession(n) \/ GetSession(n)
  <2>1. /\ UNCHANGED <<victim, missed, cut, life, cancelReq, selfStop, termed>>
        /\ phase[n] \in {"created", "wantSession"}
        /\ \/ /\ phase' = [phase EXCEPT ![n] = "starting"]
              /\ where' = [where EXCEPT ![n] = "pending"]
              /\ proc' = [proc EXCEPT ![n] = "alive"]
           \/ /\ phase' = [phase EXCEPT ![n] = "wantSession"] /\ phase[n] = "created"
              /\ UNCHANGED <<where, proc>>
    BY <1>5 DEF AskSession, GetSession, Open, allVars, lifeVars
  <2>2. CASE m # n
    BY <2>1, <2>2, ProcFrame DEF Untouched, SessionInv, LockInv
  <2>3. CASE m = n
    BY <2>1, <2>3 DEF ProcInv, BeingStopped, Recorded, SessionInv, LockInv
  <2> QED BY <2>2, <2>3
<1>6. CASE Spawned(n)
  <2>1. /\ UNCHANGED <<victim, missed, cut, life, cancelReq, selfStop, termed, where, proc>>
        /\ phase[n] = "starting" /\ n \notin cancelReq
        /\ phase' = [phase EXCEPT ![n] = "reading"]
    BY <1>6 DEF Spawned, Steps, allVars, lifeVars
  <2> QED BY <2>1 DEF ProcInv, BeingStopped, Recorded, SessionInv
<1>7. CASE ReportSession(n) \/ Register(n)
  <2>1. /\ UNCHANGED <<victim, missed, cut, life, cancelReq, selfStop, termed, proc>>
        /\ phase[n] \in {"reading", "wantRegister"} /\ phase'[n] \in {"reading", "wantRegister"}
        /\ \A u \in Node : u # n => phase'[u] = phase[u] /\ where'[u] = where[u]
        /\ where'[n] = "nowhere" => where[n] = "nowhere"
    BY <1>7 DEF ReportSession, Register, Rename, SessionInv, allVars, lifeVars, procVars
  <2> QED BY <2>1 DEF ProcInv, BeingStopped, Recorded
<1>8. CASE CreateTask(n) \/ EndOfOutput(n)
  <2>1. /\ UNCHANGED <<victim, missed, cut, life, cancelReq, selfStop, termed, proc, where>>
        /\ \/ phase[n] = "idle" /\ phase' = [phase EXCEPT ![n] = "created"]
           \/ phase[n] = "reading" /\ phase' = [phase EXCEPT ![n] = "draining"]
    BY <1>8 DEF CreateTask, EndOfOutput, allVars, lifeVars, procVars
  <2> QED BY <2>1 DEF ProcInv, BeingStopped, Recorded, SessionInv
<1>9. CASE Finish(n)
  <2>1. /\ UNCHANGED <<victim, missed, cut, life, cancelReq, selfStop, termed, proc, where>>
    BY <1>9 DEF Finish, allVars, lifeVars, procVars
  <2> QED BY <1>9, <2>1, FinishEffect DEF ProcInv, BeingStopped, Recorded
<1>10. CASE CloseGenerator(n) \/ StopTask(n) \/ ProcessExits(n) \/ Kill(n)
  <2>1. /\ UNCHANGED <<victim, missed, cut, life, phase, selfStop, termed, where>>
        /\ cancelReq \subseteq cancelReq'
        /\ proc'[m] = "alive" => proc[m] = "alive"
    BY <1>10
    DEF CloseGenerator, StopTask, ProcessExits, Kill, taskVars, procVars, allVars, lifeVars, LockInv
  <2> QED BY <2>1, ProcFrame DEF Untouched
<1> QED BY <1>1, <1>2, <1>3, <1>4, <1>5, <1>6, <1>7, <1>8, <1>9, <1>10

-----------------------------------------------------------------------------
(* The tasks that wait for the lock.                                       *)

Actor == Node \cup Stopper

InQ(a, q)       == \E i \in 1..Len(q) : q[i] = a
Before(a, b, q) == \E i, j \in 1..Len(q) : i < j /\ q[i] = a /\ q[j] = b

LEMMA AppendQ ==
  ASSUME NEW q \in Seq(Actor), NEW x \in Actor
  PROVE  /\ Append(q, x) \in Seq(Actor)
         /\ \A a : InQ(a, Append(q, x)) <=> InQ(a, q) \/ a = x
         /\ \A a, b : Before(a, b, Append(q, x)) => Before(a, b, q) \/ b = x
<1> DEFINE n == Len(q)
<1> DEFINE r == Append(q, x)
<1>1. /\ n \in Nat /\ r \in Seq(Actor) /\ Len(r) = n + 1
      /\ \A i \in 1..n : r[i] = q[i]
      /\ r[n + 1] = x
  BY AppendProperties
<1> HIDE DEF n, r
<1>2. \A i \in 1..(n + 1) : i \in 1..n \/ i = n + 1
  BY <1>1
<1>3. 1..n \subseteq 1..(n + 1) /\ n + 1 \in 1..(n + 1)
  BY <1>1
<1>4. \A i \in 1..n : ~(n + 1 < i)
  BY <1>1
<1>5. \A a : (\E i \in 1..(n + 1) : r[i] = a) <=> (\E i \in 1..n : q[i] = a) \/ a = x
  BY <1>1, <1>2, <1>3
<1>6. ASSUME NEW a, NEW b, NEW i \in 1..(n + 1), NEW j \in 1..(n + 1), i < j, r[i] = a, r[j] = b
      PROVE  (\E k, l \in 1..n : k < l /\ q[k] = a /\ q[l] = b) \/ b = x
  <2>1. CASE j = n + 1
    BY <1>1, <1>6, <2>1
  <2>2. CASE j # n + 1
    <3>1. i \in 1..n /\ j \in 1..n
      BY <1>1, <1>6, <2>2
    <3> QED BY <1>1, <1>6, <3>1
  <2> QED BY <2>1, <2>2
<1>7. /\ \A a : InQ(a, r) <=> InQ(a, q) \/ a = x
      /\ \A a, b : Before(a, b, r) => Before(a, b, q) \/ b = x
  BY <1>1, <1>5, <1>6 DEF InQ, Before, n
<1> QED BY <1>1, <1>7 DEF r

LEMMA TailQ ==
  ASSUME NEW q \in Seq(Actor), q # <<>>
  PROVE  /\ Tail(q) \in Seq(Actor)
         /\ \A a : InQ(a, Tail(q)) => InQ(a, q) /\ Before(Head(q), a, q)
         /\ \A a : InQ(a, q) /\ a # Head(q) => InQ(a, Tail(q))
         /\ \A a, b : Before(a, b, Tail(q)) => Before(a, b, q)
<1> DEFINE n == Len(q)
<1> DEFINE r == Tail(q)
<1>1. /\ n \in Nat /\ n >= 1 /\ r \in Seq(Actor) /\ Len(r) = n - 1
      /\ \A i \in 1..(n - 1) : r[i] = q[i + 1]
      /\ Head(q) = q[1]
  BY HeadTailProperties
<1> HIDE DEF n, r
<1>2. \A i \in 1..(n - 1) : i + 1 \in 1..n /\ 1 < i + 1
  BY <1>1
<1>3. \A i, j \in 1..(n - 1) : i < j => i + 1 < j + 1
  BY <1>1
<1>4. \A i \in 1..n : i = 1 \/ (i - 1 \in 1..(n - 1) /\ (i - 1) + 1 = i)
  BY <1>1
<1>5. 1 \in 1..n
  BY <1>1
<1>6. \A a : (\E i \in 1..(n - 1) : r[i] = a) =>
        /\ \E i \in 1..n : q[i] = a
        /\ \E i, j \in 1..n : i < j /\ q[i] = q[1] /\ q[j] = a
  BY <1>1, <1>2, <1>5
<1>7. ASSUME NEW a, NEW i \in 1..n, q[i] = a, a # q[1]
      PROVE  \E j \in 1..(n - 1) : r[j] = a
  <2>1. i - 1 \in 1..(n - 1) /\ (i - 1) + 1 = i
    BY <1>4, <1>7
  <2>2. r[i - 1] = a
    BY <1>1, <1>7, <2>1
  <2> QED BY <2>1, <2>2
<1>8. /\ Len(q) = n /\ Len(r) = n - 1 /\ Head(q) = q[1]
  BY <1>1 DEF n
<1>9. \A a : InQ(a, r) => InQ(a, q) /\ Before(Head(q), a, q)
  <2> SUFFICES ASSUME NEW a, NEW i \in 1..(n - 1), r[i] = a
               PROVE  InQ(a, q) /\ Before(Head(q), a, q)
    BY <1>8 DEF InQ
  <2>1. /\ \E k \in 1..n : q[k] = a
        /\ \E k, l \in 1..n : k < l /\ q[k] = q[1] /\ q[l] = a
    BY <1>6
  <2>2. PICK k \in 1..n, l \in 1..n : k < l /\ q[k] = q[1] /\ q[l] = a
    BY <2>1
  <2>3. k \in 1..Len(q) /\ l \in 1..Len(q)
    BY <1>8
  <2>4. InQ(a, q)
    BY <2>2, <2>3 DEF InQ
  <2>5. Before(Head(q), a, q)
    BY <1>8, <2>2, <2>3 DEF Before
  <2> QED BY <2>4, <2>5
<1>10. \A a : InQ(a, q) /\ a # Head(q) => InQ(a, r)
  BY <1>7, <1>8, Zenon DEF InQ
<1>11. \A a, b : Before(a, b, r) => Before(a, b, q)
  <2> SUFFICES ASSUME NEW a, NEW b, NEW i \in 1..(n - 1), NEW j \in 1..(n - 1),
                      i < j, r[i] = a, r[j] = b
               PROVE  Before(a, b, q)
    BY <1>8 DEF Before
  <2>1. i + 1 \in 1..n /\ j + 1 \in 1..n /\ i + 1 < j + 1
    BY <1>2, <1>3
  <2>2. q[i + 1] = a /\ q[j + 1] = b
    BY <1>1
  <2>3. i + 1 \in 1..Len(q) /\ j + 1 \in 1..Len(q)
    BY <1>8, <2>1
  <2> QED BY <2>1, <2>2, <2>3 DEF Before
<1> QED BY <1>1, <1>9, <1>10, <1>11 DEF r

(* A set of numbers that is not empty has a least one.                     *)
LEMMA NatMin ==
  ASSUME NEW T \in SUBSET Nat, T # {}
  PROVE  \E x \in T : \A y \in T : x <= y
<1> DEFINE R == OpToRel(<, Nat)
<1>1. IsWellFoundedOn(R, Nat)
  BY NatLessThanWellFounded
<1>2. R = {ss \in Nat \X Nat : ss[1] < ss[2]}
  BY DEF OpToRel
<1> HIDE DEF R
<1>3. PICK x \in T : \A y \in T : ~ (<<y, x>> \in R)
  BY <1>1, WFMin
<1>4. \A y \in T : ~(y < x)
  BY <1>2, <1>3
<1> QED BY <1>4

(* A sequence without its k-th element.                                    *)
LEMMA RemoveAtEffect ==
  ASSUME NEW q \in Seq(Actor), NEW k \in 1..Len(q)
  PROVE  /\ RemoveAt(q, k) \in Seq(Actor)
         /\ Len(RemoveAt(q, k)) = Len(q) - 1
         /\ \A j \in 1..(Len(q) - 1) : RemoveAt(q, k)[j] = IF j < k THEN q[j] ELSE q[j + 1]
<1> DEFINE n == Len(q)
<1> DEFINE s == SubSeq(q, 1, k - 1)
<1> DEFINE t == SubSeq(q, k + 1, n)
<1>1. n \in Nat /\ k \in 1..n /\ \A i \in 1..n : q[i] \in Actor
  BY ElementOfSeq
<1>2. RemoveAt(q, k) = s \o t
  BY DEF RemoveAt
<1> HIDE DEF n
<1>3. /\ s \in Seq(Actor) /\ Len(s) = k - 1
      /\ \A i \in 1..(k - 1) : s[i] = q[i]
  <2>1. \A i \in 1..(k - 1) : q[i] \in Actor
    BY <1>1
  <2>2. 1 \in Int /\ k - 1 \in Int
    BY <1>1
  <2>3. (IF 1 <= k - 1 THEN k - 1 - 1 + 1 ELSE 0) = k - 1 /\ k - 1 - 1 + 1 = k - 1
        /\ \A i \in 1..(k - 1) : 1 + i - 1 = i
    BY <1>1
  <2> QED BY <2>1, <2>2, <2>3, SubSeqProperties
<1>4. /\ t \in Seq(Actor) /\ Len(t) = n - k
      /\ \A i \in 1..(n - k) : t[i] = q[k + i]
  <2>1. \A i \in (k + 1)..n : q[i] \in Actor
    BY <1>1
  <2>2. k + 1 \in Int /\ n \in Int
    BY <1>1
  <2>3. (IF k + 1 <= n THEN n - (k + 1) + 1 ELSE 0) = n - k /\ n - (k + 1) + 1 = n - k
        /\ \A i \in 1..(n - k) : (k + 1) + i - 1 = k + i
    BY <1>1
  <2> QED BY <2>1, <2>2, <2>3, SubSeqProperties
<1> HIDE DEF s, t
<1>5. /\ s \o t \in Seq(Actor) /\ Len(s \o t) = (k - 1) + (n - k)
      /\ \A i \in 1..((k - 1) + (n - k)) :
           (s \o t)[i] = IF i <= k - 1 THEN s[i] ELSE t[i - (k - 1)]
  <2>1. /\ s \o t \in Seq(Actor) /\ Len(s \o t) = Len(s) + Len(t)
        /\ \A i \in 1..(Len(s) + Len(t)) : (s \o t)[i] = IF i <= Len(s) THEN s[i] ELSE t[i - Len(s)]
    BY <1>3, <1>4, ConcatProperties
  <2> QED BY <1>3, <1>4, <2>1
<1>6. (k - 1) + (n - k) = n - 1
  BY <1>1
<1>7. \A j \in 1..(n - 1) : (s \o t)[j] = IF j < k THEN q[j] ELSE q[j + 1]
  <2> SUFFICES ASSUME NEW j \in 1..(n - 1)
               PROVE  (s \o t)[j] = IF j < k THEN q[j] ELSE q[j + 1]
    OBVIOUS
  <2>1. CASE j < k
    <3>1. j <= k - 1 /\ j \in 1..(k - 1)
      BY <1>1, <2>1
    <3> QED BY <1>3, <1>5, <1>6, <2>1, <3>1
  <2>2. CASE ~(j < k)
    <3>1. ~(j <= k - 1) /\ j - (k - 1) \in 1..(n - k) /\ k + (j - (k - 1)) = j + 1
      BY <1>1, <2>2
    <3> QED BY <1>4, <1>5, <1>6, <2>2, <3>1
  <2> QED BY <2>1, <2>2
<1> QED BY <1>2, <1>5, <1>6, <1>7 DEF n

(* A task that is cancelled leaves the queue, and only its place.          *)
LEMMA WithoutQ ==
  ASSUME NEW q \in Seq(Actor), NEW x
  PROVE  /\ Without(q, x) \in Seq(Actor)
         /\ \A a : InQ(a, Without(q, x)) => InQ(a, q)
         /\ \A a : InQ(a, q) /\ a # x => InQ(a, Without(q, x))
         /\ \A a, b : Before(a, b, Without(q, x)) => Before(a, b, q)
<1> DEFINE n == Len(q)
<1> DEFINE r == Without(q, x)
<1>1. CASE ~InQ(x, q)
  <2>1. r = q
    BY <1>1 DEF Without, RemoveFirst, InQ
  <2> QED BY <2>1
<1>2. CASE InQ(x, q)
  <2> DEFINE I == {i \in 1..n : q[i] = x}
  <2> DEFINE k == Min(I)
  <2>1. I # {} /\ I \in SUBSET Nat
    BY <1>2 DEF InQ
  <2>2. k \in I
    BY <2>1, NatMin DEF Min
  <2>3. r = RemoveAt(q, k)
    <3>1. SelectInSeq(q, LAMBDA v : v = x) = k
      BY <2>1 DEF SelectInSeq
    <3> QED BY <1>2, <3>1 DEF Without, RemoveFirst, InQ
  <2>4. k \in 1..n /\ q[k] = x
    BY <2>2
  <2> HIDE DEF I, k, r
  <2>5. n \in Nat /\ k \in Nat /\ 1 <= k /\ k <= n
    BY <2>4
  <2>6. /\ r \in Seq(Actor) /\ Len(r) = n - 1
        /\ \A j \in 1..(n - 1) : r[j] = IF j < k THEN q[j] ELSE q[j + 1]
    BY <2>3, <2>4, RemoveAtEffect
  <2> HIDE DEF n
  <2> DEFINE old(j) == IF j < k THEN j ELSE j + 1
  <2>7. \A j \in 1..(n - 1) : old(j) \in 1..n /\ r[j] = q[old(j)]
    BY <2>5, <2>6
  <2>8. \A i, j \in 1..(n - 1) : i < j => old(i) < old(j)
    BY <2>5
  <2> HIDE DEF old
  <2>9. ASSUME NEW a, NEW i \in 1..n, q[i] = a, a # x
        PROVE  \E j \in 1..(n - 1) : r[j] = a
    <3>1. i # k
      BY <2>4, <2>9
    <3>2. CASE i < k
      BY <2>5, <2>6, <2>9, <3>2
    <3>3. CASE i > k
      <4>1. i - 1 \in 1..(n - 1) /\ ~(i - 1 < k) /\ (i - 1) + 1 = i
        BY <2>5, <3>3
      <4>2. r[i - 1] = a
        BY <2>6, <2>9, <4>1
      <4> QED BY <4>1, <4>2
    <3> QED BY <2>5, <3>1, <3>2, <3>3
  <2>10. \A a : (\E i \in 1..(n - 1) : r[i] = a) => (\E i \in 1..n : q[i] = a)
    BY <2>7
  <2>11. \A a, b : (\E i, j \in 1..(n - 1) : i < j /\ r[i] = a /\ r[j] = b)
                   => (\E i, j \in 1..n : i < j /\ q[i] = a /\ q[j] = b)
    BY <2>7, <2>8
  <2>12. /\ \A a : InQ(a, r) => InQ(a, q)
         /\ \A a : InQ(a, q) /\ a # x => InQ(a, r)
         /\ \A a, b : Before(a, b, r) => Before(a, b, q)
    BY <2>6, <2>9, <2>10, <2>11 DEF InQ, Before, n
  <2> QED BY <2>6, <2>12 DEF r
<1> QED BY <1>1, <1>2

LEMMA BeforeInQ ==
  ASSUME NEW a, NEW b, NEW q, Before(a, b, q)
  PROVE  InQ(a, q)
BY DEF Before, InQ

LEMMA EmptyQ == \A a, b : ~InQ(a, <<>>) /\ ~Before(a, b, <<>>)
<1>1. Len(<<>>) = 0 /\ \A i \in 1..0 : FALSE
  OBVIOUS
<1> QED BY <1>1 DEF InQ, Before

(* What a step of the task n does to the queue.                            *)
QueueStep(n) ==
  /\ waiters' \in Seq(Actor)
  /\ \A a \in Actor : a # n => (InQ(a, waiters') <=> InQ(a, waiters))
  /\ \A a, b \in Actor : b # n /\ Before(a, b, waiters') => Before(a, b, waiters)

LEMMA QueueEffect ==
  ASSUME waiters \in Seq(Actor), NEW n \in Node,
         \/ waiters' = waiters
         \/ waiters' = Append(waiters, n)
         \/ waiters' = Without(waiters, n)
         \/ waiters' = Append(Without(waiters, n), n)
         \/ waiters # <<>> /\ Head(waiters) = n /\ waiters' = Tail(waiters)
  PROVE  QueueStep(n)
<1>0. n \in Actor
  BY DEF Actor
<1>1. CASE waiters' = waiters
  BY <1>1 DEF QueueStep
<1>2. CASE waiters' = Append(waiters, n)
  BY <1>0, <1>2, AppendQ DEF QueueStep
<1>3. CASE waiters' = Without(waiters, n)
  BY <1>3, WithoutQ DEF QueueStep
<1>4. CASE waiters' = Append(Without(waiters, n), n)
  <2> DEFINE q == Without(waiters, n)
  <2>1. /\ q \in Seq(Actor)
        /\ \A a : InQ(a, q) => InQ(a, waiters)
        /\ \A a : InQ(a, waiters) /\ a # n => InQ(a, q)
        /\ \A a, b : Before(a, b, q) => Before(a, b, waiters)
    BY WithoutQ
  <2> HIDE DEF q
  <2>2. /\ Append(q, n) \in Seq(Actor)
        /\ \A a : InQ(a, Append(q, n)) <=> InQ(a, q) \/ a = n
        /\ \A a, b : Before(a, b, Append(q, n)) => Before(a, b, q) \/ b = n
    BY <1>0, <2>1, AppendQ
  <2>3. waiters' = Append(q, n)
    BY <1>4 DEF q
  <2> QED BY <2>1, <2>2, <2>3 DEF QueueStep
<1>5. CASE waiters # <<>> /\ Head(waiters) = n /\ waiters' = Tail(waiters)
  BY <1>5, TailQ DEF QueueStep
<1> QED BY <1>1, <1>2, <1>3, <1>4, <1>5

-----------------------------------------------------------------------------
(* While the bot serves: the tasks ahead of a /stop in the queue are       *)
(* cancelled, so that none of them starts a process before the /stop has   *)
(* its turn, and what the /stop has not yet stopped it still has to do,    *)
(* but for the tasks that its cancel_all() did not reach.                  *)
Busy == \E s \in Command : stopAll[s] \in {"waiting", "stopping"}

Serve ==
  /\ waiters \in Seq(Actor)
  /\ stopAll[Lifespan] = "off"
  /\ \A n \in Node : phase[n] \in {"idle", "created"} => ~InQ(n, waiters)
  /\ \A s \in Command : stopAll[s] = "waiting" => InQ(s, waiters)
  /\ \A n \in Node, s \in Command :
       Before(n, s, waiters) /\ phase[n] = "wantSession" => n \in cancelReq \cup unreached
  /\ Busy => \A n \in Node : phase[n] = "starting" => n \in cancelReq \cup unreached
  /\ (\E s \in Command : stopAll[s] = "stopping") =>
       \A n \in Known : Stoppable(n) => n \in todo \cup unreached \/ n = victim

ServeInv == life = "serving" => Serve

LEMMA TaskServe ==
  ASSUME Serve, NEW n \in Node, QueueStep(n), UNCHANGED allVars,
         unreached \subseteq unreached',
         \A m \in Node : m # n =>
           /\ phase'[m] = phase[m] \/ (phase[m] = "idle" /\ phase'[m] = "created")
           /\ m \in cancelReq => m \in cancelReq',
         phase'[n] \notin {"idle", "created"},
         phase'[n] = "starting" => ~Busy \/ n \in unreached,
         phase'[n] = "wantSession" => phase[n] = "created",
         Busy => \A m \in Node : where'[m] # "nowhere" /\ Stoppable(m)' =>
                   (where[m] # "nowhere" /\ Stoppable(m)) \/ m \in unreached
  PROVE  Serve'
<1>0. Node \subseteq Actor /\ Command \subseteq Actor /\ Node \cap Command = {}
  BY ActorAssumption DEF Actor, Stopper
<1>1. waiters' \in Seq(Actor) /\ stopAll'[Lifespan] = "off"
  BY DEF QueueStep, Serve, allVars
<1>2. \A m \in Node : phase'[m] \in {"idle", "created"} => ~InQ(m, waiters')
  BY <1>0 DEF QueueStep, Serve
<1>3. \A s \in Command : stopAll'[s] = "waiting" => InQ(s, waiters')
  BY <1>0 DEF QueueStep, Serve, allVars
<1>4. ASSUME NEW m \in Node, NEW s \in Command, Before(m, s, waiters'), phase'[m] = "wantSession"
      PROVE  m \in cancelReq' \cup unreached'
  <2>1. Before(m, s, waiters)
    BY <1>0, <1>4 DEF QueueStep
  <2>2. InQ(m, waiters)
    BY <2>1, BeforeInQ
  <2>3. phase[m] # "created"
    BY <2>2 DEF Serve
  <2> QED BY <1>4, <2>1, <2>3 DEF Serve
<1>5. Busy' => Busy /\ \A m \in Node : phase'[m] = "starting" => m \in cancelReq' \cup unreached'
  BY DEF Busy, Serve, allVars
<1>6. (\E s \in Command : stopAll'[s] = "stopping") =>
        \A m \in Known' : Stoppable(m)' => m \in todo' \cup unreached' \/ m = victim'
  BY DEF Busy, Serve, allVars, Known
<1> QED BY <1>1, <1>2, <1>3, <1>4, <1>5, <1>6 DEF Serve

(* A step that moves no task, or only creates tasks.                       *)
LEMMA FrameServe ==
  ASSUME Serve, UNCHANGED <<waiters, allVars>>, cancelReq \subseteq cancelReq',
         unreached \subseteq unreached',
         \A m \in Node :
           /\ phase'[m] = phase[m] \/ (phase[m] = "idle" /\ phase'[m] = "created")
           /\ where'[m] # "nowhere" /\ Stoppable(m)' => where[m] # "nowhere" /\ Stoppable(m)
  PROVE  Serve'
<1>1. waiters' \in Seq(Actor) /\ stopAll'[Lifespan] = "off"
  BY DEF Serve, allVars
<1>2. /\ \A m \in Node : phase'[m] \in {"idle", "created"} => ~InQ(m, waiters')
      /\ \A s \in Command : stopAll'[s] = "waiting" => InQ(s, waiters')
      /\ \A m \in Node, s \in Command :
           Before(m, s, waiters') /\ phase'[m] = "wantSession" => m \in cancelReq' \cup unreached'
  BY DEF Serve, allVars
<1>3. Busy' => \A m \in Node : phase'[m] = "starting" => m \in cancelReq' \cup unreached'
  BY DEF Busy, Serve, allVars
<1>4. (\E s \in Command : stopAll'[s] = "stopping") =>
        \A m \in Known' : Stoppable(m)' => m \in todo' \cup unreached' \/ m = victim'
  BY DEF Busy, Serve, allVars, Known
<1> QED BY <1>1, <1>2, <1>3, <1>4 DEF Serve

(* A task takes the lock to open a session only if no /stop is under way,  *)
(* unless it was not reached by its cancel_all().                          *)
LEMMA OpenAlone ==
  ASSUME Serve, LockInv, NEW n \in Node,
         \/ FreeFor(waiters)
         \/ Turn(n) /\ phase[n] = "wantSession" /\ n \notin cancelReq
  PROVE  ~Busy \/ n \in unreached
<1> SUFFICES ASSUME NEW s \in Command, stopAll[s] \in {"waiting", "stopping"}
             PROVE  n \in unreached
  BY DEF Busy
<1>1. s \in Stopper /\ s # Nobody /\ s # n
  BY Actors, ActorAssumption DEF Stopper
<1>2. stopAll[s] = "waiting"
  BY <1>1 DEF LockInv, FreeFor, Turn
<1>3. InQ(s, waiters)
  BY <1>2 DEF Serve
<1>4. waiters # <<>>
  BY <1>3, EmptyQ
<1>5. Turn(n) /\ phase[n] = "wantSession" /\ n \notin cancelReq
  BY <1>4 DEF FreeFor
<1>6. InQ(s, Tail(waiters))
  BY <1>1, <1>3, <1>4, <1>5, TailQ DEF Serve, Turn
<1>7. Before(n, s, waiters)
  BY <1>4, <1>5, <1>6, TailQ DEF Serve, Turn
<1> QED BY <1>5, <1>7 DEF Serve

LEMMA LeaveServe ==
  ASSUME SessionInv, Serve, NEW n \in Node, NEW live, NEW q \in {waiters, Without(waiters, n)},
         Leave(n, live, q), UNCHANGED allVars, unreached \subseteq unreached',
         \A m \in Node : m # n /\ m \in cancelReq => m \in cancelReq',
         \A m \in Node : proc'[m] = "alive" => proc[m] = "alive",
         phase[n] # "starting" \/ proc'[n] # "alive"
  PROVE  Serve'
<1>1. waiters' \in {q, Append(q, n)}
  BY DEF Leave
<1>2. QueueStep(n)
  BY <1>1, QueueEffect DEF Serve
<1>3. phase'[n] \in {"removing", "finishing", "wantRemove"} /\ \A m \in Node : m # n => phase'[m] = phase[m]
  BY DEF Leave, Removal, SessionInv
<1>4. \A m \in Node : where'[m] # "nowhere" => where[m] # "nowhere"
  BY DEF Leave, Removal, SessionInv
<1>5. \A m \in Node : Stoppable(m)' => Stoppable(m)
  BY <1>3 DEF Stoppable
<1> QED BY <1>2, <1>3, <1>4, <1>5, TaskServe

LEMMA CancelServe ==
  ASSUME SessionInv, LockInv, Serve, unreached \subseteq unreached',
         NEW n \in Node, CancelArrives(n)
  PROVE  Serve'
<1>1. UNCHANGED allVars /\ cancelReq' = cancelReq \ {n}
  BY DEF CancelArrives
<1>2. \A m \in Node : proc'[m] = "alive" => proc[m] = "alive"
  BY DEF CancelArrives, procVars, LockInv
<1>3. CASE phase[n] = "starting"
  <2>1. Leave(n, FALSE, waiters) /\ proc'[n] = "dead"
    BY <1>3 DEF CancelArrives, LockInv
  <2> QED BY <1>1, <1>2, <2>1, LeaveServe
<1>4. CASE phase[n] \in {"draining", "selfStopping"}
  <2>1. Leave(n, proc[n] = "alive", waiters)
    BY <1>4 DEF CancelArrives
  <2> QED BY <1>1, <1>2, <1>4, <2>1, LeaveServe
<1>5. CASE phase[n] = "wantRegister"
  <2>1. Leave(n, proc[n] = "alive", Without(waiters, n))
    BY <1>5 DEF CancelArrives
  <2> QED BY <1>1, <1>2, <1>5, <2>1, LeaveServe
<1>6. CASE phase[n] \in {"created", "wantSession", "reading", "wantRemove", "removing"}
  <2>1. /\ UNCHANGED <<where, proc>> /\ waiters' \in {waiters, Without(waiters, n)}
        /\ phase'[n] \in {"done", "finishing", "selfStopping"}
        /\ \A m \in Node : m # n => phase'[m] = phase[m]
    BY <1>6 DEF CancelArrives, SessionInv, procVars, lockVars
  <2>2. QueueStep(n)
    BY <2>1, QueueEffect DEF Serve
  <2>3. \A m \in Node : Stoppable(m)' => Stoppable(m)
    BY <1>6, <2>1 DEF Stoppable
  <2> QED BY <1>1, <2>1, <2>2, <2>3, TaskServe
<1> QED BY <1>3, <1>4, <1>5, <1>6 DEF CancelArrives

LEMMA NodeServe ==
  ASSUME SessionInv, LockInv, Serve, unreached \subseteq unreached', NEW n \in Node,
         \/ CreateTask(n) \/ SpawnFails(n) \/ HandlerFails(n) \/ StopTask(n)
         \/ AskSession(n) \/ GetSession(n) \/ Spawned(n) \/ Register(n) \/ Drained(n)
         \/ RemoveSession(n) \/ Removed(n) \/ Finish(n)
         \/ ReportSession(n) \/ EndOfOutput(n)
         \/ SelfStopped(n) \/ CloseGenerator(n) \/ ProcessExits(n) \/ Kill(n)
  PROVE  Serve'
<1>1. CASE SpawnFails(n) \/ HandlerFails(n) \/ Drained(n)
  <2>1. UNCHANGED <<allVars, cancelReq>> /\ \A m \in Node : proc'[m] = "alive" => proc[m] = "alive"
    BY <1>1 DEF SpawnFails, HandlerFails, Drained, LockInv
  <2>2. \/ Leave(n, FALSE, waiters) /\ proc'[n] = "dead"
        \/ Leave(n, proc[n] = "alive", waiters) /\ phase[n] = "reading"
    BY <1>1 DEF SpawnFails, HandlerFails, Drained, LockInv
  <2> QED BY <2>1, <2>2, LeaveServe
<1>2. CASE SelfStopped(n)
  <2>1. UNCHANGED <<allVars, cancelReq, proc>> /\ proc[n] = "dead"
    BY <1>2 DEF SelfStopped
  <2>2. CASE Leave(n, FALSE, waiters)
    BY <2>1, <2>2, LeaveServe
  <2>3. CASE UNCHANGED <<phase, where, waiters>>
    BY <2>1, <2>3, FrameServe DEF Stoppable
  <2> QED BY <1>2, <2>2, <2>3 DEF SelfStopped, lockVars
<1>3. CASE RemoveSession(n)
  <2>1. /\ UNCHANGED <<allVars, cancelReq, proc>>
        /\ waiters # <<>> /\ Head(waiters) = n /\ waiters' = Tail(waiters)
        /\ Removal(n, proc[n] = "alive") /\ phase[n] = "wantRemove"
    BY <1>3 DEF RemoveSession, Turn
  <2>2. QueueStep(n)
    BY <2>1, QueueEffect DEF Serve
  <2>3. /\ phase'[n] \in {"removing", "finishing"}
        /\ \A m \in Node : m # n => phase'[m] = phase[m]
        /\ \A m \in Node : where'[m] # "nowhere" => where[m] # "nowhere"
    BY <2>1 DEF Removal, SessionInv
  <2>4. \A m \in Node : Stoppable(m)' => Stoppable(m)
    BY <2>1, <2>3 DEF Stoppable
  <2> QED BY <2>1, <2>2, <2>3, <2>4, TaskServe
<1>4. CASE Removed(n) \/ EndOfOutput(n)
  <2>1. /\ UNCHANGED <<allVars, cancelReq, proc, where, waiters>>
        /\ phase[n] \in {"removing", "reading"} /\ phase'[n] \in {"finishing", "draining"}
        /\ \A m \in Node : m # n => phase'[m] = phase[m]
    BY <1>4 DEF Removed, EndOfOutput, SessionInv, procVars, lockVars
  <2>2. QueueStep(n)
    BY <2>1, QueueEffect DEF Serve
  <2>3. \A m \in Node : Stoppable(m)' => Stoppable(m)
    BY <2>1 DEF Stoppable
  <2> QED BY <2>1, <2>2, <2>3, TaskServe
<1>5. CASE AskSession(n) \/ GetSession(n)
  <2>1. CASE Open(n)
    <3>1. /\ UNCHANGED <<allVars, cancelReq>>
          /\ phase'[n] = "starting" /\ \A m \in Node : m # n => phase'[m] = phase[m]
      BY <1>5, <2>1 DEF AskSession, GetSession, Open, SessionInv
    <3>2. \/ waiters' \in {waiters, Append(waiters, n)}
          \/ waiters # <<>> /\ Head(waiters) = n /\ waiters' = Tail(waiters)
      BY <1>5 DEF AskSession, GetSession, Turn
    <3>3. \/ FreeFor(waiters)
          \/ Turn(n) /\ phase[n] = "wantSession" /\ n \notin cancelReq
      <4>1. CASE AskSession(n)
        <5>1. phase'[n] # "wantSession"
          BY <3>1
        <5> QED BY <4>1, <5>1 DEF AskSession, SessionInv
      <4>2. CASE GetSession(n)
        BY <4>2 DEF GetSession, Steps
      <4> QED BY <1>5, <4>1, <4>2
    <3>4. ~Busy \/ n \in unreached
      BY <3>3, OpenAlone
    <3>5. QueueStep(n)
      BY <3>2, QueueEffect DEF Serve
    <3>6. \A m \in Node : where'[m] # "nowhere" /\ Stoppable(m)' =>
            where[m] # "nowhere" /\ Stoppable(m)
      BY <1>5, <2>1, <3>1 DEF AskSession, GetSession, Open, SessionInv, LockInv, Stoppable
    <3> QED BY <3>1, <3>4, <3>5, <3>6, TaskServe
  <2>2. CASE ~Open(n)
    <3>1. /\ UNCHANGED <<allVars, cancelReq, where, proc>> /\ waiters' = Append(waiters, n)
          /\ phase[n] = "created" /\ phase'[n] = "wantSession"
          /\ \A m \in Node : m # n => phase'[m] = phase[m]
      BY <1>5, <2>2 DEF AskSession, GetSession, SessionInv
    <3>2. QueueStep(n)
      BY <3>1, QueueEffect DEF Serve
    <3>3. \A m \in Node : Stoppable(m)' => Stoppable(m) \/ m = n
      BY <3>1 DEF Stoppable
    <3>4. where'[n] = "nowhere"
      BY <3>1 DEF SessionInv, NodeInv
    <3> QED BY <3>1, <3>2, <3>3, <3>4, TaskServe
  <2> QED BY <2>1, <2>2
<1>6. CASE Spawned(n)
  <2>1. /\ UNCHANGED <<allVars, cancelReq, proc, where, waiters>>
        /\ phase[n] = "starting" /\ phase'[n] = "reading" /\ n \notin cancelReq
        /\ \A m \in Node : m # n => phase'[m] = phase[m]
    BY <1>6 DEF Spawned, Steps, SessionInv, lockVars
  <2>2. QueueStep(n)
    BY <2>1, QueueEffect DEF Serve
  <2>3. ~Busy \/ n \in unreached
    BY <2>1 DEF Serve
  <2>4. \A m \in Node : Stoppable(m)' => Stoppable(m) \/ m = n
    BY <2>1 DEF Stoppable
  <2> QED BY <2>1, <2>2, <2>3, <2>4, TaskServe
<1>7. CASE ReportSession(n) \/ Register(n)
  <2>1. /\ UNCHANGED <<allVars, cancelReq, proc>>
        /\ \/ waiters' \in {waiters, Append(waiters, n)}
           \/ waiters # <<>> /\ Head(waiters) = n /\ waiters' = Tail(waiters)
        /\ phase[n] \in {"reading", "wantRegister"} /\ phase'[n] \in {"reading", "wantRegister"}
        /\ \A m \in Node : m # n => phase'[m] = phase[m]
        /\ \A m \in Node : where'[m] # "nowhere" => where[m] # "nowhere"
    BY <1>7 DEF ReportSession, Register, Rename, Turn, SessionInv, procVars
  <2>2. QueueStep(n)
    BY <2>1, QueueEffect DEF Serve
  <2>3. \A m \in Node : Stoppable(m)' => Stoppable(m)
    BY <2>1 DEF Stoppable
  <2> QED BY <2>1, <2>2, <2>3, TaskServe
<1>8. CASE Finish(n)
  <2>1. /\ UNCHANGED <<allVars, cancelReq, proc, where, waiters>>
        /\ phase'[n] = "done"
        /\ \A m \in Node : m # n =>
             phase'[m] = phase[m] \/ (phase[m] = "idle" /\ phase'[m] = "created")
    BY <1>8, FinishEffect DEF Finish, procVars, lockVars
  <2>2. QueueStep(n)
    BY <2>1, QueueEffect DEF Serve
  <2>3. \A m \in Node : Stoppable(m)' => Stoppable(m)
    BY <1>8, <2>1, FinishEffect DEF Stoppable
  <2> QED BY <2>1, <2>2, <2>3, TaskServe
<1>9. CASE CreateTask(n) \/ CloseGenerator(n) \/ StopTask(n) \/ ProcessExits(n) \/ Kill(n)
  <2>1. /\ UNCHANGED <<allVars, where, waiters>> /\ cancelReq \subseteq cancelReq'
        /\ \A m \in Node : phase'[m] = phase[m] \/ (phase[m] = "idle" /\ phase'[m] = "created")
        /\ \A m \in Node : proc'[m] = "alive" => proc[m] = "alive"
    BY <1>9
    DEF CreateTask, CloseGenerator, StopTask, ProcessExits, Kill, taskVars, procVars, lockVars,
        SessionInv, LockInv
  <2>2. \A m \in Node : Stoppable(m)' => Stoppable(m)
    BY <2>1 DEF Stoppable
  <2> QED BY <2>1, <2>2, FrameServe
<1> QED BY <1>1, <1>2, <1>3, <1>4, <1>5, <1>6, <1>7, <1>8, <1>9

(* A /stop cancels every task that it reaches and that may yet start a     *)
(* process.                                                                *)
LEMMA StopSessionsServe ==
  ASSUME SessionInv, LockInv, Serve, NEW s \in Command, NEW left \in SUBSET Node,
         StopSessions(s, left), UNCHANGED <<phase, proc>>,
         cancelReq \subseteq cancelReq', unreached \subseteq unreached',
         \A n \in Node : phase[n] = "starting" => n \in cancelReq' \cup unreached',
         \A n \in Known : Stoppable(n) => n \in left \cup unreached,
         waiters' \in Seq(Actor),
         \A a : InQ(a, waiters') => InQ(a, waiters),
         \A a : a # s /\ InQ(a, waiters) => InQ(a, waiters'),
         \A a, b : Before(a, b, waiters') => Before(a, b, waiters)
  PROVE  Serve'
<1>0. s # Lifespan /\ s \in Stopper /\ Lifespan \in Stopper
  BY ActorAssumption DEF Stopper
<1>5. PICK v \in {"stopping", "done", "off"} : stopAll' = [stopAll EXCEPT ![s] = v]
  BY DEF StopSessions
<1>1. waiters' \in Seq(Actor) /\ stopAll'[Lifespan] = "off"
  BY <1>0, <1>5 DEF LockInv, Serve
<1>2. \A u \in Stopper : stopAll'[u] = "waiting" => u # s /\ stopAll[u] = "waiting"
  BY <1>5 DEF LockInv
<1>3. /\ \A m \in Node : phase'[m] \in {"idle", "created"} => ~InQ(m, waiters')
      /\ \A u \in Command : stopAll'[u] = "waiting" => InQ(u, waiters')
      /\ \A m \in Node, u \in Command :
           Before(m, u, waiters') /\ phase'[m] = "wantSession" => m \in cancelReq' \cup unreached'
  BY <1>2 DEF Serve, Stopper
<1>4. \A m \in Known' : Stoppable(m)' => m \in todo' \cup unreached' \/ m = victim'
  <2>1. \A m \in Node : Stoppable(m)' <=> Stoppable(m)
    BY DEF Stoppable
  <2>2. CASE where' = [m \in Node |-> "nowhere"]
    BY <2>2 DEF Known
  <2>3. CASE \E m \in left, passed \in SUBSET {k \in left : ~Stoppable(k)} :
               victim' = m /\ todo' = left \ (passed \cup {m}) /\ where' = where
    BY <2>1, <2>3 DEF Known
  <2> QED BY <2>2, <2>3 DEF StopSessions
<1> QED BY <1>1, <1>3, <1>4 DEF Serve

LEMMA StopServe ==
  ASSUME SessionInv, LockInv, Serve, life = "serving", unreached \subseteq unreached',
         NEW s \in Stopper, StopAllTasks(s) \/ EnterStopAll(s) \/ NextVictim(s) \/ ReplaceTrees(s)
  PROVE  Serve'
<1>0. waiters \in Seq(Actor) /\ s \in Actor
  BY DEF Serve, Actor
<1>1. CASE StopAllTasks(s)
  <2>1. /\ s \in Command /\ stopAll[s] = "off" /\ UNCHANGED <<phase, proc>>
        /\ cancelReq \subseteq cancelReq' /\ AskStopAll(s)
        /\ \A n \in Node :
             phase[n] \in {"starting", "wantSession"} => n \in cancelReq' \cup unreached'
    BY <1>1 DEF StopAllTasks, CancelAll
  <2>2. CASE FreeFor(waiters) /\ StopSessions(s, Known) /\ UNCHANGED waiters
    BY <1>0, <2>1, <2>2, StopSessionsServe DEF Known
  <2>3. CASE /\ stopAll' = [stopAll EXCEPT ![s] = "waiting"]
             /\ waiters' = Append(waiters, s)
             /\ UNCHANGED <<where, todo, victim>>
    <3>1. /\ waiters' \in Seq(Actor)
          /\ \A a : InQ(a, waiters') <=> InQ(a, waiters) \/ a = s
      BY <1>0, <2>3, AppendQ
    <3>2. s # Lifespan /\ s \notin Node
      BY <2>1, ActorAssumption
    <3>3. stopAll'[Lifespan] = "off"
      BY <2>3, <3>2 DEF Serve, LockInv
    <3>4. \A m \in Node : phase'[m] \in {"idle", "created"} => ~InQ(m, waiters')
      BY <2>1, <3>1, <3>2 DEF Serve
    <3>5. \A u \in Command : stopAll'[u] = "waiting" => InQ(u, waiters')
      BY <2>3, <3>1 DEF Serve, LockInv, Stopper
    <3>6. (\E u \in Command : stopAll'[u] = "stopping") =>
            \A m \in Known' : Stoppable(m)' => m \in todo' \cup unreached' \/ m = victim'
      BY <2>1, <2>3 DEF Serve, LockInv, Known, Stoppable, Stopper
    <3> QED BY <2>1, <3>1, <3>3, <3>4, <3>5, <3>6 DEF Serve
  <2> QED BY <2>1, <2>2, <2>3 DEF AskStopAll
<1>2. ASSUME stopAll[s] \in {"waiting", "stopping"}
      PROVE  s \in Command /\ \A n \in Node : phase[n] = "starting" => n \in cancelReq \cup unreached
  <2>1. s \in Command
    BY <1>2 DEF Serve, Stopper
  <2> QED BY <1>2, <2>1 DEF Serve, Busy
<1>3. CASE EnterStopAll(s)
  <2>1. /\ stopAll[s] = "waiting" /\ waiters # <<>> /\ Head(waiters) = s
        /\ StopSessions(s, Known) /\ waiters' = Tail(waiters)
        /\ UNCHANGED <<phase, proc, cancelReq>>
    BY <1>3 DEF EnterStopAll, Turn, taskVars
  <2> QED BY <1>0, <1>2, <2>1, TailQ, StopSessionsServe DEF Known
<1>4. CASE NextVictim(s)
  <2>1. /\ stopAll[s] = "stopping" /\ proc[victim] = "dead" /\ StopSessions(s, todo)
        /\ UNCHANGED <<phase, proc, cancelReq, waiters>>
    BY <1>4 DEF NextVictim, taskVars
  <2>2. s \in Command /\ \A n \in Node : phase[n] = "starting" => n \in cancelReq' \cup unreached'
    BY <1>2, <2>1
  <2>3. \A n \in Known : Stoppable(n) => n \in todo \cup unreached
    BY <2>1, <2>2 DEF Serve, Stoppable
  <2>4. todo \in SUBSET Node
    BY DEF LockInv
  <2> QED BY <1>0, <2>1, <2>2, <2>3, <2>4, StopSessionsServe
<1>5. CASE ReplaceTrees(s)
  <2>1. /\ stopAll[s] = "done" /\ stopAll' = [stopAll EXCEPT ![s] = "off"] /\ s \in Command
        /\ UNCHANGED <<phase, proc, where, cancelReq, waiters, todo, victim>>
    BY <1>5, ActorAssumption DEF ReplaceTrees, taskVars, procVars, lockVars
  <2>2. \A u \in Stopper : stopAll'[u] # "off" => stopAll'[u] = stopAll[u]
    BY <2>1 DEF LockInv
  <2>3. stopAll'[Lifespan] = "off" /\ Command \subseteq Stopper
    BY <2>1, Actors, ActorAssumption DEF Serve, LockInv, Stopper
  <2>4. \A m \in Node : Stoppable(m)' <=> Stoppable(m)
    BY <2>1 DEF Stoppable
  <2> QED BY <2>1, <2>2, <2>3, <2>4 DEF Serve, Busy, Known
<1> QED BY <1>1, <1>3, <1>4, <1>5

LEMMA ServeStep ==
  ASSUME SessionInv, LockInv, ServeInv, [Next]_vars
  PROVE  ServeInv'
<1> SUFFICES ASSUME life' = "serving" PROVE Serve'
  BY DEF ServeInv
<1>1. life = "serving" /\ ~(Shutdown \/ ShutdownTimeout \/ LoopEnds \/ LoopCloses \/ Exit)
  <2>1. ~(Shutdown \/ LoopEnds \/ LoopCloses \/ Exit)
    BY DEF Shutdown, LoopEnds, LoopCloses, Exit
  <2>2. ~ShutdownTimeout
    BY DEF ShutdownTimeout, lifeVars
  <2>3. ASSUME NEW n \in Node,
               \/ CreateTask(n) \/ SpawnFails(n) \/ HandlerFails(n) \/ StopTask(n)
               \/ AskSession(n) \/ GetSession(n) \/ Spawned(n) \/ Register(n) \/ Drained(n)
               \/ RemoveSession(n) \/ Removed(n) \/ Finish(n) \/ CancelArrives(n)
               \/ ReportSession(n) \/ EndOfOutput(n)
               \/ SelfStopped(n) \/ CloseGenerator(n) \/ ProcessExits(n) \/ Kill(n)
        PROVE  life = "serving"
    BY <2>3
    DEF CreateTask, SpawnFails, HandlerFails, StopTask, AskSession, GetSession, Spawned, Register,
        Drained, RemoveSession, Removed, Finish, CancelArrives, ReportSession, EndOfOutput,
        SelfStopped, CloseGenerator, ProcessExits, Kill, lifeVars
  <2>4. ASSUME NEW s \in Stopper,
               StopAllTasks(s) \/ EnterStopAll(s) \/ NextVictim(s) \/ ReplaceTrees(s)
        PROVE  life = "serving"
    BY <2>4 DEF StopAllTasks, EnterStopAll, NextVictim, ReplaceTrees, lifeVars
  <2>5. UNCHANGED vars => life = "serving"
    BY DEF vars, lifeVars
  <2> QED BY <2>1, <2>2, <2>3, <2>4, <2>5 DEF Next, TaskStep
<1>2. Serve /\ unreached \subseteq unreached'
  BY <1>1, UnreachedStays DEF ServeInv, Recorded
<1>3. CASE UNCHANGED vars
  BY <1>2, <1>3, FrameServe DEF vars, taskVars, procVars, lockVars, Stoppable
<1> QED BY <1>1, <1>2, <1>3, NodeServe, CancelServe, StopServe DEF Next, TaskStep

-----------------------------------------------------------------------------
(* The stop_all() commands and the end of the server.                      *)

LEMMA StopSessionsProc ==
  ASSUME SessionInv, LockInv, NEW s \in Stopper, NEW left \in SUBSET Node, StopSessions(s, left),
         NEW m \in Node, ProcInv(m), victim # m \/ proc[m] # "alive",
         UNCHANGED <<phase, proc, selfStop, cut>>, cancelReq \subseteq cancelReq', Recorded,
         life' = "serving" =>
           /\ life = "serving"
           /\ \A n \in Known : Stoppable(n) => n \in left \cup unreached
           /\ \A n \in Node : phase[n] = "starting" => n \in cancelReq' \cup unreached'
  PROVE  ProcInv(m)'
<1>1. NodeInv(m)
  BY DEF SessionInv
<1>2. CASE \E v \in left :
             victim' = v /\ termed' = termed \cup {v} /\ UNCHANGED <<where, missed>>
  BY <1>2 DEF ProcInv, BeingStopped, Recorded
<1>3. CASE /\ \A n \in left : ~Stoppable(n)
           /\ where' = [n \in Node |-> "nowhere"]
           /\ missed' = missed \cup {n \in Known : proc[n] = "alive"}
           /\ victim' = Nobody /\ UNCHANGED termed
  <2>1. victim' # m
    BY <1>3, Actors
  <2>2. proc[m] = "alive" => (BeingStopped(m)' <=> BeingStopped(m))
    BY <2>1 DEF BeingStopped
  <2>3. BeingStopped(m)' => BeingStopped(m)
    BY <2>1 DEF BeingStopped
  <2>4. m \in missed' <=> m \in missed \/ (where[m] # "nowhere" /\ proc[m] = "alive")
    BY <1>3 DEF Known
  <2>5. life' = "serving" /\ where[m] # "nowhere" /\ proc[m] = "alive" =>
          phase[m] = "starting" \/ m \in unreached
    BY <1>3 DEF Known, Stoppable
  <2> QED BY <1>1, <1>3, <2>2, <2>3, <2>4, <2>5 DEF ProcInv, NodeInv, Recorded
<1> QED BY <1>2, <1>3 DEF StopSessions

LEMMA AskStopAllProc ==
  ASSUME SessionInv, LockInv, NEW s \in Stopper, AskStopAll(s), NEW m \in Node, ProcInv(m),
         UNCHANGED <<phase, proc, selfStop, cut>>, cancelReq \subseteq cancelReq', Recorded,
         life' = "serving" =>
           /\ life = "serving"
           /\ \A n \in Node : phase[n] = "starting" => n \in cancelReq' \cup unreached'
  PROVE  ProcInv(m)'
<1>1. CASE FreeFor(waiters) /\ StopSessions(s, Known)
  <2>1. victim # m
    BY <1>1, Actors DEF FreeFor, LockInv
  <2> QED BY <1>1, <2>1, StopSessionsProc DEF Known
<1>2. CASE UNCHANGED <<where, termed, victim, missed>>
  BY <1>2, ProcFrame DEF Untouched
<1> QED BY <1>1, <1>2 DEF AskStopAll

LEMMA StopProc ==
  ASSUME SessionInv, LockInv, ServeInv, Recorded, NEW m \in Node, ProcInv(m), NEW s \in Stopper,
         StopAllTasks(s) \/ EnterStopAll(s) \/ NextVictim(s) \/ ReplaceTrees(s)
  PROVE  ProcInv(m)'
<1>1. CASE StopAllTasks(s)
  <2>1. /\ AskStopAll(s) /\ UNCHANGED <<phase, proc, selfStop, cut, life>>
        /\ cancelReq \subseteq cancelReq' /\ life = "serving"
        /\ \A n \in Node : phase[n] = "starting" => n \in cancelReq' \cup unreached'
    BY <1>1 DEF StopAllTasks, CancelAll, lifeVars
  <2> QED BY <2>1, AskStopAllProc
<1>2. ASSUME life = "serving", stopAll[s] \in {"waiting", "stopping"}
      PROVE  /\ \A n \in Node : phase[n] = "starting" => n \in cancelReq \cup unreached
             /\ stopAll[s] = "stopping" =>
                  \A n \in Known : Stoppable(n) => n \in todo \cup unreached \/ n = victim
  <2>1. Serve
    BY <1>2 DEF ServeInv
  <2>2. s \in Command
    BY <1>2, <2>1 DEF Serve, Stopper
  <2> QED BY <1>2, <2>1, <2>2 DEF Serve, Busy
<1>3. CASE EnterStopAll(s)
  <2>1. /\ stopAll[s] = "waiting" /\ holder = Nobody /\ StopSessions(s, Known)
        /\ UNCHANGED <<phase, proc, selfStop, cut, life, cancelReq>>
    BY <1>3 DEF EnterStopAll, Turn, taskVars, lifeVars
  <2>2. victim # m
    BY <2>1, Actors DEF LockInv
  <2>3. life' = "serving" =>
          \A n \in Node : phase[n] = "starting" => n \in cancelReq' \cup unreached'
    BY <1>2, <2>1 DEF Recorded
  <2> QED BY <2>1, <2>2, <2>3, StopSessionsProc DEF Known
<1>4. CASE NextVictim(s)
  <2>1. /\ stopAll[s] = "stopping" /\ proc[victim] = "dead" /\ StopSessions(s, todo)
        /\ UNCHANGED <<phase, proc, selfStop, cut, life, cancelReq>>
    BY <1>4 DEF NextVictim, taskVars, lifeVars
  <2>2. victim # m \/ proc[m] # "alive"
    BY <2>1
  <2>3. life = "serving" => \A n \in Known : Stoppable(n) => n \in todo \cup unreached
    BY <1>2, <2>1 DEF Stoppable
  <2>4. todo \in SUBSET Node
    BY DEF LockInv
  <2>5. life' = "serving" =>
          \A n \in Node : phase[n] = "starting" => n \in cancelReq' \cup unreached'
    BY <1>2, <2>1 DEF Recorded
  <2> QED BY <2>1, <2>2, <2>3, <2>4, <2>5, StopSessionsProc
<1>5. CASE ReplaceTrees(s)
  BY <1>5, ProcFrame DEF ReplaceTrees, Untouched, taskVars, procVars, lifeVars
<1> QED BY <1>1, <1>3, <1>4, <1>5

LEMMA EndProc ==
  ASSUME SessionInv, LockInv, NEW m \in Node, ProcInv(m),
         Shutdown \/ ShutdownTimeout \/ LoopEnds \/ LoopCloses \/ Exit
  PROVE  ProcInv(m)'
<1>1. CASE Shutdown
  <2>1. UNCHANGED <<phase, proc, selfStop, cut, cancelReq>> /\ life' # "serving"
        /\ AskStopAll(Lifespan)
    BY <1>1 DEF Shutdown
  <2> QED BY <2>1, AskStopAllProc, Actors DEF Recorded
<1>2. ASSUME NEW S \in SUBSET Stopper, CutShort(S), UNCHANGED <<phase, proc, where, termed, missed>>,
             life' # "serving", cut \cup Interrupted(S) \subseteq cut',
             selfStop' = selfStop \/ (selfStop' = {} /\ selfStop \subseteq cut')
      PROVE  ProcInv(m)'
  <2>1. BeingStopped(m) => BeingStopped(m)' \/ m \in cut'
    BY <1>2 DEF BeingStopped, CutShort, Interrupted
  <2>2. BeingStopped(m)' => BeingStopped(m)
    BY <1>2, Actors DEF BeingStopped, CutShort
  <2> QED BY <1>2, <2>1, <2>2 DEF ProcInv
<1>3. CASE ShutdownTimeout
  BY <1>2, <1>3, Actors DEF ShutdownTimeout, taskVars, procVars, lifeVars
<1>4. CASE LoopEnds
  BY <1>2, <1>4 DEF LoopEnds
<1>5. CASE LoopCloses
  BY <1>5 DEF LoopCloses, taskVars, allVars, ProcInv, BeingStopped
<1>6. CASE Exit
  <2>1. /\ UNCHANGED <<phase, where, termed, selfStop, victim, cut, missed>> /\ life' # "serving"
        /\ proc'[m] = "alive" => proc[m] = "alive"
    BY <1>6 DEF Exit, taskVars, allVars
  <2> QED BY <2>1 DEF ProcInv, BeingStopped
<1> QED BY <1>1, <1>3, <1>4, <1>5, <1>6

LEMMA ProcStep ==
  ASSUME SessionInv, LockInv, ServeInv, NEW m \in Node, ProcInv(m), [Next]_vars
  PROVE  ProcInv(m)'
<1>1. CASE UNCHANGED vars
  BY <1>1, ProcFrame, UnreachedStays DEF Untouched, vars, taskVars, procVars, allVars, lifeVars
<1> QED BY <1>1, UnreachedStays, NodeProc, CancelProc, StopProc, EndProc DEF Next, TaskStep

-----------------------------------------------------------------------------
(* Once asyncio.run ends the loop no stop_all() is left, and a stop() that *)
(* is still under way belongs to a task that waits for it: that task was   *)
(* cancelled once, and is not cancelled again.                             *)
Ended == {"ending", "closed", "exited"}

End ==
  /\ victim = Nobody
  /\ \A s \in Stopper : stopAll[s] \notin {"waiting", "stopping"}
  /\ \A n \in Node : n \in selfStop => phase[n] = "selfStopping" /\ n \notin cancelReq
  /\ life # "ending" => \A n \in Node : n \in awaited => phase[n] = "done"

EndInv == life \in Ended => End

LEMMA LoopEndsEnd ==
  ASSUME LockInv, LoopEnds
  PROVE  End'
<1>1. CutShort(Stopper) /\ selfStop' = {} /\ life' = "ending"
  BY DEF LoopEnds
<1>2. victim' = Nobody
  BY <1>1 DEF CutShort, LockInv
<1>3. \A s \in Stopper : stopAll'[s] \notin {"waiting", "stopping"}
  BY <1>1 DEF CutShort
<1> QED BY <1>1, <1>2, <1>3 DEF End

LEMMA EndStep ==
  ASSUME SessionInv, LockInv, EndInv, [Next]_vars
  PROVE  EndInv'
<1> SUFFICES ASSUME life' \in Ended PROVE End'
  BY DEF EndInv
<1>1. ASSUME NEW n \in Node,
             \/ SpawnFails(n) \/ HandlerFails(n)
             \/ AskSession(n) \/ GetSession(n) \/ Spawned(n) \/ Register(n) \/ Drained(n)
             \/ RemoveSession(n) \/ Removed(n) \/ Finish(n)
             \/ ReportSession(n) \/ EndOfOutput(n)
      PROVE  End'
  <2>1. UNCHANGED <<allVars, lifeVars, selfStop, cancelReq>> /\ LoopRuns
    BY <1>1
    DEF SpawnFails, HandlerFails, AskSession, GetSession, Spawned, Register, Drained, RemoveSession,
        Removed, Finish, ReportSession, EndOfOutput, Steps, procVars
  <2>2. life = "ending" /\ life' = "ending"
    BY <2>1 DEF LoopRuns, lifeVars, Ended
  <2>3. phase[n] # "selfStopping" /\ phase[n] \in Phase
    BY <1>1
    DEF SpawnFails, HandlerFails, AskSession, GetSession, Spawned, Register, Drained, RemoveSession,
        Removed, Finish, ReportSession, EndOfOutput, SessionInv
  <2>4. \A m \in Node : phase[m] = "selfStopping" => phase'[m] = "selfStopping"
    BY <1>1, <2>3
    DEF SpawnFails, HandlerFails, AskSession, GetSession, Open, Spawned, Register, Drained,
        RemoveSession, Removal, Leave, Removed, Finish, ReportSession, EndOfOutput, SessionInv
  <2> QED BY <2>1, <2>2, <2>4 DEF End, EndInv, Ended, allVars
<1>2. ASSUME NEW n \in Node, SelfStopped(n)
      PROVE  End'
  <2>1. UNCHANGED <<allVars, lifeVars, cancelReq>> /\ LoopRuns /\ selfStop' = selfStop \ {n}
    BY <1>2 DEF SelfStopped
  <2>2. life = "ending" /\ life' = "ending"
    BY <2>1 DEF LoopRuns, lifeVars, Ended
  <2>3. \A m \in Node : m # n => phase'[m] = phase[m]
    BY <1>2, LeaveOthers DEF SelfStopped
  <2> QED BY <2>1, <2>2, <2>3 DEF End, EndInv, Ended, allVars
<1>3. ASSUME NEW n \in Node, CancelArrives(n)
      PROVE  End'
  <2>1. /\ UNCHANGED <<allVars, lifeVars>> /\ LoopRuns
        /\ n \in cancelReq /\ cancelReq' = cancelReq \ {n}
    BY <1>3 DEF CancelArrives
  <2>2. life = "ending" /\ life' = "ending"
    BY <2>1 DEF LoopRuns, lifeVars, Ended
  <2>3. End /\ n \notin selfStop
    BY <2>1, <2>2 DEF End, EndInv, Ended
  <2>4. /\ \A m \in Node : m # n => phase'[m] = phase[m]
        /\ selfStop' = selfStop \/ (selfStop' = selfStop \cup {n} /\ phase'[n] = "selfStopping")
    BY <1>3, LeaveOthers DEF CancelArrives, SessionInv, procVars
  <2> QED BY <2>1, <2>2, <2>3, <2>4 DEF End, allVars
<1>4. ASSUME NEW n \in Node, CloseGenerator(n) \/ ProcessExits(n) \/ Kill(n)
      PROVE  End'
  <2>1. UNCHANGED <<allVars, lifeVars, phase, cancelReq, selfStop>>
    BY <1>4 DEF CloseGenerator, ProcessExits, Kill, taskVars, procVars
  <2> QED BY <2>1 DEF End, EndInv, allVars, lifeVars
<1>5. ASSUME NEW n \in Node, CreateTask(n) \/ StopTask(n)
      PROVE  FALSE
  BY <1>5 DEF CreateTask, StopTask, lifeVars, Ended
<1>6. ASSUME NEW s \in Stopper,
             StopAllTasks(s) \/ EnterStopAll(s) \/ NextVictim(s) \/ ReplaceTrees(s)
      PROVE  FALSE
  <2>1. life' = life
    BY <1>6 DEF StopAllTasks, EnterStopAll, NextVictim, ReplaceTrees, lifeVars
  <2>2. \/ life = "serving" \/ stopAll[s] \in {"waiting", "stopping"}
    BY <1>6 DEF StopAllTasks, EnterStopAll, NextVictim, ReplaceTrees
  <2> QED BY <2>1, <2>2 DEF EndInv, End, Ended
<1>7. ~Shutdown /\ ~ShutdownTimeout
  BY DEF Shutdown, ShutdownTimeout, lifeVars, Ended
<1>8. CASE LoopCloses
  BY <1>8 DEF LoopCloses, End, EndInv, Ended, taskVars, allVars
<1>9. CASE Exit
  BY <1>9 DEF Exit, End, EndInv, Ended, taskVars, allVars
<1>10. CASE UNCHANGED vars
  BY <1>10 DEF vars, End, EndInv, taskVars, procVars, allVars, lifeVars
<1> QED
  BY <1>1, <1>2, <1>3, <1>4, <1>5, <1>6, <1>7, <1>8, <1>9, <1>10, LoopEndsEnd DEF Next, TaskStep

-----------------------------------------------------------------------------
Inv ==
  /\ SessionInv /\ LockInv /\ ServeInv /\ EndInv
  /\ \A n \in Node : ProcInv(n)

(* Where each session, process and stop() is, and who waits for the lock,  *)
(* after any number of steps.                                              *)
THEOREM SessionsInvariant == Spec => []Inv
<1>1. Init => Inv
  <2> SUFFICES ASSUME Init PROVE Inv
    OBVIOUS
  <2>1. SessionInv
    BY DEF Init, SessionInv, NodeInv, Phase, Place
  <2>2. LockInv
    BY Actors DEF Init, LockInv
  <2>3. Serve
    <3>1. \A n \in Node : ~InQ(n, waiters)
      BY EmptyQ DEF Init
    <3>2. \A a, b : ~Before(a, b, waiters)
      BY EmptyQ DEF Init
    <3>3. waiters \in Seq(Actor)
      BY DEF Init
    <3>4. \A s \in Stopper : stopAll[s] = "off"
      BY DEF Init
    <3> QED BY <3>1, <3>2, <3>3, <3>4, Actors DEF Serve, Busy, Stopper
  <2>4. \A n \in Node : ProcInv(n)
    BY Actors DEF Init, ProcInv, BeingStopped
  <2>5. EndInv
    BY DEF Init, EndInv, Ended
  <2> QED BY <2>1, <2>2, <2>3, <2>4, <2>5 DEF Inv, ServeInv
<1>2. Inv /\ [Next]_vars => Inv'
  <2> SUFFICES ASSUME Inv, [Next]_vars PROVE Inv'
    OBVIOUS
  <2>1. SessionInv'
    <3>1. CASE UNCHANGED vars
      BY <3>1, NoNode DEF vars, taskVars, Inv
    <3> QED BY <3>1, TaskKeeps, NodeKeeps, ServerKeeps DEF Next, Inv
  <2>2. LockInv' /\ ServeInv' /\ EndInv' /\ \A n \in Node : ProcInv(n)'
    BY LockStep, ServeStep, EndStep, ProcStep DEF Inv
  <2> QED BY <2>1, <2>2 DEF Inv
<1> QED BY <1>1, <1>2, PTL DEF Spec

(* When the task of a node is over, the manager has no session of it,      *)
(* however it ended and whatever stop_all() did meanwhile, unless a second *)
(* cancellation cut its removal short (manager.py:102-117,                 *)
(* handler.py:633-644).                                                    *)
THEOREM DoneMeansReleased == Spec => []SessionsReleased
<1>1. Inv => SessionsReleased
  BY DEF Inv, SessionInv, NodeInv, SessionsReleased
<1> QED BY <1>1, SessionsInvariant, PTL

(* While the bot serves, a later stop_all() finds every living process     *)
(* whose self.process is set, or that process is being stopped, or its     *)
(* stop() was itself cancelled after SIGTERM (manager.py:89-144), or a     *)
(* stop_all() emptied the maps while the process was being spawned for a   *)
(* task that cancel_all() had passed by (queue_manager.py:240, 316).  The  *)
(* tasks that cancel_all() reaches leave nothing like that: whether they   *)
(* wait for the lock ahead of the stop_all() or await the spawning, the    *)
(* cancellation comes before they open a session or have a process.        *)
THEOREM ProcessesInReach == Spec => []EveryProcessInReach
<1>1. Inv => EveryProcessInReach
  BY DEF Inv, ProcInv, EveryProcessInReach, Stoppable
<1> QED BY <1>1, SessionsInvariant, PTL

(* The task of a node leaves no process behind (session.py:169), unless a  *)
(* second cancellation cut its removal short, or a stop_all() emptied the  *)
(* maps while the task, which cancel_all() had not reached, was starting   *)
(* it: then its own removal finds no session to stop.                      *)
THEOREM NothingLeftRunning == Spec => []NoOrphan
<1>1. Inv => NoOrphan
  BY DEF Inv, ProcInv, SessionInv, NodeInv, NoOrphan
<1> QED BY <1>1, SessionsInvariant, PTL

(* A process that outlives the server was given up by a cancelled stop(),  *)
(* was passed over by a stop_all() while it was being spawned, or belongs  *)
(* to a task created after the loop began to end                           *)
(* (process_registry.py:3, server.py:37).                                  *)
THEOREM ExitLeavesNothing == Spec => []ExitKills
<1>1. Inv => ExitKills
  <2> SUFFICES ASSUME Inv, life = "exited", NEW n \in Node, proc[n] = "alive", n \in awaited
               PROVE  n \in cut \cup missed
    BY DEF ExitKills
  <2>1. End /\ ProcInv(n) /\ NodeInv(n)
    BY DEF Inv, EndInv, Ended, SessionInv
  <2>2. phase[n] = "done"
    BY <2>1 DEF End
  <2>3. ~BeingStopped(n)
    BY <2>1, <2>2, Actors DEF End, BeingStopped
  <2> QED BY <2>1, <2>2, <2>3 DEF ProcInv, NodeInv
<1> QED BY <1>1, SessionsInvariant, PTL
=============================================================================
