-------------------------- MODULE TreeQueueProofs --------------------------
(***************************************************************************)
(* Theorems about TreeQueue for every set of messages, every set of        *)
(* commands and any number of them.                                        *)
(***************************************************************************)
EXTENDS TreeQueue, FiniteSetTheorems, SequenceTheorems, TLAPS

-----------------------------------------------------------------------------
(* Lemmas about the operators of TreeQueue.                                *)

(* A function on an initial interval is a sequence.                        *)
LEMMA IntervalFunctionIsSeq ==
  ASSUME NEW T, NEW n \in Nat, NEW r \in [1..n -> T]
  PROVE  r \in Seq(T) /\ Len(r) = n
  OBVIOUS

(* remove_if_present, for a set of nodes: what is left of the queue has    *)
(* only nodes that were in it and not in the set, and no duplicates if     *)
(* there were none.                                                        *)
LEMMA WithoutIsSubqueue ==
  ASSUME NEW q \in Seq(Node), NEW S, NEW r \in Without(q, S)
  PROVE  /\ r \in Seq(Node)
         /\ ToSet(r) = ToSet(q) \ S
         /\ \A i, j \in DOMAIN r : i < j => Precedes(q, r[i], r[j])
         /\ (\A i, j \in DOMAIN q : q[i] = q[j] => i = j)
              => (\A i, j \in DOMAIN r : r[i] = r[j] => i = j)
<1> DEFINE kept == ToSet(q) \ S
<1>1. DOMAIN q = 1..Len(q) /\ Len(q) \in Nat /\ \A i \in DOMAIN q : q[i] \in Node
  OBVIOUS
<1>2. kept \subseteq Node
  BY <1>1 DEF ToSet
<1>3. Cardinality(kept) \in Nat
  BY <1>2, NodeAssumption, FS_Subset, FS_CardinalityType
<1>4. r \in [1..Cardinality(kept) -> kept]
  BY DEF Without
<1>5. \A i, j \in DOMAIN r : i < j => Precedes(q, r[i], r[j])
  BY DEF Without
<1>6. r \in Seq(Node) /\ Len(r) = Cardinality(kept)
  <2> HIDE DEF kept
  <2>1. r \in Seq(kept) /\ Len(r) = Cardinality(kept)
    BY <1>3, <1>4, IntervalFunctionIsSeq
  <2> QED BY <1>2, <2>1, SeqMonotonic
<1>7. ToSet(r) = kept
  BY DEF Without
<1>8. ASSUME \A i, j \in DOMAIN q : q[i] = q[j] => i = j,
             NEW i \in DOMAIN r, NEW j \in DOMAIN r, r[i] = r[j]
      PROVE  i = j
  <2>1. i \in Nat /\ j \in Nat
    BY <1>3, <1>4
  <2>2. ~ Precedes(q, r[i], r[i])
    BY <1>1, <1>8 DEF Precedes
  <2> QED BY <1>5, <1>8, <2>1, <2>2
<1> QED BY <1>5, <1>6, <1>7, <1>8

(* Nothing can be taken out of an empty queue.                             *)
LEMMA WithoutOfEmpty ==
  ASSUME NEW q \in Seq(Node), NEW S, NEW r \in Without(q, S), q = <<>>
  PROVE  r = <<>>
<1> DEFINE kept == ToSet(q) \ S
<1>1. kept = {}
  BY DEF ToSet
<1>2. Cardinality(kept) = 0
  BY <1>1, FS_EmptySet
<1>3. r \in [1..0 -> kept]
  BY <1>2 DEF Without
<1> HIDE DEF kept
<1>4. r \in Seq(kept) /\ Len(r) = 0
  BY <1>3, IntervalFunctionIsSeq
<1> QED BY <1>4

(* Marked(S, s) gives the state s to the nodes of S.                       *)
LEMMA MarkedType ==
  ASSUME state \in [Node -> NodeState], NEW S, NEW s \in NodeState
  PROVE  Marked(S, s) \in [Node -> NodeState]
  BY DEF Marked

(* Cancelling a task never creates one.                                    *)
LEMMA CancelCurrentEffect ==
  ASSUME task \in [Node -> TaskPhase], currentTask \in Node, CancelCurrent
  PROVE  /\ task' \in [Node -> TaskPhase]
         /\ \A n \in Node : /\ task'[n] = "none" <=> task[n] = "none"
                            /\ task'[n] \in Live => task[n] \in Live
<1>1. \A phase \in TaskPhase :
        /\ Interrupted(phase) \in TaskPhase
        /\ Interrupted(phase) = "none" <=> phase = "none"
        /\ Interrupted(phase) \in Live => phase \in Live
  BY DEF Interrupted, TaskPhase, Live
<1>2. task' = [task EXCEPT ![currentTask] = Interrupted(task[currentTask])]
  BY DEF CancelCurrent
<1> QED BY <1>1, <1>2

(* _process_next: the queue loses its head, which alone may get a task.    *)
LEMMA ProcessNextEffect ==
  ASSUME queue \in Seq(Node), task \in [Node -> TaskPhase], currentTask \in Node,
         NEW n \in Node, ProcessNext(n)
  PROVE  /\ queue' \in Seq(Node)
         /\ isProcessing' \in BOOLEAN
         /\ currentNode' \in Node \cup {NoNode}
         /\ currentTask' \in Node
         /\ task' \in [Node -> TaskPhase]
         /\ ~isProcessing' => queue' = <<>>
<1>1. CASE queue = <<>>
  BY <1>1 DEF ProcessNext, TaskPhase
<1>2. CASE queue # <<>>
  <2>1. Head(queue) \in Node /\ Tail(queue) \in Seq(Node)
    BY <1>2, HeadTailProperties
  <2> QED BY <1>2, <2>1 DEF ProcessNext, TaskPhase
<1> QED BY <1>1, <1>2

-----------------------------------------------------------------------------
(* Type correctness.                                                       *)

(* Every step keeps the types.                                             *)
LEMMA TypeStep == TypeOK /\ [Next]_vars => TypeOK'
<1> SUFFICES ASSUME TypeOK, [Next]_vars PROVE TypeOK'
  OBVIOUS
<1> USE DEF handlerVars, historyVars, taskVars, treeVars
<1>1. ASSUME NEW n \in Node, TaskStep(n) PROVE TypeOK'
  <2>1. CASE TaskSkip(n)
    BY <2>1, ProcessNextEffect DEF TypeOK, TaskSkip
  <2>2. CASE TaskStart(n)
    <3>1. state' \in [Node -> NodeState]
      BY <2>2, MarkedType DEF TypeOK, TaskStart, NodeState
    <3>2. task' \in [Node -> TaskPhase]
      BY <2>2 DEF TypeOK, TaskStart, TaskPhase
    <3> QED BY <2>2, <3>1, <3>2 DEF TypeOK, TaskStart
  <2>3. CASE CliSessionInfo(n)
    BY <2>3, MarkedType DEF TypeOK, CliSessionInfo, NodeState
  <2>4. CASE CliError(n)
    BY <2>4, MarkedType DEF TypeOK, CliError, NodeState
  <2>5. CASE CliExit(n)
    BY <2>5, MarkedType DEF TypeOK, CliExit, TaskPhase, NodeState
  <2>6. CASE CliFail(n)
    <3>1. state' \in [Node -> NodeState]
      BY <2>6, MarkedType DEF TypeOK, CliFail, NodeState
    <3> QED BY <2>6, <3>1 DEF TypeOK, CliFail, TaskPhase
  <2>7. CASE CliRaise(n)
    BY <2>7, MarkedType DEF TypeOK, CliRaise, TaskPhase, NodeState
  <2>8. CASE AdriftEnd(n)
    BY <2>8 DEF TypeOK, AdriftEnd, TaskPhase
  <2>9. CASE TaskUnwound(n)
    BY <2>9, MarkedType DEF TypeOK, TaskUnwound, TaskPhase, NodeState
  <2>10. CASE TaskFinish(n)
    BY <2>10, ProcessNextEffect DEF TypeOK, TaskFinish
  <2> QED
    BY <1>1, <2>1, <2>2, <2>3, <2>4, <2>5, <2>6, <2>7, <2>8, <2>9, <2>10 DEF TaskStep
<1>2. ASSUME NEW n \in Node, ReplyStep(n) PROVE TypeOK'
  <2>1. ASSUME NEW p \in Node, ReceiveReply(n, p) PROVE TypeOK'
    BY <2>1 DEF TypeOK, ReceiveReply
  <2>2. CASE AddReply(n)
    <3>1. Append(arrivals, n) \in Seq(Node) /\ Append(queue, n) \in Seq(Node)
      BY DEF TypeOK
    <3> QED BY <2>2, <3>1 DEF TypeOK, AddReply, EnqueueAndStart, Start, TaskPhase
  <2>3. CASE DropReply(n)
    BY <2>3 DEF TypeOK, DropReply
  <2> QED BY <1>2, <2>1, <2>2, <2>3 DEF ReplyStep
<1>3. ASSUME CancelTree
      PROVE  /\ state' \in [Node -> NodeState] /\ task' \in [Node -> TaskPhase]
             /\ stopped' \subseteq Node /\ queue' \in Seq(Node)
             /\ isProcessing' \in BOOLEAN /\ currentNode' \in Node \cup {NoNode}
  <2>1. state' \in [Node -> NodeState]
    BY <1>3, MarkedType DEF TypeOK, CancelTree, NodeState
  <2>2. task' \in [Node -> TaskPhase]
    BY <1>3, CancelCurrentEffect DEF TypeOK, CancelTree
  <2>3. stopped' \subseteq Node
    BY <1>3 DEF TypeOK, CancelTree
  <2>4. <<>> \in Seq(Node)
    OBVIOUS
  <2> QED BY <1>3, <2>1, <2>2, <2>3, <2>4 DEF CancelTree
<1>4. ASSUME NEW command, Give(command) PROVE issued' \in 0..MaxCommands
  BY <1>4, CommandAssumption DEF TypeOK, Give
<1>5. ASSUME NEW n \in Node, CommandStep(n) PROVE TypeOK'
  <2>1. CASE StopTask(n)
    <3>1. task' \in [Node -> TaskPhase]
      BY <2>1, CancelCurrentEffect DEF TypeOK, StopTask
    <3>2. queue' \in Seq(Node)
      BY <2>1, WithoutIsSubqueue DEF TypeOK, StopTask
    <3> QED BY <1>4, <2>1, <3>1, <3>2, MarkedType DEF TypeOK, StopTask, NodeState
  <2>2. CASE ClearBranch(n)
    <3>1. task' \in [Node -> TaskPhase]
      BY <2>2, CancelCurrentEffect DEF TypeOK, ClearBranch
    <3>2. queue' \in Seq(Node)
      BY <2>2, WithoutIsSubqueue DEF TypeOK, ClearBranch
    <3>3. Subtree(n) \subseteq Node
      BY DEF TypeOK, Subtree
    <3> QED
      BY <1>4, <2>2, <3>1, <3>2, <3>3, MarkedType DEF TypeOK, ClearBranch, NodeState
  <2>3. CASE RemoveBranch(n)
    BY <1>3, <2>3 DEF TypeOK, RemoveBranch
  <2> QED BY <1>5, <2>1, <2>2, <2>3 DEF CommandStep
<1>6. CASE StopAll
  BY <1>3, <1>4, <1>6 DEF TypeOK, StopAll
<1>7. CASE ClearAll
  BY <1>3, <1>4, <1>7 DEF TypeOK, ClearAll
<1>8. CASE ReplaceManager
  BY <1>8 DEF TypeOK, ReplaceManager
<1>9. CASE UNCHANGED vars
  BY <1>9 DEF TypeOK, vars
<1> QED BY <1>1, <1>2, <1>5, <1>6, <1>7, <1>8, <1>9 DEF Next

(* Every variable keeps its type: in particular the current task is always *)
(* that of a node, and a node is always in one of the four states.         *)
THEOREM TypeCorrect == Spec => []TypeOK
<1>1. Init => TypeOK
  <2>1. <<>> \in Seq(Node) /\ <<Root>> \in Seq(Node)
    BY NodeAssumption
  <2>2. 0 \in 0..MaxCommands
    BY CommandAssumption
  <2> QED BY <2>1, <2>2, NodeAssumption DEF Init, TypeOK, NodeState, TaskPhase
<1> QED BY <1>1, TypeStep, PTL DEF Spec

-----------------------------------------------------------------------------
(* A free tree has an empty queue, whatever the users do.                  *)

(* Every step leaves a free tree's queue empty.                            *)
LEMMA IdleStep ==
  TypeOK /\ IdleMeansEmptyQueue /\ [Next]_vars => IdleMeansEmptyQueue'
<1> SUFFICES ASSUME TypeOK, IdleMeansEmptyQueue, [Next]_vars
             PROVE  IdleMeansEmptyQueue'
  OBVIOUS
<1> USE DEF handlerVars, historyVars, taskVars, treeVars
<1>1. CASE UNCHANGED <<isProcessing, queue>>
  BY <1>1 DEF IdleMeansEmptyQueue
<1>2. CASE CancelTree
  BY <1>2 DEF CancelTree, IdleMeansEmptyQueue
<1>3. ASSUME NEW n \in Node, TaskStep(n) PROVE IdleMeansEmptyQueue'
  <2>1. CASE ProcessNext(n)
    BY <2>1, ProcessNextEffect DEF TypeOK, IdleMeansEmptyQueue
  <2> QED
    BY <1>1, <1>3, <2>1
       DEF TaskStep, TaskSkip, TaskStart, CliSessionInfo, CliError, CliExit, CliFail,
           CliRaise, AdriftEnd, TaskUnwound, TaskFinish
<1>4. ASSUME NEW n \in Node, ReplyStep(n) PROVE IdleMeansEmptyQueue'
  <2>1. CASE AddReply(n)
    BY <2>1 DEF AddReply, EnqueueAndStart, Start, IdleMeansEmptyQueue
  <2> QED BY <1>1, <1>4, <2>1 DEF ReplyStep, ReceiveReply, DropReply
<1>5. ASSUME NEW n \in Node, CommandStep(n) PROVE IdleMeansEmptyQueue'
  <2>1. ASSUME NEW S, queue' \in Without(queue, S), UNCHANGED isProcessing
        PROVE  IdleMeansEmptyQueue'
    <3>1. queue = <<>> => queue' = <<>>
      <4>1. queue \in Seq(Node)
        BY DEF TypeOK
      <4> QED BY <2>1, <4>1, WithoutOfEmpty
    <3> QED BY <2>1, <3>1 DEF IdleMeansEmptyQueue
  <2> QED
    BY <1>1, <1>2, <1>5, <2>1 DEF CommandStep, StopTask, ClearBranch, RemoveBranch
<1> QED
  BY <1>1, <1>2, <1>3, <1>4, <1>5 DEF Next, StopAll, ClearAll, ReplaceManager, vars

(* enqueue_and_start never lets a reply overtake a queued one: a tree that *)
(* is marked free has nothing queued, also after cancellations.            *)
THEOREM IdleTreeHasEmptyQueue == Spec => []IdleMeansEmptyQueue
<1>1. Init => IdleMeansEmptyQueue
  BY DEF Init, IdleMeansEmptyQueue
<1> QED BY <1>1, IdleStep, TypeCorrect, PTL DEF Spec

-----------------------------------------------------------------------------
(* Nothing is queued twice, and nothing that is queued has had a task.     *)
(* That is inductive once it is known that a reply whose status message is *)
(* still being sent, and one that has not been received, has no task and   *)
(* is not queued.                                                          *)

Unseen(n) == n # Root /\ parent[n] = NoNode

DisciplineInv ==
  /\ \A i, j \in DOMAIN queue : queue[i] = queue[j] => i = j
  /\ \A n \in Queued : task[n] = "none" /\ n \notin inflight
  /\ \A n \in inflight : task[n] = "none" /\ parent[n] # NoNode
  /\ \A n \in Node : Unseen(n) => task[n] = "none" /\ n \notin Queued
  /\ task[Root] # "none"

(* What a step may do to the queue without adding to it.                   *)
QueueShrinks ==
  /\ queue' \in Seq(Node)
  /\ ToSet(queue') \subseteq Queued
  /\ (\A i, j \in DOMAIN queue : queue[i] = queue[j] => i = j)
       => (\A i, j \in DOMAIN queue' : queue'[i] = queue'[j] => i = j)

(* remove_if_present lets the queue shrink.                                *)
LEMMA WithoutShrinks ==
  ASSUME queue \in Seq(Node), NEW S, queue' \in Without(queue, S)
  PROVE  QueueShrinks
  BY WithoutIsSubqueue DEF QueueShrinks, Queued

(* drain_queue_and_mark_cancelled lets the queue shrink.                   *)
LEMMA EmptyingShrinks ==
  ASSUME queue' = <<>> PROVE QueueShrinks
  BY DEF QueueShrinks, ToSet

(* dequeue takes out the head, which does not stay in the queue as well.   *)
LEMMA TailShrinks ==
  ASSUME queue \in Seq(Node), queue # <<>>, queue' = Tail(queue)
  PROVE  /\ QueueShrinks
         /\ Head(queue) \in Queued
         /\ (\A i, j \in DOMAIN queue : queue[i] = queue[j] => i = j)
              => Head(queue) \notin ToSet(queue')
<1>1. /\ Tail(queue) \in Seq(Node) /\ Len(Tail(queue)) = Len(queue) - 1
      /\ \A i \in 1..Len(Tail(queue)) : Tail(queue)[i] = queue[i+1]
  BY HeadTailProperties
<1>2. /\ DOMAIN queue = 1..Len(queue) /\ Len(queue) \in Nat /\ Len(queue) > 0
      /\ DOMAIN Tail(queue) = 1..(Len(queue) - 1)
  BY <1>1, LenProperties, EmptySeq
<1>3. \A i \in DOMAIN queue' : /\ i + 1 \in DOMAIN queue /\ queue'[i] = queue[i+1]
                               /\ i \in Nat
  BY <1>1, <1>2
<1>4. 1 \in DOMAIN queue /\ Head(queue) = queue[1]
  BY <1>2
<1>5. ToSet(queue') \subseteq Queued /\ Head(queue) \in Queued
  BY <1>3, <1>4 DEF Queued, ToSet
<1>6. ASSUME \A i, j \in DOMAIN queue : queue[i] = queue[j] => i = j
      PROVE  /\ \A i, j \in DOMAIN queue' : queue'[i] = queue'[j] => i = j
             /\ Head(queue) \notin ToSet(queue')
  <2>1. \A i, j \in DOMAIN queue' : queue'[i] = queue'[j] => i = j
    BY <1>3, <1>6
  <2>2. ASSUME NEW i \in DOMAIN queue', queue'[i] = Head(queue) PROVE FALSE
    <3>1. i + 1 \in DOMAIN queue /\ queue[i+1] = queue[1] /\ i \in Nat
      BY <1>3, <1>4, <2>2
    <3>2. i + 1 = 1 /\ i \in DOMAIN Tail(queue)
      BY <1>4, <1>6, <3>1
    <3> QED BY <1>2, <3>1, <3>2
  <2> QED BY <2>1, <2>2 DEF ToSet
<1> QED BY <1>1, <1>5, <1>6 DEF QueueShrinks

(* enqueue adds one element.                                               *)
LEMMA AppendEffect ==
  ASSUME NEW q \in Seq(Node), NEW n \in Node
  PROVE  ToSet(Append(q, n)) = ToSet(q) \cup {n}
<1>1. /\ DOMAIN q = 1..Len(q) /\ DOMAIN Append(q, n) = 1..(Len(q) + 1) /\ Len(q) \in Nat
      /\ \A i \in 1..Len(q) : Append(q, n)[i] = q[i]
      /\ Append(q, n)[Len(q) + 1] = n
  BY AppendProperties
<1>2. \A i \in 1..(Len(q) + 1) : i \in 1..Len(q) \/ i = Len(q) + 1
  BY <1>1
<1>3. Len(q) + 1 \in 1..(Len(q) + 1) /\ 1..Len(q) \subseteq 1..(Len(q) + 1)
  BY <1>1
<1> QED BY <1>1, <1>2, <1>3 DEF ToSet

(* Steps that only let the queue shrink and create no task.                *)
LEMMA DisciplineKept ==
  ASSUME TypeOK, DisciplineInv, QueueShrinks,
         UNCHANGED parent, inflight' \subseteq inflight,
         \A n \in Node : task'[n] = "none" <=> task[n] = "none"
  PROVE  DisciplineInv'
<1>1. \A n \in ToSet(queue)' : n \in Queued /\ n \in Node
  <2>1. Queued \subseteq Node
    BY DEF Queued, TypeOK, ToSet
  <2>2. ToSet(queue)' = ToSet(queue')
    BY DEF ToSet
  <2> QED BY <2>1, <2>2 DEF QueueShrinks
<1>2. Queued' = ToSet(queue)'
  BY DEF Queued
<1> QED
  BY <1>1, <1>2, NodeAssumption DEF DisciplineInv, QueueShrinks, TypeOK, Unseen

(* _process_next gives a task to a node that had none and is queued no more.*)
LEMMA ProcessNextDiscipline ==
  ASSUME TypeOK, DisciplineInv, NEW n \in Node, task[n] # "none", ProcessNext(n),
         UNCHANGED <<parent, inflight>>
  PROVE  DisciplineInv'
<1>1. CASE queue = <<>>
  <2>1. QueueShrinks
    BY <1>1, EmptyingShrinks DEF ProcessNext
  <2>2. \A m \in Node : task'[m] = "none" <=> task[m] = "none"
    BY <1>1 DEF ProcessNext, TypeOK
  <2> QED BY <2>1, <2>2, DisciplineKept
<1>2. CASE queue # <<>>
  <2>1. queue' = Tail(queue) /\ queue \in Seq(Node)
    BY <1>2 DEF ProcessNext, TypeOK
  <2>2. /\ QueueShrinks /\ Head(queue) \in Queued
        /\ Head(queue) \notin ToSet(queue')
    BY <1>2, <2>1, TailShrinks DEF DisciplineInv
  <2>3. Queued' \subseteq Queued \ {Head(queue)}
    BY <2>2 DEF QueueShrinks, Queued
  <2>4. Queued \subseteq Node
    BY <2>1 DEF Queued, ToSet
  <2>5. \A m \in Node \ {Head(queue)} : task'[m] = "none" <=> task[m] = "none"
    BY <1>2, <2>2 DEF ProcessNext, TypeOK
  <2>6. task'[Root] # "none"
    BY <1>2, <2>2, <2>5, NodeAssumption DEF DisciplineInv
  <2> QED
    BY <2>2, <2>3, <2>4, <2>5, <2>6, NodeAssumption
       DEF DisciplineInv, QueueShrinks, TypeOK, Unseen
<1> QED BY <1>1, <1>2

(* Every step keeps DisciplineInv.                                         *)
LEMMA DisciplineStep == TypeOK /\ DisciplineInv /\ [Next]_vars => DisciplineInv'
<1> SUFFICES ASSUME TypeOK, DisciplineInv, [Next]_vars PROVE DisciplineInv'
  OBVIOUS
<1> USE DEF handlerVars, historyVars, taskVars, treeVars
<1> DEFINE NoTaskCreated == \A n \in Node : task'[n] = "none" <=> task[n] = "none"
<1>1. UNCHANGED queue => QueueShrinks
  BY DEF QueueShrinks, Queued, TypeOK
<1>2. UNCHANGED task => NoTaskCreated
  OBVIOUS
<1>3. CancelCurrent => NoTaskCreated
  BY CancelCurrentEffect DEF TypeOK
<1>4. CancelTree => QueueShrinks /\ NoTaskCreated
  BY <1>3, EmptyingShrinks DEF CancelTree
<1>5. ASSUME NEW n \in Node, TaskStep(n) PROVE DisciplineInv'
  <2>1. CASE TaskSkip(n) \/ TaskFinish(n)
    BY <2>1, ProcessNextDiscipline DEF TaskSkip, TaskFinish
  <2>2. CASE ~(TaskSkip(n) \/ TaskFinish(n))
    <3>1. /\ UNCHANGED <<queue, parent, inflight>>
          /\ task[n] # "none"
          /\ UNCHANGED task \/ \E phase \in TaskPhase \ {"none"} :
                                  task' = [task EXCEPT ![n] = phase]
      BY <1>5, <2>2
         DEF TaskStep, TaskStart, CliSessionInfo, CliError, CliExit, CliFail, CliRaise,
             AdriftEnd, TaskUnwound, TaskPhase
    <3>2. NoTaskCreated
      BY <3>1 DEF TypeOK
    <3> QED BY <1>1, <3>1, <3>2, DisciplineKept
  <2> QED BY <2>1, <2>2
<1>6. ASSUME NEW n \in Node, ReplyStep(n) PROVE DisciplineInv'
  <2>1. ASSUME NEW p \in Node, ReceiveReply(n, p) PROVE DisciplineInv'
    <3>1. Unseen(n) /\ p # NoNode
      BY <2>1, NodeAssumption DEF ReceiveReply, Unseen
    <3>2. Queued \subseteq Node /\ Queued' = Queued
      BY <2>1 DEF ReceiveReply, TypeOK, Queued, ToSet
    <3> QED
      BY <2>1, <3>1, <3>2 DEF ReceiveReply, DisciplineInv, TypeOK, Unseen
  <2>2. CASE AddReply(n)
    <3>1. n \in inflight /\ task[n] = "none" /\ parent[n] # NoNode /\ n \notin Queued
      BY <2>2 DEF AddReply, DisciplineInv
    <3>2. n # Root
      BY <3>1 DEF DisciplineInv
    <3>3. CASE isProcessing
      <4>1. queue' = Append(queue, n) /\ UNCHANGED <<task, parent>>
            /\ inflight' = inflight \ {n}
        BY <2>2, <3>3 DEF AddReply, EnqueueAndStart
      <4>2. Queued' = Queued \cup {n}
        BY <4>1, AppendEffect DEF TypeOK, Queued
      <4>3. \A i, j \in DOMAIN queue' : queue'[i] = queue'[j] => i = j
        BY <3>1, <4>1 DEF TypeOK, DisciplineInv, Queued, ToSet
      <4> QED
        BY <3>1, <3>2, <4>1, <4>2, <4>3 DEF DisciplineInv, Unseen
    <3>4. CASE ~isProcessing
      <4>1. /\ task' = [task EXCEPT ![n] = "ready"] /\ UNCHANGED <<queue, parent>>
            /\ inflight' = inflight \ {n}
        BY <2>2, <3>4 DEF AddReply, EnqueueAndStart, Start
      <4>2. Queued' = Queued /\ Queued \subseteq Node
        BY <4>1 DEF TypeOK, Queued, ToSet
      <4> QED
        BY <3>1, <3>2, <4>1, <4>2 DEF DisciplineInv, Unseen, TypeOK
    <3> QED BY <3>3, <3>4
  <2>3. CASE DropReply(n)
    BY <1>1, <2>3, DisciplineKept DEF DropReply
  <2> QED BY <1>6, <2>1, <2>2, <2>3 DEF ReplyStep
<1>7. ASSUME NEW n \in Node, CommandStep(n) PROVE DisciplineInv'
  <2>1. CASE StopTask(n)
    <3>1. QueueShrinks
      BY <2>1, WithoutShrinks DEF StopTask, TypeOK
    <3>2. NoTaskCreated
      BY <1>2, <1>3, <2>1 DEF StopTask
    <3> QED BY <2>1, <3>1, <3>2, DisciplineKept DEF StopTask
  <2>2. CASE ClearBranch(n)
    <3>1. QueueShrinks
      BY <2>2, WithoutShrinks DEF ClearBranch, TypeOK
    <3>2. NoTaskCreated
      BY <1>2, <1>3, <2>2 DEF ClearBranch
    <3> QED BY <2>2, <3>1, <3>2, DisciplineKept DEF ClearBranch
  <2>3. CASE RemoveBranch(n)
    <3>1. QueueShrinks /\ NoTaskCreated
      BY <1>1, <1>2, <1>4, <2>3 DEF RemoveBranch
    <3> QED BY <2>3, <3>1, DisciplineKept DEF RemoveBranch
  <2> QED BY <1>7, <2>1, <2>2, <2>3 DEF CommandStep
<1>8. CASE StopAll
  BY <1>4, <1>8, DisciplineKept DEF StopAll
<1>9. CASE ClearAll
  BY <1>4, <1>9, DisciplineKept DEF ClearAll
<1>10. CASE ReplaceManager
  BY <1>1, <1>2, <1>10, DisciplineKept DEF ReplaceManager
<1>11. CASE UNCHANGED vars
  BY <1>1, <1>2, <1>11, DisciplineKept DEF vars
<1> QED BY <1>5, <1>6, <1>7, <1>8, <1>9, <1>10, <1>11 DEF Next

(* DisciplineInv is an invariant.                                          *)
LEMMA DisciplineInvariant == Spec => []DisciplineInv
<1>1. Init => DisciplineInv
  <2> SUFFICES ASSUME Init PROVE DisciplineInv
    OBVIOUS
  <2>1. Queued = {}
    BY DEF Init, Queued, ToSet
  <2> QED BY <2>1, NodeAssumption DEF Init, DisciplineInv, Unseen
<1> QED BY <1>1, DisciplineStep, TypeCorrect, PTL DEF Spec

(* A message is queued at most once and a queued message has never been    *)
(* run: no message of a conversation is processed twice.                   *)
THEOREM QueuedOnceAndNotYetRun == Spec => []QueueDiscipline
<1>1. DisciplineInv => QueueDiscipline
  BY DEF DisciplineInv, QueueDiscipline
<1> QED BY <1>1, DisciplineInvariant, PTL

-----------------------------------------------------------------------------
(* One task at a time, if no command stops everything.  Inductive with:    *)
(* while the tree can still be replied to, a live task marks it as busy.   *)

BusyWhileLive == inRepo => \A n \in Node : task[n] \in Live => isProcessing

SerialInv == AtMostOneTask /\ BusyWhileLive

(* Steps after which no other node is live than before.                    *)
LEMMA SerialKept ==
  ASSUME SerialInv,
         \A n \in Node : task'[n] \in Live => task[n] \in Live,
         inRepo' => UNCHANGED <<inRepo, isProcessing>>
  PROVE  SerialInv'
  BY DEF SerialInv, AtMostOneTask, BusyWhileLive

(* _process_next replaces the one live task by at most one other.          *)
LEMMA ProcessNextSerial ==
  ASSUME TypeOK, SerialInv, NEW n \in Node, task[n] \in Live, ProcessNext(n),
         UNCHANGED inRepo
  PROVE  SerialInv'
<1>1. \A m \in Node : task[m] \in Live => m = n
  BY DEF SerialInv, AtMostOneTask
<1>2. CASE queue = <<>>
  <2>1. \A m \in Node : task'[m] \notin Live
    BY <1>1, <1>2 DEF ProcessNext, TypeOK, Live
  <2> QED BY <2>1 DEF SerialInv, AtMostOneTask, BusyWhileLive
<1>3. CASE queue # <<>>
  <2>1. Head(queue) \in Node
    BY <1>3, HeadTailProperties DEF TypeOK
  <2>2. \A m \in Node : task'[m] \in Live => m = Head(queue)
    BY <1>1, <1>3, <2>1 DEF ProcessNext, TypeOK, Live
  <2>3. isProcessing'
    BY <1>3 DEF ProcessNext
  <2> QED BY <2>2, <2>3 DEF SerialInv, AtMostOneTask, BusyWhileLive
<1> QED BY <1>2, <1>3

(* Every step but those that stop everything keeps SerialInv.              *)
LEMMA SerialStep ==
  ASSUME "stop_all" \notin Commands, "clear_all" \notin Commands
  PROVE  TypeOK /\ SerialInv /\ [Next]_vars => SerialInv'
<1> SUFFICES ASSUME TypeOK, SerialInv, [Next]_vars PROVE SerialInv'
  OBVIOUS
<1> USE DEF handlerVars, historyVars, taskVars, treeVars
<1> DEFINE NoneComesAlive == \A n \in Node : task'[n] \in Live => task[n] \in Live
<1>1. UNCHANGED task => NoneComesAlive
  OBVIOUS
<1>2. CancelCurrent => NoneComesAlive
  BY CancelCurrentEffect DEF TypeOK
<1>3. ASSUME NEW n \in Node, TaskStep(n) PROVE SerialInv'
  <2>1. CASE TaskSkip(n) \/ TaskFinish(n)
    BY <2>1, ProcessNextSerial DEF TaskSkip, TaskFinish, Live
  <2>2. CASE ~(TaskSkip(n) \/ TaskFinish(n))
    <3>1. /\ UNCHANGED <<inRepo, isProcessing>>
          /\ task[n] \in Live
          /\ UNCHANGED task \/ \E phase \in TaskPhase :
                                  task' = [task EXCEPT ![n] = phase]
      BY <1>3, <2>2
         DEF TaskStep, TaskStart, CliSessionInfo, CliError, CliExit, CliFail, CliRaise,
             AdriftEnd, TaskUnwound, TaskPhase, Live
    <3>2. NoneComesAlive
      BY <3>1 DEF TypeOK
    <3> QED BY <3>1, <3>2, SerialKept
  <2> QED BY <2>1, <2>2
<1>4. ASSUME NEW n \in Node, ReplyStep(n) PROVE SerialInv'
  <2>1. CASE AddReply(n) /\ ~isProcessing
    <3>1. \A m \in Node : task[m] \notin Live
      BY <2>1 DEF AddReply, Registered, SerialInv, BusyWhileLive
    <3>2. isProcessing' /\ task' = [task EXCEPT ![n] = "ready"]
      BY <2>1 DEF AddReply, EnqueueAndStart, Start
    <3>3. \A m \in Node : task'[m] \in Live => m = n
      BY <3>1, <3>2 DEF TypeOK
    <3> QED BY <3>2, <3>3 DEF SerialInv, AtMostOneTask, BusyWhileLive
  <2>2. CASE AddReply(n) /\ isProcessing
    BY <1>1, <2>2, SerialKept DEF AddReply, EnqueueAndStart
  <2> QED
    BY <1>1, <1>4, <2>1, <2>2, SerialKept DEF ReplyStep, ReceiveReply, DropReply
<1>5. ASSUME NEW n \in Node, CommandStep(n) PROVE SerialInv'
  <2>1. NoneComesAlive
    BY <1>1, <1>2, <1>5
       DEF CommandStep, StopTask, ClearBranch, RemoveBranch, CancelTree
  <2>2. inRepo' => UNCHANGED <<inRepo, isProcessing>>
    BY <1>5 DEF CommandStep, StopTask, ClearBranch, RemoveBranch
  <2> QED BY <2>1, <2>2, SerialKept
<1>6. ~StopAll /\ ~ClearAll
  BY DEF StopAll, ClearAll, Give
<1>7. CASE ReplaceManager
  BY <1>1, <1>7, SerialKept DEF ReplaceManager
<1>8. CASE UNCHANGED vars
  BY <1>1, <1>8, SerialKept DEF vars
<1> QED BY <1>3, <1>4, <1>5, <1>6, <1>7, <1>8 DEF Next

(* As long as nobody stops everything, at most one node of a conversation  *)
(* has a task, however replies, failures, "/stop" and "/clear" of single   *)
(* messages interleave.                                                    *)
THEOREM OneTaskUnlessAllStopped ==
  ASSUME "stop_all" \notin Commands, "clear_all" \notin Commands
  PROVE  Spec => []AtMostOneTask
<1>1. Init => SerialInv
  BY DEF Init, SerialInv, AtMostOneTask, BusyWhileLive, Live
<1>2. TypeOK /\ SerialInv /\ [Next]_vars => SerialInv'
  BY SerialStep
<1>3. SerialInv => AtMostOneTask
  BY DEF SerialInv
<1> QED BY <1>1, <1>2, <1>3, TypeCorrect, PTL DEF Spec

-----------------------------------------------------------------------------
(* What is cancelled stays cancelled, if no command stops everything: the  *)
(* task that may still report something is the one the tree knows as its   *)
(* current one, and it is cancelled with its node.                         *)

CurrentInv ==
  \A n \in Node : task[n] \in {"ready", "running", "adrift"} => currentNode = n /\ currentTask = n

StoppedInv == \A n \in stopped : n \in Node /\ state[n] = "error" /\ task[n] # "running"

CancelInv == CurrentInv /\ StoppedInv

(* Steps that start no task and cancel no node.                            *)
LEMMA CancelKept ==
  ASSUME CancelInv, UNCHANGED <<currentNode, currentTask, stopped>>,
         \A n \in Node : \/ task'[n] = task[n]
                         \/ task'[n] \notin {"ready", "running", "adrift"},
         \A n \in stopped : state'[n] = state[n] \/ state'[n] = "error"
  PROVE  CancelInv'
  BY DEF CancelInv, CurrentInv, StoppedInv

(* _process_next leaves at most one task that may report, the current one. *)
LEMMA ProcessNextCancel ==
  ASSUME TypeOK, SerialInv, CancelInv, NEW n \in Node, task[n] \in Live, ProcessNext(n),
         UNCHANGED <<state, stopped>>
  PROVE  CancelInv'
<1>1. \A m \in Node : task[m] \in Live => m = n
  BY DEF SerialInv, AtMostOneTask
<1>2. CASE queue = <<>> \/ Head(queue) \notin nodes
  <2>1. task' = [task EXCEPT ![n] = "done"]
    BY <1>2 DEF ProcessNext
  <2>2. \A m \in Node : task'[m] \notin {"ready", "running", "adrift"}
    BY <1>1, <2>1 DEF TypeOK, Live
  <2> QED BY <2>2 DEF CancelInv, CurrentInv, StoppedInv
<1>3. CASE queue # <<>> /\ Head(queue) \in nodes
  <2> DEFINE h == Head(queue)
  <2>1. h \in Node /\ currentNode' = h /\ currentTask' = h
        /\ task' = [task EXCEPT ![n] = "done", ![h] = "ready"]
    BY <1>3 DEF ProcessNext, TypeOK
  <2> HIDE DEF h
  <2>2. \A m \in Node : m # h => task'[m] \notin {"ready", "running", "adrift"}
    BY <1>1, <2>1 DEF TypeOK, Live
  <2>3. task'[h] = "ready"
    BY <2>1 DEF TypeOK
  <2>4. \A m \in Node : task'[m] # "running"
    BY <2>2, <2>3
  <2> QED BY <2>1, <2>2, <2>4 DEF CancelInv, CurrentInv, StoppedInv
<1> QED BY <1>2, <1>3

(* A command that cancels the current task if it cancels its node.         *)
LEMMA CommandCancel ==
  ASSUME TypeOK, CancelInv, NEW hit \in SUBSET Node,
         state' = Marked(hit, "error"), stopped' = stopped \cup hit,
         \/ CancelCurrent
         \/ currentNode \notin hit /\ UNCHANGED <<task, currentNode, currentTask>>,
         \/ UNCHANGED <<currentNode, currentTask>>
         \/ CancelCurrent
  PROVE  CancelInv'
<1>1. \A n \in stopped' : n \in Node /\ state'[n] = "error"
  BY DEF CancelInv, StoppedInv, Marked, TypeOK
<1>2. CASE CancelCurrent
  <2>1. \A n \in Node : task[n] \in {"ready", "running", "adrift"} => n = currentTask
    BY DEF CancelInv, CurrentInv
  <2>2. \A n \in Node : n # currentTask => task'[n] = task[n]
    BY <1>2 DEF CancelCurrent, TypeOK
  <2>3. task'[currentTask] = Interrupted(task[currentTask])
    BY <1>2 DEF CancelCurrent, TypeOK
  <2>4. task'[currentTask] \notin {"ready", "running", "adrift"}
    BY <2>3 DEF Interrupted
  <2>5. \A n \in Node : task'[n] \notin {"ready", "running", "adrift"}
    BY <2>1, <2>2, <2>4
  <2> QED BY <1>1, <2>5 DEF CancelInv, CurrentInv, StoppedInv
<1>3. CASE currentNode \notin hit /\ UNCHANGED <<task, currentNode, currentTask>>
  BY <1>1, <1>3 DEF CancelInv, CurrentInv, StoppedInv
<1> QED BY <1>2, <1>3

LEMMA CancelStep ==
  ASSUME "stop_all" \notin Commands, "clear_all" \notin Commands
  PROVE  TypeOK /\ SerialInv /\ CancelInv /\ [Next]_vars => CancelInv'
<1> SUFFICES ASSUME TypeOK, SerialInv, CancelInv, [Next]_vars PROVE CancelInv'
  OBVIOUS
<1> USE DEF handlerVars, historyVars, taskVars, treeVars
<1>1. ASSUME NEW n \in Node, TaskStep(n) PROVE CancelInv'
  <2>1. CASE TaskSkip(n) \/ TaskFinish(n)
    BY <2>1, ProcessNextCancel DEF TaskSkip, TaskFinish, Live
  <2>2. CASE TaskStart(n)
    <3>1. n \notin stopped /\ currentNode = n /\ currentTask = n
      BY <2>2 DEF TaskStart, CancelInv, CurrentInv, StoppedInv
    <3>2. UNCHANGED <<currentNode, currentTask, stopped>>
          /\ \E phase \in TaskPhase : task' = [task EXCEPT ![n] = phase]
      BY <2>2 DEF TaskStart, TaskPhase
    <3>3. \A m \in Node \ {n} : task'[m] = task[m] /\ state'[m] = state[m]
      BY <2>2, <3>2 DEF TaskStart, Marked, TypeOK
    <3> QED BY <3>1, <3>2, <3>3 DEF CancelInv, CurrentInv, StoppedInv
  <2>3. CASE AdriftEnd(n)
    BY <2>3, CancelKept DEF AdriftEnd, TypeOK
  <2>4. CASE CliSessionInfo(n) \/ CliError(n) \/ CliExit(n) \/ CliFail(n) \/ CliRaise(n)
             \/ TaskUnwound(n)
    <3>1. /\ UNCHANGED <<currentNode, currentTask, stopped>>
          /\ UNCHANGED task \/ task' = [task EXCEPT ![n] = "closing"]
      BY <2>4 DEF CliSessionInfo, CliError, CliExit, CliFail, CliRaise, TaskUnwound
    <3>2. \A m \in Node : m # n \/ TaskUnwound(n) => state'[m] = state[m] \/ state'[m] = "error"
      BY <2>4 DEF CliSessionInfo, CliError, CliExit, CliFail, CliRaise, TaskUnwound, Marked
    <3>3. n \notin stopped \/ TaskUnwound(n)
      BY <2>4 DEF CliSessionInfo, CliError, CliExit, CliFail, CliRaise, CancelInv, StoppedInv
    <3>4. \A m \in stopped : state'[m] = state[m] \/ state'[m] = "error"
      BY <3>2, <3>3 DEF TypeOK
    <3> QED BY <3>1, <3>4, CancelKept DEF TypeOK
  <2> QED BY <1>1, <2>1, <2>2, <2>3, <2>4 DEF TaskStep
<1>2. ASSUME NEW n \in Node, ReplyStep(n) PROVE CancelInv'
  <2>1. CASE AddReply(n) /\ ~isProcessing
    <3>1. \A m \in Node : task[m] \notin Live
      BY <2>1 DEF AddReply, Registered, SerialInv, BusyWhileLive
    <3>2. currentNode' = n /\ currentTask' = n /\ task' = [task EXCEPT ![n] = "ready"]
          /\ UNCHANGED <<state, stopped>>
      BY <2>1 DEF AddReply, EnqueueAndStart, Start
    <3>3. \A m \in Node : task'[m] # "running"
                          /\ (m # n => task'[m] \notin {"ready", "running", "adrift"})
      BY <3>1, <3>2 DEF TypeOK, Live
    <3> QED BY <3>2, <3>3 DEF CancelInv, CurrentInv, StoppedInv
  <2>2. CASE AddReply(n) /\ isProcessing
    BY <2>2, CancelKept DEF AddReply, EnqueueAndStart
  <2> QED
    BY <1>2, <2>1, <2>2, CancelKept DEF ReplyStep, ReceiveReply, DropReply
<1>3. ASSUME NEW n \in Node, CommandStep(n) PROVE CancelInv'
  <2>1. CASE StopTask(n)
    BY <2>1, CommandCancel DEF StopTask
  <2>2. CASE ClearBranch(n)
    <3> DEFINE hit == {m \in Subtree(n) : state[m] \notin Terminal}
    <3>1. hit \in SUBSET Node
      BY DEF Subtree, TypeOK
    <3>2. /\ state' = Marked(hit, "error") /\ stopped' = stopped \cup hit
          /\ IF currentNode \in hit THEN CancelCurrent ELSE UNCHANGED task
          /\ UNCHANGED <<currentNode, currentTask>>
      BY <2>2 DEF ClearBranch
    <3> HIDE DEF hit
    <3> QED BY <3>1, <3>2, CommandCancel
  <2>3. CASE RemoveBranch(n)
    <3>1. CASE CancelTree
      <4>1. {m \in nodes : m \in Queued \/ state[m] \notin Terminal} \in SUBSET Node
        BY DEF TypeOK
      <4> QED BY <3>1, <4>1, CommandCancel DEF CancelTree
    <3>2. CASE ~CancelTree
      BY <2>3, <3>2, CancelKept DEF RemoveBranch
    <3> QED BY <3>1, <3>2
  <2> QED BY <1>3, <2>1, <2>2, <2>3 DEF CommandStep
<1>4. ~StopAll /\ ~ClearAll
  BY DEF StopAll, ClearAll, Give
<1>5. CASE ReplaceManager
  BY <1>5, CancelKept DEF ReplaceManager
<1>6. CASE UNCHANGED vars
  BY <1>6, CancelKept DEF vars
<1> QED BY <1>1, <1>2, <1>3, <1>4, <1>5, <1>6 DEF Next

(* As long as nobody stops everything, a node a user has cancelled never   *)
(* becomes in progress or completed again, whatever its CLI still reports  *)
(* (handler.py:388, handler.py:427).                                       *)
THEOREM CancelledForGood ==
  ASSUME "stop_all" \notin Commands, "clear_all" \notin Commands
  PROVE  Spec => []CancelledStaysCancelled
<1>1. Init => SerialInv /\ CancelInv
  BY DEF Init, SerialInv, AtMostOneTask, BusyWhileLive, Live, CancelInv, CurrentInv, StoppedInv
<1>2. TypeOK /\ SerialInv /\ CancelInv /\ [Next]_vars => SerialInv' /\ CancelInv'
  BY SerialStep, CancelStep
<1>3. CancelInv => CancelledStaysCancelled
  BY DEF CancelInv, StoppedInv, CancelledStaysCancelled
<1> QED BY <1>1, <1>2, <1>3, TypeCorrect, PTL DEF Spec

-----------------------------------------------------------------------------
(* A reply never runs beside its parent.  A node is not its own parent,    *)
(* because a message is replied to after it was given a parent itself.     *)

ParentInv ==
  /\ \A n \in Node : parent[n] # n
  /\ \A n \in nodes \cup inflight : n # Root => parent[n] # NoNode

LEMMA ParentStep == TypeOK /\ ParentInv /\ [Next]_vars => ParentInv'
<1> SUFFICES ASSUME TypeOK, ParentInv, [Next]_vars PROVE ParentInv'
  OBVIOUS
<1> USE DEF handlerVars, historyVars, taskVars, treeVars
<1>1. CASE UNCHANGED parent /\ nodes' \cup inflight' \subseteq nodes \cup inflight
  BY <1>1 DEF ParentInv
<1>2. ASSUME NEW n \in Node, TaskStep(n) PROVE UNCHANGED <<parent, nodes, inflight>>
  BY <1>2 DEF TaskStep, TaskSkip, TaskStart, CliSessionInfo, CliError, CliExit, CliFail,
              CliRaise, AdriftEnd, TaskUnwound, TaskFinish
<1>3. ASSUME NEW n \in Node, NEW p \in Node, ReceiveReply(n, p) PROVE ParentInv'
  <2>1. p \in nodes /\ n # Root /\ parent[n] = NoNode /\ p # NoNode
    BY <1>3, NodeAssumption DEF ReceiveReply, Registered
  <2>2. p # n
    BY <2>1 DEF ParentInv
  <2>3. parent' = [parent EXCEPT ![n] = p] /\ nodes' = nodes /\ inflight' = inflight \cup {n}
    BY <1>3 DEF ReceiveReply
  <2> QED BY <2>1, <2>2, <2>3 DEF ParentInv, TypeOK
<1>4. ASSUME NEW n \in Node, AddReply(n) \/ DropReply(n)
      PROVE  UNCHANGED parent /\ nodes' \cup inflight' \subseteq nodes \cup inflight
  BY <1>4 DEF AddReply, DropReply
<1>5. ASSUME NEW n \in Node, CommandStep(n)
      PROVE  UNCHANGED parent /\ nodes' \cup inflight' \subseteq nodes \cup inflight
  BY <1>5 DEF CommandStep, StopTask, ClearBranch, RemoveBranch
<1>6. CASE StopAll \/ ClearAll \/ ReplaceManager \/ UNCHANGED vars
  BY <1>1, <1>6 DEF StopAll, ClearAll, ReplaceManager, vars
<1> QED BY <1>1, <1>2, <1>3, <1>4, <1>5, <1>6 DEF Next, ReplyStep

(* As long as nobody stops everything, a reply forks its parent's CLI      *)
(* session only when the parent's task is over (handler.py:482-486).       *)
THEOREM ParentIsOver ==
  ASSUME "stop_all" \notin Commands, "clear_all" \notin Commands
  PROVE  Spec => []ParentEndsFirst
<1>1. Init => SerialInv /\ ParentInv
  BY NodeAssumption
     DEF Init, SerialInv, AtMostOneTask, BusyWhileLive, Live, ParentInv
<1>2. TypeOK /\ SerialInv /\ ParentInv /\ [Next]_vars => SerialInv' /\ ParentInv'
  BY SerialStep, ParentStep
<1>3. TypeOK /\ SerialInv /\ ParentInv => ParentEndsFirst
  BY DEF TypeOK, SerialInv, AtMostOneTask, ParentInv, ParentEndsFirst, Live
<1> QED BY <1>1, <1>2, <1>3, TypeCorrect, PTL DEF Spec

-----------------------------------------------------------------------------
(* Replies are run in the order in which they were enqueued.  The queue is *)
(* in arrival order, and whatever has arrived and has no task is queued,   *)
(* failed or removed.                                                      *)

Arrived == ToSet(arrivals)

Waived(a) == state[a] = "error" \/ a \notin nodes

NotArrived(n) == n \in inflight \/ Unseen(n)

OrderInv ==
  /\ \A i, j \in DOMAIN arrivals : arrivals[i] = arrivals[j] => i = j
  /\ Queued \subseteq Arrived
  /\ \A i, j \in DOMAIN queue : i < j => Precedes(arrivals, queue[i], queue[j])
  /\ \A n \in Node : NotArrived(n) => n \notin Arrived
  /\ \A a \in Arrived : task[a] = "none" => a \in Queued \/ Waived(a)
  /\ StartedInOrder

(* What leaves the queue is waived, and the rest keeps its order.          *)
QueueKeepsOrder ==
  /\ Queued' \subseteq Queued
  /\ \A a \in Queued : a \in Queued' \/ Waived(a)'
  /\ \A i, j \in DOMAIN queue' : i < j => Precedes(queue, queue'[i], queue'[j])

WaiversStay == \A a \in Node : task[a] = "none" /\ Waived(a) => Waived(a)'

(* What is ahead in the queue arrived before.                              *)
LEMMA PrecedesInArrivals ==
  ASSUME TypeOK, OrderInv, NEW a, NEW b, Precedes(queue, a, b)
  PROVE  Precedes(arrivals, a, b)
<1>1. PICK i, j \in DOMAIN queue : i < j /\ queue[i] = a /\ queue[j] = b
  BY DEF Precedes
<1> QED BY <1>1 DEF OrderInv

(* Arriving before is asymmetric, since nothing arrives twice.             *)
LEMMA NotBothWays ==
  ASSUME TypeOK, OrderInv, NEW a, NEW b, Precedes(arrivals, a, b)
  PROVE  ~Precedes(arrivals, b, a)
<1>1. DOMAIN arrivals \subseteq Nat
  BY DEF TypeOK
<1> QED BY <1>1 DEF OrderInv, Precedes

(* Steps that enqueue nothing and give no node its task.                   *)
LEMMA OrderKept ==
  ASSUME TypeOK, OrderInv, QueueKeepsOrder, WaiversStay, UNCHANGED arrivals,
         \A n \in Node : task'[n] = "none" <=> task[n] = "none",
         \A n \in Node : NotArrived(n)' => NotArrived(n)
  PROVE  OrderInv'
<1>1. Arrived' = Arrived /\ Arrived \subseteq Node
  BY DEF Arrived, ToSet, TypeOK
<1>2. \A i, j \in DOMAIN queue' : i < j => Precedes(arrivals, queue'[i], queue'[j])
  BY PrecedesInArrivals DEF QueueKeepsOrder
<1>3. \A a, b : Precedes(arrivals, a, b)' <=> Precedes(arrivals, a, b)
  BY DEF Precedes
<1>4. \A a \in Arrived : task'[a] = "none" => a \in Queued' \/ Waived(a)'
  BY <1>1 DEF OrderInv, QueueKeepsOrder, WaiversStay
<1>5. \A i \in DOMAIN arrivals : arrivals[i] \in Arrived
  BY DEF Arrived, ToSet
<1>6. StartedInOrder'
  <2> SUFFICES ASSUME NEW i \in DOMAIN arrivals, NEW j \in DOMAIN arrivals, i < j,
                      task'[arrivals[j]] # "none", task'[arrivals[i]] = "none"
               PROVE  Waived(arrivals[i])'
    BY DEF StartedInOrder, Waived
  <2>1. /\ arrivals[i] \in Node /\ arrivals[j] \in Node
        /\ task[arrivals[j]] # "none" /\ task[arrivals[i]] = "none"
    BY <1>1, <1>5
  <2>2. Waived(arrivals[i])
    BY <2>1 DEF OrderInv, StartedInOrder, Waived
  <2>3. Waived(arrivals[i])' <=> (state'[arrivals[i]] = "error" \/ arrivals[i] \notin nodes')
    BY DEF Waived
  <2> QED BY <2>1, <2>2, <2>3 DEF WaiversStay, Waived
<1>7. \A i, j \in DOMAIN arrivals' : arrivals'[i] = arrivals'[j] => i = j
  BY DEF OrderInv
<1>8. Queued' \subseteq Arrived'
  BY <1>1 DEF OrderInv, QueueKeepsOrder
<1>9. \A n \in Node : NotArrived(n)' => n \notin Arrived'
  BY <1>1 DEF OrderInv
<1> QED
  BY <1>1, <1>2, <1>3, <1>4, <1>6, <1>7, <1>8, <1>9 DEF OrderInv

(* The head of the queue is the first to arrive of what is to be run.      *)
LEMMA ProcessNextOrder ==
  ASSUME TypeOK, DisciplineInv, OrderInv, NEW n \in Node, task[n] # "none",
         ProcessNext(n), UNCHANGED <<arrivals, inflight, parent, state, nodes>>
  PROVE  OrderInv'
<1>1. WaiversStay /\ \A m : NotArrived(m)' <=> NotArrived(m)
  BY DEF WaiversStay, Waived, NotArrived, Unseen
<1>2. CASE queue = <<>>
  <2>1. Queued = {} /\ Queued' = {}
    BY <1>2 DEF ProcessNext, Queued, ToSet
  <2>2. QueueKeepsOrder
    BY <1>2, <2>1 DEF QueueKeepsOrder, ProcessNext
  <2>3. \A m \in Node : task'[m] = "none" <=> task[m] = "none"
    BY <1>2 DEF ProcessNext, TypeOK
  <2> QED BY <1>1, <2>2, <2>3, OrderKept
<1>3. CASE queue # <<>>
  <2> DEFINE h == Head(queue)
  <2>1. /\ queue' = Tail(queue) /\ Tail(queue) \in Seq(Node)
        /\ Len(Tail(queue)) = Len(queue) - 1 /\ h \in Node
        /\ \A i \in 1..Len(Tail(queue)) : Tail(queue)[i] = queue[i+1]
    BY <1>3, HeadTailProperties DEF ProcessNext, TypeOK
  <2>2. /\ DOMAIN queue = 1..Len(queue) /\ Len(queue) \in Nat /\ Len(queue) > 0
        /\ DOMAIN queue' = 1..(Len(queue) - 1)
    BY <1>3, <2>1, LenProperties, EmptySeq DEF TypeOK
  <2>3. \A i \in DOMAIN queue' : /\ i \in Nat /\ i + 1 \in DOMAIN queue
                                 /\ queue'[i] = queue[i+1]
    BY <2>1, <2>2
  <2>4. 1 \in DOMAIN queue /\ h = queue[1]
    BY <2>2
  <2>5. \A a \in Queued : a = h \/ a \in Queued'
    <3> SUFFICES ASSUME NEW k \in DOMAIN queue, queue[k] # h PROVE queue[k] \in Queued'
      BY DEF Queued, ToSet
    <3>1. k - 1 \in DOMAIN queue' /\ (k - 1) + 1 = k
      BY <2>2, <2>4
    <3> QED BY <2>3, <3>1 DEF Queued, ToSet
  <2>6. Queued' \subseteq Queued /\ h \in Queued
    BY <2>3, <2>4 DEF Queued, ToSet
  <2>7. \A a \in Queued' : Precedes(arrivals, h, a)
    <3> SUFFICES ASSUME NEW k \in DOMAIN queue' PROVE Precedes(arrivals, h, queue'[k])
      BY DEF Queued, ToSet
    <3>1. k \in Nat /\ k + 1 \in DOMAIN queue /\ queue'[k] = queue[k+1] /\ 1 < k + 1
      BY <2>2, <2>3
    <3> QED BY <2>4, <3>1 DEF OrderInv
  <2>8. \A i, j \in DOMAIN queue' : i < j => Precedes(arrivals, queue'[i], queue'[j])
    <3> SUFFICES ASSUME NEW i \in DOMAIN queue', NEW j \in DOMAIN queue', i < j
                 PROVE  Precedes(arrivals, queue'[i], queue'[j])
      OBVIOUS
    <3>1. i + 1 < j + 1 /\ i + 1 \in DOMAIN queue /\ j + 1 \in DOMAIN queue
      BY <2>3
    <3> QED BY <2>3, <3>1 DEF OrderInv
  <2>9. /\ \A m \in Node \ {h} : task'[m] = "none" <=> task[m] = "none"
        /\ task'[h] = "none" => h \notin nodes
        /\ task[h] = "none"
    BY <1>3, <2>1, <2>6 DEF ProcessNext, TypeOK, DisciplineInv
  <2>10. Arrived' = Arrived /\ Arrived \subseteq Node
    BY DEF Arrived, ToSet, TypeOK
  <2>11. \A i \in DOMAIN arrivals : arrivals[i] \in Arrived
    BY DEF Arrived, ToSet
  <2>12. \A a \in Arrived : task'[a] = "none" => a \in Queued' \/ Waived(a)'
    BY <2>5, <2>9, <2>10 DEF OrderInv, Waived
  <2>13. StartedInOrder'
    <3> SUFFICES ASSUME NEW i \in DOMAIN arrivals, NEW j \in DOMAIN arrivals, i < j,
                        task'[arrivals[j]] # "none", task'[arrivals[i]] = "none"
                 PROVE  Waived(arrivals[i])'
      BY DEF StartedInOrder, Waived
    <3>1. arrivals[i] \in Node /\ arrivals[j] \in Node
      BY <2>10, <2>11
    <3>2. CASE arrivals[j] = h
      <4>1. arrivals[i] \notin Queued'
        BY <2>7, <3>2, NotBothWays DEF Precedes
      <4> QED BY <2>11, <2>12, <4>1
    <3>3. CASE arrivals[j] # h
      <4>1. task[arrivals[j]] # "none"
        BY <2>9, <3>1, <3>3
      <4>2. task[arrivals[i]] = "none"
        BY <2>9, <3>1
      <4>3. Waived(arrivals[i])
        BY <4>1, <4>2 DEF OrderInv, StartedInOrder, Waived
      <4> QED BY <4>3 DEF Waived
    <3> QED BY <3>2, <3>3
  <2>14. \A a, b : Precedes(arrivals, a, b)' <=> Precedes(arrivals, a, b)
    BY DEF Precedes
  <2> HIDE DEF h
  <2> QED
    BY <1>1, <2>6, <2>8, <2>10, <2>12, <2>13, <2>14 DEF OrderInv
<1> QED BY <1>2, <1>3

(* enqueue puts the new element after all others and keeps their order.    *)
LEMMA AppendOrder ==
  ASSUME NEW q \in Seq(Node), NEW n \in Node
  PROVE  /\ \A a, b : Precedes(q, a, b) => Precedes(Append(q, n), a, b)
         /\ \A a \in ToSet(q) : Precedes(Append(q, n), a, n)
         /\ \A i, j \in DOMAIN Append(q, n) : i < j =>
              /\ i \in DOMAIN q /\ Append(q, n)[i] = q[i]
              /\ \/ j \in DOMAIN q /\ Append(q, n)[j] = q[j]
                 \/ Append(q, n)[j] = n
<1>1. /\ DOMAIN q = 1..Len(q) /\ DOMAIN Append(q, n) = 1..(Len(q) + 1) /\ Len(q) \in Nat
      /\ \A i \in 1..Len(q) : Append(q, n)[i] = q[i]
      /\ Append(q, n)[Len(q) + 1] = n
  BY AppendProperties
<1>2. \A i \in DOMAIN q : /\ i \in DOMAIN Append(q, n) /\ Append(q, n)[i] = q[i]
                          /\ i < Len(q) + 1
  BY <1>1
<1>3. Len(q) + 1 \in DOMAIN Append(q, n)
  BY <1>1
<1>4. \A a, b : Precedes(q, a, b) => Precedes(Append(q, n), a, b)
  BY <1>2 DEF Precedes
<1>5. \A a \in ToSet(q) : Precedes(Append(q, n), a, n)
  BY <1>1, <1>2, <1>3 DEF Precedes, ToSet
<1>6. \A i, j \in DOMAIN Append(q, n) : i < j =>
        /\ i \in DOMAIN q /\ Append(q, n)[i] = q[i]
        /\ \/ j \in DOMAIN q /\ Append(q, n)[j] = q[j]
           \/ Append(q, n)[j] = n
  BY <1>1
<1> QED BY <1>4, <1>5, <1>6

(* A reply enters the tree: it is the last to arrive, and nothing is       *)
(* waiting if it is started at once.                                       *)
LEMMA AddReplyOrder ==
  ASSUME TypeOK, DisciplineInv, IdleMeansEmptyQueue, OrderInv, NEW n \in Node,
         AddReply(n)
  PROVE  OrderInv'
<1> USE DEF taskVars
<1>1. /\ arrivals' = Append(arrivals, n) /\ nodes' = nodes \cup {n}
      /\ inflight' = inflight \ {n} /\ UNCHANGED <<parent, state>>
      /\ n \in inflight /\ task[n] = "none" /\ parent[n] # NoNode
  BY DEF AddReply, DisciplineInv
<1>2. n \notin Arrived /\ arrivals \in Seq(Node)
  BY <1>1 DEF OrderInv, NotArrived, TypeOK
<1>3. Arrived' = Arrived \cup {n} /\ Arrived \subseteq Node
  <2>1. ToSet(Append(arrivals, n)) = ToSet(arrivals) \cup {n}
    BY <1>2, AppendEffect
  <2>2. Arrived' = ToSet(Append(arrivals, n))
    BY <1>1 DEF Arrived
  <2>3. Arrived \subseteq Node
    BY <1>2 DEF Arrived, ToSet
  <2> QED BY <2>1, <2>2, <2>3 DEF Arrived
<1>4. \A i, j \in DOMAIN arrivals' : i < j =>
        /\ i \in DOMAIN arrivals /\ arrivals'[i] = arrivals[i] /\ arrivals[i] \in Arrived
        /\ \/ /\ j \in DOMAIN arrivals /\ arrivals'[j] = arrivals[j]
              /\ arrivals[j] \in Arrived
           \/ arrivals'[j] = n
  BY <1>1, <1>2, AppendOrder DEF Arrived, ToSet
<1>5. \A i, j \in DOMAIN arrivals' : arrivals'[i] = arrivals'[j] => i = j
  <2>1. DOMAIN arrivals' \subseteq Nat
    BY <1>1, <1>2
  <2>2. \A i, j \in DOMAIN arrivals' : i < j => arrivals'[i] # arrivals'[j]
    <3> SUFFICES ASSUME NEW i \in DOMAIN arrivals', NEW j \in DOMAIN arrivals', i < j
                 PROVE  arrivals'[i] # arrivals'[j]
      OBVIOUS
    <3>1. i # j
      BY <2>1
    <3> QED BY <1>2, <1>4, <3>1 DEF OrderInv
  <2> QED BY <2>1, <2>2
<1>6. /\ \A a, b : Precedes(arrivals, a, b) => Precedes(arrivals', a, b)
      /\ \A a \in Arrived : Precedes(arrivals', a, n)
  BY <1>1, <1>2, AppendOrder DEF Arrived
<1>7. \A m \in Node : NotArrived(m)' => m \notin Arrived'
  BY <1>1, <1>3 DEF NotArrived, Unseen, OrderInv
<1>8. \A a \in Arrived : Waived(a)' <=> Waived(a)
  BY <1>1, <1>2 DEF Waived
<1>9. \A a, b : Precedes(arrivals, a, b)' <=> Precedes(arrivals', a, b)
  BY DEF Precedes
<1>10. CASE isProcessing
  <2>1. queue' = Append(queue, n) /\ UNCHANGED task
    BY <1>10 DEF AddReply, EnqueueAndStart
  <2>2. Queued' = Queued \cup {n}
    BY <2>1, AppendEffect DEF TypeOK, Queued
  <2>3. \A i, j \in DOMAIN queue' : i < j => Precedes(arrivals', queue'[i], queue'[j])
    <3>1. \A i, j \in DOMAIN queue' : i < j =>
            /\ i \in DOMAIN queue /\ queue'[i] = queue[i] /\ queue[i] \in Queued
            /\ \/ j \in DOMAIN queue /\ queue'[j] = queue[j]
               \/ queue'[j] = n
      BY <2>1, AppendOrder DEF TypeOK, Queued, ToSet
    <3> QED BY <1>6, <3>1 DEF OrderInv
  <2>4. \A a \in Arrived' : task'[a] = "none" => a \in Queued' \/ Waived(a)'
    BY <1>3, <1>8, <2>1, <2>2 DEF OrderInv
  <2>5. StartedInOrder'
    <3> SUFFICES ASSUME NEW i \in DOMAIN arrivals', NEW j \in DOMAIN arrivals', i < j,
                        task'[arrivals'[j]] # "none", task'[arrivals'[i]] = "none"
                 PROVE  state'[arrivals'[i]] = "error" \/ arrivals'[i] \notin nodes'
      BY DEF StartedInOrder
    <3>1. /\ i \in DOMAIN arrivals /\ arrivals'[i] = arrivals[i] /\ arrivals[i] \in Arrived
          /\ j \in DOMAIN arrivals /\ arrivals'[j] = arrivals[j]
      BY <1>1, <1>4, <2>1
    <3>2. Waived(arrivals[i])
      BY <2>1, <3>1 DEF OrderInv, StartedInOrder, Waived
    <3> QED BY <1>1, <1>2, <3>1, <3>2 DEF Waived
  <2> QED
    BY <1>3, <1>5, <1>7, <1>9, <2>2, <2>3, <2>4, <2>5 DEF OrderInv
<1>11. CASE ~isProcessing
  <2>1. task' = [task EXCEPT ![n] = "ready"] /\ UNCHANGED queue /\ queue = <<>>
    BY <1>11 DEF AddReply, EnqueueAndStart, Start, IdleMeansEmptyQueue
  <2>2. Queued = {} /\ Queued' = {} /\ DOMAIN queue' = {}
    BY <2>1 DEF Queued, ToSet
  <2>3. \A a \in Arrived : task[a] = "none" => Waived(a)
    BY <2>2 DEF OrderInv
  <2>4. /\ task'[n] # "none"
        /\ \A a \in Arrived : task'[a] = "none" <=> task[a] = "none"
    BY <1>2, <1>3, <2>1 DEF TypeOK
  <2>5. \A a \in Arrived' : task'[a] = "none" => Waived(a)'
    BY <1>3, <1>8, <2>3, <2>4
  <2>6. StartedInOrder'
    <3> SUFFICES ASSUME NEW i \in DOMAIN arrivals', NEW j \in DOMAIN arrivals', i < j,
                        task'[arrivals'[i]] = "none"
                 PROVE  state'[arrivals'[i]] = "error" \/ arrivals'[i] \notin nodes'
      BY DEF StartedInOrder
    <3>1. arrivals'[i] = arrivals[i] /\ arrivals[i] \in Arrived
      BY <1>4
    <3>2. Waived(arrivals[i])
      BY <2>3, <2>4, <3>1
    <3> QED BY <1>1, <1>2, <3>1, <3>2 DEF Waived
  <2> QED
    BY <1>3, <1>5, <1>7, <2>2, <2>5, <2>6 DEF OrderInv
<1> QED BY <1>10, <1>11

(* The ways in which a step leaves the queue in order.                     *)
LEMMA QueueUnchanged ==
  ASSUME UNCHANGED queue
  PROVE  QueueKeepsOrder
<1>1. Queued' = Queued
  BY DEF Queued
<1> QED BY <1>1 DEF QueueKeepsOrder, Precedes

(* Draining the queue keeps the order if all that was queued is waived.    *)
LEMMA QueueEmptied ==
  ASSUME queue' = <<>>, \A a \in Queued : Waived(a)'
  PROVE  QueueKeepsOrder
<1>1. Queued' = {} /\ DOMAIN queue' = {}
  BY DEF Queued, ToSet
<1> QED BY <1>1 DEF QueueKeepsOrder

(* Taking waived nodes out of the queue keeps the order of the rest.       *)
LEMMA QueueWithout ==
  ASSUME TypeOK, NEW S, queue' \in Without(queue, S), \A a \in S : Waived(a)'
  PROVE  QueueKeepsOrder
<1>1. /\ ToSet(queue') = ToSet(queue) \ S
      /\ \A i, j \in DOMAIN queue' : i < j => Precedes(queue, queue'[i], queue'[j])
  BY WithoutIsSubqueue DEF TypeOK
<1>2. Queued' = Queued \ S
  BY <1>1 DEF Queued
<1> QED BY <1>1, <1>2 DEF QueueKeepsOrder

(* Every step keeps OrderInv.                                              *)
LEMMA OrderStep ==
  TypeOK /\ DisciplineInv /\ IdleMeansEmptyQueue /\ OrderInv /\ [Next]_vars => OrderInv'
<1> SUFFICES ASSUME TypeOK, DisciplineInv, IdleMeansEmptyQueue, OrderInv, [Next]_vars
             PROVE  OrderInv'
  OBVIOUS
<1> USE DEF handlerVars, historyVars, taskVars, treeVars
<1> DEFINE NoTaskCreated == \A n \in Node : task'[n] = "none" <=> task[n] = "none"
           NoneAnew == \A n \in Node : NotArrived(n)' => NotArrived(n)
<1>1. UNCHANGED task => NoTaskCreated
  OBVIOUS
<1>2. CancelCurrent => NoTaskCreated
  BY CancelCurrentEffect DEF TypeOK
<1>3. UNCHANGED parent /\ inflight' \subseteq inflight => NoneAnew
  BY DEF NotArrived, Unseen
<1>4. ASSUME NEW S, state' = Marked(S, "error"), nodes' \subseteq nodes
      PROVE  WaiversStay /\ \A a \in S \cap Node : Waived(a)'
  BY <1>4 DEF WaiversStay, Waived, Marked, TypeOK
<1>5. UNCHANGED state /\ nodes' \subseteq nodes => WaiversStay
  BY DEF WaiversStay, Waived
<1>6. ASSUME CancelTree, UNCHANGED nodes
      PROVE  QueueKeepsOrder /\ WaiversStay /\ NoTaskCreated
  <2>1. PICK S : /\ state' = Marked(S, "error")
                 /\ \A a \in Queued : a \in S \/ a \notin nodes
    BY <1>6 DEF CancelTree
  <2>2. Queued \subseteq Node
    BY DEF TypeOK, Queued, ToSet
  <2>3. \A a \in Queued : Waived(a)'
    BY <1>4, <1>6, <2>1, <2>2 DEF Waived
  <2> QED BY <1>2, <1>4, <1>6, <2>1, <2>3, QueueEmptied DEF CancelTree
<1>7. ASSUME NEW n \in Node, TaskStep(n) PROVE OrderInv'
  <2>1. CASE TaskSkip(n) \/ TaskFinish(n)
    BY <2>1, ProcessNextOrder DEF TaskSkip, TaskFinish
  <2>2. CASE ~(TaskSkip(n) \/ TaskFinish(n))
    <3>1. /\ UNCHANGED <<nodes, queue, parent, inflight, arrivals>>
          /\ task[n] # "none"
          /\ UNCHANGED task \/ \E phase \in TaskPhase \ {"none"} :
                                  task' = [task EXCEPT ![n] = phase]
      BY <1>7, <2>2
         DEF TaskStep, TaskStart, CliSessionInfo, CliError, CliExit, CliFail, CliRaise,
             AdriftEnd, TaskUnwound, TaskPhase
    <3>2. \A a \in Node \ {n} : state'[a] = "error" <=> 
                                  (state[a] = "error" \/ state'[a] = "error")
      BY <1>7, <2>2
         DEF TaskStep, TaskStart, CliSessionInfo, CliError, CliExit, CliFail, CliRaise,
             AdriftEnd, TaskUnwound, Marked
    <3>3. WaiversStay
      BY <3>1, <3>2 DEF WaiversStay, Waived
    <3>4. NoTaskCreated
      BY <3>1 DEF TypeOK
    <3> QED BY <1>3, <3>1, <3>3, <3>4, QueueUnchanged, OrderKept
  <2> QED BY <2>1, <2>2
<1>8. ASSUME NEW n \in Node, ReplyStep(n) PROVE OrderInv'
  <2>1. ASSUME NEW p \in Node, ReceiveReply(n, p) PROVE OrderInv'
    <3>1. NoneAnew
      BY <2>1 DEF ReceiveReply, NotArrived, Unseen, TypeOK
    <3> QED BY <1>1, <1>5, <2>1, <3>1, QueueUnchanged, OrderKept DEF ReceiveReply
  <2>2. CASE DropReply(n)
    BY <1>1, <1>3, <1>5, <2>2, QueueUnchanged, OrderKept DEF DropReply
  <2> QED BY <1>8, <2>1, <2>2, AddReplyOrder DEF ReplyStep
<1>9. ASSUME NEW n \in Node, CommandStep(n) PROVE OrderInv'
  <2>1. CASE StopTask(n)
    <3>1. WaiversStay /\ \A a \in {n} : Waived(a)'
      BY <1>4, <2>1 DEF StopTask
    <3>2. QueueKeepsOrder
      BY <2>1, <3>1, QueueWithout DEF StopTask
    <3>3. NoTaskCreated
      BY <1>1, <1>2, <2>1 DEF StopTask
    <3> QED BY <1>3, <2>1, <3>1, <3>2, <3>3, OrderKept DEF StopTask
  <2>2. CASE ClearBranch(n)
    <3> DEFINE hit == {m \in Subtree(n) : state[m] \notin Terminal}
    <3>1. hit \subseteq Node
      BY DEF Subtree, TypeOK
    <3>2. state' = Marked(hit, "error") /\ queue' \in Without(queue, hit \ {currentNode})
      BY <2>2 DEF ClearBranch
    <3> HIDE DEF hit
    <3>3. WaiversStay /\ \A a \in hit : Waived(a)'
      BY <1>4, <2>2, <3>1, <3>2 DEF ClearBranch
    <3>4. QueueKeepsOrder
      BY <3>2, <3>3, QueueWithout
    <3>5. NoTaskCreated
      BY <1>1, <1>2, <2>2 DEF ClearBranch
    <3> QED BY <1>3, <2>2, <3>3, <3>4, <3>5, OrderKept DEF ClearBranch
  <2>3. CASE RemoveBranch(n)
    <3>1. QueueKeepsOrder /\ WaiversStay /\ NoTaskCreated
      BY <1>1, <1>5, <1>6, <2>3, QueueUnchanged DEF RemoveBranch
    <3> QED BY <1>3, <2>3, <3>1, OrderKept DEF RemoveBranch
  <2> QED BY <1>9, <2>1, <2>2, <2>3 DEF CommandStep
<1>10. CASE StopAll
  BY <1>3, <1>6, <1>10, OrderKept DEF StopAll
<1>11. CASE ClearAll
  BY <1>3, <1>6, <1>11, OrderKept DEF ClearAll
<1>12. CASE ReplaceManager
  BY <1>1, <1>3, <1>5, <1>12, QueueUnchanged, OrderKept DEF ReplaceManager
<1>13. CASE UNCHANGED vars
  BY <1>1, <1>3, <1>5, <1>13, QueueUnchanged, OrderKept DEF vars
<1> QED BY <1>7, <1>8, <1>9, <1>10, <1>11, <1>12, <1>13 DEF Next

(* The first message alone is in order.                                    *)
LEMMA InitOrder == Init => OrderInv
<1> SUFFICES ASSUME Init PROVE OrderInv
  OBVIOUS
<1>1. Queued = {} /\ DOMAIN queue = {}
  BY DEF Init, Queued, ToSet
<1>2. DOMAIN arrivals = {1} /\ arrivals[1] = Root /\ Arrived = {Root}
  BY DEF Init, Arrived, ToSet
<1>3. task[Root] # "none" /\ inflight = {}
  BY NodeAssumption DEF Init
<1> QED BY <1>1, <1>2, <1>3 DEF OrderInv, StartedInOrder, NotArrived, Unseen

(* Replies are run in the order in which they were enqueued, for any       *)
(* number of replies and whatever is stopped, cleared or failing meanwhile.*)
THEOREM StartedInArrivalOrder == Spec => []StartedInOrder
<1>1. OrderInv => StartedInOrder
  BY DEF OrderInv
<1> QED
  BY <1>1, InitOrder, OrderStep, TypeCorrect, IdleTreeHasEmptyQueue, DisciplineInvariant,
     PTL DEF Spec

-----------------------------------------------------------------------------
(* Who looks at the queue of a busy tree, and that what has not arrived is *)
(* untouched.                                                              *)

AttendedInv == BusyTreeIsAttended /\ (isProcessing => currentNode \in Arrived)

FreshInv ==
  /\ nodes \subseteq Arrived
  /\ \A n \in Node \ Arrived : state[n] = "pending" /\ task[n] = "none"

PlaceInv == AttendedInv /\ FreshInv

(* A task that lives, or died before its first step, goes on like that.    *)
Lasting == \A n \in Node : /\ task[n] \in Live \cup {"dead"} => task'[n] \in Live \cup {"dead"}
                           /\ task[n] = "none" => task'[n] = "none"

(* What has not arrived is left alone.                                     *)
FreshLeft == \A n \in Node \ Arrived : state'[n] = state[n]

(* Steps that start no node and let none arrive.                           *)
LEMMA PlaceKept ==
  ASSUME PlaceInv, Lasting, FreshLeft, nodes' \subseteq nodes, UNCHANGED arrivals,
         isProcessing' => UNCHANGED <<isProcessing, currentNode>>
  PROVE  PlaceInv'
<1>1. Arrived' = Arrived
  BY DEF Arrived
<1>2. AttendedInv'
  BY <1>1 DEF PlaceInv, AttendedInv, BusyTreeIsAttended, Lasting
<1>3. FreshInv'
  BY <1>1 DEF PlaceInv, FreshInv, Lasting, FreshLeft
<1> QED BY <1>2, <1>3 DEF PlaceInv

(* Cancelling a task lets it live, or kills it before its first step.      *)
LEMMA CancelLasting ==
  ASSUME TypeOK, CancelCurrent PROVE Lasting
<1>1. task' = [task EXCEPT ![currentTask] = Interrupted(task[currentTask])]
  BY DEF CancelCurrent
<1>2. \A phase \in TaskPhase :
        /\ phase \in Live \cup {"dead"} => Interrupted(phase) \in Live \cup {"dead"}
        /\ phase = "none" => Interrupted(phase) = "none"
  BY DEF Interrupted, TaskPhase, Live
<1> QED BY <1>1, <1>2 DEF TypeOK, Lasting

(* _process_next frees the tree, starts the head of the queue, or finds    *)
(* that it has left the tree.                                              *)
LEMMA ProcessNextPlace ==
  ASSUME TypeOK, DisciplineInv, OrderInv, PlaceInv, NEW n \in Node, task[n] \in Live,
         ProcessNext(n), UNCHANGED <<nodes, arrivals, state>>
  PROVE  PlaceInv'
<1>1. Arrived' = Arrived /\ n \in Arrived
  BY DEF Arrived, PlaceInv, FreshInv, Live
<1>2. CASE queue = <<>>
  <2>1. ~isProcessing' /\ task' = [task EXCEPT ![n] = "done"]
    BY <1>2 DEF ProcessNext
  <2> QED BY <1>1, <2>1 DEF PlaceInv, AttendedInv, BusyTreeIsAttended, FreshInv
<1>3. CASE queue # <<>>
  <2> DEFINE h == Head(queue)
  <2>1. h \in Queued
    BY <1>3, TailShrinks DEF ProcessNext, TypeOK
  <2>2. h \in Node /\ h \in Arrived /\ task[h] = "none" /\ h # n
    BY <2>1 DEF TypeOK, DisciplineInv, OrderInv, Queued, ToSet, Live
  <2>3. isProcessing' /\ currentNode' = h
    BY <1>3 DEF ProcessNext
  <2>4. \/ h \in nodes /\ task' = [task EXCEPT ![n] = "done", ![h] = "ready"]
        \/ h \notin nodes /\ task' = [task EXCEPT ![n] = "done"]
    BY <1>3 DEF ProcessNext
  <2> HIDE DEF h
  <2>5. \/ task'[h] \in Live
        \/ h \in Node \ nodes /\ task'[h] = "none"
    BY <2>2, <2>4 DEF TypeOK, Live
  <2>6. \A m \in Node \ Arrived : task'[m] = task[m]
    BY <1>1, <2>2, <2>4 DEF TypeOK
  <2> QED
    BY <1>1, <2>2, <2>3, <2>5, <2>6 DEF PlaceInv, AttendedInv, BusyTreeIsAttended, FreshInv
<1> QED BY <1>2, <1>3

(* A reply is the newest message of the tree; on a free tree it is started.*)
LEMMA AddReplyPlace ==
  ASSUME TypeOK, DisciplineInv, OrderInv, PlaceInv, NEW n \in Node, AddReply(n)
  PROVE  PlaceInv'
<1>1. n \in inflight /\ n \notin Arrived /\ task[n] = "none" /\ nodes' = nodes \cup {n}
      /\ UNCHANGED state
  BY DEF AddReply, OrderInv, NotArrived, DisciplineInv
<1>2. Arrived' = Arrived \cup {n}
  <2>1. arrivals' = Append(arrivals, n) /\ arrivals \in Seq(Node)
    BY DEF AddReply, TypeOK
  <2>2. Arrived' = ToSet(Append(arrivals, n))
    BY <2>1 DEF Arrived
  <2> QED BY <2>1, <2>2, AppendEffect DEF Arrived
<1>3. CASE isProcessing
  <2>1. UNCHANGED <<isProcessing, currentNode, task>>
    BY <1>3 DEF AddReply, EnqueueAndStart
  <2>2. currentNode # n
    BY <1>1, <1>3 DEF PlaceInv, AttendedInv
  <2> QED
    BY <1>1, <1>2, <2>1, <2>2 DEF PlaceInv, AttendedInv, BusyTreeIsAttended, FreshInv
<1>4. CASE ~isProcessing
  <2>1. currentNode' = n /\ task' = [task EXCEPT ![n] = "ready"]
    BY <1>4 DEF AddReply, EnqueueAndStart, Start
  <2>2. task'[n] \in Live /\ \A m \in Node \ {n} : task'[m] = task[m]
    BY <2>1 DEF TypeOK, Live
  <2> QED
    BY <1>1, <1>2, <2>1, <2>2 DEF PlaceInv, AttendedInv, BusyTreeIsAttended, FreshInv
<1> QED BY <1>3, <1>4

(* Every step keeps PlaceInv.                                              *)
LEMMA PlaceStep ==
  TypeOK /\ DisciplineInv /\ OrderInv /\ PlaceInv /\ [Next]_vars => PlaceInv'
<1> SUFFICES ASSUME TypeOK, DisciplineInv, OrderInv, PlaceInv, [Next]_vars
             PROVE  PlaceInv'
  OBVIOUS
<1> USE DEF handlerVars, historyVars, taskVars, treeVars
<1>1. UNCHANGED task => Lasting
  BY DEF Lasting
<1>2. UNCHANGED state => FreshLeft
  BY DEF FreshLeft
<1>3. ASSUME NEW S, NEW s, S \cap Node \subseteq Arrived, state' = Marked(S, s)
      PROVE  FreshLeft
  BY <1>3 DEF FreshLeft, Marked
<1>4. nodes \subseteq Arrived
  BY DEF PlaceInv, FreshInv
<1>5. CancelCurrent => Lasting
  BY CancelLasting
<1>6. CancelTree => Lasting /\ FreshLeft /\ ~isProcessing'
  <2> SUFFICES ASSUME CancelTree PROVE Lasting /\ FreshLeft /\ ~isProcessing'
    OBVIOUS
  <2>1. FreshLeft
    BY <1>3, <1>4 DEF CancelTree
  <2> QED BY <1>5, <2>1 DEF CancelTree
<1>7. ASSUME NEW n \in Node, TaskStep(n) PROVE PlaceInv'
  <2>1. CASE TaskSkip(n) \/ TaskFinish(n)
    BY <2>1, ProcessNextPlace DEF TaskSkip, TaskFinish, Live
  <2>2. CASE ~(TaskSkip(n) \/ TaskFinish(n))
    <3>1. /\ UNCHANGED <<nodes, arrivals, isProcessing, currentNode>>
          /\ task[n] \in Live
          /\ UNCHANGED task \/ \E phase \in Live : task' = [task EXCEPT ![n] = phase]
      BY <1>7, <2>2
         DEF TaskStep, TaskStart, CliSessionInfo, CliError, CliExit, CliFail, CliRaise,
             AdriftEnd, TaskUnwound, Live
    <3>2. n \in Arrived
      BY <3>1 DEF PlaceInv, FreshInv, Live
    <3>3. NodeAndPendingBelow(n) \subseteq Arrived
      BY <1>4, <3>2 DEF NodeAndPendingBelow, PendingBelow
    <3>4. CliFail(n) => FreshLeft
      BY <3>2, <3>3 DEF CliFail, FreshLeft, Marked
    <3>5. FreshLeft
      BY <1>2, <1>3, <1>7, <2>2, <3>2, <3>3, <3>4
         DEF TaskStep, TaskStart, CliSessionInfo, CliError, CliExit, CliRaise,
             AdriftEnd, TaskUnwound
    <3>6. Lasting
      BY <3>1 DEF Lasting, TypeOK, Live
    <3> QED BY <3>1, <3>5, <3>6, PlaceKept
  <2> QED BY <2>1, <2>2
<1>8. ASSUME NEW n \in Node, ReplyStep(n) PROVE PlaceInv'
  <2>1. ASSUME NEW p \in Node, ReceiveReply(n, p) PROVE PlaceInv'
    BY <1>1, <1>2, <2>1, PlaceKept DEF ReceiveReply
  <2>2. CASE DropReply(n)
    BY <1>1, <1>2, <2>2, PlaceKept DEF DropReply
  <2> QED BY <1>8, <2>1, <2>2, AddReplyPlace DEF ReplyStep
<1>9. ASSUME NEW n \in Node, CommandStep(n) PROVE PlaceInv'
  <2>1. CASE StopTask(n)
    <3>1. Lasting
      BY <1>1, <1>5, <2>1 DEF StopTask
    <3>2. FreshLeft
      BY <1>3, <1>4, <2>1 DEF StopTask, Registered
    <3> QED BY <2>1, <3>1, <3>2, PlaceKept DEF StopTask
  <2>2. CASE ClearBranch(n)
    <3>1. Lasting
      BY <1>1, <1>5, <2>2 DEF ClearBranch
    <3>2. Subtree(n) \subseteq nodes
      BY DEF Subtree
    <3>3. FreshLeft
      BY <1>3, <1>4, <2>2, <3>2 DEF ClearBranch
    <3> QED BY <2>2, <3>1, <3>3, PlaceKept DEF ClearBranch
  <2>3. CASE RemoveBranch(n)
    BY <1>1, <1>2, <1>6, <2>3, PlaceKept DEF RemoveBranch
  <2> QED BY <1>9, <2>1, <2>2, <2>3 DEF CommandStep
<1>10. CASE StopAll
  BY <1>6, <1>10, PlaceKept DEF StopAll
<1>11. CASE ClearAll
  BY <1>6, <1>11, PlaceKept DEF ClearAll
<1>12. CASE ReplaceManager
  BY <1>1, <1>2, <1>12, PlaceKept DEF ReplaceManager
<1>13. CASE UNCHANGED vars
  BY <1>1, <1>2, <1>13, PlaceKept DEF vars
<1> QED BY <1>7, <1>8, <1>9, <1>10, <1>11, <1>12, <1>13 DEF Next

(* OrderInv and PlaceInv are invariants.                                   *)
LEMMA PlaceInvariant == Spec => [](OrderInv /\ PlaceInv)
<1>1. Init => OrderInv
  BY InitOrder
<1>2. Init => PlaceInv
  <2> SUFFICES ASSUME Init PROVE PlaceInv
    OBVIOUS
  <2>1. Arrived = {Root}
    BY DEF Init, Arrived, ToSet
  <2> QED
    BY <2>1, NodeAssumption DEF Init, PlaceInv, AttendedInv, BusyTreeIsAttended, FreshInv, Live
<1> QED
  BY <1>1, <1>2, OrderStep, PlaceStep, TypeCorrect, IdleTreeHasEmptyQueue,
     DisciplineInvariant, PTL DEF Spec

(* Whatever users do: when nobody looks at the queue of a busy tree any    *)
(* more, a task was cancelled before its first step, or the head of the    *)
(* queue had left the tree (processor.py:119).                             *)
THEOREM StuckForTwoReasonsOnly == Spec => []BusyTreeIsAttended
<1>1. PlaceInv => BusyTreeIsAttended
  BY DEF PlaceInv, AttendedInv
<1> QED BY <1>1, PlaceInvariant, PTL

-----------------------------------------------------------------------------
(* TreeQueue implements SerialQueue, if no command stops everything.  A    *)
(* step either moves each message on in ways that serve nobody anew, or    *)
(* lets a reply arrive, or serves the next.                                *)

(* What a step that serves nobody anew may do to a message.                *)
Moves(m) ==
  \/ task'[m] = task[m] /\ (state'[m] \in {state[m], "error"} \/ task[m] \notin {"ready", "none"})
  \/ task[m] \in {"ready", "running", "adrift", "unwinding"} /\ ~Skipped(m)
     /\ task'[m] \in {"running", "adrift", "unwinding", "closing"}
  \/ task[m] \in Live /\ task'[m] \in {"done", "dead"}
  \/ task[m] = "none" /\ task'[m] = "ready" /\ state[m] = "error" /\ state'[m] = "error"

(* Steps in which messages only become over are Leave.                     *)
LEMMA MovesLeave ==
  ASSUME TypeOK, TypeOK', FreshInv, UNCHANGED arrivals, nodes' \subseteq nodes,
         \A m \in Arrived : Moves(m), FreshInv'
  PROVE  \E S \in SUBSET Serial!InLine : Serial!Leave(S)
<1>1. Arrived \subseteq Node /\ Arrived' = Arrived /\ Serial!InLine = Arrived
  BY DEF Arrived, ToSet, TypeOK, Serial!InLine
<1>2. Over \subseteq Arrived /\ Over' \subseteq Arrived
  BY <1>1 DEF Over, Arrived
<1>3. Serving \subseteq Arrived /\ Serving' \subseteq Arrived
  BY <1>1 DEF Serving, FreshInv, Live
<1>4. ASSUME NEW m \in Arrived
      PROVE  /\ m \in Over => m \in Over'
             /\ m \in Serving => m \in Serving' \cup Over'
             /\ m \in Serving' => m \in Serving /\ m \notin Over'
  <2>1. /\ m \in Over <=> task[m] \in {"done", "dead"} \/ Skipped(m)
        /\ m \in Over' <=> task'[m] \in {"done", "dead"} \/ Skipped(m)'
        /\ m \in Serving <=> task[m] \in Live /\ ~Skipped(m)
        /\ m \in Serving' <=> task'[m] \in Live /\ ~Skipped(m)'
    BY <1>1 DEF Over, Serving, Arrived
  <2>2. task[m] \in TaskPhase /\ task'[m] \in TaskPhase
    BY <1>1 DEF TypeOK
  <2>3. Skipped(m)' <=> \/ task'[m] = "ready" /\ state'[m] = "error"
                        \/ task'[m] = "none" /\ (state'[m] = "error" \/ m \notin nodes')
    BY DEF Skipped
  <2>4. Moves(m) /\ (m \in nodes' => m \in nodes)
    OBVIOUS
  <2> QED BY <2>1, <2>2, <2>3, <2>4 DEF Moves, Skipped, Live, TaskPhase
<1>5. Over' = Over \cup Over' /\ Serving' = Serving \ Over'
  BY <1>2, <1>3, <1>4
<1>6. Serial!Leave(Over')
  BY <1>5 DEF Serial!Leave
<1> QED BY <1>1, <1>2, <1>6

(* Cancelling a task moves its message on.                                 *)
LEMMA CancelMoves ==
  ASSUME TypeOK, CancelCurrent, NEW m \in Node, state'[m] \in {state[m], "error"}
  PROVE  Moves(m)
<1>1. CASE m # currentTask
  <2>1. task'[m] = task[m]
    BY <1>1 DEF CancelCurrent, TypeOK
  <2> QED BY <2>1 DEF Moves
<1>2. CASE m = currentTask
  <2>1. task'[m] = Interrupted(task[m]) /\ task[m] \in TaskPhase
    BY <1>2 DEF CancelCurrent, TypeOK
  <2>2. CASE task[m] = "ready"
    BY <2>1, <2>2 DEF Interrupted, Moves, Live
  <2>3. CASE task[m] \in {"running", "adrift"}
    <3>1. task'[m] = "unwinding" /\ ~Skipped(m)
      BY <2>1, <2>3 DEF Interrupted, Skipped
    <3> QED BY <2>3, <3>1 DEF Moves
  <2>4. CASE task[m] \notin {"ready", "running", "adrift"}
    <3>1. task'[m] = task[m]
      BY <2>1, <2>4 DEF Interrupted
    <3> QED BY <3>1 DEF Moves
  <2> QED BY <2>2, <2>3, <2>4
<1> QED BY <1>1, <1>2

(* The head of the queue has its turn.                                     *)
LEMMA HeadHasItsTurn ==
  ASSUME TypeOK, OrderInv, DisciplineInv, queue # <<>>,
         Head(queue) \in nodes, state[Head(queue)] # "error"
  PROVE  Serial!ItsTurn(Head(queue))
<1> DEFINE h == Head(queue)
<1>1. /\ DOMAIN queue \subseteq Nat /\ 1 \in DOMAIN queue /\ h = queue[1]
      /\ \A k \in DOMAIN queue : k = 1 \/ 1 < k
  <2>1. DOMAIN queue = 1..Len(queue) /\ Len(queue) \in Nat /\ Len(queue) > 0
    BY LenProperties, EmptySeq DEF TypeOK
  <2> QED BY <2>1
<1>2. h \in Queued /\ h \in Node /\ h \in Arrived
  BY <1>1 DEF Queued, ToSet, OrderInv, TypeOK
<1>3. task[h] = "none"
  BY <1>2 DEF DisciplineInv
<1>4. \A a \in Queued : a = h \/ Precedes(arrivals, h, a)
  <2> SUFFICES ASSUME NEW k \in DOMAIN queue, queue[k] # h
               PROVE  Precedes(arrivals, h, queue[k])
    BY DEF Queued, ToSet
  <2>1. 1 < k
    BY <1>1
  <2> QED BY <1>1, <2>1 DEF OrderInv
<1> HIDE DEF h
<1>5. PICK i \in DOMAIN arrivals : arrivals[i] = h
  BY <1>2 DEF Arrived, ToSet
<1>6. h \notin Serving \cup Over
  BY <1>3 DEF Serving, Over, Live, Skipped, h
<1>7. ASSUME NEW j \in DOMAIN arrivals, j < i PROVE arrivals[j] \in Serving \cup Over
  <2> DEFINE a == arrivals[j]
  <2>1. a \in Arrived /\ a \in Node
    BY DEF Arrived, ToSet, TypeOK
  <2>2. Precedes(arrivals, a, h)
    BY <1>5, <1>7 DEF Precedes
  <2>3. a # h
    <3>1. i \in Nat /\ j \in Nat
      BY DEF TypeOK
    <3> QED BY <1>5, <1>7, <3>1 DEF OrderInv
  <2>4. a \notin Queued
    BY <1>4, <2>2, <2>3, NotBothWays
  <2>5. task[a] \in TaskPhase
    BY <2>1 DEF TypeOK
  <2> HIDE DEF a
  <2>6. CASE task[a] = "none"
    <3>1. Waived(a)
      BY <2>1, <2>4, <2>6 DEF OrderInv
    <3> QED BY <2>1, <2>6, <3>1 DEF Over, Skipped, Waived, Arrived, a
  <2>7. CASE task[a] # "none"
    BY <2>1, <2>5, <2>7 DEF Over, Serving, Arrived, TaskPhase, Live, a
  <2> QED BY <2>6, <2>7
<1> QED BY <1>5, <1>6, <1>7 DEF Serial!ItsTurn, h

(* _process_next: the task's message is over, and the head of the queue is *)
(* served, if it is still to be served.                                    *)
LEMMA ProcessNextServes ==
  ASSUME TypeOK, TypeOK', DisciplineInv, OrderInv, SerialInv, FreshInv, FreshInv',
         NEW n \in Node, task[n] \in Live, ProcessNext(n),
         UNCHANGED <<nodes, arrivals, state>>
  PROVE  \/ \E S \in SUBSET Serial!InLine : Serial!Leave(S)
         \/ \E m \in Node : Serial!Serve(m)
<1> DEFINE h == Head(queue)
<1>0. Arrived \subseteq Node
  BY DEF Arrived, ToSet, TypeOK
<1>1. CASE queue = <<>> \/ h \notin nodes
  <2>1. task' = [task EXCEPT ![n] = "done"]
    BY <1>1 DEF ProcessNext
  <2>2. \A m \in Arrived : Moves(m)
    BY <1>0, <2>1 DEF Moves, TypeOK
  <2> QED BY <2>2, MovesLeave
<1>2. CASE queue # <<>> /\ h \in nodes
  <2>1. h \in Queued
    BY <1>2, TailShrinks DEF ProcessNext, TypeOK
  <2>2. h \in Node /\ h \in Arrived /\ task[h] = "none" /\ h # n
    BY <2>1 DEF TypeOK, DisciplineInv, OrderInv, Queued, ToSet, Live
  <2>3. task' = [task EXCEPT ![n] = "done", ![h] = "ready"]
    BY <1>2 DEF ProcessNext
  <2>4. state[h] # "error" => Serial!ItsTurn(h)
    BY <1>2, HeadHasItsTurn
  <2>5. h \in nodes
    BY <1>2
  <2> HIDE DEF h
  <2>6. /\ task'[n] = "done" /\ task'[h] = "ready"
        /\ \A m \in Node \ {n, h} : task'[m] = task[m]
    BY <2>2, <2>3 DEF TypeOK
  <2>7. CASE state[h] = "error"
    <3>1. \A m \in Arrived : Moves(m)
      BY <1>0, <2>2, <2>6, <2>7 DEF Moves
    <3> QED BY <3>1, MovesLeave
  <2>8. CASE state[h] # "error"
    <3>1. \A m \in Node : task[m] \in Live => m = n
      BY DEF SerialInv, AtMostOneTask
    <3>2. n \in Arrived
      BY DEF FreshInv, Live
    <3>3. \A m \in Node : Skipped(m)' <=> \/ task'[m] = "ready" /\ state[m] = "error"
                                          \/ task'[m] = "none" /\ (state[m] = "error" \/ m \notin nodes)
      BY DEF Skipped
    <3>4. Serving' = {h}
      <4>1. \A m \in Node : m \in Serving' <=> task'[m] \in Live /\ ~Skipped(m)'
        BY DEF Serving
      <4>2. Serving' \subseteq Node
        BY DEF Serving
      <4> QED BY <2>2, <2>6, <2>8, <3>1, <3>3, <4>1, <4>2 DEF Live
    <3>5. Over' = Over \cup Serving
      <4>1. Arrived' = Arrived
        BY DEF Arrived
      <4>2. \A m \in Arrived : /\ m \in Over' <=> task'[m] \in {"done", "dead"} \/ Skipped(m)'
                               /\ m \in Over <=> task[m] \in {"done", "dead"} \/ Skipped(m)
        BY <4>1 DEF Over, Arrived
      <4>3. Over \subseteq Arrived /\ Over' \subseteq Arrived
        BY <4>1 DEF Over, Arrived
      <4>4. Serving \subseteq {n} /\ (n \in Serving <=> ~Skipped(n))
        BY <3>1 DEF Serving
      <4>5. n \in Over' /\ (n \in Over \/ n \in Serving)
        BY <2>6, <3>2, <4>2, <4>4
      <4>6. h \notin Over' /\ h \notin Over
        BY <2>2, <2>5, <2>6, <2>8, <3>3, <4>2 DEF Skipped
      <4>7. \A m \in Arrived \ {n, h} : m \in Over' <=> m \in Over
        BY <1>0, <2>6, <3>3, <4>2 DEF Skipped
      <4> QED BY <4>3, <4>4, <4>5, <4>6, <4>7
    <3>6. Serial!Serve(h)
      BY <2>4, <2>8, <3>4, <3>5 DEF Serial!Serve
    <3> QED BY <2>2, <3>6
  <2> QED BY <2>7, <2>8
<1> QED BY <1>1, <1>2

(* A reply arrives at the end of the line, and is served at once only if   *)
(* nobody is in it.                                                        *)
LEMMA AddReplySerial ==
  ASSUME TypeOK, TypeOK', DisciplineInv, IdleMeansEmptyQueue, OrderInv, SerialInv, FreshInv,
         NEW n \in Node, AddReply(n)
  PROVE  Serial!Arrive(n) \/ Serial!ArriveAndServe(n)
<1>1. /\ n \in inflight /\ n \notin Arrived /\ task[n] = "none" /\ state[n] = "pending"
      /\ nodes' = nodes \cup {n} /\ arrivals' = Append(arrivals, n) /\ UNCHANGED state
  BY DEF AddReply, OrderInv, NotArrived, DisciplineInv, FreshInv
<1>2. Arrived' = Arrived \cup {n} /\ Arrived \subseteq Node /\ Serial!InLine = Arrived
  <2>1. Arrived' = ToSet(Append(arrivals, n))
    BY <1>1 DEF Arrived
  <2>2. arrivals \in Seq(Node)
    BY DEF TypeOK
  <2>3. Arrived' = Arrived \cup {n}
    BY <2>1, <2>2, AppendEffect DEF Arrived
  <2>4. Arrived \subseteq Node
    BY <2>2 DEF Arrived, ToSet
  <2>5. Serial!InLine = Arrived
    BY DEF Arrived, Serial!InLine, ToSet
  <2> QED BY <2>3, <2>4, <2>5
<1>3. \A m \in Node : Skipped(m)' <=> \/ task'[m] = "ready" /\ state[m] = "error"
                                      \/ task'[m] = "none" /\ (state[m] = "error" \/ m \notin nodes')
  BY <1>1 DEF Skipped
<1>4. /\ \A m \in Arrived' : m \in Over' <=> task'[m] \in {"done", "dead"} \/ Skipped(m)'
      /\ \A m \in Arrived : m \in Over <=> task[m] \in {"done", "dead"} \/ Skipped(m)
      /\ Over \subseteq Arrived /\ Over' \subseteq Arrived'
  BY DEF Over, Arrived
<1>5. \A m \in Arrived : m # n /\ (m \in nodes' <=> m \in nodes)
  BY <1>1
<1>6. /\ Serving \subseteq Node /\ Serving' \subseteq Node
      /\ \A m \in Node : /\ m \in Serving' <=> task'[m] \in Live /\ ~Skipped(m)'
                         /\ m \in Serving <=> task[m] \in Live /\ ~Skipped(m)
  BY DEF Serving
<1>7. ASSUME \A m \in Node \ {n} : task'[m] = task[m]
      PROVE  \A m \in Arrived : m \in Over' <=> m \in Over
  BY <1>2, <1>3, <1>4, <1>5, <1>7 DEF Skipped
<1>8. CASE isProcessing
  <2>1. task' = task
    BY <1>8 DEF AddReply, EnqueueAndStart
  <2>2. n \notin Over'
    BY <1>1, <1>2, <1>3, <1>4, <2>1
  <2>3. Over' = Over
    BY <1>2, <1>4, <1>7, <2>1, <2>2
  <2>4. \A m \in Node : task[m] \in Live => m \in Arrived
    BY DEF FreshInv, Live
  <2>5. Serving' = Serving
    BY <1>3, <1>5, <1>6, <2>1, <2>4 DEF Skipped, Live
  <2> QED BY <1>1, <1>2, <2>3, <2>5 DEF Serial!Arrive
<1>9. CASE ~isProcessing
  <2>1. task' = [task EXCEPT ![n] = "ready"] /\ queue = <<>>
    BY <1>9 DEF AddReply, EnqueueAndStart, Start, IdleMeansEmptyQueue
  <2>2. \A m \in Node : task[m] \notin Live
    BY <1>9 DEF AddReply, Registered, SerialInv, BusyWhileLive
  <2>3. Queued = {}
    BY <2>1 DEF Queued, ToSet
  <2>4. Serving = {}
    BY <1>6, <2>2
  <2>5. Arrived \subseteq Over
    <3> SUFFICES ASSUME NEW m \in Arrived PROVE m \in Over
      OBVIOUS
    <3>1. task[m] \in TaskPhase
      BY <1>2 DEF TypeOK
    <3>2. task[m] = "none" => Waived(m)
      BY <2>3 DEF OrderInv
    <3> QED BY <1>2, <1>4, <2>2, <3>1, <3>2 DEF Skipped, Waived, TaskPhase, Live
  <2>6. task'[n] = "ready" /\ \A m \in Node \ {n} : task'[m] = task[m]
    BY <2>1 DEF TypeOK
  <2>7. n \notin Over'
    BY <1>1, <1>2, <1>3, <1>4, <2>6
  <2>8. Over' = Over
    BY <1>2, <1>4, <1>7, <2>6, <2>7
  <2>9. Serving' = {n}
    BY <1>1, <1>3, <1>6, <2>2, <2>6 DEF Live
  <2> QED BY <1>1, <1>2, <2>4, <2>5, <2>8, <2>9 DEF Serial!ArriveAndServe
<1> QED BY <1>8, <1>9

(* Every step but those that stop everything is one of SerialQueue.        *)
LEMMA SerialQueueStep ==
  ASSUME "stop_all" \notin Commands, "clear_all" \notin Commands,
         TypeOK, TypeOK', DisciplineInv, IdleMeansEmptyQueue, OrderInv, SerialInv,
         FreshInv, FreshInv', [Next]_vars
  PROVE  [Serial!Next]_<<arrivals, Serving, Over>>
<1> USE DEF handlerVars, historyVars, taskVars, treeVars
<1> DEFINE AllMove == \A m \in Node : Moves(m)
<1>1. ASSUME AllMove, UNCHANGED arrivals, nodes' \subseteq nodes PROVE Serial!Next
  <2>1. \A m \in Arrived : Moves(m)
    BY <1>1 DEF Arrived, ToSet, TypeOK
  <2>2. \E S \in SUBSET Serial!InLine : Serial!Leave(S)
    BY <1>1, <2>1, MovesLeave
  <2> QED BY <2>2 DEF Serial!Next
<1>2. ASSUME UNCHANGED task, \A m \in Node : state'[m] \in {state[m], "error"}
      PROVE  AllMove
  BY <1>2 DEF Moves
<1>3. ASSUME CancelCurrent \/ UNCHANGED task, NEW S, state' = Marked(S, "error")
      PROVE  AllMove
  <2>1. \A m \in Node : state'[m] \in {state[m], "error"}
    BY <1>3 DEF Marked
  <2> QED BY <1>2, <1>3, <2>1, CancelMoves
<1>4. ASSUME NEW n \in Node, TaskStep(n) PROVE Serial!Next
  <2>1. CASE TaskSkip(n) \/ TaskFinish(n)
    <3>1. \/ \E S \in SUBSET Serial!InLine : Serial!Leave(S)
          \/ \E m \in Node : Serial!Serve(m)
      BY <2>1, ProcessNextServes DEF TaskSkip, TaskFinish, Live
    <3> QED BY <3>1 DEF Serial!Next
  <2>2. CASE ~(TaskSkip(n) \/ TaskFinish(n))
    <3>1. UNCHANGED <<nodes, arrivals>>
      BY <1>4, <2>2
         DEF TaskStep, TaskStart, CliSessionInfo, CliError, CliExit, CliFail, CliRaise,
             AdriftEnd, TaskUnwound
    <3>2. \A m \in Node \ {n} : task'[m] = task[m] /\ state'[m] \in {state[m], "error"}
      BY <1>4, <2>2
         DEF TaskStep, TaskStart, CliSessionInfo, CliError, CliExit, CliFail, CliRaise,
             AdriftEnd, TaskUnwound, Marked, TypeOK
    <3>3. Moves(n)
      <4>1. CASE TaskStart(n)
        BY <4>1 DEF TaskStart, Moves, Skipped, TypeOK
      <4>2. CASE CliSessionInfo(n) \/ CliError(n)
        BY <4>2 DEF CliSessionInfo, CliError, Moves
      <4>3. CASE CliExit(n) \/ CliFail(n) \/ CliRaise(n) \/ AdriftEnd(n) \/ TaskUnwound(n)
        <5>1. task[n] \in {"running", "adrift", "unwinding"} /\ task'[n] = "closing"
          BY <4>3 DEF CliExit, CliFail, CliRaise, AdriftEnd, TaskUnwound, TypeOK
        <5> QED BY <5>1 DEF Moves, Skipped
      <4> QED BY <1>4, <2>2, <4>1, <4>2, <4>3 DEF TaskStep
    <3>4. AllMove
      BY <3>2, <3>3 DEF Moves
    <3> QED BY <1>1, <3>1, <3>4
  <2> QED BY <2>1, <2>2
<1>5. ASSUME NEW n \in Node, ReplyStep(n) PROVE Serial!Next
  <2>1. ASSUME NEW p \in Node, ReceiveReply(n, p) PROVE Serial!Next
    BY <1>1, <1>2, <2>1 DEF ReceiveReply
  <2>2. CASE AddReply(n)
    BY <2>2, AddReplySerial DEF Serial!Next
  <2>3. CASE DropReply(n)
    BY <1>1, <1>2, <2>3 DEF DropReply
  <2> QED BY <1>5, <2>1, <2>2, <2>3 DEF ReplyStep
<1>6. ASSUME NEW n \in Node, CommandStep(n) PROVE Serial!Next
  <2>1. CASE StopTask(n)
    BY <1>1, <1>3, <2>1 DEF StopTask
  <2>2. CASE ClearBranch(n)
    BY <1>1, <1>3, <2>2 DEF ClearBranch
  <2>3. CASE RemoveBranch(n)
    <3>1. UNCHANGED arrivals /\ nodes' \subseteq nodes
      BY <2>3 DEF RemoveBranch
    <3>2. CASE CancelTree
      BY <1>1, <1>3, <3>1, <3>2 DEF CancelTree
    <3>3. CASE UNCHANGED <<state, task>>
      BY <1>1, <1>2, <3>1, <3>3
    <3> QED BY <2>3, <3>2, <3>3 DEF RemoveBranch
  <2> QED BY <1>6, <2>1, <2>2, <2>3 DEF CommandStep
<1>7. ~StopAll /\ ~ClearAll
  BY DEF StopAll, ClearAll, Give
<1>8. CASE ReplaceManager
  BY <1>1, <1>2, <1>8 DEF ReplaceManager
<1>9. CASE UNCHANGED vars
  BY <1>1, <1>2, <1>9 DEF vars
<1> QED BY <1>4, <1>5, <1>6, <1>7, <1>8, <1>9 DEF Next

(* As long as nobody stops everything, the conversation is the queue that  *)
(* SerialQueue describes: one message at a time, the oldest that is left,  *)
(* and none that was cancelled, failed or removed before its turn.         *)
THEOREM ConversationIsSerialQueue ==
  ASSUME "stop_all" \notin Commands, "clear_all" \notin Commands
  PROVE  Spec => ServesInTurn
<1> DEFINE Inv == /\ TypeOK /\ DisciplineInv /\ IdleMeansEmptyQueue /\ OrderInv
                  /\ SerialInv /\ PlaceInv
<1>1. Init => SerialInv
  BY DEF Init, SerialInv, AtMostOneTask, BusyWhileLive, Live
<1>2. TypeOK /\ SerialInv /\ [Next]_vars => SerialInv'
  BY SerialStep
<1>3. Spec => []SerialInv
  BY <1>1, <1>2, TypeCorrect, PTL DEF Spec
<1>4. Spec => []Inv
  BY <1>3, TypeCorrect, DisciplineInvariant, IdleTreeHasEmptyQueue, PlaceInvariant, PTL
<1>5. Init => Serial!Init
  <2> SUFFICES ASSUME Init PROVE Serial!Init
    OBVIOUS
  <2>1. Arrived = {Root}
    BY DEF Init, Arrived, ToSet
  <2>2. ~Skipped(Root) /\ task[Root] = "ready" /\ \A m \in Node \ {Root} : task[m] \notin Live
    BY NodeAssumption DEF Init, Skipped, Live
  <2>3. Serving = {Root}
    BY <2>2, NodeAssumption DEF Serving, Live
  <2>4. Over = {}
    BY <2>1, <2>2 DEF Over, Arrived
  <2> QED BY <2>3, <2>4, NodeAssumption DEF Init, Serial!Init
<1>6. Inv /\ Inv' /\ [Next]_vars => [Serial!Next]_<<arrivals, Serving, Over>>
  BY SerialQueueStep DEF PlaceInv
<1> QED
  BY <1>4, <1>5, <1>6, PTL DEF Spec, ServesInTurn, Serial!Spec, Serial!vars
=============================================================================
