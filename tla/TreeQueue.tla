------------------------------ MODULE TreeQueue ------------------------------
(***************************************************************************)
(* One conversation of the messaging bot: a MessageTree, the               *)
(* TreeQueueProcessor that runs its nodes one after the other, and the     *)
(* parts of ClaudeMessageHandler that add replies, run the Claude CLI for  *)
(* a node, and serve the user's /stop and /clear commands.                 *)
(*                                                                         *)
(* Everything runs on one asyncio loop, so a step of this specification is *)
(* the code between two suspension points.  The sections under the tree's  *)
(* lock never suspend (_SnapshotQueue is synchronous): each is one atomic  *)
(* step.  What does suspend, and so separates steps here, is               *)
(*   - handle_message, while it sends the status message of a reply;       *)
(*   - a node's task, before its first step, while the CLI runs, while a   *)
(*     cancelled CLI is being stopped, and while its session is removed;   *)
(*   - /clear, while it deletes chat messages.                             *)
(***************************************************************************)
EXTENDS Naturals, FiniteSets, SequencesExt

CONSTANTS Node,         \* message ids that may become nodes of this tree
          Root,         \* the node the conversation was started with
          NoNode,       \* Python's None, where a node id is expected
          Commands,     \* the commands the users of this instance give
          MaxCommands   \* bound on the number of commands given

AllCommands == {"stop_all", "stop_task", "clear_branch", "clear_all"}

ASSUME NodeAssumption == Root \in Node /\ NoNode \notin Node /\ IsFiniteSet(Node)
ASSUME CommandAssumption == Commands \subseteq AllCommands /\ MaxCommands \in Nat

VARIABLES
  \* MessageTree
  nodes,          \* keys of tree._nodes
  parent,         \* node.parent_id, resolved when the reply is received
  state,          \* node.state; the object outlives its removal from nodes
  queue,          \* tree._queue
  isProcessing,   \* tree._is_processing
  currentNode,    \* tree._current_node_id
  currentTask,    \* tree._current_task, named by the node the task is for
  inRepo,         \* the handler's TreeRepository knows the tree
  \* the task created for each node, and its captured_session_id
  task,
  session,        \* nodes whose CLI has reported a session id
  \* coroutines of ClaudeMessageHandler that are suspended
  inflight,       \* replies whose status message is being sent
  clearing,       \* branch roots whose messages are being deleted (/clear)
  resetting,      \* a /clear of everything is deleting the chat's messages
  issued,         \* number of commands given so far
  \* history, read by the properties only
  arrivals,       \* the nodes in the order they were enqueued
  stopped         \* nodes a command has cancelled

treeVars    == <<nodes, parent, state, queue, isProcessing, currentNode,
                 currentTask, inRepo>>
taskVars    == <<task, session>>
handlerVars == <<inflight, clearing, resetting, issued>>
historyVars == <<arrivals, stopped>>
vars        == <<treeVars, taskVars, handlerVars, historyVars>>

NodeState == {"pending", "in_progress", "completed", "error"}
Terminal  == {"completed", "error"}

(* The life of a node's asyncio task:                                      *)
(*   ready      created; its coroutine has not run yet                     *)
(*   running    in the CLI event loop, with the tree it found at its start *)
(*   adrift     the same, but get_tree_for_node found no tree              *)
(*   unwinding  cancelled while running: the CLI process is being stopped  *)
(*   closing    in the finally clause, removing its CLI session            *)
(*   done       finished, after it has looked at the queue                 *)
(*   dead       cancelled before it ran: no clause of it is ever executed  *)
TaskPhase == {"none", "ready", "running", "adrift", "unwinding", "closing",
              "done", "dead"}
Live == {"ready", "running", "adrift", "unwinding", "closing"}

Queued == ToSet(queue)

Registered(n) == inRepo /\ n \in nodes

Children(n) == {c \in nodes : parent[c] = n}
PendingChildren(n) == {c \in Children(n) : state[c] = "pending"}

(* get_descendants: n and everything below it.                             *)
Subtree(n) ==
  {m \in nodes : \A S \in SUBSET nodes :
      (n \in S /\ \A p \in S : Children(p) \subseteq S) => m \in S}

(* get_pending_children: what is reached from n through pending nodes.     *)
PendingBelow(n) ==
  {m \in nodes : \A S \in SUBSET nodes :
      (\A p \in S \cup {n} : PendingChildren(p) \subseteq S) => m \in S}

(* The queue without the nodes of S: what is left keeps its order.  Stated *)
(* as a set of candidates, with one member when q has no duplicates.       *)
Precedes(q, a, b) == \E i, j \in DOMAIN q : i < j /\ q[i] = a /\ q[j] = b

Without(q, S) ==
  LET kept == ToSet(q) \ S
  IN  {r \in [1..Cardinality(kept) -> kept] :
         /\ ToSet(r) = kept
         /\ \A i, j \in DOMAIN r : i < j => Precedes(q, r[i], r[j])}

Interrupted(phase) ==
  CASE phase = "ready"                 -> "dead"
    [] phase \in {"running", "adrift"} -> "unwinding"
    [] OTHER                           -> phase

(* cancel_current_task.                                                    *)
CancelCurrent == task' = [task EXCEPT ![currentTask] = Interrupted(@)]

Marked(S, s) == [n \in Node |-> IF n \in S THEN s ELSE state[n]]

-----------------------------------------------------------------------------
(* The first message of the conversation has been handled: create_tree,    *)
(* register, save and enqueue do not suspend.                              *)
Init ==
  /\ nodes = {Root}
  /\ parent = [n \in Node |-> NoNode]
  /\ state = [n \in Node |-> "pending"]
  /\ queue = <<>>
  /\ isProcessing = TRUE
  /\ currentNode = Root
  /\ currentTask = Root
  /\ inRepo = TRUE
  /\ task = [n \in Node |-> IF n = Root THEN "ready" ELSE "none"]
  /\ session = {}
  /\ inflight = {}
  /\ clearing = {}
  /\ resetting = FALSE
  /\ issued = 0
  /\ arrivals = <<Root>>
  /\ stopped = {}

-----------------------------------------------------------------------------
(* Replies.                                                                *)

(* A task is created for n and becomes the tree's current one.              *)
Start(n) ==
  /\ isProcessing' = TRUE
  /\ currentNode' = n
  /\ currentTask' = n
  /\ task' = [task EXCEPT ![n] = "ready"]

(* A reply to node p arrives; handle_message resolves the parent and then  *)
(* waits for the status message to be sent.                                *)
ReceiveReply(n, p) ==
  /\ n # Root /\ parent[n] = NoNode
  /\ Registered(p)
  /\ parent' = [parent EXCEPT ![n] = p]
  /\ inflight' = inflight \cup {n}
  /\ UNCHANGED <<nodes, state, queue, isProcessing, currentNode, currentTask,
                 inRepo, taskVars, clearing, resetting, issued, historyVars>>

(* Wrong variants of EnqueueAndStart: the reply overtakes the queue, is    *)
(* started without looking at is_processing, is queued even when started.  *)
EnqueueAtFront(n) ==
  \/ /\ isProcessing
     /\ queue' = <<n>> \o queue
     /\ UNCHANGED <<isProcessing, currentNode, currentTask, task>>
  \/ ~isProcessing /\ Start(n) /\ UNCHANGED queue

StartAlways(n) == Start(n) /\ UNCHANGED queue

EnqueueAlways(n) ==
  /\ queue' = Append(queue, n)
  /\ \/ isProcessing /\ UNCHANGED <<isProcessing, currentNode, currentTask, task>>
     \/ ~isProcessing /\ Start(n)

(* enqueue_and_start.                                                      *)
EnqueueAndStart(n) ==
  \/ /\ isProcessing
     /\ queue' = Append(queue, n)
     /\ UNCHANGED <<isProcessing, currentNode, currentTask, task>>
  \/ ~isProcessing /\ Start(n) /\ UNCHANGED queue

(* handle_message resumes: add_to_tree, register, save, enqueue_and_start. *)
AddReply(n) ==
  /\ n \in inflight
  /\ Registered(parent[n])
  /\ inflight' = inflight \ {n}
  /\ nodes' = nodes \cup {n}
  /\ arrivals' = Append(arrivals, n)
  /\ EnqueueAndStart(n)
  /\ UNCHANGED <<parent, state, inRepo, session, clearing, resetting, issued,
                 stopped>>

(* The parent, or the whole tree, went away meanwhile: add_to_tree raises  *)
(* ValueError out of handle_message and the reply is lost.                 *)
DropReply(n) ==
  /\ n \in inflight
  /\ ~Registered(parent[n])
  /\ inflight' = inflight \ {n}
  /\ UNCHANGED <<treeVars, taskVars, clearing, resetting, issued, historyVars>>

-----------------------------------------------------------------------------
(* The task of a node.                                                     *)

(* Wrong variant of ProcessNext: the task of the tree is reset to None.    *)
ProcessNextResetsTask(n) ==
  \/ /\ queue = <<>>
     /\ isProcessing' = FALSE
     /\ currentNode' = NoNode
     /\ currentTask' = NoNode
     /\ task' = [task EXCEPT ![n] = "done"]
     /\ UNCHANGED queue
  \/ /\ queue # <<>>
     /\ queue' = Tail(queue)
     /\ isProcessing' = TRUE
     /\ currentNode' = Head(queue)
     /\ currentTask' = Head(queue)
     /\ task' = [task EXCEPT ![n] = "done", ![Head(queue)] = "ready"]

(* n's task ends with _process_next: it frees the tree, or starts the head *)
(* of the queue.  A head that has left the tree gets no task, although the *)
(* tree is marked as processing it.                                        *)
ProcessNext(n) ==
  \/ /\ queue = <<>>
     /\ isProcessing' = FALSE
     /\ currentNode' = NoNode
     /\ task' = [task EXCEPT ![n] = "done"]
     /\ UNCHANGED <<queue, currentTask>>
  \/ /\ queue # <<>>
     /\ queue' = Tail(queue)
     /\ isProcessing' = TRUE
     /\ currentNode' = Head(queue)
     /\ IF Head(queue) \in nodes
        THEN /\ currentTask' = Head(queue)
             /\ task' = [task EXCEPT ![n] = "done", ![Head(queue)] = "ready"]
        ELSE /\ task' = [task EXCEPT ![n] = "done"]
             /\ UNCHANGED currentTask

(* Wrong variant of TaskSkip: it returns without looking at the queue.     *)
TaskSkipOnly(n) ==
  /\ task[n] = "ready"
  /\ state[n] = "error"
  /\ task' = [task EXCEPT ![n] = "done"]
  /\ UNCHANGED <<treeVars, session, handlerVars, historyVars>>

(* process_node skips a node that has failed before its turn.              *)
TaskSkip(n) ==
  /\ task[n] = "ready"
  /\ state[n] = "error"
  /\ ProcessNext(n)
  /\ UNCHANGED <<nodes, parent, state, inRepo, session, handlerVars, historyVars>>

(* process_node enters _process_node, which starts the CLI.                *)
TaskStart(n) ==
  /\ task[n] = "ready"
  /\ state[n] # "error"
  /\ \/ /\ Registered(n)
        /\ task' = [task EXCEPT ![n] = "running"]
        /\ state' = Marked({n}, "in_progress")
     \/ /\ ~Registered(n)
        /\ task' = [task EXCEPT ![n] = "adrift"]
        /\ UNCHANGED state
  /\ UNCHANGED <<nodes, parent, queue, isProcessing, currentNode, currentTask,
                 inRepo, session, handlerVars, historyVars>>

(* The CLI reports its session id (once): _handle_session_info_event.      *)
CliSessionInfo(n) ==
  /\ task[n] = "running"
  /\ n \notin session
  /\ session' = session \cup {n}
  /\ state' = Marked({n} \cap nodes, "in_progress")
  /\ UNCHANGED <<nodes, parent, queue, isProcessing, currentNode, currentTask,
                 inRepo, task, handlerVars, historyVars>>

(* mark_node_error with propagation to the pending nodes below.            *)
NodeAndPendingBelow(n) == IF Registered(n) THEN {n} \cup PendingBelow(n) ELSE {}

(* The CLI reports an error and goes on.                                   *)
CliError(n) ==
  /\ task[n] = "running"
  /\ state' = Marked(NodeAndPendingBelow(n), "error")
  /\ UNCHANGED <<nodes, parent, queue, isProcessing, currentNode, currentTask,
                 inRepo, taskVars, handlerVars, historyVars>>

(* The CLI exits with code 0: one "complete" event, which takes effect if  *)
(* a session id was captured.                                              *)
CliExit(n) ==
  /\ task[n] = "running"
  /\ task' = [task EXCEPT ![n] = "closing"]
  /\ state' = Marked({n} \cap session \cap nodes, "completed")
  /\ UNCHANGED <<nodes, parent, queue, isProcessing, currentNode, currentTask,
                 inRepo, session, handlerVars, historyVars>>

(* The CLI exits with another code: parse_cli_event makes it an "error"    *)
(* followed by a "complete", handled in one go.                            *)
CliFail(n) ==
  /\ task[n] = "running"
  /\ task' = [task EXCEPT ![n] = "closing"]
  /\ LET afterError == Marked(NodeAndPendingBelow(n), "error")
     IN  state' = [m \in Node |-> IF m = n /\ n \in session \cap nodes
                                  THEN "completed" ELSE afterError[m]]
  /\ UNCHANGED <<nodes, parent, queue, isProcessing, currentNode, currentTask,
                 inRepo, session, handlerVars, historyVars>>

(* The CLI cannot be started, or handling an event raises.                 *)
CliRaise(n) ==
  /\ task[n] = "running"
  /\ task' = [task EXCEPT ![n] = "closing"]
  /\ state' = Marked(NodeAndPendingBelow(n), "error")
  /\ UNCHANGED <<nodes, parent, queue, isProcessing, currentNode, currentTask,
                 inRepo, session, handlerVars, historyVars>>

(* Without a tree, whatever the CLI reports changes no node.               *)
AdriftEnd(n) ==
  /\ task[n] = "adrift"
  /\ task' = [task EXCEPT ![n] = "closing"]
  /\ UNCHANGED <<treeVars, session, handlerVars, historyVars>>

(* The cancelled CLI has been stopped: the except CancelledError clause.   *)
TaskUnwound(n) ==
  /\ task[n] = "unwinding"
  /\ task' = [task EXCEPT ![n] = "closing"]
  /\ state' = Marked({n} \cap nodes, "error")
  /\ UNCHANGED <<nodes, parent, queue, isProcessing, currentNode, currentTask,
                 inRepo, session, handlerVars, historyVars>>

(* The session has been removed: process_node's finally clause.            *)
TaskFinish(n) ==
  /\ task[n] = "closing"
  /\ ProcessNext(n)
  /\ UNCHANGED <<nodes, parent, state, inRepo, session, handlerVars, historyVars>>

-----------------------------------------------------------------------------
(* Commands.                                                               *)

Give(command) ==
  /\ command \in Commands
  /\ issued < MaxCommands
  /\ issued' = issued + 1

(* cancel_tree: cancel the current task, drain the queue, mark what is not *)
(* settled, and declare the tree free.                                     *)
CancelTree ==
  LET hit == {n \in nodes : n \in Queued \/ state[n] \notin Terminal}
  IN  /\ CancelCurrent
      /\ state' = Marked(hit, "error")
      /\ stopped' = stopped \cup hit
      /\ queue' = <<>>
      /\ isProcessing' = FALSE
      /\ currentNode' = NoNode

(* "/stop": stop_all_tasks.                                                *)
StopAll ==
  /\ Give("stop_all")
  /\ inRepo
  /\ CancelTree
  /\ UNCHANGED <<nodes, parent, currentTask, inRepo, session, inflight, clearing,
                 resetting, arrivals>>

(* Wrong variants of StopTask: the running task is not cancelled; the tree *)
(* is declared free at once.                                               *)
StopTaskMarksOnly(n) ==
  /\ Give("stop_task")
  /\ Registered(n)
  /\ state[n] \notin Terminal
  /\ queue' \in Without(queue, {n})
  /\ state' = Marked({n}, "error")
  /\ stopped' = stopped \cup {n}
  /\ UNCHANGED <<nodes, parent, isProcessing, currentNode, currentTask, inRepo,
                 taskVars, inflight, clearing, resetting, arrivals>>

StopTaskFreesTree(n) ==
  /\ Give("stop_task")
  /\ Registered(n)
  /\ state[n] \notin Terminal
  /\ currentNode = n
  /\ CancelCurrent
  /\ isProcessing' = FALSE
  /\ currentNode' = NoNode
  /\ state' = Marked({n}, "error")
  /\ stopped' = stopped \cup {n}
  /\ UNCHANGED <<nodes, parent, queue, currentTask, inRepo, session, inflight,
                 clearing, resetting, arrivals>>

(* "/stop" in reply to n: cancel_node.                                     *)
StopTask(n) ==
  /\ Give("stop_task")
  /\ Registered(n)
  /\ state[n] \notin Terminal
  /\ IF currentNode = n THEN CancelCurrent ELSE UNCHANGED task
  /\ queue' \in Without(queue, {n})
  /\ state' = Marked({n}, "error")
  /\ stopped' = stopped \cup {n}
  /\ UNCHANGED <<nodes, parent, isProcessing, currentNode, currentTask, inRepo,
                 session, inflight, clearing, resetting, arrivals>>

(* "/clear" in reply to b: cancel_branch, and then the messages of the     *)
(* branch are deleted from the chat.                                       *)
ClearBranch(b) ==
  LET hit == {n \in Subtree(b) : state[n] \notin Terminal}
  IN  /\ Give("clear_branch")
      /\ Registered(b)
      /\ IF currentNode \in hit THEN CancelCurrent ELSE UNCHANGED task
      /\ queue' \in Without(queue, hit \ {currentNode})
      /\ state' = Marked(hit, "error")
      /\ stopped' = stopped \cup hit
      /\ clearing' = clearing \cup {b}
      /\ UNCHANGED <<nodes, parent, isProcessing, currentNode, currentTask, inRepo,
                     session, inflight, resetting, arrivals>>

(* The messages are deleted: remove_branch takes the branch as it is now   *)
(* out of the tree, or cancels and removes the tree if b is its root.      *)
RemoveBranch(b) ==
  /\ b \in clearing
  /\ clearing' = clearing \ {b}
  /\ \/ /\ ~Registered(b)
        /\ UNCHANGED <<nodes, state, queue, isProcessing, currentNode, inRepo, task,
                       stopped>>
     \/ /\ Registered(b)
        /\ b = Root
        /\ CancelTree
        /\ inRepo' = FALSE
        /\ UNCHANGED nodes
     \/ /\ Registered(b)
        /\ b # Root
        /\ nodes' = nodes \ Subtree(b)
        /\ UNCHANGED <<state, queue, isProcessing, currentNode, inRepo, task, stopped>>
  /\ UNCHANGED <<parent, currentTask, session, inflight, resetting, issued,
                 arrivals>>

(* "/clear" of everything: stop_all_tasks, then the chat is deleted.       *)
ClearAll ==
  /\ Give("clear_all")
  /\ inRepo
  /\ CancelTree
  /\ resetting' = TRUE
  /\ UNCHANGED <<nodes, parent, currentTask, inRepo, session, inflight, clearing,
                 arrivals>>

(* The messages are deleted: the handler replaces its TreeQueueManager.    *)
ReplaceManager ==
  /\ resetting
  /\ resetting' = FALSE
  /\ inRepo' = FALSE
  /\ UNCHANGED <<nodes, parent, state, queue, isProcessing, currentNode, currentTask,
                 taskVars, inflight, clearing, issued, historyVars>>

-----------------------------------------------------------------------------
TaskStep(n) ==
  \/ TaskSkip(n)
  \/ TaskStart(n)
  \/ CliSessionInfo(n)
  \/ CliError(n)
  \/ CliExit(n)
  \/ CliFail(n)
  \/ CliRaise(n)
  \/ AdriftEnd(n)
  \/ TaskUnwound(n)
  \/ TaskFinish(n)

ReplyStep(n) ==
  \/ \E p \in Node : ReceiveReply(n, p)
  \/ AddReply(n)
  \/ DropReply(n)

CommandStep(n) ==
  \/ StopTask(n)
  \/ ClearBranch(n)
  \/ RemoveBranch(n)

Next ==
  \/ \E n \in Node : TaskStep(n) \/ ReplyStep(n) \/ CommandStep(n)
  \/ StopAll
  \/ ClearAll
  \/ ReplaceManager

Spec == Init /\ [][Next]_vars

(* The event loop runs every task that can run, CLISession.stop kills a    *)
(* CLI that does not terminate in 5 seconds, and a CLI process is taken to *)
(* exit in the end.  Nothing is assumed of users.                          *)
CliEnd(n) == CliExit(n) \/ CliFail(n) \/ CliRaise(n) \/ AdriftEnd(n)

Fairness ==
  \A n \in Node :
    /\ WF_vars(TaskSkip(n) \/ TaskStart(n))
    /\ WF_vars(CliEnd(n))
    /\ WF_vars(TaskUnwound(n))
    /\ WF_vars(TaskFinish(n))

FairSpec == Spec /\ Fairness

-----------------------------------------------------------------------------
(* Properties.                                                             *)

TypeOK ==
  /\ nodes \subseteq Node
  /\ parent \in [Node -> Node \cup {NoNode}]
  /\ state \in [Node -> NodeState]
  /\ queue \in Seq(Node)
  /\ isProcessing \in BOOLEAN
  /\ currentNode \in Node \cup {NoNode}
  /\ currentTask \in Node
  /\ inRepo \in BOOLEAN
  /\ task \in [Node -> TaskPhase]
  /\ session \subseteq Node
  /\ inflight \subseteq Node
  /\ clearing \subseteq Node
  /\ resetting \in BOOLEAN
  /\ issued \in 0..MaxCommands
  /\ arrivals \in Seq(Node)
  /\ stopped \subseteq Node

(* A tree that is marked free has nothing queued, so enqueue_and_start,    *)
(* which starts a reply at once on a free tree, never overtakes the queue. *)
IdleMeansEmptyQueue == ~isProcessing => queue = <<>>

(* At most one node of the tree has a task between its creation and the    *)
(* end of its finally clause: the next one is started by the last step of  *)
(* the one before.                                                         *)
AtMostOneTask ==
  \A n, m \in Node : task[n] \in Live /\ task[m] \in Live => n = m

(* "Per-tree queue ensures ordered processing": two Claude CLIs never work *)
(* on the same conversation at the same time.                              *)
OneCliAtATime ==
  \A n, m \in Node : task[n] = "running" /\ task[m] = "running" => n = m

(* No node is run twice: what is queued is queued once and has never had a *)
(* task.                                                                   *)
QueueDiscipline ==
  /\ \A i, j \in DOMAIN queue : queue[i] = queue[j] => i = j
  /\ \A n \in Queued : task[n] = "none" /\ n \notin inflight

(* Replies are run in the order they were enqueued, whatever is cancelled  *)
(* or removed in between: a node with a task is not preceded by one that   *)
(* is still to be run.                                                     *)
StartedInOrder ==
  \A i, j \in DOMAIN arrivals :
    (i < j /\ task[arrivals[j]] # "none" /\ task[arrivals[i]] = "none")
      => \/ state[arrivals[i]] = "error"
         \/ arrivals[i] \notin nodes

(* What a user has cancelled stays cancelled: a task that was being        *)
(* cancelled never reports its node as completed or in progress again.     *)
CancelledStaysCancelled == \A n \in stopped : state[n] = "error"

(* A reply forks its parent's CLI session, so it must not run before its   *)
(* parent's task has ended and captured_session_id is known.               *)
ParentEndsFirst ==
  \A n \in nodes :
    (n # Root /\ task[n] \in {"running", "unwinding", "closing"})
      => task[parent[n]] \notin Live

(* A tree that is marked busy has somebody who will look at its queue, the *)
(* task of its current node, with two exceptions: that task was cancelled  *)
(* before its first step, or the node had left the tree at its turn.       *)
BusyTreeIsAttended ==
  isProcessing => \/ currentNode \in Node /\ task[currentNode] \in Live \cup {"dead"}
                  \/ currentNode \in Node \ nodes /\ task[currentNode] = "none"

(* The conversation as SerialQueue describes it.  A node that process_node *)
(* skips is over before it has its turn; one that failed while it ran is   *)
(* served until its task has ended.                                        *)
Skipped(n) ==
  \/ task[n] = "ready" /\ state[n] = "error"
  \/ task[n] = "none" /\ (state[n] = "error" \/ n \notin nodes)

Serving == {n \in Node : task[n] \in Live /\ ~Skipped(n)}
Over == {n \in ToSet(arrivals) : task[n] \in {"done", "dead"} \/ Skipped(n)}

Serial == INSTANCE SerialQueue
            WITH Message <- Node, line <- arrivals, serving <- Serving, over <- Over

(* One message of a conversation is worked on at a time, always the oldest *)
(* that is left, and none after it was cancelled, failed or removed; while *)
(* nobody stops all conversations at once (processor.py:150, :119).        *)
ServesInTurn == Serial!Spec

(* Every message put in the tree is processed, or known to have failed or  *)
(* to have been removed.                                                   *)
EveryMessageServed ==
  \A n \in Node :
    n \in nodes ~> task[n] \in {"done", "dead"} \/ state[n] = "error" \/ n \notin nodes
=============================================================================
