---------------------------- MODULE Conversations ----------------------------
(***************************************************************************)
(* Which conversation a message belongs to: the handler's                  *)
(* TreeQueueManager and its TreeRepository (which message ids lead to      *)
(* which tree), their copy in the SessionStore and in its file, the voice  *)
(* notes a platform is transcribing, the /clear commands, and a restart.   *)
(*                                                                         *)
(* A chat message is a node under its own id, and under the id of the      *)
(* status message the bot answers with.  Handlers run concurrently (on     *)
(* Discord every message has a task of its own); a step is the code        *)
(* between two awaits that do suspend: sending or editing a status         *)
(* message, transcribing, deleting chat messages.  How a tree runs its     *)
(* nodes is the subject of TreeQueue, not of this module.                  *)
(***************************************************************************)
EXTENDS Naturals, FiniteSets

CONSTANTS Msg,        \* the users' messages
          Voice,      \* those of them that are voice notes
          None,       \* Python's None
          MaxClears   \* bound on the number of /clear commands

ASSUME MsgAssumption == Voice \subseteq Msg /\ None \notin Msg /\ IsFiniteSet(Msg)
ASSUME ClearsAssumption == MaxClears \in Nat

VARIABLES
  phase,         \* where the handler of each message is
  parent,        \* its parent_node_id, resolved before the handler suspends
  \* the trees (an object outlives its removal from the manager)
  members,       \* MessageTree._nodes, by root
  home,          \* the root of the tree a node is in
  active,        \* nodes that are pending or in progress and not cancelled
  \* the current TreeQueueManager's repository
  known,         \* TreeRepository._trees
  nodeToTree,    \* TreeRepository._node_to_tree
  \* the SessionStore and its file
  stored,        \* _trees: the node ids of each stored tree
  storedMap,     \* _node_to_tree
  disk,          \* the file
  pendingVoice,  \* the notes in _pending_voice (each under both its ids)
  clearing,      \* branch roots whose chat messages are being deleted
  wiping,        \* a /clear of everything is deleting chat messages
  clears,        \* number of /clear commands given
  \* history, read by the properties only
  cleared,       \* nodes a /clear has removed
  overtaken,     \* nodes still running when their manager was replaced
  withdrawn      \* notes whose cancellation was reported to the user

handlerVars == <<phase, parent>>
treeVars    == <<members, home, active>>
repoVars    == <<known, nodeToTree>>
storeVars   == <<stored, storedMap>>
clearVars   == <<clearing, wiping, clears>>
historyVars == <<cleared, overtaken, withdrawn>>
vars        == <<handlerVars, treeVars, repoVars, storeVars, disk, pendingVoice,
                 clearVars, historyVars>>

Id == Msg \X {"node", "status"}
NodeIds(S) == S \X {"node"}
BothIds(m) == {m} \X {"node", "status"}

(* The other phases: unseen, handled, failed, lost. *)
Suspended == {"sending", "announcing", "transcribing", "editing"}

NoTrees == [r \in Msg |-> {}]
NoMap   == [id \in Id |-> None]

Remap(map, ids, root) == [id \in Id |-> IF id \in ids THEN root ELSE map[id]]

(* TreeRepository.get_tree_for_node and resolve_parent_node_id. *)
TreeFor(id) == IF nodeToTree[id] \in known THEN nodeToTree[id] ELSE None
Resolve(id) ==
  IF TreeFor(id) # None /\ id[1] \in members[TreeFor(id)] THEN id[1] ELSE None

(* MessageTree.get_descendants: the nodes at or below b. *)
Ancestors(m) ==
  LET up[k \in 0..Cardinality(Msg)] ==
        IF k = 0 THEN {m} ELSE up[k-1] \cup {parent[x] : x \in up[k-1] \ {None}}
  IN  up[Cardinality(Msg)]
BranchAlone(b) == {b}     \* a wrong variant of Branch
Branch(b) == {m \in members[home[b]] : b \in Ancestors(m)}

Init ==
  /\ phase = [m \in Msg |-> "unseen"] /\ parent = [m \in Msg |-> None]
  /\ members = NoTrees /\ home = [m \in Msg |-> None] /\ active = {}
  /\ known = {} /\ nodeToTree = NoMap
  /\ stored = NoTrees /\ storedMap = NoMap
  /\ disk = [trees |-> NoTrees, map |-> NoMap, cleared |-> {}]
  /\ pendingVoice = {}
  /\ clearing = {} /\ wiping = FALSE /\ clears = 0
  /\ cleared = {} /\ overtaken = {} /\ withdrawn = {}

-----------------------------------------------------------------------------
(* Messages.                                                               *)

(* handle_message up to its suspension, for a message that may be a reply: *)
(* when the replied-to message leads to no node, it starts a conversation. *)
Handle(m, next) ==
  \E reply \in {None} \cup {id \in Id : phase[id[1]] # "unseen"} :
    /\ parent' = [parent EXCEPT ![m] = IF reply = None THEN None ELSE Resolve(reply)]
    /\ phase' = [phase EXCEPT ![m] = next]

ReceiveText(m) ==
  /\ m \notin Voice /\ phase[m] = "unseen"
  /\ Handle(m, "sending")
  /\ UNCHANGED <<treeVars, repoVars, storeVars, disk, pendingVoice, clearVars, historyVars>>

(* add_to_tree: the parent must still be in a tree of the manager that is  *)
(* now the handler's; else ValueError, and the message is not run.         *)
ParentThere(m) ==
  LET p == parent[m] IN TreeFor(<<p, "node">>) # None /\ p \in members[TreeFor(<<p, "node">>)]

(* A wrong variant of Enter: the status message's id is not registered. *)
EnterNodeIdOnly(m, root) ==
  /\ members' = [members EXCEPT ![root] = @ \cup {m}]
  /\ home' = [home EXCEPT ![m] = root]
  /\ active' = active \cup {m}
  /\ known' = known \cup {root}
  /\ nodeToTree' = Remap(nodeToTree, NodeIds({m}), root)
  /\ stored' = [stored EXCEPT ![root] = members'[root]]
  /\ storedMap' = Remap(storedMap, BothIds(m) \cup NodeIds(members'[root]), root)
  /\ phase' = [phase EXCEPT ![m] = "handled"]

Enter(m, root) ==
  /\ members' = [members EXCEPT ![root] = @ \cup {m}]
  /\ home' = [home EXCEPT ![m] = root]
  /\ active' = active \cup {m}
  /\ known' = known \cup {root}
  /\ nodeToTree' = Remap(nodeToTree, BothIds(m), root)
  /\ stored' = [stored EXCEPT ![root] = members'[root]]
  /\ storedMap' = Remap(storedMap, BothIds(m) \cup NodeIds(members'[root]), root)
  /\ phase' = [phase EXCEPT ![m] = "handled"]

(* The status message is there: the node enters its tree, both its ids are *)
(* registered, the tree is saved, and the node enqueued.                   *)
Proceed(m) ==
  /\ phase[m] \in {"sending", "editing"}
  /\ \/ parent[m] = None /\ Enter(m, m)
     \/ parent[m] # None /\ ParentThere(m) /\ Enter(m, TreeFor(<<parent[m], "node">>))
     \/ /\ parent[m] # None /\ ~ParentThere(m)
        /\ phase' = [phase EXCEPT ![m] = "failed"]
        /\ UNCHANGED <<treeVars, repoVars, storeVars>>
  /\ UNCHANGED <<parent, disk, pendingVoice, clearVars, historyVars>>

(* The limiter gave the status message up (None), or the platform failed.  *)
SendFails(m) ==
  /\ phase[m] \in {"sending", "announcing"}
  /\ phase' = [phase EXCEPT ![m] = "failed"]
  /\ UNCHANGED <<parent, treeVars, repoVars, storeVars, disk, pendingVoice, clearVars,
                 historyVars>>

-----------------------------------------------------------------------------
(* Voice notes.                                                            *)

ReceiveVoice(m) ==
  /\ m \in Voice /\ phase[m] = "unseen"
  /\ phase' = [phase EXCEPT ![m] = "announcing"]
  /\ UNCHANGED <<parent, treeVars, repoVars, storeVars, disk, pendingVoice, clearVars,
                 historyVars>>

RegisterPendingVoice(m) ==
  /\ phase[m] = "announcing"
  /\ phase' = [phase EXCEPT ![m] = "transcribing"]
  /\ pendingVoice' = pendingVoice \cup {m}
  /\ UNCHANGED <<parent, treeVars, repoVars, storeVars, disk, clearVars, historyVars>>

(* The text is there: a note that is still pending is handed over, one     *)
(* that was cancelled is dropped and its status message deleted.           *)

(* A wrong variant: the note is handed over whether cancelled or not. *)
TranscribedAnyway(m) ==
  /\ phase[m] = "transcribing" /\ Handle(m, "editing")
  /\ pendingVoice' = pendingVoice \ {m}
  /\ UNCHANGED <<treeVars, repoVars, storeVars, disk, clearVars, historyVars>>

Transcribed(m) ==
  /\ phase[m] = "transcribing"
  /\ \/ m \in pendingVoice /\ Handle(m, "editing")
     \/ /\ m \notin pendingVoice
        /\ phase' = [phase EXCEPT ![m] = "failed"] /\ UNCHANGED parent
  /\ pendingVoice' = pendingVoice \ {m}
  /\ UNCHANGED <<treeVars, repoVars, storeVars, disk, clearVars, historyVars>>

(* Downloading or transcribing fails; the entry stays. *)
TranscriptionFails(m) ==
  /\ phase[m] = "transcribing"
  /\ phase' = [phase EXCEPT ![m] = "failed"]
  /\ UNCHANGED <<parent, treeVars, repoVars, storeVars, disk, pendingVoice, clearVars,
                 historyVars>>

-----------------------------------------------------------------------------
(* The task of a node reports a session id or completes, and saves its     *)
(* tree, the object it was given when it started.                          *)
TaskReports(m) ==
  /\ m \in active
  /\ active' \in {active, active \ {m}}
  /\ stored' = [stored EXCEPT ![home[m]] = members[home[m]]]
  /\ storedMap' = Remap(storedMap, NodeIds(members[home[m]]), home[m])
  /\ UNCHANGED <<handlerVars, members, home, repoVars, disk, pendingVoice, clearVars,
                 historyVars>>

-----------------------------------------------------------------------------
(* "/clear".                                                               *)

(* In reply to a message of a tree: its branch is cancelled, and the chat  *)
(* messages are being deleted.  In reply to a note that is being           *)
(* transcribed: the note is cancelled.  Else there is nothing to clear.    *)
ClearReply(id) ==
  /\ clears < MaxClears /\ phase[id[1]] # "unseen"
  /\ clears' = clears + 1
  /\ \/ /\ Resolve(id) # None
        /\ active' = active \ Branch(Resolve(id))
        /\ clearing' = clearing \cup {Resolve(id)}
        /\ UNCHANGED <<pendingVoice, withdrawn>>
     \/ /\ Resolve(id) = None
        /\ pendingVoice' = pendingVoice \ {id[1]}
        /\ withdrawn' = withdrawn \cup ({id[1]} \cap pendingVoice)
        /\ UNCHANGED <<active, clearing>>
  /\ UNCHANGED <<handlerVars, members, home, repoVars, storeVars, disk, wiping, cleared,
                 overtaken>>

(* cancel_tree and remove_tree in the repository, remove_node_mappings and *)
(* remove_tree in the store.  The ids of the status messages are not taken *)
(* out of either map.                                                      *)

(* A wrong variant of RemoveTree: the store keeps the tree. *)
RemoveTreeUnsaved(r) ==
  /\ active' = {m \in active : home[m] # r}
  /\ known' = known \ {r}
  /\ nodeToTree' = Remap(nodeToTree, NodeIds(members[r]), None)
  /\ cleared' = cleared \cup members[r]
  /\ UNCHANGED <<members, storeVars>>

RemoveTree(r) ==
  /\ active' = {m \in active : home[m] # r}
  /\ known' = known \ {r}
  /\ nodeToTree' = Remap(nodeToTree, NodeIds(members[r]), None)
  /\ stored' = [stored EXCEPT ![r] = {}]
  /\ storedMap' = Remap(storedMap, NodeIds(members[r] \cup stored[r]), None)
  /\ cleared' = cleared \cup members[r]
  /\ UNCHANGED members

(* A wrong variant of RemoveBranch: the tree is not saved without it. *)
RemoveBranchUnsaved(b) ==
  LET r == home[b] IN
  /\ members' = [members EXCEPT ![r] = @ \ Branch(b)]
  /\ nodeToTree' = Remap(nodeToTree, NodeIds(Branch(b)), None)
  /\ cleared' = cleared \cup Branch(b)
  /\ UNCHANGED <<active, known, storeVars>>

(* MessageTree.remove_branch, and the tree saved without it. *)
RemoveBranch(b) ==
  LET r == home[b] IN
  /\ members' = [members EXCEPT ![r] = @ \ Branch(b)]
  /\ nodeToTree' = Remap(nodeToTree, NodeIds(Branch(b)), None)
  /\ stored' = [stored EXCEPT ![r] = members'[r]]
  /\ storedMap' = Remap(Remap(storedMap, NodeIds(Branch(b)), None), NodeIds(members'[r]), r)
  /\ cleared' = cleared \cup Branch(b)
  /\ UNCHANGED <<active, known>>

FinishClear(b) ==
  /\ b \in clearing
  /\ clearing' = clearing \ {b}
  /\ LET r == TreeFor(<<b, "node">>) IN
       \/ r # None /\ b = r /\ RemoveTree(r)
       \/ r # None /\ b # r /\ b \in members[r] /\ RemoveBranch(b)
       \/ /\ r \notin {x \in known : b \in members[x]}
          /\ UNCHANGED <<active, members, repoVars, storeVars, cleared>>
  /\ UNCHANGED <<handlerVars, home, disk, pendingVoice, wiping, clears, overtaken, withdrawn>>

(* For everything: the tasks of every tree of the manager are cancelled... *)
ClearAll ==
  /\ clears < MaxClears /\ ~wiping
  /\ clears' = clears + 1 /\ wiping' = TRUE
  /\ active' = {m \in active : home[m] \notin known}
  /\ UNCHANGED <<handlerVars, members, home, repoVars, storeVars, disk, pendingVoice,
                 clearing, historyVars>>

(* ... and once the chat is empty, so are the store, its file, and the     *)
(* manager, replaced by a new one.                                         *)
FinishClearAll ==
  /\ wiping /\ wiping' = FALSE
  /\ known' = {} /\ nodeToTree' = NoMap
  /\ stored' = NoTrees /\ storedMap' = NoMap
  /\ cleared' = cleared \cup UNION {members[r] : r \in known}
  /\ disk' = [trees |-> NoTrees, map |-> NoMap, cleared |-> cleared']
  /\ overtaken' = overtaken \cup UNION {members[home[m]] \cup {home[m]} : m \in active}
  /\ UNCHANGED <<handlerVars, treeVars, pendingVoice, clearing, clears, withdrawn>>

-----------------------------------------------------------------------------
(* The store's timer writes the file. *)
SaveFile ==
  /\ disk' = [trees |-> stored, map |-> storedMap, cleared |-> cleared]
  /\ UNCHANGED <<handlerVars, treeVars, repoVars, storeVars, pendingVoice, clearVars,
                 historyVars>>

(* The bot is restarted, with or without a warning: the manager is rebuilt *)
(* from the file, and nodes that were to run are marked as lost.           *)
Restart ==
  /\ stored' = disk.trees /\ storedMap' = disk.map
  /\ members' = disk.trees
  /\ known' = {r \in Msg : disk.trees[r] # {}}
  /\ nodeToTree' = disk.map
  /\ active' = {}
  /\ phase' = [m \in Msg |-> IF phase[m] \in Suspended THEN "lost" ELSE phase[m]]
  /\ pendingVoice' = {} /\ clearing' = {} /\ wiping' = FALSE
  /\ cleared' = disk.cleared
  /\ UNCHANGED <<parent, home, disk, clears, overtaken, withdrawn>>

-----------------------------------------------------------------------------
Next ==
  \/ \E m \in Msg :
       \/ ReceiveText(m) \/ Proceed(m) \/ SendFails(m)
       \/ ReceiveVoice(m) \/ RegisterPendingVoice(m) \/ Transcribed(m) \/ TranscriptionFails(m)
       \/ TaskReports(m)
  \/ \E id \in Id : ClearReply(id)
  \/ \E b \in Msg : FinishClear(b)
  \/ ClearAll \/ FinishClearAll \/ SaveFile \/ Restart

Spec == Init /\ [][Next]_vars

-----------------------------------------------------------------------------
(* A reply to a node's message or to its status message finds the node, as *)
(* long as the manager knows its tree (repository.py:77-95), after a       *)
(* restart too.                                                            *)
BothIdsResolve ==
  \A r \in known : \A m \in members[r] \ overtaken : \A id \in BothIds(m) : Resolve(id) = m

(* The store's trees are the manager's, node for node, so that a restart   *)
(* neither loses a conversation nor brings one back (handler.py:299,       *)
(* commands.py:171-185).  The exception is a conversation that was started *)
(* while a /clear of everything was deleting messages: its task goes on    *)
(* and saves its tree again.                                               *)
StoreInStep ==
  \A r \in Msg \ overtaken : stored[r] = IF r \in known THEN members[r] ELSE {}

(* What a /clear has removed does not come back, neither in the manager    *)
(* nor in the store, except from a file written before it.                 *)
ClearedStaysCleared ==
  \A m \in cleared \ overtaken :
    \A r \in Msg : m \notin stored[r] /\ (r \in known => m \notin members[r])

(* A voice note whose cancellation the user was told of is not run         *)
(* (telegram.py:617-624: the check and the removal are two sections under  *)
(* the lock).                                                              *)
WithdrawnNeverRuns ==
  \A m \in withdrawn : phase[m] \notin {"editing", "handled"} /\ m \notin active

(* A stored tree can be rebuilt (data.py:407-420): it has its root, and    *)
(* the parent of every other node.                                         *)
StoredTreesRebuild ==
  \A r \in Msg : \A m \in stored[r] :
    r \in stored[r] /\ (m # r => parent[m] \in stored[r])
=============================================================================
