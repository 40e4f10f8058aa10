------------------------ MODULE ConversationsProofs ------------------------
(***************************************************************************)
(* Ids lead to their nodes, the store agrees with the manager, what was    *)
(* cleared stays away, a cancelled voice note never runs, and stored trees *)
(* are whole: for any number of messages, voice notes, clears and restarts. *)
(***************************************************************************)
EXTENDS Conversations, Integers, FiniteSetTheorems, WellFoundedInduction, TLAPS

Stage  == Suspended \cup {"unseen", "handled", "failed", "lost"}
MaybeMsg == Msg \cup {None}
Trees  == [Msg -> SUBSET Msg]
Index  == [Id -> MaybeMsg]

TypeInv ==
  /\ phase \in [Msg -> Stage] /\ parent \in [Msg -> MaybeMsg]
  /\ members \in Trees /\ home \in [Msg -> MaybeMsg] /\ active \subseteq Msg
  /\ known \subseteq Msg /\ nodeToTree \in Index
  /\ stored \in Trees /\ storedMap \in Index
  /\ disk \in [trees : Trees, map : Index, cleared : SUBSET Msg]
  /\ pendingVoice \subseteq Msg

(* The trees the manager knows. *)
KnownTrees == [r \in Msg |-> IF r \in known THEN members[r] ELSE {}]

(* Every node is in the one tree it was added to, after its root. *)
Placed(trees) ==
  \A r \in Msg : \A m \in trees[r] :
    home[m] = r /\ phase[m] = "handled" /\ phase[r] = "handled"

(* Both ids of a node lead to its tree. *)
Mapped(trees, map) ==
  \A r \in Msg : \A m \in trees[r] \ overtaken : \A id \in BothIds(m) : map[id] = r

(* What was cleared is not there. *)
Clean(trees, gone) == \A r \in Msg : trees[r] \cap gone \subseteq overtaken

PlacedInv ==
  /\ Placed(members) /\ Placed(stored) /\ Placed(disk.trees)
  /\ \A r \in known : phase[r] = "handled"

MappedInv ==
  Mapped(KnownTrees, nodeToTree) /\ Mapped(stored, storedMap) /\ Mapped(disk.trees, disk.map)

CleanInv ==
  /\ Clean(KnownTrees, cleared) /\ Clean(stored, cleared) /\ Clean(disk.trees, disk.cleared)
  /\ \A m \in cleared \cup disk.cleared : m \in Msg /\ phase[m] = "handled"

(* The store has the manager's trees.  A task that goes on in a tree the   *)
(* manager does not know was overtaken by a /clear of everything.          *)
SyncInv ==
  /\ \A r \in known : stored[r] = members[r]
  /\ \A r \in Msg \ (known \cup overtaken) : stored[r] = {}
  /\ \A m \in active :
       /\ phase[m] = "handled" /\ home[m] \in Msg
       /\ home[m] \in known \/ (home[m] \in overtaken /\ members[home[m]] \subseteq overtaken)

VoiceInv ==
  /\ \A m \in pendingVoice : phase[m] \in {"transcribing", "failed"}
  /\ \A m \in withdrawn : /\ m \in Msg \ pendingVoice
                          /\ phase[m] \in {"transcribing", "failed", "lost"}

ConvInv == TypeInv /\ PlacedInv /\ MappedInv /\ CleanInv /\ SyncInv /\ VoiceInv

-----------------------------------------------------------------------------
LEMMA IdFacts ==
  /\ \A m \in Msg : <<m, "node">> \in Id /\ <<m, "status">> \in Id
  /\ \A m \in Msg : BothIds(m) = {<<m, "node">>, <<m, "status">>} /\ BothIds(m) \subseteq Id
  /\ \A S : NodeIds(S) = {<<m, "node">> : m \in S}
BY DEF Id, BothIds, NodeIds

(* What the index leads to, and what Remap makes of it.                    *)
LEMMA TreeForEffect ==
  ASSUME TypeInv, NEW id \in Id
  PROVE  /\ TreeFor(id) \in MaybeMsg
         /\ TreeFor(id) # None => TreeFor(id) \in known /\ nodeToTree[id] = TreeFor(id)
         /\ nodeToTree[id] \in known => TreeFor(id) = nodeToTree[id]
BY MsgAssumption DEF TreeFor, TypeInv, MaybeMsg

LEMMA RemapEffect ==
  ASSUME NEW map \in Index, NEW ids, NEW root \in MaybeMsg
  PROVE  /\ Remap(map, ids, root) \in Index
         /\ \A id \in Id : Remap(map, ids, root)[id] = IF id \in ids THEN root ELSE map[id]
BY DEF Remap, Index

(* A step that only moves handlers, cancels nodes or voice notes.          *)
LEMMA QuietStep ==
  ASSUME ConvInv, UNCHANGED <<members, home, repoVars, storeVars, disk, cleared, overtaken>>,
         active' \subseteq active, phase' \in [Msg -> Stage], parent' \in [Msg -> MaybeMsg],
         \A m \in Msg : phase[m] = "handled" => phase'[m] = "handled",
         VoiceInv', pendingVoice' \subseteq Msg
  PROVE  ConvInv'
<1> USE DEF ConvInv, repoVars, storeVars
<1>1. TypeInv'
  BY DEF TypeInv
<1>2. PlacedInv'
  BY DEF TypeInv, PlacedInv, Placed, Trees
<1>3. KnownTrees' = KnownTrees
  BY DEF KnownTrees
<1>4. MappedInv'
  BY <1>3 DEF MappedInv, Mapped
<1>5. CleanInv'
  BY <1>3 DEF CleanInv, Clean
<1>6. SyncInv'
  BY DEF SyncInv, TypeInv
<1> QED BY <1>1, <1>2, <1>4, <1>5, <1>6

(* Handle resolves to a message or to nothing.                             *)
LEMMA HandleEffect ==
  ASSUME TypeInv, NEW m \in Msg, NEW next \in Stage, Handle(m, next)
  PROVE  /\ phase' = [phase EXCEPT ![m] = next]
         /\ phase' \in [Msg -> Stage] /\ parent' \in [Msg -> MaybeMsg]
<1>1. \A id \in Id : Resolve(id) \in MaybeMsg
  BY DEF Resolve, MaybeMsg, Id
<1>2. PICK reply \in {None} \cup {id \in Id : phase[id[1]] # "unseen"} :
        /\ parent' = [parent EXCEPT ![m] = IF reply = None THEN None ELSE Resolve(reply)]
        /\ phase' = [phase EXCEPT ![m] = next]
  BY DEF Handle
<1>3. (IF reply = None THEN None ELSE Resolve(reply)) \in MaybeMsg
  BY <1>1 DEF MaybeMsg
<1> QED BY <1>2, <1>3 DEF TypeInv

(* A handler that moves from one suspension to another, or gives up.       *)
LEMMA MessageKeeps ==
  ASSUME ConvInv, NEW m \in Msg,
         \/ ReceiveText(m) \/ SendFails(m) \/ ReceiveVoice(m) \/ RegisterPendingVoice(m)
         \/ Transcribed(m) \/ TranscriptionFails(m)
  PROVE  ConvInv'
<1> USE DEF Stage, Suspended
<1>0. TypeInv /\ VoiceInv
  BY DEF ConvInv
<1>1. CASE ReceiveText(m)
  <2>1. phase' = [phase EXCEPT ![m] = "sending"]
        /\ phase' \in [Msg -> Stage] /\ parent' \in [Msg -> MaybeMsg]
    BY <1>0, <1>1, HandleEffect DEF ReceiveText
  <2>2. VoiceInv'
    BY <1>0, <1>1, <2>1 DEF ReceiveText, VoiceInv, TypeInv, historyVars
  <2> QED BY <1>0, <1>1, <2>1, <2>2, QuietStep DEF ReceiveText, TypeInv, treeVars, historyVars
<1>2. CASE SendFails(m)
  <2>1. phase' \in [Msg -> Stage] /\ VoiceInv'
    BY <1>0, <1>2 DEF SendFails, VoiceInv, TypeInv, historyVars
  <2> QED BY <1>0, <1>2, <2>1, QuietStep DEF SendFails, TypeInv, treeVars, historyVars
<1>3. CASE ReceiveVoice(m)
  <2>1. phase' \in [Msg -> Stage] /\ VoiceInv'
    BY <1>0, <1>3 DEF ReceiveVoice, VoiceInv, TypeInv, historyVars
  <2> QED BY <1>0, <1>3, <2>1, QuietStep DEF ReceiveVoice, TypeInv, treeVars, historyVars
<1>4. CASE RegisterPendingVoice(m)
  <2>1. phase' \in [Msg -> Stage] /\ VoiceInv'
    BY <1>0, <1>4 DEF RegisterPendingVoice, VoiceInv, TypeInv, historyVars
  <2> QED BY <1>0, <1>4, <2>1, QuietStep DEF RegisterPendingVoice, TypeInv, treeVars, historyVars
<1>5. CASE Transcribed(m)
  <2>1. \/ /\ m \in pendingVoice /\ phase' = [phase EXCEPT ![m] = "editing"]
           /\ phase' \in [Msg -> Stage] /\ parent' \in [Msg -> MaybeMsg]
        \/ phase' = [phase EXCEPT ![m] = "failed"] /\ parent' = parent
    BY <1>0, <1>5, HandleEffect DEF Transcribed
  <2>2. phase' \in [Msg -> Stage] /\ parent' \in [Msg -> MaybeMsg]
    BY <1>0, <2>1 DEF TypeInv
  <2>3. VoiceInv'
    BY <1>0, <1>5, <2>1 DEF Transcribed, VoiceInv, TypeInv, historyVars
  <2>4. \A k \in Msg : phase[k] = "handled" => phase'[k] = "handled"
    BY <1>0, <1>5, <2>1 DEF Transcribed, TypeInv
  <2>5. pendingVoice' \subseteq Msg
    BY <1>0, <1>5 DEF Transcribed, TypeInv
  <2> QED BY <1>5, <2>2, <2>3, <2>4, <2>5, QuietStep DEF Transcribed, treeVars, historyVars
<1>6. CASE TranscriptionFails(m)
  <2>1. phase' \in [Msg -> Stage] /\ VoiceInv'
    BY <1>0, <1>6 DEF TranscriptionFails, VoiceInv, TypeInv, historyVars
  <2> QED BY <1>0, <1>6, <2>1, QuietStep DEF TranscriptionFails, TypeInv, treeVars, historyVars
<1> QED BY <1>1, <1>2, <1>3, <1>4, <1>5, <1>6

-----------------------------------------------------------------------------
(* A new node enters a tree: it was in none before.                        *)
LEMMA EnterKeeps ==
  ASSUME ConvInv, NEW m \in Msg, NEW root \in Msg, root = m \/ root \in known,
         phase[m] \in {"sending", "editing"}, Enter(m, root),
         UNCHANGED <<parent, disk, pendingVoice, historyVars>>
  PROVE  ConvInv'
<1> USE DEF ConvInv, historyVars
<1>1. \A r \in Msg : m \notin members[r] /\ m \notin stored[r] /\ m \notin disk.trees[r]
  BY DEF PlacedInv, Placed
<1>0. root # m \/ (members[root] = {} /\ stored[root] = {})
  BY DEF PlacedInv, Placed, TypeInv, Trees
<1>2. members' = [members EXCEPT ![root] = @ \cup {m}] /\ home' = [home EXCEPT ![m] = root]
      /\ active' = active \cup {m} /\ known' = known \cup {root}
      /\ stored' = [stored EXCEPT ![root] = members'[root]]
      /\ phase' = [phase EXCEPT ![m] = "handled"]
      /\ nodeToTree' = Remap(nodeToTree, BothIds(m), root)
      /\ storedMap' = Remap(storedMap, BothIds(m) \cup NodeIds(members'[root]), root)
  BY DEF Enter
<1>3. /\ members' \in Trees /\ members'[root] = members[root] \cup {m}
      /\ \A r \in Msg \ {root} : members'[r] = members[r] /\ stored'[r] = stored[r]
      /\ stored' \in Trees /\ stored'[root] = members[root] \cup {m}
  BY <1>2 DEF TypeInv, Trees
<1>4. /\ home' \in [Msg -> MaybeMsg] /\ home'[m] = root /\ phase'[m] = "handled"
      /\ phase' \in [Msg -> Stage]
      /\ \A k \in Msg \ {m} : home'[k] = home[k] /\ phase'[k] = phase[k]
  BY <1>2 DEF TypeInv, MaybeMsg, Stage
<1>5. /\ nodeToTree' \in Index /\ storedMap' \in Index
      /\ \A id \in Id : nodeToTree'[id] = IF id \in BothIds(m) THEN root ELSE nodeToTree[id]
      /\ \A id \in Id : storedMap'[id] =
           IF id \in BothIds(m) \cup NodeIds(members'[root]) THEN root ELSE storedMap[id]
  <2> DEFINE ids == BothIds(m) \cup NodeIds(members'[root])
  <2>1. root \in MaybeMsg /\ nodeToTree \in Index /\ storedMap \in Index
    BY DEF TypeInv, MaybeMsg
  <2>2. /\ nodeToTree' \in Index
        /\ \A id \in Id : nodeToTree'[id] = IF id \in BothIds(m) THEN root ELSE nodeToTree[id]
    BY <1>2, <2>1, RemapEffect
  <2>3. /\ storedMap' = Remap(storedMap, ids, root)
    BY <1>2
  <2>4. /\ storedMap' \in Index
        /\ \A id \in Id : storedMap'[id] = IF id \in ids THEN root ELSE storedMap[id]
    BY <2>1, <2>3, RemapEffect
  <2> QED BY <2>2, <2>4
<1>6. TypeInv'
  BY <1>2, <1>3, <1>4, <1>5 DEF TypeInv
<1>7. PlacedInv'
  <2>1. phase'[root] = "handled"
    BY <1>4 DEF PlacedInv
  <2>2. \A r \in known' : phase'[r] = "handled"
    BY <1>2, <1>4, <2>1 DEF PlacedInv, TypeInv
  <2>3. Placed(members)'
    BY <1>1, <1>3, <1>4, <2>1 DEF PlacedInv, Placed, TypeInv, Trees
  <2>4. Placed(stored)'
    <3>1. ASSUME NEW k \in members[root] PROVE k \in Msg \ {m} /\ home[k] = root /\ phase[k] = "handled"
      BY <1>1 DEF PlacedInv, Placed, TypeInv, Trees
    <3>2. ASSUME NEW r \in Msg, NEW k \in stored[r]
          PROVE k \in Msg \ {m} /\ home[k] = r /\ phase[k] = "handled" /\ phase[r] = "handled"
      BY <1>1 DEF PlacedInv, Placed, TypeInv, Trees
    <3> QED BY <1>3, <1>4, <2>1, <3>1, <3>2 DEF Placed
  <2>5. Placed(disk.trees)'
    BY <1>1, <1>4 DEF PlacedInv, Placed, TypeInv, Trees
  <2> QED BY <2>2, <2>3, <2>4, <2>5 DEF PlacedInv
<1>8. MappedInv'
  <2>1. \A r \in Msg : \A k \in Msg \ {m} : k \in KnownTrees'[r] =>
          k \in KnownTrees[r] \/ (r = root /\ root = m /\ k \in members[root])
    BY <1>2, <1>3 DEF KnownTrees
  <2>2. ASSUME NEW r \in Msg, NEW k \in KnownTrees'[r] \ overtaken', NEW id \in BothIds(k)
        PROVE  nodeToTree'[id] = r
    <3>0. KnownTrees'[r] \subseteq members'[r] /\ members'[r] \subseteq Msg
      BY <1>3 DEF KnownTrees, Trees
    <3>1. k \in members'[r] /\ k \in Msg /\ id \in Id
      BY <2>2, <3>0, IdFacts
    <3>2. CASE k = m
      BY <1>1, <1>3, <1>5, <3>1, <3>2
    <3>3. CASE k # m
      <4>1. id \notin BothIds(m)
        BY <3>1, <3>3, IdFacts
      <4>3. k \in KnownTrees[r] \ overtaken
        BY <1>0, <2>1, <2>2, <3>1, <3>3
      <4> QED BY <1>5, <3>1, <4>1, <4>3 DEF MappedInv, Mapped
    <3> QED BY <3>2, <3>3
  <2>3. ASSUME NEW r \in Msg, NEW k \in stored'[r] \ overtaken', NEW id \in BothIds(k)
        PROVE  storedMap'[id] = r
    <3>1. k \in Msg /\ id \in Id
      <4>1. stored'[r] \subseteq Msg
        BY <1>3 DEF Trees
      <4> QED BY <2>3, <4>1, IdFacts
    <3>2. CASE k = m
      BY <1>1, <1>3, <1>5, <3>1, <3>2
    <3>3. CASE k # m /\ r # root
      <4>1. k \in stored[r] /\ home[k] = r
        BY <1>3, <2>3, <3>3 DEF PlacedInv, Placed
      <4>2. k \notin members[root]
        BY <3>3, <4>1 DEF PlacedInv, Placed
      <4>3. id \notin BothIds(m) \cup NodeIds(members'[root])
        BY <1>3, <3>1, <3>3, <4>2, IdFacts
      <4> QED BY <1>5, <2>3, <3>1, <4>1, <4>3 DEF MappedInv, Mapped
    <3>4. CASE k # m /\ r = root
      <4>1. k \in members[root]
        BY <1>3, <2>3, <3>4
      <4>3. k \in stored[r]
        BY <1>0, <3>4, <4>1 DEF SyncInv
      <4> QED BY <1>5, <2>3, <3>1, <3>4, <4>3 DEF MappedInv, Mapped
    <3> QED BY <3>2, <3>3, <3>4
  <2> QED BY <2>2, <2>3 DEF MappedInv, Mapped
<1>9. CleanInv'
  <2>1. m \notin cleared
    BY DEF CleanInv
  <2>3. Clean(KnownTrees, cleared)'
    BY <1>0, <1>2, <1>3, <2>1 DEF CleanInv, Clean, KnownTrees
  <2>4. Clean(stored, cleared)'
    <3>1. ASSUME NEW r \in Msg PROVE stored'[r] \cap cleared \subseteq overtaken
      <4>1. CASE r # root
        BY <1>3, <4>1 DEF CleanInv, Clean
      <4>2. CASE r = root
        BY <1>0, <1>3, <2>1, <4>2 DEF CleanInv, Clean, SyncInv
      <4> QED BY <4>1, <4>2
    <3> QED BY <3>1 DEF Clean
  <2> QED BY <1>4, <2>3, <2>4 DEF CleanInv, Clean
<1>10. SyncInv'
  <2>1. \A r \in known' : stored'[r] = members'[r]
    BY <1>2, <1>3 DEF SyncInv, TypeInv
  <2>2. \A r \in Msg \ (known' \cup overtaken') : stored'[r] = {}
    BY <1>2, <1>3 DEF SyncInv
  <2>3. ASSUME NEW k \in active'
        PROVE  /\ phase'[k] = "handled" /\ home'[k] \in Msg
               /\ \/ home'[k] \in known'
                  \/ home'[k] \in overtaken' /\ members'[home'[k]] \subseteq overtaken'
    BY <1>2, <1>3, <1>4 DEF SyncInv, TypeInv
  <2> QED BY <2>1, <2>2, <2>3 DEF SyncInv
<1>11. VoiceInv'
  BY <1>4 DEF VoiceInv, TypeInv
<1> QED BY <1>6, <1>7, <1>8, <1>9, <1>10, <1>11

LEMMA ProceedKeeps ==
  ASSUME ConvInv, NEW m \in Msg, Proceed(m)
  PROVE  ConvInv'
<1>1. phase[m] \in {"sending", "editing"} /\ UNCHANGED <<parent, disk, pendingVoice, historyVars>>
  BY DEF Proceed
<1>2. CASE Enter(m, m)
  BY <1>1, <1>2, EnterKeeps
<1>3. CASE parent[m] # None /\ ParentThere(m) /\ Enter(m, TreeFor(<<parent[m], "node">>))
  <2>1. <<parent[m], "node">> \in Id
    BY <1>3, IdFacts DEF ConvInv, TypeInv, MaybeMsg
  <2>2. TreeFor(<<parent[m], "node">>) \in known
    BY <1>3, <2>1, TreeForEffect DEF ConvInv, ParentThere
  <2> QED BY <1>1, <1>3, <2>2, EnterKeeps DEF ConvInv, TypeInv
<1>4. CASE phase' = [phase EXCEPT ![m] = "failed"] /\ UNCHANGED <<treeVars, repoVars, storeVars>>
  <2>1. phase' \in [Msg -> Stage] /\ VoiceInv'
    BY <1>1, <1>4 DEF ConvInv, VoiceInv, TypeInv, historyVars, Stage
  <2> QED BY <1>1, <1>4, <2>1, QuietStep DEF ConvInv, TypeInv, treeVars, historyVars
<1> QED BY <1>2, <1>3, <1>4 DEF Proceed

-----------------------------------------------------------------------------
(* A node's task saves the tree it was given, which the manager may have   *)
(* lost to a /clear of everything.                                         *)
LEMMA TaskReportsKeeps ==
  ASSUME ConvInv, NEW m \in Msg, TaskReports(m)
  PROVE  ConvInv'
<1> DEFINE h == home[m]
<1> USE DEF ConvInv
<1>1. /\ h \in Msg
      /\ h \in known \/ (h \in overtaken /\ members[h] \subseteq overtaken)
      /\ active' \subseteq active
      /\ UNCHANGED <<phase, parent, members, home, known, nodeToTree, disk, pendingVoice,
                     cleared, overtaken, withdrawn>>
  BY DEF TaskReports, SyncInv, handlerVars, repoVars, historyVars
<1>2. /\ stored' \in Trees /\ stored'[h] = members[h]
      /\ \A r \in Msg \ {h} : stored'[r] = stored[r]
  BY <1>1 DEF TaskReports, TypeInv, Trees
<1>3. /\ storedMap' \in Index
      /\ \A id \in Id : storedMap'[id] = IF id \in NodeIds(members[h]) THEN h ELSE storedMap[id]
  <2>1. h \in MaybeMsg /\ storedMap \in Index
    BY <1>1 DEF TypeInv, MaybeMsg
  <2>2. storedMap' = Remap(storedMap, NodeIds(members[h]), h)
    BY DEF TaskReports
  <2> QED BY <2>1, <2>2, RemapEffect
<1>4. TypeInv'
  BY <1>1, <1>2, <1>3 DEF TypeInv
<1>5. PlacedInv'
  <2>1. Placed(stored)'
    <3>1. ASSUME NEW r \in Msg, NEW k \in stored'[r]
          PROVE home[k] = r /\ phase[k] = "handled" /\ phase[r] = "handled"
      BY <1>2 DEF PlacedInv, Placed
    <3> QED BY <1>1, <3>1 DEF Placed
  <2> QED BY <1>1, <2>1 DEF PlacedInv, Placed
<1>6. KnownTrees' = KnownTrees
  BY <1>1 DEF KnownTrees
<1>7. MappedInv'
  <2>1. ASSUME NEW r \in Msg, NEW k \in stored'[r] \ overtaken, NEW id \in BothIds(k)
        PROVE  storedMap'[id] = r
    <3>1. k \in Msg /\ id \in Id
      <4>1. stored'[r] \subseteq Msg
        BY <1>2 DEF Trees
      <4> QED BY <2>1, <4>1, IdFacts
    <3>2. k \in stored[r]
      BY <1>1, <1>2, <2>1 DEF SyncInv
    <3>3. home[k] = r /\ (k \in members[h] => home[k] = h)
      BY <1>1, <3>2 DEF PlacedInv, Placed
    <3>4. storedMap[id] = r
      BY <2>1, <3>2 DEF MappedInv, Mapped
    <3>5. id \in NodeIds(members[h]) => k \in members[h]
      BY <2>1, <3>1, IdFacts
    <3> QED BY <1>3, <3>1, <3>3, <3>4, <3>5
  <2> QED BY <1>1, <1>6, <2>1 DEF MappedInv, Mapped
<1>8. CleanInv'
  <2>1. ASSUME NEW r \in Msg PROVE stored'[r] \cap cleared \subseteq overtaken
    <3>1. CASE r # h
      BY <1>2, <3>1 DEF CleanInv, Clean
    <3>2. CASE r = h
      BY <1>1, <1>2, <3>2 DEF CleanInv, Clean, SyncInv
    <3> QED BY <3>1, <3>2
  <2> QED BY <1>1, <1>6, <2>1 DEF CleanInv, Clean
<1>9. SyncInv'
  <2>1. \A r \in known : stored'[r] = members[r]
    BY <1>2 DEF SyncInv, TypeInv
  <2> QED BY <1>1, <1>2, <2>1 DEF SyncInv
<1>10. VoiceInv'
  BY <1>1 DEF VoiceInv
<1> QED BY <1>4, <1>5, <1>7, <1>8, <1>9, <1>10

-----------------------------------------------------------------------------
(* The steps of "/clear".                                                  *)
LEMMA CancelKeeps ==
  ASSUME ConvInv, ClearAll \/ \E id \in Id : ClearReply(id)
  PROVE  ConvInv'
<1>0. TypeInv /\ VoiceInv
  BY DEF ConvInv
<1>1. CASE ClearAll
  <2>1. VoiceInv'
    BY <1>0, <1>1 DEF ClearAll, VoiceInv, handlerVars, historyVars
  <2> QED BY <1>0, <1>1, <2>1, QuietStep DEF ClearAll, handlerVars, historyVars, TypeInv
<1>2. ASSUME NEW id \in Id, ClearReply(id) PROVE ConvInv'
  <2>1. pendingVoice' \subseteq pendingVoice /\ active' \subseteq active
        /\ UNCHANGED <<phase, parent, members, home, repoVars, storeVars, disk, cleared, overtaken>>
    BY <1>2 DEF ClearReply, handlerVars
  <2>2. VoiceInv'
    <3>1. CASE UNCHANGED <<pendingVoice, withdrawn>>
      BY <1>0, <2>1, <3>1 DEF VoiceInv
    <3>2. CASE pendingVoice' = pendingVoice \ {id[1]}
               /\ withdrawn' = withdrawn \cup ({id[1]} \cap pendingVoice)
      BY <1>0, <2>1, <3>2 DEF VoiceInv, TypeInv
    <3> QED BY <1>2, <3>1, <3>2 DEF ClearReply
  <2> QED BY <1>0, <2>1, <2>2, QuietStep DEF TypeInv
<1> QED BY <1>1, <1>2

LEMMA RemoveTreeKeeps ==
  ASSUME ConvInv, NEW r \in known, RemoveTree(r),
         UNCHANGED <<handlerVars, home, disk, pendingVoice, overtaken, withdrawn>>
  PROVE  ConvInv'
<1> USE DEF ConvInv, handlerVars
<1>1. /\ active' = {m \in active : home[m] # r} /\ known' = known \ {r}
      /\ cleared' = cleared \cup members[r] /\ members' = members
      /\ r \in Msg
  BY DEF RemoveTree, TypeInv
<1>2. stored' \in Trees /\ stored'[r] = {} /\ \A x \in Msg \ {r} : stored'[x] = stored[x]
  BY <1>1 DEF RemoveTree, TypeInv, Trees
<1>3. /\ nodeToTree' \in Index
      /\ \A id \in Id : nodeToTree'[id] =
           IF id \in NodeIds(members[r]) THEN None ELSE nodeToTree[id]
  <2>1. None \in MaybeMsg /\ nodeToTree \in Index
    BY DEF TypeInv, MaybeMsg
  <2>2. nodeToTree' = Remap(nodeToTree, NodeIds(members[r]), None)
    BY DEF RemoveTree
  <2> QED BY <2>1, <2>2, RemapEffect
<1>4. /\ storedMap' \in Index
      /\ \A id \in Id : storedMap'[id] =
           IF id \in NodeIds(members[r] \cup stored[r]) THEN None ELSE storedMap[id]
  <2>1. None \in MaybeMsg /\ storedMap \in Index
    BY DEF TypeInv, MaybeMsg
  <2>2. storedMap' = Remap(storedMap, NodeIds(members[r] \cup stored[r]), None)
    BY DEF RemoveTree
  <2> QED BY <2>1, <2>2, RemapEffect
<1>5. TypeInv'
  BY <1>1, <1>2, <1>3, <1>4 DEF TypeInv
<1>6. PlacedInv'
  <2>1. \A x \in Msg : stored'[x] \subseteq stored[x]
    BY <1>2
  <2> QED BY <1>1, <2>1 DEF PlacedInv, Placed
<1>7. \A x \in Msg : KnownTrees'[x] = IF x = r THEN {} ELSE KnownTrees[x]
  BY <1>1 DEF KnownTrees
<1>8. MappedInv'
  <2>1. ASSUME NEW x \in Msg, NEW k \in KnownTrees'[x] \ overtaken, NEW id \in BothIds(k)
        PROVE  nodeToTree'[id] = x
    <3>1. x # r /\ k \in KnownTrees[x] /\ k \in members[x] /\ members[x] \subseteq Msg
      BY <1>7, <2>1 DEF KnownTrees, TypeInv, Trees
    <3>2. k \notin members[r] /\ k \in Msg
      BY <1>1, <3>1 DEF PlacedInv, Placed
    <3>3. id \in Id /\ id \notin NodeIds(members[r])
      BY <2>1, <3>2, IdFacts
    <3> QED BY <1>3, <2>1, <3>1, <3>3 DEF MappedInv, Mapped
  <2>2. ASSUME NEW x \in Msg, NEW k \in stored'[x] \ overtaken, NEW id \in BothIds(k)
        PROVE  storedMap'[id] = x
    <3>1. x # r /\ k \in stored[x] /\ stored[x] \subseteq Msg
      BY <1>2, <2>2 DEF TypeInv, Trees
    <3>2. k \notin members[r] \cup stored[r] /\ k \in Msg
      BY <1>1, <3>1 DEF PlacedInv, Placed
    <3>3. id \in Id /\ id \notin NodeIds(members[r] \cup stored[r])
      BY <2>2, <3>2, IdFacts
    <3> QED BY <1>4, <2>2, <3>1, <3>3 DEF MappedInv, Mapped
  <2> QED BY <2>1, <2>2 DEF MappedInv, Mapped
<1>9. CleanInv'
  <2>1. ASSUME NEW x \in Msg PROVE KnownTrees'[x] \cap cleared' \subseteq overtaken
    <3>1. x # r => KnownTrees[x] \cap members[r] = {}
      BY <1>1 DEF KnownTrees, PlacedInv, Placed
    <3> QED BY <1>1, <1>7, <3>1 DEF CleanInv, Clean
  <2>2. ASSUME NEW x \in Msg PROVE stored'[x] \cap cleared' \subseteq overtaken
    <3>1. x # r => stored[x] \cap members[r] = {}
      BY <1>1 DEF PlacedInv, Placed
    <3> QED BY <1>1, <1>2, <3>1 DEF CleanInv, Clean
  <2>3. \A m \in cleared' \cup disk.cleared : m \in Msg /\ phase[m] = "handled"
    BY <1>1 DEF CleanInv, PlacedInv, Placed, TypeInv, Trees
  <2> QED BY <2>1, <2>2, <2>3 DEF CleanInv, Clean
<1>10. SyncInv'
  <2>1. \A x \in known' : stored'[x] = members[x]
    BY <1>1, <1>2 DEF SyncInv, TypeInv
  <2> QED BY <1>1, <1>2, <2>1 DEF SyncInv
<1>11. VoiceInv'
  BY <1>1 DEF VoiceInv
<1> QED BY <1>5, <1>6, <1>8, <1>9, <1>10, <1>11

LEMMA RemoveBranchKeeps ==
  ASSUME ConvInv, NEW r \in known, NEW b \in members[r], RemoveBranch(b),
         UNCHANGED <<handlerVars, home, disk, pendingVoice, overtaken, withdrawn>>
  PROVE  ConvInv'
<1> DEFINE B == Branch(b)
<1> USE DEF ConvInv, handlerVars
<1>1. r \in Msg /\ home[b] = r /\ b \in Msg
  BY DEF TypeInv, Trees, PlacedInv, Placed
<1>2. B \subseteq members[r]
  BY <1>1 DEF Branch
<1>3. /\ members' = [members EXCEPT ![r] = @ \ B] /\ cleared' = cleared \cup B
      /\ active' = active /\ known' = known
      /\ nodeToTree' = Remap(nodeToTree, NodeIds(B), None)
      /\ stored' = [stored EXCEPT ![r] = members'[r]]
      /\ storedMap' = Remap(Remap(storedMap, NodeIds(B), None), NodeIds(members'[r]), r)
  BY <1>1 DEF RemoveBranch
<1> HIDE DEF B
<1>4. /\ members' \in Trees /\ members'[r] = members[r] \ B
      /\ stored' \in Trees /\ stored'[r] = members[r] \ B
      /\ \A x \in Msg \ {r} : members'[x] = members[x] /\ stored'[x] = stored[x]
  BY <1>1, <1>3 DEF TypeInv, Trees
<1>5. /\ nodeToTree' \in Index
      /\ \A id \in Id : nodeToTree'[id] = IF id \in NodeIds(B) THEN None ELSE nodeToTree[id]
  <2>1. None \in MaybeMsg /\ nodeToTree \in Index
    BY DEF TypeInv, MaybeMsg
  <2> QED BY <1>3, <2>1, RemapEffect
<1>6. /\ storedMap' \in Index
      /\ \A id \in Id : id \notin NodeIds(B) =>
           storedMap'[id] = IF id \in NodeIds(members'[r]) THEN r ELSE storedMap[id]
  <2> DEFINE map == Remap(storedMap, NodeIds(B), None)
  <2>1. None \in MaybeMsg /\ r \in MaybeMsg /\ storedMap \in Index
    BY <1>1 DEF TypeInv, MaybeMsg
  <2>2. map \in Index
        /\ \A id \in Id : map[id] = IF id \in NodeIds(B) THEN None ELSE storedMap[id]
    BY <2>1, RemapEffect
  <2>3. storedMap' = Remap(map, NodeIds(members'[r]), r)
    BY <1>3
  <2> HIDE DEF map
  <2>4. storedMap' \in Index
        /\ \A id \in Id : storedMap'[id] = IF id \in NodeIds(members'[r]) THEN r ELSE map[id]
    BY <2>1, <2>2, <2>3, RemapEffect
  <2> QED BY <2>2, <2>4
<1>7. stored[r] = members[r]
  BY DEF SyncInv
<1>8. \A x \in Msg : members'[x] \subseteq members[x] /\ stored'[x] \subseteq stored[x]
  BY <1>4, <1>7
<1>9. TypeInv'
  BY <1>3, <1>4, <1>5, <1>6 DEF TypeInv
<1>10. PlacedInv'
  BY <1>3, <1>8 DEF PlacedInv, Placed
<1>11. \A x \in Msg : KnownTrees'[x] = IF x = r THEN members[r] \ B ELSE KnownTrees[x]
  BY <1>3, <1>4 DEF KnownTrees
<1>12. \A x \in Msg : \A k \in members'[x] \cup stored'[x] : k \in Msg \ B
  BY <1>1, <1>2, <1>4, <1>7 DEF PlacedInv, Placed, TypeInv, Trees
<1>13. MappedInv'
  <2>1. ASSUME NEW x \in Msg, NEW k \in KnownTrees'[x] \ overtaken, NEW id \in BothIds(k)
        PROVE  nodeToTree'[id] = x
    <3>1. k \in KnownTrees[x] /\ k \in members'[x]
      BY <1>1, <1>4, <1>11, <2>1 DEF KnownTrees
    <3>2. k \in Msg \ B
      BY <1>12, <3>1
    <3>3. id \in Id /\ id \notin NodeIds(B)
      BY <2>1, <3>2, IdFacts
    <3> QED BY <1>5, <2>1, <3>1, <3>3 DEF MappedInv, Mapped
  <2>2. ASSUME NEW x \in Msg, NEW k \in stored'[x] \ overtaken, NEW id \in BothIds(k)
        PROVE  storedMap'[id] = x
    <3>1. k \in stored[x] /\ k \in Msg \ B
      BY <1>8, <1>12, <2>2
    <3>2. id \in Id /\ id \notin NodeIds(B)
      BY <2>2, <3>1, IdFacts
    <3>3. storedMap[id] = x
      BY <2>2, <3>1 DEF MappedInv, Mapped
    <3>4. id \in NodeIds(members'[r]) => k \in members[r]
      BY <1>4, <2>2, <3>1, IdFacts
    <3>5. k \in members[r] => x = r
      BY <1>1, <3>1 DEF PlacedInv, Placed
    <3> QED BY <1>6, <3>2, <3>3, <3>4, <3>5
  <2> QED BY <2>1, <2>2 DEF MappedInv, Mapped
<1>14. CleanInv'
  <2>1. ASSUME NEW x \in Msg PROVE KnownTrees'[x] \cap cleared' \subseteq overtaken
    <3>1. KnownTrees'[x] \cap B = {} /\ KnownTrees'[x] \subseteq KnownTrees[x]
      BY <1>1, <1>2, <1>11 DEF KnownTrees, PlacedInv, Placed
    <3> QED BY <1>3, <3>1 DEF CleanInv, Clean
  <2>2. ASSUME NEW x \in Msg PROVE stored'[x] \cap cleared' \subseteq overtaken
    BY <1>3, <1>8, <1>12 DEF CleanInv, Clean
  <2>3. \A m \in cleared' \cup disk.cleared : m \in Msg /\ phase[m] = "handled"
    BY <1>1, <1>2, <1>3 DEF CleanInv, PlacedInv, Placed, TypeInv, Trees
  <2> QED BY <2>1, <2>2, <2>3 DEF CleanInv, Clean
<1>15. SyncInv'
  <2>1. \A x \in known' : stored'[x] = members'[x]
    BY <1>3, <1>4 DEF SyncInv, TypeInv
  <2>2. \A m \in active : members'[home[m]] \subseteq members[home[m]]
    BY <1>8 DEF SyncInv
  <2> QED BY <1>1, <1>3, <1>4, <2>1, <2>2 DEF SyncInv
<1>16. VoiceInv'
  BY DEF VoiceInv
<1> QED BY <1>9, <1>10, <1>13, <1>14, <1>15, <1>16

LEMMA FinishClearKeeps ==
  ASSUME ConvInv, NEW b \in Msg, FinishClear(b)
  PROVE  ConvInv'
<1> DEFINE r == TreeFor(<<b, "node">>)
<1>1. UNCHANGED <<handlerVars, home, disk, pendingVoice, overtaken, withdrawn>>
  BY DEF FinishClear
<1>2. r # None => r \in known
  BY IdFacts, TreeForEffect DEF ConvInv
<1>3. CASE r # None /\ b = r /\ RemoveTree(r)
  BY <1>1, <1>2, <1>3, RemoveTreeKeeps
<1>4. CASE r # None /\ b # r /\ b \in members[r] /\ RemoveBranch(b)
  BY <1>1, <1>2, <1>4, RemoveBranchKeeps
<1>5. CASE UNCHANGED <<active, members, repoVars, storeVars, cleared>>
  <2>1. VoiceInv'
    BY <1>1 DEF ConvInv, VoiceInv, handlerVars
  <2> QED BY <1>1, <1>5, <2>1, QuietStep DEF ConvInv, TypeInv, handlerVars
<1> QED BY <1>3, <1>4, <1>5 DEF FinishClear

(* The new manager knows nothing, and what still runs has been overtaken.  *)
LEMMA FinishClearAllKeeps ==
  ASSUME ConvInv, FinishClearAll
  PROVE  ConvInv'
<1> USE DEF ConvInv
<1>1. /\ known' = {} /\ nodeToTree' = NoMap /\ stored' = NoTrees /\ storedMap' = NoMap
      /\ cleared' = cleared \cup UNION {members[r] : r \in known}
      /\ disk' = [trees |-> NoTrees, map |-> NoMap, cleared |-> cleared']
      /\ overtaken \subseteq overtaken'
      /\ \A m \in active : home[m] \in overtaken' /\ members[home[m]] \subseteq overtaken'
      /\ UNCHANGED <<phase, parent, members, home, active, pendingVoice, withdrawn>>
  BY DEF FinishClearAll, handlerVars, treeVars
<1>2. NoTrees \in Trees /\ NoMap \in Index /\ (\A r \in Msg : NoTrees[r] = {})
  BY DEF NoTrees, NoMap, Trees, Index, MaybeMsg
<1>3. \A m \in cleared' : m \in Msg /\ phase[m] = "handled"
  BY <1>1 DEF CleanInv, PlacedInv, Placed, TypeInv, Trees
<1>4. disk'.trees = NoTrees /\ disk'.map = NoMap /\ disk'.cleared = cleared'
  BY <1>1
<1>5. TypeInv'
  BY <1>1, <1>2, <1>3 DEF TypeInv
<1>6. PlacedInv'
  BY <1>1, <1>2, <1>4 DEF PlacedInv, Placed
<1>7. \A r \in Msg : KnownTrees'[r] = {}
  BY <1>1 DEF KnownTrees
<1>8. MappedInv' /\ CleanInv'
  BY <1>1, <1>2, <1>3, <1>4, <1>7 DEF MappedInv, Mapped, CleanInv, Clean
<1>9. SyncInv'
  BY <1>1, <1>2 DEF SyncInv
<1>10. VoiceInv'
  BY <1>1 DEF VoiceInv
<1> QED BY <1>5, <1>6, <1>8, <1>9, <1>10

-----------------------------------------------------------------------------
LEMMA SaveFileKeeps ==
  ASSUME ConvInv, SaveFile
  PROVE  ConvInv'
<1> USE DEF ConvInv, SaveFile, handlerVars, treeVars, repoVars, storeVars, historyVars
<1>1. disk'.trees = stored /\ disk'.map = storedMap /\ disk'.cleared = cleared
  OBVIOUS
<1>2. cleared \subseteq Msg
  BY DEF CleanInv
<1>3. TypeInv'
  BY <1>2 DEF TypeInv
<1>4. KnownTrees' = KnownTrees
  BY DEF KnownTrees
<1>5. PlacedInv' /\ MappedInv' /\ CleanInv'
  BY <1>1, <1>4 DEF PlacedInv, Placed, MappedInv, Mapped, CleanInv, Clean
<1>6. SyncInv' /\ VoiceInv'
  BY DEF SyncInv, VoiceInv
<1> QED BY <1>3, <1>5, <1>6

LEMMA RestartKeeps ==
  ASSUME ConvInv, Restart
  PROVE  ConvInv'
<1> USE DEF ConvInv
<1>1. /\ stored' = disk.trees /\ storedMap' = disk.map /\ members' = disk.trees
      /\ known' = {r \in Msg : disk.trees[r] # {}} /\ nodeToTree' = disk.map
      /\ active' = {} /\ pendingVoice' = {} /\ cleared' = disk.cleared
      /\ UNCHANGED <<parent, home, disk, overtaken, withdrawn>>
  BY DEF Restart
<1>2. /\ phase' \in [Msg -> Stage]
      /\ \A m \in Msg : phase'[m] = IF phase[m] \in Suspended THEN "lost" ELSE phase[m]
  <2>1. phase' = [m \in Msg |-> IF phase[m] \in Suspended THEN "lost" ELSE phase[m]]
    BY DEF Restart
  <2>2. \A m \in Msg : phase[m] \in Stage /\ "lost" \in Stage
    BY DEF TypeInv, Stage
  <2> QED BY <2>1, <2>2
<1>3. disk.trees \in Trees /\ disk.map \in Index /\ disk.cleared \subseteq Msg
  BY DEF TypeInv
<1>4. TypeInv'
  BY <1>1, <1>2, <1>3 DEF TypeInv
<1>5. \A m \in Msg : phase[m] = "handled" => phase'[m] = "handled"
  BY <1>2 DEF Suspended
<1>6. Placed(disk.trees)'
  BY <1>1, <1>3, <1>5 DEF PlacedInv, Placed, Trees
<1>7. PlacedInv'
  <2>1. \A r \in known' : phase'[r] = "handled"
    BY <1>1, <1>6 DEF Placed
  <2> QED BY <1>1, <1>6, <2>1 DEF PlacedInv, Placed
<1>8. \A r \in Msg : KnownTrees'[r] = disk.trees[r]
  BY <1>1 DEF KnownTrees
<1>9. MappedInv'
  BY <1>1, <1>8 DEF MappedInv, Mapped
<1>10. CleanInv'
  BY <1>1, <1>3, <1>5, <1>8 DEF CleanInv, Clean
<1>11. SyncInv'
  BY <1>1 DEF SyncInv
<1>12. VoiceInv'
  BY <1>1, <1>2 DEF VoiceInv, Suspended
<1> QED BY <1>4, <1>7, <1>9, <1>10, <1>11, <1>12

-----------------------------------------------------------------------------
(* Branches.                                                               *)

(* A set of numbers that is not empty has a least one.                     *)
LEMMA NatMin ==
  ASSUME NEW T \in SUBSET Nat, T # {}
  PROVE  \E x \in T : \A y \in T : x <= y
<1> DEFINE R == OpToRel(<, Nat)
<1>1. IsWellFoundedOn(R, Nat)
  BY NatLessThanWellFounded
<1>2. R = {ss \in Nat \X Nat : ss[1] < ss[2]}
  BY DEF OpToRel
<1> HIDE DEF R
<1>3. PICK x \in T : \A y \in T : ~ (<<y, x>> \in R)
  BY <1>1, WFMin
<1>4. \A y \in T : ~(y < x)
  BY <1>2, <1>3
<1> QED BY <1>4

(* A set of numbers that goes on from each of its members has them all.    *)
LEMMA NatAll ==
  ASSUME NEW S \in SUBSET Nat, 0 \in S, \A n \in S : n + 1 \in S
  PROVE  Nat \subseteq S
<1> SUFFICES ASSUME Nat \ S # {} PROVE FALSE
  OBVIOUS
<1>1. PICK x \in Nat \ S : \A y \in Nat \ S : x <= y
  <2>1. Nat \ S \in SUBSET Nat
    OBVIOUS
  <2> QED BY <2>1, NatMin
<1>2. x # 0
  OBVIOUS
<1>3. x - 1 \in Nat /\ ~(x <= x - 1) /\ (x - 1) + 1 = x
  BY <1>2
<1>4. x - 1 \in S
  BY <1>1, <1>3
<1> QED BY <1>1, <1>3, <1>4

(* One step up from the nodes of S. *)
Up(S) == S \cup {parent[x] : x \in S \ {None}}

(* f climbs n steps from m. *)
Climb(f, m, n) == f = [j \in 0..n |-> IF j = 0 THEN {m} ELSE Up(f[j - 1])]

LEMMA ClimbSteps ==
  ASSUME NEW f, NEW m, NEW n \in Nat, Climb(f, m, n)
  PROVE  f[0] = {m} /\ \A j \in 0..(n - 1) : f[j + 1] = Up(f[j])
<1>1. \A j \in 0..n : f[j] = IF j = 0 THEN {m} ELSE Up(f[j - 1])
  BY DEF Climb
<1>2. f[0] = {m}
  BY <1>1
<1>3. ASSUME NEW j \in 0..(n - 1) PROVE f[j + 1] = Up(f[j])
  <2>1. j + 1 \in 0..n /\ j + 1 # 0 /\ (j + 1) - 1 = j
    OBVIOUS
  <2> QED BY <1>1, <2>1
<1> QED BY <1>2, <1>3

LEMMA ClimbExists ==
  ASSUME NEW m, NEW n \in Nat
  PROVE  \E f : Climb(f, m, n)
<1> DEFINE S == {k \in Nat : \E f : Climb(f, m, k)}
<1>1. 0 \in S
  <2> DEFINE f == [j \in 0..0 |-> {m}]
  <2>1. Climb(f, m, 0)
    BY DEF Climb
  <2> QED BY <2>1
<1>2. ASSUME NEW k \in S PROVE k + 1 \in S
  <2>1. PICK f : Climb(f, m, k)
    OBVIOUS
  <2>2. \A j \in 0..k : f[j] = IF j = 0 THEN {m} ELSE Up(f[j - 1])
    BY <2>1 DEF Climb
  <2> DEFINE h == [j \in 0..(k + 1) |-> IF j <= k THEN f[j] ELSE Up(f[k])]
  <2>3. \A j \in 0..(k + 1) : h[j] = IF j = 0 THEN {m} ELSE Up(h[j - 1])
    <3> SUFFICES ASSUME NEW j \in 0..(k + 1)
                 PROVE  h[j] = IF j = 0 THEN {m} ELSE Up(h[j - 1])
      OBVIOUS
    <3>1. CASE j = 0
      <4>1. h[j] = f[j] /\ f[0] = {m}
        BY <2>2, <3>1
      <4> QED BY <3>1, <4>1
    <3>2. CASE j \in 1..k
      <4>1. h[j] = f[j] /\ h[j - 1] = f[j - 1] /\ f[j] = Up(f[j - 1])
        BY <2>2, <3>2
      <4> QED BY <3>2, <4>1
    <3>3. CASE j = k + 1
      <4>1. h[j] = Up(f[k]) /\ h[j - 1] = f[k] /\ j # 0
        BY <3>3
      <4> QED BY <3>3, <4>1
    <3> QED BY <3>1, <3>2, <3>3
  <2>4. h = [j \in 0..(k + 1) |-> h[j]]
    OBVIOUS
  <2> HIDE DEF h
  <2>5. Climb(h, m, k + 1)
    BY <2>3, <2>4 DEF Climb
  <2> QED BY <2>5
<1> HIDE DEF S
<1>3. n \in S
  BY <1>1, <1>2, NatAll DEF S
<1> QED BY <1>3 DEF S

(* Two climbs from the same node go the same way.                          *)
LEMMA ClimbsAgree ==
  ASSUME NEW f, NEW g, NEW m, NEW n \in Nat, Climb(f, m, n), Climb(g, m, n + 1)
  PROVE  \A j \in 0..n : f[j] = g[j]
<1> DEFINE S == {j \in Nat : j <= n => f[j] = g[j]}
<1>1. /\ f[0] = {m} /\ g[0] = {m}
      /\ \A j \in 0..(n - 1) : f[j + 1] = Up(f[j])
      /\ \A j \in 0..n : g[j + 1] = Up(g[j])
  BY ClimbSteps
<1>2. 0 \in S
  BY <1>1
<1>3. ASSUME NEW j \in S PROVE j + 1 \in S
  <2> SUFFICES ASSUME j + 1 <= n PROVE f[j + 1] = g[j + 1]
    OBVIOUS
  <2>1. j \in 0..(n - 1) /\ j \in 0..n /\ j <= n
    OBVIOUS
  <2>2. f[j] = g[j]
    BY <2>1
  <2> QED BY <1>1, <2>1, <2>2
<1> HIDE DEF S
<1>4. Nat \subseteq S
  BY <1>2, <1>3, NatAll DEF S
<1> QED BY <1>4 DEF S

(* A climb of as many steps as there are messages has come to its end:     *)
(* every step before the end found a message that was not there yet.       *)
LEMMA ClimbEnds ==
  ASSUME NEW f, NEW m \in Msg, parent \in [Msg -> MaybeMsg],
         Climb(f, m, Cardinality(Msg) + 1)
  PROVE  Up(f[Cardinality(Msg)]) \subseteq f[Cardinality(Msg)]
<1> DEFINE N == Cardinality(Msg)
<1> DEFINE All == Msg \cup {None}
<1>1. /\ N \in Nat /\ IsFiniteSet(Msg) /\ IsFiniteSet(All) /\ Cardinality(All) = N + 1
  BY MsgAssumption, FS_CardinalityType, FS_AddElement
<1>2. f[0] = {m} /\ \A j \in 0..N : f[j + 1] = Up(f[j])
  <2>1. f[0] = {m} /\ \A j \in 0..((N + 1) - 1) : f[j + 1] = Up(f[j])
    <3>1. N + 1 \in Nat /\ Climb(f, m, N + 1)
      BY <1>1
    <3> HIDE DEF N
    <3> QED BY <3>1, ClimbSteps
  <2> QED BY <1>1, <2>1
<1>3. \A T \in SUBSET All : Up(T) \in SUBSET All /\ T \subseteq Up(T)
  BY DEF Up, MaybeMsg
<1>4. Cardinality({m}) = 1
  BY FS_Singleton
<1> HIDE DEF N, All
<1> DEFINE S == {j \in Nat : j <= N =>
                   /\ f[j] \in SUBSET All
                   /\ Up(f[j]) \subseteq f[j] \/ Cardinality(f[j]) >= j + 1}
<1>5. 0 \in S
  <2>1. {m} \in SUBSET All
    BY DEF All
  <2> QED BY <1>2, <1>4, <2>1
<1>6. ASSUME NEW j \in S PROVE j + 1 \in S
  <2> SUFFICES ASSUME j + 1 <= N
               PROVE  /\ f[j + 1] \in SUBSET All
                      /\ Up(f[j + 1]) \subseteq f[j + 1] \/ Cardinality(f[j + 1]) >= (j + 1) + 1
    OBVIOUS
  <2>1. j <= N /\ j \in 0..N
    BY <1>1
  <2>2. /\ f[j] \in SUBSET All /\ f[j + 1] = Up(f[j])
        /\ Up(f[j]) \subseteq f[j] \/ Cardinality(f[j]) >= j + 1
    BY <1>2, <2>1
  <2>3. f[j + 1] \in SUBSET All /\ f[j] \subseteq f[j + 1]
    BY <1>3, <2>2
  <2>4. CASE Up(f[j]) \subseteq f[j]
    <3>1. f[j + 1] = f[j]
      BY <2>2, <2>3, <2>4
    <3> QED BY <2>3, <2>4, <3>1
  <2>5. CASE Cardinality(f[j]) >= j + 1 /\ ~(Up(f[j]) \subseteq f[j])
    <3>1. IsFiniteSet(f[j + 1]) /\ f[j] # f[j + 1]
      BY <1>1, <2>2, <2>3, <2>5, FS_Subset
    <3>2. /\ IsFiniteSet(f[j]) /\ Cardinality(f[j]) <= Cardinality(f[j + 1])
          /\ Cardinality(f[j]) # Cardinality(f[j + 1])
      BY <2>3, <3>1, FS_Subset
    <3>3. Cardinality(f[j]) \in Nat /\ Cardinality(f[j + 1]) \in Nat
      BY <3>1, <3>2, FS_CardinalityType
    <3> QED BY <2>3, <2>5, <3>2, <3>3
  <2> QED BY <2>2, <2>3, <2>4, <2>5
<1> HIDE DEF S
<1>7. N \in S
  BY <1>1, <1>5, <1>6, NatAll DEF S
<1>8. f[N] \in SUBSET All /\ (Up(f[N]) \subseteq f[N] \/ Cardinality(f[N]) >= N + 1)
  BY <1>1, <1>7 DEF S
<1>9. CASE Cardinality(f[N]) >= N + 1
  <2>1. /\ Cardinality(f[N]) <= Cardinality(All)
        /\ Cardinality(f[N]) = Cardinality(All) => f[N] = All
    BY <1>1, <1>8, FS_Subset
  <2>2. Cardinality(f[N]) \in Nat
    BY <1>1, <1>8, FS_Subset, FS_CardinalityType
  <2>3. f[N] = All
    BY <1>1, <1>9, <2>1, <2>2
  <2> QED BY <1>3, <2>3 DEF N
<1> QED BY <1>8, <1>9 DEF N

(* The ancestors of a message are the least set that has it and, with each *)
(* message, the one it replies to.                                         *)
LEMMA AncestorsClosed ==
  ASSUME NEW m \in Msg, parent \in [Msg -> MaybeMsg]
  PROVE  /\ m \in Ancestors(m)
         /\ \A x \in Ancestors(m) \ {None} : parent[x] \in Ancestors(m)
         /\ \A S : m \in S /\ (\A x \in S \ {None} : parent[x] \in S) => Ancestors(m) \subseteq S
<1> DEFINE N == Cardinality(Msg)
<1> DEFINE f == CHOOSE f : f = [k \in 0..N |->
                  IF k = 0 THEN {m} ELSE f[k - 1] \cup {parent[x] : x \in f[k - 1] \ {None}}]
<1>1. N \in Nat
  BY MsgAssumption, FS_CardinalityType
<1>2. Ancestors(m) = f[N]
  BY DEF Ancestors
<1>3. Climb(f, m, N)
  <2>1. \E g : Climb(g, m, N)
    BY <1>1, ClimbExists
  <2> QED BY <2>1 DEF Climb, Up
<1> HIDE DEF f, N
<1>4. PICK g : Climb(g, m, N + 1)
  BY <1>1, ClimbExists
<1>5. /\ f[0] = {m} /\ \A j \in 0..(N - 1) : f[j + 1] = Up(f[j])
  BY <1>1, <1>3, ClimbSteps
<1>6. f[N] = g[N]
  BY <1>1, <1>3, <1>4, ClimbsAgree
<1>7. Up(f[N]) \subseteq f[N]
  BY <1>4, <1>6, ClimbEnds DEF N
<1>8. \A x \in f[N] \ {None} : parent[x] \in f[N]
  BY <1>7 DEF Up
<1>9. m \in f[N]
  <2> DEFINE S == {j \in Nat : j <= N => m \in f[j]}
  <2>1. 0 \in S
    BY <1>5
  <2>2. ASSUME NEW j \in S PROVE j + 1 \in S
    BY <1>1, <1>5 DEF Up
  <2> HIDE DEF S
  <2>3. N \in S
    BY <1>1, <2>1, <2>2, NatAll DEF S
  <2> QED BY <1>1, <2>3 DEF S
<1>10. ASSUME NEW T, m \in T, \A x \in T \ {None} : parent[x] \in T
       PROVE  f[N] \subseteq T
  <2> DEFINE S == {j \in Nat : j <= N => f[j] \subseteq T}
  <2>1. 0 \in S
    BY <1>5, <1>10
  <2>2. ASSUME NEW j \in S PROVE j + 1 \in S
    BY <1>1, <1>5, <1>10 DEF Up
  <2> HIDE DEF S
  <2>3. N \in S
    BY <1>1, <2>1, <2>2, NatAll DEF S
  <2> QED BY <1>1, <2>3 DEF S
<1> QED BY <1>2, <1>8, <1>9, <1>10

(* A tree has its root, which replies to nothing, and with each other node *)
(* the one it replies to.                                                  *)
Whole(trees) ==
  \A r \in Msg : \A m \in trees[r] :
    r \in trees[r] /\ parent[r] = None /\ (m # r => parent[m] \in trees[r])

WholeInv == Whole(members) /\ Whole(stored) /\ Whole(disk.trees)

(* What stays when the nodes below b are taken away: the root does, and    *)
(* nobody that stays replies to somebody that goes.                        *)
LEMMA BranchEffect ==
  ASSUME TypeInv, PlacedInv, Whole(members),
         NEW r \in Msg, NEW b \in members[r], b # r
  PROVE  /\ Branch(b) \subseteq members[r] /\ r \notin Branch(b)
         /\ \A k \in members[r] \ Branch(b) : k # r => parent[k] \in members[r] \ Branch(b)
<1>1. /\ parent \in [Msg -> MaybeMsg] /\ members[r] \subseteq Msg /\ b \in Msg /\ b # None
      /\ Branch(b) = {k \in members[r] : b \in Ancestors(k)}
  BY MsgAssumption DEF TypeInv, PlacedInv, Placed, Trees, Branch
<1>2. r \notin Branch(b)
  <2>1. r \in members[r] /\ parent[r] = None
    BY DEF Whole
  <2>2. r \in {r, None} /\ \A x \in {r, None} \ {None} : parent[x] \in {r, None}
    BY <2>1
  <2>3. Ancestors(r) \subseteq {r, None}
    BY <1>1, <2>2, AncestorsClosed
  <2> QED BY <1>1, <2>3
<1>3. ASSUME NEW k \in members[r] \ Branch(b), k # r
      PROVE  parent[k] \in members[r] \ Branch(b)
  <2> DEFINE p == parent[k]
  <2>1. p \in members[r] /\ k \in Msg /\ p \in Msg /\ k # None
    BY <1>1, <1>3, MsgAssumption DEF Whole
  <2>2. /\ p \in Ancestors(k)
        /\ \A x \in Ancestors(k) \ {None} : parent[x] \in Ancestors(k)
    BY <1>1, <2>1, AncestorsClosed
  <2>3. Ancestors(p) \subseteq Ancestors(k)
    BY <1>1, <2>1, <2>2, AncestorsClosed
  <2> QED BY <1>1, <1>3, <2>1, <2>3
<1> QED BY <1>1, <1>2, <1>3

(* A step that leaves the trees, and the parents of their nodes, alone.    *)
LEMMA WholeQuiet ==
  ASSUME ConvInv, WholeInv, UNCHANGED <<members, stored, disk>>,
         \A k \in Msg : phase[k] = "handled" => parent'[k] = parent[k]
  PROVE  WholeInv'
<1>1. ASSUME NEW trees \in Trees, Placed(trees), Whole(trees)
      PROVE  \A r \in Msg : \A m \in trees[r] :
               r \in trees[r] /\ parent'[r] = None /\ (m # r => parent'[m] \in trees[r])
  <2> SUFFICES ASSUME NEW r \in Msg, NEW m \in trees[r]
               PROVE  r \in trees[r] /\ parent'[r] = None /\ (m # r => parent'[m] \in trees[r])
    OBVIOUS
  <2>1. m \in Msg /\ parent'[r] = parent[r] /\ parent'[m] = parent[m]
    BY <1>1 DEF Placed, Trees
  <2> QED BY <1>1, <2>1 DEF Whole
<1>2. members \in Trees /\ stored \in Trees /\ disk.trees \in Trees
  BY DEF ConvInv, TypeInv
<1>3. disk'.trees = disk.trees /\ members' = members /\ stored' = stored
  OBVIOUS
<1>4. Whole(members)' /\ Whole(stored)' /\ Whole(disk.trees)'
  BY <1>1, <1>2, <1>3 DEF ConvInv, PlacedInv, WholeInv, Whole
<1> QED BY <1>4 DEF WholeInv

LEMMA HandleKeepsParents ==
  ASSUME TypeInv, NEW m \in Msg, NEW next, Handle(m, next), phase[m] # "handled"
  PROVE  \A k \in Msg : phase[k] = "handled" => parent'[k] = parent[k]
BY DEF Handle, TypeInv

LEMMA EnterWhole ==
  ASSUME ConvInv, WholeInv, NEW m \in Msg, NEW root \in Msg, phase[m] \in {"sending", "editing"},
         (root = m /\ parent[m] = None) \/ parent[m] \in members[root],
         Enter(m, root), UNCHANGED <<parent, disk>>
  PROVE  WholeInv'
<1>1. /\ members' = [members EXCEPT ![root] = @ \cup {m}]
      /\ stored' = [stored EXCEPT ![root] = members'[root]]
      /\ members \in Trees /\ stored \in Trees
  BY DEF Enter, ConvInv, TypeInv
<1>2. /\ members'[root] = members[root] \cup {m} /\ stored'[root] = members[root] \cup {m}
      /\ \A r \in Msg \ {root} : members'[r] = members[r] /\ stored'[r] = stored[r]
  BY <1>1 DEF Trees
<1>3. root = m => members[root] = {}
  BY <1>1 DEF ConvInv, PlacedInv, Placed, Trees
<1>4. ASSUME NEW k \in members[root] \cup {m}
      PROVE  /\ root \in members[root] \cup {m} /\ parent[root] = None
             /\ k # root => parent[k] \in members[root] \cup {m}
  BY <1>3 DEF WholeInv, Whole
<1>5. Whole(members)'
  BY <1>2, <1>4 DEF WholeInv, Whole
<1>6. Whole(stored)'
  BY <1>2, <1>4 DEF WholeInv, Whole
<1> QED BY <1>5, <1>6 DEF WholeInv, Whole

LEMMA WholeStep ==
  ASSUME ConvInv, WholeInv, [Next]_vars
  PROVE  WholeInv'
<1>0. TypeInv /\ PlacedInv /\ SyncInv /\ members \in Trees /\ stored \in Trees
  BY DEF ConvInv, TypeInv
<1>1. CASE /\ UNCHANGED <<members, stored, disk>>
           /\ \A k \in Msg : phase[k] = "handled" => parent'[k] = parent[k]
  BY <1>1, WholeQuiet
<1>2. ASSUME NEW m \in Msg, ReceiveText(m) \/ Transcribed(m)
      PROVE  /\ UNCHANGED <<members, stored, disk>>
             /\ \A k \in Msg : phase[k] = "handled" => parent'[k] = parent[k]
  BY <1>0, <1>2, HandleKeepsParents DEF ReceiveText, Transcribed, treeVars, storeVars
<1>3. ASSUME NEW m \in Msg,
             SendFails(m) \/ ReceiveVoice(m) \/ RegisterPendingVoice(m) \/ TranscriptionFails(m)
      PROVE  UNCHANGED <<members, stored, disk, parent>>
  BY <1>3 DEF SendFails, ReceiveVoice, RegisterPendingVoice, TranscriptionFails, treeVars, storeVars
<1>4. CASE (\E id \in Id : ClearReply(id)) \/ ClearAll \/ UNCHANGED vars
  <2>1. UNCHANGED <<members, stored, disk, parent>>
    BY <1>4 DEF ClearReply, ClearAll, vars, handlerVars, treeVars, storeVars
  <2> QED BY <1>1, <2>1
<1>5. ASSUME NEW m \in Msg, Proceed(m) PROVE WholeInv'
  <2>1. phase[m] \in {"sending", "editing"} /\ UNCHANGED <<parent, disk>>
    BY <1>5 DEF Proceed
  <2>2. CASE parent[m] = None /\ Enter(m, m)
    BY <2>1, <2>2, EnterWhole
  <2>3. CASE parent[m] # None /\ ParentThere(m) /\ Enter(m, TreeFor(<<parent[m], "node">>))
    <3>1. <<parent[m], "node">> \in Id
      BY <1>0, <2>3, IdFacts DEF TypeInv, MaybeMsg
    <3>2. TreeFor(<<parent[m], "node">>) \in Msg
          /\ parent[m] \in members[TreeFor(<<parent[m], "node">>)]
      BY <1>0, <2>3, <3>1, TreeForEffect DEF ParentThere, TypeInv
    <3> QED BY <2>1, <2>3, <3>2, EnterWhole
  <2>4. CASE UNCHANGED <<treeVars, repoVars, storeVars>>
    BY <1>1, <2>1, <2>4 DEF treeVars, storeVars
  <2> QED BY <1>5, <2>2, <2>3, <2>4 DEF Proceed
<1>6. ASSUME NEW m \in Msg, TaskReports(m) PROVE WholeInv'
  <2>1. home[m] \in Msg /\ UNCHANGED <<parent, members, disk>>
        /\ stored' = [stored EXCEPT ![home[m]] = members[home[m]]]
    BY <1>0, <1>6 DEF TaskReports, SyncInv, handlerVars
  <2>2. \A r \in Msg : stored'[r] \in {stored[r], members[r]}
    BY <1>0, <2>1 DEF Trees
  <2>3. Whole(stored)'
    BY <2>1, <2>2 DEF WholeInv, Whole
  <2> QED BY <2>1, <2>3 DEF WholeInv, Whole
<1>7. ASSUME NEW b \in Msg, FinishClear(b) PROVE WholeInv'
  <2> DEFINE r == TreeFor(<<b, "node">>)
  <2>1. UNCHANGED <<parent, disk>>
    BY <1>7 DEF FinishClear, handlerVars
  <2>2. r # None => r \in Msg /\ r \in known
    BY <1>0, IdFacts, TreeForEffect DEF TypeInv
  <2>3. CASE r # None /\ b = r /\ RemoveTree(r)
    <3>1. members' = members /\ stored' = [stored EXCEPT ![r] = {}]
      BY <2>3 DEF RemoveTree
    <3> HIDE DEF r
    <3>2. \A x \in Msg : stored'[x] \in {stored[x], {}}
      BY <1>0, <3>1 DEF Trees
    <3> QED BY <2>1, <3>1, <3>2 DEF WholeInv, Whole
  <2>4. CASE r # None /\ b # r /\ b \in members[r] /\ RemoveBranch(b)
    <3> DEFINE B == Branch(b)
    <3> HIDE DEF r
    <3>1. r \in Msg /\ home[b] = r
      BY <1>0, <2>2, <2>4 DEF PlacedInv, Placed
    <3>2. /\ members' = [members EXCEPT ![r] = @ \ B]
          /\ stored' = [stored EXCEPT ![r] = members'[r]]
      BY <2>4, <3>1 DEF RemoveBranch
    <3>3. /\ r \notin B
          /\ \A k \in members[r] \ B : k # r => parent[k] \in members[r] \ B
      BY <1>0, <2>4, <3>1, BranchEffect DEF WholeInv
    <3> HIDE DEF B
    <3>4. /\ members'[r] = members[r] \ B /\ stored'[r] = members[r] \ B
          /\ \A x \in Msg \ {r} : members'[x] = members[x] /\ stored'[x] = stored[x]
      BY <1>0, <3>1, <3>2 DEF Trees
    <3>5. ASSUME NEW k \in members[r] \ B
          PROVE  /\ r \in members[r] \ B /\ parent[r] = None
                 /\ k # r => parent[k] \in members[r] \ B
      BY <3>1, <3>3 DEF WholeInv, Whole
    <3>6. Whole(members)'
      BY <2>1, <3>4, <3>5 DEF WholeInv, Whole
    <3>7. Whole(stored)'
      BY <2>1, <3>4, <3>5 DEF WholeInv, Whole
    <3> QED BY <2>1, <3>6, <3>7 DEF WholeInv, Whole
  <2>5. CASE UNCHANGED <<active, members, repoVars, storeVars, cleared>>
    BY <1>1, <2>1, <2>5 DEF storeVars
  <2> QED BY <1>7, <2>3, <2>4, <2>5 DEF FinishClear
<1>8. CASE FinishClearAll
  <2>1. /\ UNCHANGED <<parent, members>> /\ stored' = NoTrees /\ disk'.trees = NoTrees
    BY <1>8 DEF FinishClearAll, handlerVars, treeVars
  <2>2. \A r \in Msg : NoTrees[r] = {}
    BY DEF NoTrees
  <2> QED BY <2>1, <2>2 DEF WholeInv, Whole
<1>9. CASE SaveFile
  <2>1. UNCHANGED <<parent, members, stored>> /\ disk'.trees = stored
    BY <1>9 DEF SaveFile, handlerVars, treeVars, storeVars
  <2> QED BY <2>1 DEF WholeInv, Whole
<1>10. CASE Restart
  <2>1. UNCHANGED <<parent, disk>> /\ stored' = disk.trees /\ members' = disk.trees
    BY <1>10 DEF Restart
  <2> QED BY <2>1 DEF WholeInv, Whole
<1> QED BY <1>1, <1>2, <1>3, <1>4, <1>5, <1>6, <1>7, <1>8, <1>9, <1>10 DEF Next

-----------------------------------------------------------------------------
LEMMA ConvInvInit == Init => ConvInv
<1> SUFFICES ASSUME Init PROVE ConvInv
  OBVIOUS
<1>1. NoTrees \in Trees /\ NoMap \in Index /\ (\A r \in Msg : NoTrees[r] = {})
  BY DEF NoTrees, NoMap, Trees, Index, MaybeMsg
<1>2. disk.trees = NoTrees /\ disk.map = NoMap /\ disk.cleared = {}
  BY DEF Init
<1>3. TypeInv
  BY <1>1 DEF Init, TypeInv, Stage, MaybeMsg
<1>4. PlacedInv
  BY <1>1, <1>2 DEF Init, PlacedInv, Placed
<1>5. MappedInv /\ CleanInv
  BY <1>1, <1>2 DEF Init, MappedInv, Mapped, CleanInv, Clean, KnownTrees
<1>6. SyncInv /\ VoiceInv
  BY <1>1 DEF Init, SyncInv, VoiceInv
<1> QED BY <1>3, <1>4, <1>5, <1>6 DEF ConvInv

LEMMA ConvInvStep == ConvInv /\ [Next]_vars => ConvInv'
<1> SUFFICES ASSUME ConvInv, [Next]_vars PROVE ConvInv'
  OBVIOUS
<1>1. CASE UNCHANGED vars
  <2>1. VoiceInv'
    BY <1>1 DEF vars, ConvInv, VoiceInv, handlerVars, historyVars
  <2> QED BY <1>1, <2>1, QuietStep
      DEF vars, ConvInv, TypeInv, handlerVars, treeVars, historyVars
<1>2. ASSUME NEW m \in Msg, Proceed(m) \/ TaskReports(m) \/ FinishClear(m) PROVE ConvInv'
  BY <1>2, ProceedKeeps, TaskReportsKeeps, FinishClearKeeps
<1>3. CASE FinishClearAll \/ SaveFile \/ Restart
  BY <1>3, FinishClearAllKeeps, SaveFileKeeps, RestartKeeps
<1> QED BY <1>1, <1>2, <1>3, MessageKeeps, CancelKeeps DEF Next

LEMMA ConvInvHolds == Spec => []ConvInv
BY ConvInvInit, ConvInvStep, PTL DEF Spec

LEMMA WholeInvHolds == Spec => []WholeInv
<1>1. Init => WholeInv
  <2> SUFFICES ASSUME Init PROVE WholeInv
    OBVIOUS
  <2>1. \A r \in Msg : NoTrees[r] = {}
    BY DEF NoTrees
  <2>2. members = NoTrees /\ stored = NoTrees /\ disk.trees = NoTrees
    BY DEF Init
  <2> QED BY <2>1, <2>2 DEF WholeInv, Whole
<1>2. ConvInv /\ WholeInv /\ [Next]_vars => WholeInv'
  BY WholeStep
<1> QED BY <1>1, <1>2, ConvInvHolds, PTL DEF Spec

(* Whatever was cleared, saved or restored, a reply to either message of a *)
(* node the manager knows is resolved to that node (repository.py:72-95).  *)
THEOREM RepliesFindTheirNode == Spec => []BothIdsResolve
<1>1. ConvInv => BothIdsResolve
  <2> SUFFICES ASSUME ConvInv, NEW r \in known, NEW m \in members[r] \ overtaken,
                      NEW id \in BothIds(m)
               PROVE  Resolve(id) = m
    BY DEF BothIdsResolve
  <2>1. r \in Msg /\ members[r] \subseteq Msg
    BY DEF ConvInv, TypeInv, Trees
  <2>2. id \in Id /\ id[1] = m
    BY <2>1, IdFacts
  <2>3. nodeToTree[id] = r
    BY <2>1 DEF ConvInv, MappedInv, Mapped, KnownTrees
  <2>4. TreeFor(id) = r /\ r # None
    BY <2>1, <2>3, MsgAssumption DEF TreeFor
  <2> QED BY <2>2, <2>4 DEF Resolve
<1> QED BY <1>1, ConvInvHolds, PTL

(* The store's trees are the manager's at every moment, so that a save at  *)
(* any moment can be restored (handler.py:299, commands.py:171-185).       *)
THEOREM StoreFollowsManager == Spec => []StoreInStep
<1>1. ConvInv => StoreInStep
  BY DEF ConvInv, SyncInv, StoreInStep
<1> QED BY <1>1, ConvInvHolds, PTL

(* What a /clear has removed stays away from the manager and the store,    *)
(* whichever tasks, saves and restarts follow (commands.py:136-185).       *)
THEOREM ClearedIsGone == Spec => []ClearedStaysCleared
<1>1. ConvInv => ClearedStaysCleared
  BY DEF ConvInv, CleanInv, Clean, KnownTrees, ClearedStaysCleared
<1> QED BY <1>1, ConvInvHolds, PTL

(* A voice note whose cancellation was reported is never handed to the     *)
(* handler (telegram.py:617-624).                                          *)
THEOREM WithdrawnNoteIsNotRun == Spec => []WithdrawnNeverRuns
<1>1. ConvInv => WithdrawnNeverRuns
  BY DEF ConvInv, VoiceInv, SyncInv, WithdrawnNeverRuns
<1> QED BY <1>1, ConvInvHolds, PTL

(* Whatever branches were cleared, whichever tasks saved the tree they     *)
(* were given, and from whichever file the bot came back, a stored tree    *)
(* has its root and no node whose parent is gone, so from_dict rebuilds it *)
(* (data.py:407-420).                                                      *)
THEOREM StoredTreesAreWhole == Spec => []StoredTreesRebuild
<1>1. WholeInv => StoredTreesRebuild
  BY DEF WholeInv, Whole, StoredTreesRebuild
<1> QED BY <1>1, WholeInvHolds, PTL
=============================================================================
