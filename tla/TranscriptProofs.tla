---------------------------- MODULE TranscriptProofs ----------------------------
(***************************************************************************)
(* Who is shown in the transcript, and which content block a segment is    *)
(* of, for any number of Tasks, indices and events; and what render shows  *)
(* of them.                                                                *)
(***************************************************************************)
EXTENDS Transcript, SequenceTheorems, FiniteSetTheorems, WellFoundedInduction, TLAPS

-----------------------------------------------------------------------------
(* Numbers and sequences.                                                  *)

(* A set of numbers that is not empty has a least one.                     *)
LEMMA NatMin ==
  ASSUME NEW T \in SUBSET Nat, T # {}
  PROVE  \E x \in T : \A y \in T : x <= y
<1> DEFINE R == OpToRel(<, Nat)
<1>1. IsWellFoundedOn(R, Nat)
  BY NatLessThanWellFounded
<1>2. R = {ss \in Nat \X Nat : ss[1] < ss[2]}
  BY DEF OpToRel
<1> HIDE DEF R
<1>3. PICK x \in T : \A y \in T : ~ (<<y, x>> \in R)
  BY <1>1, WFMin
<1>4. \A y \in T : ~(y < x)
  BY <1>2, <1>3
<1> QED BY <1>4

(* ... and one that is bounded has a greatest.                             *)
LEMMA NatMax ==
  ASSUME NEW n \in Nat, NEW T \in SUBSET (0..n), T # {}
  PROVE  Max(T) \in T /\ \A y \in T : y <= Max(T)
<1> DEFINE U == {n - y : y \in T}
<1>1. U \in SUBSET Nat /\ U # {}
  OBVIOUS
<1>2. PICK u \in U : \A v \in U : u <= v
  BY <1>1, NatMin
<1>3. PICK x \in T : u = n - x
  BY <1>2
<1>4. \A y \in T : n - x <= n - y
  BY <1>2, <1>3
<1>5. \A y \in T : x >= y
  BY <1>4
<1>6. Max(T) \in T /\ \A y \in T : Max(T) >= y
  BY <1>5 DEF Max
<1> QED BY <1>6

(* A sequence without its k-th element.                                    *)
LEMMA RemoveAtEffect ==
  ASSUME NEW S, NEW q \in Seq(S), NEW k \in 1..Len(q)
  PROVE  /\ RemoveAt(q, k) \in Seq(S)
         /\ Len(RemoveAt(q, k)) = Len(q) - 1
         /\ \A j \in 1..(Len(q) - 1) : RemoveAt(q, k)[j] = IF j < k THEN q[j] ELSE q[j + 1]
<1> DEFINE n == Len(q)
<1> DEFINE s == SubSeq(q, 1, k - 1)
<1> DEFINE t == SubSeq(q, k + 1, n)
<1>1. n \in Nat /\ k \in 1..n /\ \A i \in 1..n : q[i] \in S
  BY ElementOfSeq
<1>2. RemoveAt(q, k) = s \o t
  BY DEF RemoveAt
<1> HIDE DEF n
<1>3. /\ s \in Seq(S) /\ Len(s) = k - 1
      /\ \A i \in 1..(k - 1) : s[i] = q[i]
  <2>1. \A i \in 1..(k - 1) : q[i] \in S
    BY <1>1
  <2>2. 1 \in Int /\ k - 1 \in Int
    BY <1>1
  <2>3. (IF 1 <= k - 1 THEN k - 1 - 1 + 1 ELSE 0) = k - 1 /\ k - 1 - 1 + 1 = k - 1
        /\ \A i \in 1..(k - 1) : 1 + i - 1 = i
    BY <1>1
  <2> QED BY <2>1, <2>2, <2>3, SubSeqProperties
<1>4. /\ t \in Seq(S) /\ Len(t) = n - k
      /\ \A i \in 1..(n - k) : t[i] = q[k + i]
  <2>1. \A i \in (k + 1)..n : q[i] \in S
    BY <1>1
  <2>2. k + 1 \in Int /\ n \in Int
    BY <1>1
  <2>3. (IF k + 1 <= n THEN n - (k + 1) + 1 ELSE 0) = n - k /\ n - (k + 1) + 1 = n - k
        /\ \A i \in 1..(n - k) : (k + 1) + i - 1 = k + i
    BY <1>1
  <2> QED BY <2>1, <2>2, <2>3, SubSeqProperties
<1> HIDE DEF s, t
<1>5. /\ s \o t \in Seq(S) /\ Len(s \o t) = (k - 1) + (n - k)
      /\ \A i \in 1..((k - 1) + (n - k)) :
           (s \o t)[i] = IF i <= k - 1 THEN s[i] ELSE t[i - (k - 1)]
  <2>1. /\ s \o t \in Seq(S) /\ Len(s \o t) = Len(s) + Len(t)
        /\ \A i \in 1..(Len(s) + Len(t)) : (s \o t)[i] = IF i <= Len(s) THEN s[i] ELSE t[i - Len(s)]
    BY <1>3, <1>4, ConcatProperties
  <2> QED BY <1>3, <1>4, <2>1
<1>6. (k - 1) + (n - k) = n - 1
  BY <1>1
<1>7. \A j \in 1..(n - 1) : (s \o t)[j] = IF j < k THEN q[j] ELSE q[j + 1]
  <2> SUFFICES ASSUME NEW j \in 1..(n - 1)
               PROVE  (s \o t)[j] = IF j < k THEN q[j] ELSE q[j + 1]
    OBVIOUS
  <2>1. CASE j < k
    <3>1. j <= k - 1 /\ j \in 1..(k - 1)
      BY <1>1, <2>1
    <3> QED BY <1>3, <1>5, <1>6, <2>1, <3>1
  <2>2. CASE ~(j < k)
    <3>1. ~(j <= k - 1) /\ j - (k - 1) \in 1..(n - k) /\ k + (j - (k - 1)) = j + 1
      BY <1>1, <2>2
    <3> QED BY <1>4, <1>5, <1>6, <2>2, <3>1
  <2> QED BY <2>1, <2>2
<1> QED BY <1>2, <1>5, <1>6, <1>7 DEF n

-----------------------------------------------------------------------------
(* The values of the variables.                                            *)

Id      == {NoId} \cup UNION {{pair.call : pair \in IdPairs[t]} : t \in Task}
Kind    == Said \cup {"tool_call", "subagent", "error"}
Seg     == [kind : Kind, by : Agent, from : SUBSET Nat, chunks : Nat]
Entry   == [id : Id, segment : Nat]
Block   == [by : Agent, kind : Said, index : Index, number : Nat]

CliType ==
  /\ \A t \in Task : ids[t] \in IdPairs[t]
  /\ running \in Seq(Task)
  /\ \A i, j \in 1..Len(running) : i # j => running[i] # running[j]
  /\ \A i \in 1..Len(running) : running[i] \notin ended
  /\ ended \subseteq Task
  /\ parent \in [Task -> Agent]
  /\ block \in Block \cup {NoBlock}
  /\ blocks \in Nat
  /\ called \subseteq ToolId
  /\ orderly \in BOOLEAN

BufferType ==
  /\ segments \in Seq(Seg)
  /\ open \in [Said -> [Index -> Nat]]
  /\ \A kind \in Said, i \in Index : open[kind][i] <= Len(segments)
  /\ stack \in Seq(Entry)

LEMMA PrefixEffect ==
  ASSUME NEW S, NEW q \in Seq(S), NEW m \in 0..Len(q)
  PROVE  /\ SubSeq(q, 1, m) \in Seq(S)
         /\ Len(SubSeq(q, 1, m)) = m
         /\ \A i \in 1..m : SubSeq(q, 1, m)[i] = q[i]
<1>1. \A i \in 1..m : q[i] \in S
  BY ElementOfSeq
<1>2. 1 \in Int /\ m \in Int /\ (IF 1 <= m THEN m - 1 + 1 ELSE 0) = m /\ m - 1 + 1 = m
      /\ \A i \in 1..m : 1 + i - 1 = i
  OBVIOUS
<1> QED BY <1>1, <1>2, SubSeqProperties

LEMMA AppendEffect ==
  ASSUME NEW S, NEW q \in Seq(S), NEW x \in S
  PROVE  /\ Append(q, x) \in Seq(S)
         /\ Len(Append(q, x)) = Len(q) + 1
         /\ \A i \in 1..Len(q) : Append(q, x)[i] = q[i]
         /\ Append(q, x)[Len(q) + 1] = x
BY AppendProperties

LEMMA InSet ==
  ASSUME NEW S, NEW q \in Seq(S), NEW x
  PROVE  x \in ToSet(q) <=> \E i \in 1..Len(q) : q[i] = x
BY DEF ToSet

-----------------------------------------------------------------------------
(* What a result takes off the stack: down to the newest entry its id      *)
(* resembles, or else a top entry without an id.                           *)
Alike(id) == {i \in 1..Len(stack) : NoId \notin {stack[i].id, id} /\ Resembles(stack[i].id, id)}

LEMMA PoppedEffect ==
  ASSUME stack \in Seq(Entry), NEW id
  PROVE  \E m \in 0..Len(stack) :
           /\ Popped(id) \in Seq(Entry) /\ Len(Popped(id)) = m
           /\ \A i \in 1..m : Popped(id)[i] = stack[i]
           /\ \A i \in Alike(id) : i <= m + 1
           /\ Alike(id) # {} => m + 1 \in Alike(id)
           /\ Alike(id) = {} =>
                IF /\ stack # <<>> /\ stack[Len(stack)].id = NoId
                   /\ id = NoId \/ id \in TaskLike \ called
                THEN m = Len(stack) - 1 ELSE m = Len(stack)
<1> DEFINE n == Len(stack)
<1> DEFINE A == Alike(id)
<1>1. n \in Nat /\ A \in SUBSET (0..n) /\ A \subseteq 1..n
  BY DEF Alike
<1>2. {i \in DOMAIN stack : NoId \notin {stack[i].id, id} /\ Resembles(stack[i].id, id)} = A
  BY DEF Alike
<1>3. stack # <<>> => n >= 1 /\ Last(stack) = stack[n] /\ Front(stack) = SubSeq(stack, 1, n - 1)
  BY EmptySeq DEF Last, Front
<1>4. SubSeq(stack, 1, n) = stack
  BY SubSeqFull
<1> DEFINE top == Max(A)
<1> DEFINE m == IF A # {} THEN top - 1
                ELSE IF /\ stack # <<>> /\ stack[n].id = NoId
                        /\ id = NoId \/ id \in TaskLike \ called
                THEN n - 1 ELSE n
<1>5. Popped(id) = SubSeq(stack, 1, m)
  BY <1>2, <1>3, <1>4 DEF Popped
<1> HIDE DEF A
<1>6. A # {} => top \in A /\ \A y \in A : y <= top
  BY <1>1, NatMax
<1> HIDE DEF top
<1>7. m \in 0..n
  <2>1. CASE A # {}
    <3>1. top \in 1..n /\ m = top - 1
      BY <1>1, <1>6, <2>1
    <3> QED BY <1>1, <3>1
  <2>2. CASE A = {}
    BY <1>1, <1>3, <2>2
  <2> QED BY <2>1, <2>2
<1>8. (\A i \in A : i <= m + 1) /\ (A # {} => m + 1 \in A)
  <2> SUFFICES ASSUME A # {} PROVE (\A i \in A : i <= m + 1) /\ m + 1 \in A
    OBVIOUS
  <2>1. top \in 1..n /\ m = top - 1 /\ top \in A /\ \A i \in A : i <= top /\ i \in 1..n
    BY <1>1, <1>6
  <2>2. m + 1 = top
    BY <1>1, <2>1
  <2>3. \A i \in A : i <= m + 1
    BY <2>1, <2>2
  <2> QED BY <2>1, <2>2, <2>3
<1>9. A = {} => m = IF /\ stack # <<>> /\ stack[n].id = NoId
                       /\ id = NoId \/ id \in TaskLike \ called
                    THEN n - 1 ELSE n
  OBVIOUS
<1> HIDE DEF m
<1>10. /\ Popped(id) \in Seq(Entry) /\ Len(Popped(id)) = m
       /\ \A i \in 1..m : Popped(id)[i] = stack[i]
  BY <1>5, <1>7, PrefixEffect
<1> QED BY <1>7, <1>8, <1>9, <1>10 DEF A

-----------------------------------------------------------------------------
(* The type of every variable is kept.                                     *)

LEMMA Agents == Main \in Agent /\ Task \subseteq Agent /\ Main \notin Task
BY MainAssumption DEF Agent

LEMMA BlockKinds ==
  /\ NoBlock \notin Block
  /\ \A b \in Block : b.kind \in Said /\ b.index \in Index /\ b.by \in Agent /\ b.number \in Nat
<1>1. \A b \in Block : b.kind \in Said /\ b.index \in Index /\ b.by \in Agent /\ b.number \in Nat
  BY DEF Block
<1>2. NoBlock.kind = "none"
  BY DEF NoBlock
<1>3. "none" \notin Said
  BY DEF Said
<1> QED BY <1>1, <1>2, <1>3

LEMMA StartTaskType ==
  ASSUME CliType, NEW a \in Agent, NEW t \in Task, StartTask(a, t)
  PROVE  CliType'
<1>1. /\ running' = Append(running, t) /\ UNCHANGED <<ids, ended, blocks, called, orderly>>
      /\ parent' = [parent EXCEPT ![t] = a] /\ t \notin ToSet(running) /\ t \notin ended
      /\ block' = block \/ block' = NoBlock
  BY DEF StartTask, ToolBlock
<1>2. /\ running' \in Seq(Task) /\ Len(running') = Len(running) + 1
      /\ \A i \in 1..Len(running) : running'[i] = running[i]
      /\ running'[Len(running) + 1] = t
  BY <1>1, AppendEffect DEF CliType
<1>3. Len(running) \in Nat
  BY DEF CliType
<1>4. \A i \in 1..Len(running) : running[i] # t
  BY <1>1, InSet DEF CliType
<1>5. \A i \in 1..Len(running') : i \in 1..Len(running) \/ i = Len(running) + 1
  BY <1>2, <1>3
<1>6. \A i, j \in 1..Len(running') : i # j => running'[i] # running'[j]
  BY <1>2, <1>4, <1>5 DEF CliType
<1>7. \A i \in 1..Len(running') : running'[i] \notin ended'
  BY <1>1, <1>2, <1>5 DEF CliType
<1>8. parent' \in [Task -> Agent]
  BY <1>1 DEF CliType
<1> QED BY <1>1, <1>2, <1>6, <1>7, <1>8 DEF CliType

(* The Task that ends leaves the sequence, and the others keep their order. *)
LEMMA EndTaskEffect ==
  ASSUME CliType, NEW k \in 1..Len(running), EndTask(k)
  PROVE  /\ running' \in Seq(Task) /\ Len(running') = Len(running) - 1
         /\ \A i \in 1..(Len(running) - 1) :
              running'[i] = IF i < k THEN running[i] ELSE running[i + 1]
         /\ \A i \in 1..(Len(running) - 1) : running'[i] # running[k]
         /\ \A i \in 1..Len(running) : i # k => \E j \in 1..Len(running') : running'[j] = running[i]
<1> DEFINE n == Len(running)
<1>1. n \in Nat /\ running' = RemoveAt(running, k)
  BY DEF EndTask, CliType
<1>2. /\ running' \in Seq(Task) /\ Len(running') = n - 1
      /\ \A i \in 1..(n - 1) : running'[i] = IF i < k THEN running[i] ELSE running[i + 1]
  BY <1>1, RemoveAtEffect DEF CliType
<1>3. \A i, j \in 1..n : i # j => running[i] # running[j]
  BY DEF CliType
<1> HIDE DEF n
<1>4. \A i \in 1..(n - 1) : running'[i] # running[k]
  <2> SUFFICES ASSUME NEW i \in 1..(n - 1) PROVE running'[i] # running[k]
    OBVIOUS
  <2>1. k \in 1..n
    BY DEF n
  <2>2. CASE i < k
    BY <1>1, <1>2, <1>3, <2>1, <2>2
  <2>3. CASE ~(i < k)
    <3>1. i + 1 \in 1..n /\ i + 1 # k
      BY <1>1, <2>1, <2>3
    <3> QED BY <1>2, <1>3, <2>1, <2>3, <3>1
  <2> QED BY <2>2, <2>3
<1>5. ASSUME NEW i \in 1..n, i # k
      PROVE  \E j \in 1..(n - 1) : running'[j] = running[i]
  <2>1. k \in 1..n
    BY DEF n
  <2>2. CASE i < k
    <3>1. i \in 1..(n - 1)
      BY <1>1, <2>1, <2>2
    <3> QED BY <1>2, <2>2, <3>1
  <2>3. CASE i > k
    <3>1. i - 1 \in 1..(n - 1) /\ ~(i - 1 < k) /\ (i - 1) + 1 = i
      BY <1>1, <2>1, <2>3
    <3>2. running'[i - 1] = running[i]
      BY <1>2, <3>1
    <3> QED BY <3>1, <3>2
  <2> QED BY <1>1, <1>5, <2>1, <2>2, <2>3
<1> QED BY <1>2, <1>4, <1>5 DEF n

LEMMA EndTaskType ==
  ASSUME CliType, NEW k \in 1..Len(running), EndTask(k)
  PROVE  CliType'
<1> DEFINE n == Len(running)
<1>1. /\ UNCHANGED <<ids, parent, block, blocks, called>> /\ ended' = ended \cup {running[k]}
      /\ orderly' \in BOOLEAN
  BY DEF EndTask
<1>0. n \in Nat
  BY DEF CliType
<1>2. /\ running' \in Seq(Task) /\ Len(running') = n - 1
      /\ \A i \in 1..(n - 1) : running'[i] = IF i < k THEN running[i] ELSE running[i + 1]
      /\ \A i \in 1..(n - 1) : running'[i] # running[k]
  BY EndTaskEffect
<1>3. /\ \A i, j \in 1..n : i # j => running[i] # running[j]
      /\ \A i \in 1..n : running[i] \notin ended
      /\ running[k] \in Task
  BY ElementOfSeq DEF CliType
<1>4. k \in 1..n
  OBVIOUS
<1> HIDE DEF n
<1>5. \A i \in 1..(n - 1) : i \in 1..n /\ i + 1 \in 1..n
  BY <1>0
<1>6. \A i, j \in 1..(n - 1) : i # j => running'[i] # running'[j]
  <2> SUFFICES ASSUME NEW i \in 1..(n - 1), NEW j \in 1..(n - 1), i # j
               PROVE  running'[i] # running'[j]
    OBVIOUS
  <2> DEFINE f == IF i < k THEN i ELSE i + 1
  <2> DEFINE g == IF j < k THEN j ELSE j + 1
  <2>1. f \in 1..n /\ g \in 1..n /\ f # g
    BY <1>0, <1>4, <1>5
  <2>2. running'[i] = running[f] /\ running'[j] = running[g]
    BY <1>2
  <2> QED BY <1>3, <2>1, <2>2
<1>7. \A i \in 1..(n - 1) : running'[i] \notin ended'
  BY <1>1, <1>2, <1>3, <1>5
<1> QED BY <1>1, <1>2, <1>3, <1>6, <1>7 DEF CliType

LEMMA CliTypeStep ==
  ASSUME CliType, [Next]_vars
  PROVE  CliType'
<1>1. ASSUME NEW a \in Agent, NEW kind \in Said, Chunk(a, kind) PROVE CliType'
  BY <1>1 DEF Chunk, CliType
<1>2. ASSUME NEW a \in Agent, NEW kind \in Said, NEW i \in Index, StartBlock(a, kind, i)
      PROVE  CliType'
  <2>1. UNCHANGED <<ids, running, parent, ended, called, orderly>> /\ blocks' = blocks + 1
        /\ block' = [by |-> a, kind |-> kind, index |-> i, number |-> blocks']
    BY <1>2 DEF StartBlock
  <2> QED BY <2>1 DEF CliType, Block
<1>3. ASSUME NEW a \in Agent, NEW id \in ToolId, ToolUse(a, id) PROVE CliType'
  <2>1. UNCHANGED <<ids, running, parent, ended, blocks, orderly>> /\ called' = called \cup {id}
        /\ block' \in {block, NoBlock}
    BY <1>3 DEF ToolUse, ToolBlock
  <2> QED BY <2>1 DEF CliType
<1>4. ASSUME NEW a \in Agent, NEW id \in ToolId, ToolResult(a, id) PROVE CliType'
  BY <1>4 DEF ToolResult, cliVars, CliType
<1>5. CASE Delta \/ ReportError \/ EndBlock \/ UNCHANGED vars
  <2>1. UNCHANGED <<ids, running, parent, ended, blocks, called, orderly>>
        /\ block' \in {block, NoBlock}
    BY <1>5 DEF Delta, ReportError, EndBlock, vars, cliVars
  <2> QED BY <2>1 DEF CliType
<1>6. ASSUME NEW k \in DOMAIN running, EndTask(k) PROVE CliType'
  <2>1. k \in 1..Len(running)
    BY DEF CliType
  <2> QED BY <1>6, <2>1, EndTaskType
<1> QED BY <1>1, <1>2, <1>3, <1>4, <1>5, <1>6, StartTaskType DEF Next

-----------------------------------------------------------------------------
(* What an event makes of the segments, if it is no delta: those there are *)
(* stay what and whose they are, and a new one that is said is said by the *)
(* agent that speaks, outside of every subagent, in one block.             *)
Grown(a) ==
  /\ segments' \in Seq(Seg)
  /\ Len(segments) <= Len(segments')
  /\ \A i \in 1..Len(segments) :
       /\ segments'[i].kind = segments[i].kind
       /\ segments'[i].by = segments[i].by
       /\ segments'[i].from = segments[i].from
  /\ \A i \in 1..Len(segments') :
       Len(segments) < i /\ segments'[i].kind \in Said =>
         ~InSubagent /\ segments'[i].by = a /\ \E b \in Nat : segments'[i].from \subseteq {b}

LEMMA GrownSame ==
  ASSUME BufferType, NEW a, segments' = segments
  PROVE  Grown(a)
BY DEF Grown, BufferType

LEMMA GrownAppend ==
  ASSUME BufferType, NEW a \in Agent, NEW kind \in Kind, NEW from \in SUBSET Nat, NEW chunks \in Nat,
         NEW by \in Agent, segments' = Append(segments, Segment(kind, by, from, chunks)),
         kind \in Said => ~InSubagent /\ by = a /\ \E b \in Nat : from \subseteq {b}
  PROVE  Grown(a) /\ Len(segments') = Len(segments) + 1
<1> DEFINE n == Len(segments)
<1> DEFINE new == Segment(kind, by, from, chunks)
<1>1. new \in Seg /\ new.kind = kind /\ new.by = by /\ new.from = from
  BY DEF Segment, Seg
<1> HIDE DEF new
<1>2. /\ segments' \in Seq(Seg) /\ Len(segments') = n + 1 /\ n \in Nat
      /\ \A i \in 1..n : segments'[i] = segments[i]
      /\ segments'[n + 1] = new
  BY <1>1, AppendEffect DEF BufferType, new
<1> HIDE DEF n
<1>3. \A i \in 1..(n + 1) : n < i => i = n + 1
  BY <1>2
<1>4. n <= n + 1
  BY <1>2
<1> QED BY <1>1, <1>2, <1>3, <1>4 DEF Grown, n

LEMMA SegFields ==
  ASSUME NEW g \in Seg
  PROVE  /\ g.kind \in Kind /\ g.by \in Agent /\ g.from \in SUBSET Nat /\ g.chunks \in Nat
         /\ g = [kind |-> g.kind, by |-> g.by, from |-> g.from, chunks |-> g.chunks]
BY DEF Seg

LEMMA SegUpdate ==
  ASSUME NEW g \in Seg, NEW c
  PROVE  [g EXCEPT !.chunks = c] = [kind |-> g.kind, by |-> g.by, from |-> g.from, chunks |-> c]
BY DEF Seg

LEMMA SegExtend ==
  ASSUME NEW g \in Seg, NEW f, NEW b, NEW c
  PROVE  [[[g EXCEPT !.from = f] EXCEPT !.by = b] EXCEPT !.chunks = c]
           = [kind |-> g.kind, by |-> b, from |-> f, chunks |-> c]
<1>1. [g EXCEPT !.from = f] = [kind |-> g.kind, by |-> g.by, from |-> f, chunks |-> g.chunks]
  BY DEF Seg
<1> DEFINE h == [kind |-> g.kind, by |-> g.by, from |-> f, chunks |-> g.chunks]
<1>2. [h EXCEPT !.by = b] = [kind |-> g.kind, by |-> b, from |-> f, chunks |-> g.chunks]
  OBVIOUS
<1> DEFINE i == [kind |-> g.kind, by |-> b, from |-> f, chunks |-> g.chunks]
<1>3. [i EXCEPT !.chunks = c] = [kind |-> g.kind, by |-> b, from |-> f, chunks |-> c]
  OBVIOUS
<1>4. [g EXCEPT !.from = f] = h /\ [h EXCEPT !.by = b] = i
  BY <1>1, <1>2
<1> HIDE DEF h, i
<1> QED BY <1>3, <1>4

(* Chunks of a segment are counted. *)
LEMMA ChunkEffect ==
  ASSUME NEW n, segments \in Seq(Seg), segments' = [segments EXCEPT ![n].chunks = @ + 1]
  PROVE  /\ segments' \in Seq(Seg) /\ Len(segments') = Len(segments)
         /\ \A i \in 1..Len(segments) : /\ segments'[i].kind = segments[i].kind
                                        /\ segments'[i].by = segments[i].by
                                        /\ segments'[i].from = segments[i].from
<1>1. DOMAIN segments' = 1..Len(segments) /\ Len(segments) \in Nat
  OBVIOUS
<1>2. \A i \in 1..Len(segments) : segments[i] \in Seg
  BY ElementOfSeq
<1>3. ASSUME NEW i \in 1..Len(segments)
      PROVE  /\ segments'[i] \in Seg /\ segments'[i].kind = segments[i].kind
             /\ segments'[i].by = segments[i].by /\ segments'[i].from = segments[i].from
  <2>1. CASE i = n
    <3>1. segments'[i] = [segments[i] EXCEPT !.chunks = @ + 1]
      BY <2>1
    <3>2. segments[i] \in Seg
      BY <1>2
    <3>3. /\ segments[i].kind \in Kind /\ segments[i].by \in Agent /\ segments[i].from \in SUBSET Nat
          /\ segments[i].chunks + 1 \in Nat
      BY <3>2, SegFields
    <3>4. segments'[i] = [kind |-> segments[i].kind, by |-> segments[i].by, from |-> segments[i].from,
                  chunks |-> segments[i].chunks + 1]
      BY <3>1, <3>2, SegUpdate
    <3> QED BY <3>3, <3>4 DEF Seg
  <2>2. CASE i # n
    BY <1>2, <2>2
  <2> QED BY <2>1, <2>2
<1>4. segments' \in [1..Len(segments) -> Seg]
  BY <1>1, <1>3
<1>5. segments' \in Seq(Seg) /\ Len(segments') = Len(segments)
  BY <1>1, <1>4, LenProperties, SeqDef
<1> QED BY <1>3, <1>5

(* Stopping a block at an index leaves the others open as they are.        *)
LEMMA StopEffect ==
  ASSUME BufferType, NEW i \in Index
  PROVE  /\ OpenAfterStop(i) \in [Said -> [Index -> Nat]]
         /\ \A kind \in Said, j \in Index : OpenAfterStop(i)[kind][j] \in {0, open[kind][j]}
<1>1. open \in [Said -> [Index -> Nat]] /\ "thinking" \in Said /\ "text" \in Said
  BY DEF BufferType, Said
<1>2. CASE i \in tools
  BY <1>1, <1>2 DEF OpenAfterStop
<1>3. ASSUME NEW k \in Said
      PROVE  LET o == [open EXCEPT ![k][i] = 0]
             IN  o \in [Said -> [Index -> Nat]]
                 /\ \A kind \in Said, j \in Index : o[kind][j] \in {0, open[kind][j]}
  BY <1>1
<1> QED BY <1>1, <1>2, <1>3 DEF OpenAfterStop

LEMMA PointEffect ==
  ASSUME NEW o \in [Said -> [Index -> Nat]], NEW kind \in Said, NEW i \in Index, NEW n \in Nat
  PROVE  LET r == [o EXCEPT ![kind][i] = n]
         IN  /\ r \in [Said -> [Index -> Nat]]
             /\ r[kind][i] = n
             /\ \A k \in Said, j \in Index : r[k][j] \in {n, o[k][j]}
OBVIOUS

-----------------------------------------------------------------------------
(* A delta goes to the segment that is open at its block's index, or to a  *)
(* new one.                                                                *)
Extended(q, n) ==
  [q EXCEPT ![n].from = @ \cup {block.number}, ![n].by = block.by, ![n].chunks = @ + 1]

LEMMA ExtendEffect ==
  ASSUME block \in Block, NEW q \in Seq(Seg), NEW n \in 1..Len(q)
  PROVE  /\ Extended(q, n) \in Seq(Seg)
         /\ Len(Extended(q, n)) = Len(q)
         /\ \A i \in 1..Len(q) : i # n => Extended(q, n)[i] = q[i]
         /\ Extended(q, n)[n].by = block.by
         /\ Extended(q, n)[n].from = q[n].from \cup {block.number}
<1> DEFINE e == [q[n] EXCEPT !.from = @ \cup {block.number}, !.by = block.by, !.chunks = @ + 1]
<1>1. q[n] \in Seg /\ block.number \in Nat /\ block.by \in Agent
  BY ElementOfSeq, BlockKinds
<1>2. e \in Seg /\ e.by = block.by /\ e.from = q[n].from \cup {block.number}
  <2>1. q[n].kind \in Kind /\ q[n].from \in SUBSET Nat /\ q[n].chunks \in Nat
    BY <1>1, SegFields
  <2>2. q[n].from \cup {block.number} \in SUBSET Nat /\ q[n].chunks + 1 \in Nat
    BY <1>1, <2>1
  <2>3. e = [kind |-> q[n].kind, by |-> block.by, from |-> q[n].from \cup {block.number},
                chunks |-> q[n].chunks + 1]
    BY <1>1, SegExtend
  <2> HIDE DEF e
  <2> QED BY <1>1, <2>1, <2>2, <2>3 DEF Seg
<1>3. Extended(q, n) = [q EXCEPT ![n] = e]
  BY <1>1 DEF Extended, Seg
<1> HIDE DEF e
<1>4. /\ Extended(q, n) \in Seq(Seg) /\ Len(Extended(q, n)) = Len(q)
      /\ \A i \in 1..Len(q) : Extended(q, n)[i] = IF i = n THEN e ELSE q[i]
  BY <1>2, <1>3, ExceptSeq
<1> QED BY <1>2, <1>4

Heard(n) ==
  /\ block \in Block /\ Speaks(block.by) /\ UNCHANGED block
  /\ segments' \in Seq(Seg) /\ n \in 1..Len(segments') /\ Len(segments) <= Len(segments')
  /\ \A i \in 1..Len(segments') : i # n => i \in 1..Len(segments) /\ segments'[i] = segments[i]
  /\ segments'[n].by = block.by
  /\ IF open[block.kind][block.index] = 0
     THEN segments'[n].from = {block.number}
     ELSE /\ n = open[block.kind][block.index] /\ n \in 1..Len(segments)
          /\ segments'[n].from = segments[n].from \cup {block.number}
  /\ open' \in [Said -> [Index -> Nat]]
  /\ open'[block.kind][block.index] = n
  /\ \A k \in Said, j \in Index : open'[k][j] \in {n, open[k][j]}

LEMMA DeltaEffect ==
  ASSUME CliType, BufferType, Delta
  PROVE  \/ UNCHANGED <<block, segments, open, stack>>
         \/ ~InSubagent /\ UNCHANGED stack /\ \E n \in Nat : Heard(n)
<1> DEFINE m == open[block.kind][block.index]
<1> DEFINE fresh == Segment(block.kind, block.by, {}, 0)
<1> DEFINE q == Append(segments, fresh)
<1>1. block \in Block /\ Speaks(block.by) /\ UNCHANGED <<block, stack>>
  BY DEF Delta, CliType, cliVars
<1>2. block.kind \in Said /\ block.index \in Index /\ block.by \in Agent
  BY <1>1, BlockKinds
<1>3. m \in Nat /\ m <= Len(segments) /\ Len(segments) \in Nat
  BY <1>2 DEF BufferType
<1>4. CASE ~InSubagent /\ m # 0
  <2>1. segments' = Extended(segments, m) /\ open' = open
    BY <1>4 DEF Delta, Extended
  <2>2. m \in 1..Len(segments)
    BY <1>3, <1>4
  <2>3. /\ segments' \in Seq(Seg) /\ Len(segments') = Len(segments)
        /\ \A i \in 1..Len(segments) : i # m => segments'[i] = segments[i]
        /\ segments'[m].by = block.by
        /\ segments'[m].from = segments[m].from \cup {block.number}
    BY <1>1, <2>1, <2>2, ExtendEffect DEF BufferType
  <2>4. Heard(m)
    <3>1. Len(segments) <= Len(segments') /\ m \in 1..Len(segments')
      <4> HIDE DEF m, fresh, q
      <4> QED BY <1>3, <2>2, <2>3
    <3>2. \A i \in 1..Len(segments') : i # m => i \in 1..Len(segments) /\ segments'[i] = segments[i]
      BY <2>3
    <3>3. /\ open' \in [Said -> [Index -> Nat]] /\ open'[block.kind][block.index] = m
          /\ \A k \in Said, j \in Index : open'[k][j] \in {m, open[k][j]}
      BY <2>1 DEF BufferType
    <3> HIDE DEF m
    <3> QED BY <1>1, <1>4, <2>2, <2>3, <3>1, <3>2, <3>3 DEF Heard, m
  <2> QED BY <1>1, <1>3, <1>4, <2>4
<1>5. CASE ~InSubagent /\ m = 0
  <2> DEFINE n == Len(segments) + 1
  <2>1. segments' = Extended(q, n) /\ open' = [open EXCEPT ![block.kind][block.index] = Len(segments')]
    BY <1>5 DEF Delta, Extended
  <2>2. fresh \in Seg /\ fresh.from = {}
    BY <1>2 DEF Segment, Seg, Kind
  <2>3. /\ q \in Seq(Seg) /\ Len(q) = n /\ n \in 1..n
        /\ \A i \in 1..Len(segments) : q[i] = segments[i]
        /\ q[n].from = {}
    BY <1>3, <2>2, AppendEffect DEF BufferType
  <2> HIDE DEF q, fresh
  <2>4. /\ segments' \in Seq(Seg) /\ Len(segments') = n
        /\ \A i \in 1..n : i # n => segments'[i] = q[i]
        /\ segments'[n].by = block.by
        /\ segments'[n].from = {block.number}
    <3>1. /\ Extended(q, n) \in Seq(Seg)
          /\ Len(Extended(q, n)) = Len(q)
          /\ \A i \in 1..Len(q) : i # n => Extended(q, n)[i] = q[i]
          /\ Extended(q, n)[n].by = block.by
          /\ Extended(q, n)[n].from = q[n].from \cup {block.number}
      BY <1>1, <2>3, ExtendEffect
    <3> QED BY <2>1, <2>3, <3>1
  <2>5. /\ open' \in [Said -> [Index -> Nat]] /\ open'[block.kind][block.index] = n
        /\ \A k \in Said, j \in Index : open'[k][j] \in {n, open[k][j]}
    BY <1>2, <1>3, <2>1, <2>4, PointEffect DEF BufferType
  <2>6. \A i \in 1..n : i # n => i \in 1..Len(segments) /\ segments'[i] = segments[i]
    BY <1>3, <2>3, <2>4
  <2>7. Heard(n)
    BY <1>1, <1>3, <1>5, <2>4, <2>5, <2>6 DEF Heard
  <2> QED BY <1>1, <1>3, <1>5, <2>7
<1>6. CASE InSubagent
  BY <1>1, <1>6 DEF Delta
<1> QED BY <1>4, <1>5, <1>6

-----------------------------------------------------------------------------
(* What each event makes of the buffer, apart from the stack.              *)
OpenShrinks ==
  /\ open' \in [Said -> [Index -> Nat]]
  /\ \A k \in Said, j \in Index : open'[k][j] \in {0, open[k][j]}

(* A block that starts outside of every subagent is open in a segment of   *)
(* its own.                                                                *)
LEMMA StartBlockEffect ==
  ASSUME CliType, BufferType, NEW a \in Agent, NEW kind \in Said, NEW i \in Index,
         StartBlock(a, kind, i)
  PROVE  /\ Grown(a) /\ Speaks(a) /\ UNCHANGED stack
         /\ block' \in Block /\ block'.by = a /\ block'.kind = kind /\ block'.index = i
         /\ open' \in [Said -> [Index -> Nat]]
         /\ \/ InSubagent /\ UNCHANGED <<segments, open>>
            \/ /\ ~InSubagent /\ open'[kind][i] = Len(segments')
               /\ segments'[Len(segments')].from = {}
               /\ \A k \in Said, j \in Index : open'[k][j] \in {Len(segments'), 0, open[k][j]}
<1>1. /\ Speaks(a) /\ UNCHANGED stack /\ blocks' = blocks + 1
      /\ block' = [by |-> a, kind |-> kind, index |-> i, number |-> blocks']
  BY DEF StartBlock
<1>2. block' \in Block /\ block'.by = a /\ block'.kind = kind /\ block'.index = i
  BY <1>1 DEF Block, CliType
<1>3. CASE InSubagent /\ UNCHANGED <<segments, open>>
  BY <1>1, <1>2, <1>3, GrownSame DEF BufferType
<1>4. CASE /\ ~InSubagent
           /\ segments' = Append(segments, Segment(kind, a, {}, 0))
           /\ open' = [OpenAfterStop(i) EXCEPT ![kind][i] = Len(segments')]
  <2>1. Grown(a) /\ Len(segments') = Len(segments) + 1 /\ Len(segments) \in Nat
    <3>1. {} \in SUBSET Nat /\ kind \in Kind /\ 0 \in Nat /\ {} \subseteq {0}
      BY DEF Kind
    <3>2. Grown(a) /\ Len(segments') = Len(segments) + 1
      BY <1>4, <3>1, GrownAppend
    <3> QED BY <3>2 DEF BufferType
  <2>2. segments'[Len(segments')].from = {}
    <3>1. Segment(kind, a, {}, 0) \in Seg /\ Segment(kind, a, {}, 0).from = {}
      BY DEF Segment, Seg, Kind
    <3> QED BY <1>4, <2>1, <3>1, AppendEffect DEF BufferType
  <2>3. /\ open' \in [Said -> [Index -> Nat]] /\ open'[kind][i] = Len(segments')
        /\ \A k \in Said, j \in Index : open'[k][j] \in {Len(segments'), OpenAfterStop(i)[k][j]}
    BY <1>4, <2>1, StopEffect, PointEffect
  <2>4. \A k \in Said, j \in Index : open'[k][j] \in {Len(segments'), 0, open[k][j]}
    BY <2>3, StopEffect
  <2> QED BY <1>1, <1>2, <1>4, <2>1, <2>2, <2>3, <2>4
<1> QED BY <1>3, <1>4 DEF StartBlock

LEMMA ToolBlockEffect ==
  ASSUME CliType, BufferType, NEW opened, ToolBlock(opened)
  PROVE  OpenShrinks /\ block' \in {block, NoBlock}
BY StopEffect DEF ToolBlock, OpenShrinks, BufferType

(* The events that start no block of text and are no delta.                *)
LEMMA QuietEffect ==
  ASSUME CliType, BufferType,
         \/ \E a \in Agent, kind \in Said : Chunk(a, kind)
         \/ \E a \in Agent, id \in ToolId : ToolUse(a, id) \/ ToolResult(a, id)
         \/ \E a \in Agent, t \in Task : StartTask(a, t)
         \/ \E k \in DOMAIN running : EndTask(k)
         \/ EndBlock \/ ReportError \/ UNCHANGED vars
  PROVE  /\ OpenShrinks /\ block' \in {block, NoBlock}
         /\ \E a \in Agent : (Speaks(a) /\ Grown(a)) \/ (\A b \in Agent : Grown(b))
<1>1. ASSUME NEW a \in Agent, NEW kind \in Said, Chunk(a, kind)
      PROVE  OpenShrinks /\ block' \in {block, NoBlock} /\ Speaks(a) /\ Grown(a)
  <2>1. blocks' \in Nat /\ Speaks(a) /\ UNCHANGED <<block, open>>
        /\ segments' = IF InSubagent THEN segments
                       ELSE Append(segments, Segment(kind, a, {blocks'}, 1))
    BY <1>1 DEF Chunk, CliType
  <2>2. CASE InSubagent
    BY <2>1, <2>2, GrownSame DEF OpenShrinks, BufferType
  <2>3. CASE ~InSubagent
    <3>1. {blocks'} \in SUBSET Nat /\ kind \in Kind /\ \E b \in Nat : {blocks'} \subseteq {b}
      BY <2>1 DEF Kind
    <3>2. Grown(a)
      BY <2>1, <2>3, <3>1, GrownAppend
    <3> QED BY <2>1, <3>2 DEF OpenShrinks, BufferType
  <2> QED BY <2>2, <2>3
<1>2. ASSUME NEW a \in Agent, NEW id \in ToolId, ToolUse(a, id)
      PROVE  OpenShrinks /\ block' \in {block, NoBlock} /\ Speaks(a) /\ Grown(a)
  <2>1. Speaks(a) /\ ToolBlock(TRUE)
    BY <1>2 DEF ToolUse
  <2>2. CASE InSubagent
    <3>1. segments' = [segments EXCEPT ![Last(stack).segment].chunks = @ + 1]
      BY <1>2, <2>2 DEF ToolUse
    <3> DEFINE n == Last(stack).segment
    <3> HIDE DEF n
    <3>0. segments \in Seq(Seg) /\ segments' = [segments EXCEPT ![n].chunks = @ + 1]
      BY <3>1 DEF BufferType, n
    <3>2. /\ segments' \in Seq(Seg) /\ Len(segments') = Len(segments)
          /\ \A i \in 1..Len(segments) : /\ segments'[i].kind = segments[i].kind
                                         /\ segments'[i].by = segments[i].by
                                         /\ segments'[i].from = segments[i].from
      BY <3>0, ChunkEffect
    <3>3. Len(segments) \in Nat
      BY DEF BufferType
    <3>4. Grown(a)
      BY <3>2, <3>3 DEF Grown
    <3> QED BY <2>1, <3>4, ToolBlockEffect
  <2>3. CASE ~InSubagent
    <3>1. "tool_call" \in Kind \ Said
      BY DEF Kind, Said
    <3>2. Grown(a)
      BY <1>2, <2>3, <3>1, GrownAppend DEF ToolUse
    <3> QED BY <2>1, <3>2, ToolBlockEffect
  <2> QED BY <2>2, <2>3
<1>3. ASSUME NEW a \in Agent, NEW t \in Task, StartTask(a, t)
      PROVE  OpenShrinks /\ block' \in {block, NoBlock} /\ \A b \in Agent : Grown(b)
  <2>1. "subagent" \in Kind \ Said
    BY DEF Kind, Said
  <2>2. \A b \in Agent : Grown(b)
    BY <1>3, <2>1, GrownAppend DEF StartTask
  <2> QED BY <1>3, <2>2, ToolBlockEffect DEF StartTask
<1>4. CASE ReportError
  <2>1. "error" \in Kind \ Said
    BY DEF Kind, Said
  <2>2. \A b \in Agent : Grown(b)
    BY <1>4, <2>1, GrownAppend, Agents DEF ReportError
  <2> QED BY <1>4, <2>2, Agents DEF ReportError, OpenShrinks, BufferType, cliVars
<1>5. CASE \/ \E a \in Agent, id \in ToolId : ToolResult(a, id)
           \/ \E k \in DOMAIN running : EndTask(k)
           \/ UNCHANGED vars
  <2>1. UNCHANGED <<segments, open, block>>
    BY <1>5 DEF ToolResult, EndTask, vars, bufferVars, cliVars
  <2> QED BY <2>1, GrownSame, Agents DEF OpenShrinks, BufferType
<1>6. CASE EndBlock
  <2>1. segments' = segments /\ block' = NoBlock /\ open' = OpenAfterStop(block.index)
        /\ block.index \in Index
    BY <1>6, BlockKinds DEF EndBlock, CliType
  <2> QED BY <2>1, GrownSame, StopEffect, Agents DEF OpenShrinks
<1> QED BY <1>1, <1>2, <1>3, <1>4, <1>5, <1>6, Agents

LEMMA StackType ==
  ASSUME CliType, BufferType, [Next]_vars
  PROVE  stack' \in Seq(Entry)
<1>1. ASSUME NEW a \in Agent, NEW t \in Task, StartTask(a, t) PROVE stack' \in Seq(Entry)
  <2>1. stack' = Append(stack, [id |-> ids[t].call, segment |-> Len(segments')])
        /\ segments' = Append(segments, Segment("subagent", a, {}, 0))
    BY <1>1 DEF StartTask
  <2>2. Len(segments') \in Nat
    <3>1. Grown(a)
      <4>1. "subagent" \in Kind \ Said
        BY DEF Kind, Said
      <4> QED BY <2>1, <4>1, GrownAppend
    <3> QED BY <3>1 DEF Grown
  <2>3. ids[t].call \in Id
    BY DEF Id, CliType
  <2>4. [id |-> ids[t].call, segment |-> Len(segments')] \in Entry
    BY <2>2, <2>3 DEF Entry
  <2> QED BY <2>1, <2>4, AppendEffect DEF BufferType
<1>2. ASSUME NEW id, stack' = Popped(id) PROVE stack' \in Seq(Entry)
  BY <1>2, PoppedEffect DEF BufferType
<1>3. CASE UNCHANGED stack
  BY <1>3 DEF BufferType
<1>4. \/ UNCHANGED stack
      \/ \E a \in Agent, t \in Task : StartTask(a, t)
      \/ \E id : stack' = Popped(id)
  <2>1. ASSUME NEW a \in Agent, NEW kind \in Said, Chunk(a, kind) PROVE UNCHANGED stack
    BY <2>1 DEF Chunk
  <2>2. ASSUME NEW a \in Agent, NEW kind \in Said, NEW i \in Index, StartBlock(a, kind, i)
        PROVE  UNCHANGED stack
    BY <2>2 DEF StartBlock
  <2>3. ASSUME NEW a \in Agent, NEW id \in ToolId, ToolUse(a, id) PROVE UNCHANGED stack
    BY <2>3 DEF ToolUse
  <2>4. ASSUME NEW a \in Agent, NEW id \in ToolId, ToolResult(a, id) PROVE stack' = Popped(id)
    BY <2>4 DEF ToolResult
  <2>5. ASSUME NEW k \in DOMAIN running, EndTask(k) PROVE stack' = Popped(ids[running[k]].result)
    BY <2>5 DEF EndTask
  <2>6. Delta \/ EndBlock \/ ReportError \/ UNCHANGED vars => UNCHANGED stack
    BY DEF Delta, EndBlock, ReportError, vars, bufferVars
  <2> QED BY <2>1, <2>2, <2>3, <2>4, <2>5, <2>6 DEF Next
<1> QED BY <1>1, <1>2, <1>3, <1>4

LEMMA OpenBound ==
  ASSUME BufferType, NEW n \in Nat, n <= Len(segments'),
         Len(segments') \in Nat, Len(segments) <= Len(segments'),
         \A k \in Said, j \in Index : open'[k][j] \in {n, 0, open[k][j]}
  PROVE  \A k \in Said, j \in Index : open'[k][j] <= Len(segments')
<1> SUFFICES ASSUME NEW k \in Said, NEW j \in Index PROVE open'[k][j] <= Len(segments')
  OBVIOUS
<1>1. open[k][j] \in Nat /\ open[k][j] <= Len(segments) /\ Len(segments) \in Nat
  BY DEF BufferType
<1>2. open'[k][j] = n \/ open'[k][j] = 0 \/ open'[k][j] = open[k][j]
  OBVIOUS
<1> QED BY <1>1, <1>2

LEMMA BufferTypeStep ==
  ASSUME CliType, BufferType, [Next]_vars
  PROVE  BufferType'
<1>0. Len(segments) \in Nat
  BY DEF BufferType
<1>1. ASSUME NEW a \in Agent, NEW kind \in Said, NEW i \in Index, StartBlock(a, kind, i)
      PROVE  /\ segments' \in Seq(Seg) /\ open' \in [Said -> [Index -> Nat]]
             /\ \A k \in Said, j \in Index : open'[k][j] <= Len(segments')
  <2>1. /\ segments' \in Seq(Seg) /\ Len(segments) <= Len(segments')
        /\ open' \in [Said -> [Index -> Nat]] /\ Len(segments') \in Nat
    BY <1>1, StartBlockEffect DEF Grown
  <2>2. \A k \in Said, j \in Index : open'[k][j] \in {Len(segments'), 0, open[k][j]}
    BY <1>1, StartBlockEffect
  <2> DEFINE n == Len(segments')
  <2>3. n \in Nat /\ n <= Len(segments') /\ Len(segments') \in Nat
        /\ \A k \in Said, j \in Index : open'[k][j] \in {n, 0, open[k][j]}
    BY <2>1, <2>2
  <2> HIDE DEF n
  <2>4. \A k \in Said, j \in Index : open'[k][j] <= Len(segments')
    BY <2>1, <2>3, OpenBound
  <2> QED BY <2>1, <2>4
<1>2. ASSUME Delta
      PROVE  /\ segments' \in Seq(Seg) /\ open' \in [Said -> [Index -> Nat]]
             /\ \A k \in Said, j \in Index : open'[k][j] <= Len(segments')
  <2>1. CASE UNCHANGED <<segments, open>>
    BY <2>1 DEF BufferType
  <2>2. ASSUME NEW n \in Nat, Heard(n)
        PROVE  /\ segments' \in Seq(Seg) /\ open' \in [Said -> [Index -> Nat]]
               /\ \A k \in Said, j \in Index : open'[k][j] <= Len(segments')
    <3>1. /\ segments' \in Seq(Seg) /\ open' \in [Said -> [Index -> Nat]]
          /\ Len(segments') \in Nat /\ n <= Len(segments') /\ Len(segments) <= Len(segments')
          /\ \A k \in Said, j \in Index : open'[k][j] \in {n, open[k][j]}
      BY <2>2 DEF Heard
    <3>2. \A k \in Said, j \in Index : open'[k][j] \in {n, 0, open[k][j]}
      BY <3>1
    <3>3. \A k \in Said, j \in Index : open'[k][j] <= Len(segments')
      BY <3>1, <3>2, OpenBound
    <3> QED BY <3>1, <3>3
  <2> QED BY <1>2, <2>1, <2>2, DeltaEffect
<1>3. ASSUME OpenShrinks, NEW a \in Agent, Grown(a)
      PROVE  /\ segments' \in Seq(Seg) /\ open' \in [Said -> [Index -> Nat]]
             /\ \A k \in Said, j \in Index : open'[k][j] <= Len(segments')
  <2>1. segments' \in Seq(Seg) /\ Len(segments) <= Len(segments') /\ Len(segments') \in Nat
    BY <1>3 DEF Grown
  <2> QED BY <1>0, <1>3, <2>1 DEF OpenShrinks, BufferType
<1>4. /\ segments' \in Seq(Seg) /\ open' \in [Said -> [Index -> Nat]]
      /\ \A k \in Said, j \in Index : open'[k][j] <= Len(segments')
  <2>1. CASE \E a \in Agent, kind \in Said, i \in Index : StartBlock(a, kind, i)
    BY <1>1, <2>1
  <2>2. CASE Delta
    BY <1>2, <2>2
  <2>3. CASE ~Delta /\ ~\E a \in Agent, kind \in Said, i \in Index : StartBlock(a, kind, i)
    <3>1. OpenShrinks /\ \E a \in Agent : Grown(a)
      BY <2>3, QuietEffect, Agents DEF Next
    <3> QED BY <1>3, <3>1
  <2> QED BY <2>1, <2>2, <2>3
<1> QED BY <1>4, StackType DEF BufferType

-----------------------------------------------------------------------------
(* As long as every result closes what it is the result of, the stack      *)
(* mirrors the Tasks that run, and each was started by one before it.      *)
Mirror ==
  orderly =>
    /\ Len(stack) = Len(running)
    /\ \A i \in 1..Len(running) : stack[i].id = ids[running[i]].call
    /\ \A i \in 1..Len(running) :
         parent[running[i]] = Main \/ \E j \in 1..(i - 1) : running[j] = parent[running[i]]

LEMMA OrderlyBack ==
  ASSUME CliType, [Next]_vars, orderly'
  PROVE  orderly
<1>1. ASSUME NEW a \in Agent, NEW kind \in Said, Chunk(a, kind) PROVE orderly
  BY <1>1 DEF Chunk
<1>2. ASSUME NEW a \in Agent, NEW kind \in Said, NEW i \in Index, StartBlock(a, kind, i)
      PROVE  orderly
  BY <1>2 DEF StartBlock
<1>3. ASSUME NEW a \in Agent, NEW id \in ToolId, ToolUse(a, id) \/ ToolResult(a, id) PROVE orderly
  BY <1>3 DEF ToolUse, ToolResult
<1>4. ASSUME NEW a \in Agent, NEW t \in Task, StartTask(a, t) PROVE orderly
  BY <1>4 DEF StartTask
<1>5. ASSUME NEW k \in DOMAIN running, EndTask(k) PROVE orderly
  BY <1>5 DEF EndTask
<1>6. CASE Delta \/ EndBlock \/ ReportError \/ UNCHANGED vars
  BY <1>6 DEF Delta, EndBlock, ReportError, vars
<1> QED BY <1>1, <1>2, <1>3, <1>4, <1>5, <1>6 DEF Next

(* The result of the newest Task takes that Task, and no other, off.       *)
LEMMA LastPopped ==
  ASSUME CliType, BufferType, Mirror, orderly, Len(running) # 0
  PROVE  LET p == Popped(ids[running[Len(running)]].result)
         IN  Len(p) = Len(running) - 1 /\ \A i \in 1..(Len(running) - 1) : p[i] = stack[i]
<1> DEFINE n == Len(running)
<1> DEFINE t == running[n]
<1> DEFINE id == ids[t].result
<1>1. n \in Nat /\ n \in 1..n /\ Len(stack) = n /\ stack # <<>>
  BY EmptySeq DEF CliType, BufferType, Mirror
<1>2. t \in Task /\ ids[t] \in IdPairs[t]
  BY <1>1, ElementOfSeq DEF CliType
<1>3. stack[n].id = ids[t].call
  BY <1>1 DEF Mirror
<1>4. PICK m \in 0..n :
        /\ Len(Popped(id)) = m
        /\ \A i \in 1..m : Popped(id)[i] = stack[i]
        /\ \A i \in Alike(id) : i <= m + 1
        /\ Alike(id) # {} => m + 1 \in Alike(id)
        /\ Alike(id) = {} =>
             IF /\ stack # <<>> /\ stack[Len(stack)].id = NoId
                /\ id = NoId \/ id \in TaskLike \ called
             THEN m = Len(stack) - 1 ELSE m = Len(stack)
  BY <1>1, PoppedEffect DEF BufferType
<1>5. CASE ids[t].call # NoId
  <2>1. n \in Alike(id)
    BY <1>1, <1>2, <1>3, <1>5, IdAssumption DEF Alike
  <2>2. n <= m + 1 /\ m + 1 \in 1..n
    BY <1>1, <1>4, <2>1 DEF Alike
  <2>3. m = n - 1
    BY <1>1, <2>2
  <2> QED BY <1>4, <2>3
<1>6. CASE ids[t].call = NoId
  <2>1. id = NoId \/ id \in TaskLike \ called
    BY <1>2, <1>6, IdAssumption DEF CliType
  <2>2. ASSUME NEW i \in 1..n, NoId \notin {stack[i].id, id}, Resembles(stack[i].id, id)
        PROVE  FALSE
    <3>1. running[i] \in Task /\ ids[running[i]] \in IdPairs[running[i]]
      BY ElementOfSeq DEF CliType
    <3>2. stack[i].id = ids[running[i]].call
      BY DEF Mirror
    <3>3. running[i] # t
      BY <1>6, <2>2, <3>2
    <3> QED BY <1>2, <2>2, <3>1, <3>2, <3>3, ApartAssumption
  <2>3. Alike(id) = {}
    BY <1>1, <2>2 DEF Alike
  <2>4. m = n - 1
    BY <1>1, <1>3, <1>4, <1>6, <2>1, <2>3
  <2> QED BY <1>4, <2>4
<1> QED BY <1>5, <1>6

LEMMA MirrorStep ==
  ASSUME CliType, BufferType, Mirror, [Next]_vars
  PROVE  Mirror'
<1> DEFINE n == Len(running)
<1> SUFFICES ASSUME orderly' PROVE Mirror'
  BY DEF Mirror
<1>0. orderly /\ n \in Nat
  BY OrderlyBack DEF CliType
<1>1. CASE UNCHANGED <<ids, running, parent, stack>>
  BY <1>0, <1>1 DEF Mirror
<1>2. ASSUME NEW a \in Agent, NEW t \in Task, StartTask(a, t) PROVE Mirror'
  <2>1. /\ running' = Append(running, t) /\ ids' = ids
        /\ parent' = [parent EXCEPT ![t] = a] /\ t \notin ToSet(running) /\ Alive(a)
        /\ stack' = Append(stack, [id |-> ids[t].call, segment |-> Len(segments')])
    BY <1>2 DEF StartTask
  <2>2. /\ Len(running') = n + 1 /\ running'[n + 1] = t
        /\ \A i \in 1..n : running'[i] = running[i]
    BY <2>1, AppendEffect DEF CliType
  <2>3. /\ Len(stack') = n + 1 /\ stack'[n + 1].id = ids[t].call
        /\ \A i \in 1..n : stack'[i] = stack[i]
    <3>1. /\ Len(stack') = Len(stack) + 1
          /\ stack'[Len(stack) + 1] = [id |-> ids[t].call, segment |-> Len(segments')]
          /\ \A i \in 1..Len(stack) : stack'[i] = stack[i]
      BY <2>1, AppendProperties DEF BufferType
    <3> QED BY <1>0, <3>1 DEF Mirror
  <2>4. \A i \in 1..n : running[i] # t /\ running[i] \in Task
    BY <2>1, InSet, ElementOfSeq DEF CliType
  <2>5. \A i \in 1..n : parent'[running[i]] = parent[running[i]]
    BY <2>1, <2>4 DEF CliType
  <2>6. a = Main \/ \E j \in 1..n : running[j] = a
    BY <2>1, InSet DEF Alive, CliType
  <2>7. parent'[t] = a
    BY <2>1 DEF CliType
  <2> HIDE DEF n
  <2>8. \A i \in 1..(n + 1) : i \in 1..n \/ i = n + 1
    BY <1>0
  <2>9. \A i \in 1..(n + 1) : stack'[i].id = ids'[running'[i]].call
    BY <1>0, <2>1, <2>2, <2>3, <2>8 DEF Mirror, n
  <2>10. \A i \in 1..n : parent[running[i]] = Main \/ \E j \in 1..(i - 1) : running[j] = parent[running[i]]
    BY <1>0 DEF Mirror, n
  <2>11. \A i \in 1..n : parent'[running'[i]] = Main
                         \/ \E j \in 1..(i - 1) : running'[j] = parent'[running'[i]]
    <3>1. \A i \in 1..n : \A j \in 1..(i - 1) : j \in 1..n
      BY <1>0
    <3> QED BY <2>2, <2>5, <2>10, <3>1
  <2>12. parent'[running'[n + 1]] = Main
         \/ \E j \in 1..((n + 1) - 1) : running'[j] = parent'[running'[n + 1]]
    <3>1. (n + 1) - 1 = n
      BY <1>0
    <3> QED BY <2>2, <2>6, <2>7, <3>1
  <2>13. \A i \in 1..(n + 1) : parent'[running'[i]] = Main
                         \/ \E j \in 1..(i - 1) : running'[j] = parent'[running'[i]]
    BY <2>8, <2>11, <2>12
  <2> QED BY <2>2, <2>3, <2>9, <2>13 DEF Mirror
<1>3. ASSUME NEW k \in DOMAIN running, EndTask(k) PROVE Mirror'
  <2>1. k \in 1..n
    BY DEF CliType
  <2>2. k = n /\ UNCHANGED <<ids, parent>> /\ stack' = Popped(ids[running[k]].result)
    BY <1>3 DEF EndTask
  <2>3. Len(running') = n - 1 /\ \A i \in 1..(n - 1) : running'[i] = running[i]
    <3>1. /\ Len(running') = n - 1
          /\ \A i \in 1..(n - 1) : running'[i] = IF i < n THEN running[i] ELSE running[i + 1]
      BY <1>3, <2>1, <2>2, EndTaskEffect
    <3> QED BY <1>0, <3>1
  <2>4. Len(stack') = n - 1 /\ \A i \in 1..(n - 1) : stack'[i] = stack[i]
    BY <1>0, <2>1, <2>2, LastPopped
  <2> HIDE DEF n
  <2>5. \A i \in 1..(n - 1) : i \in 1..n /\ \A j \in 1..(i - 1) : j \in 1..(n - 1)
    BY <1>0
  <2>6. \A i \in 1..n : /\ stack[i].id = ids[running[i]].call
                        /\ parent[running[i]] = Main
                           \/ \E j \in 1..(i - 1) : running[j] = parent[running[i]]
    BY <1>0 DEF Mirror, n
  <2> QED BY <2>2, <2>3, <2>4, <2>5, <2>6 DEF Mirror
<1>4. ASSUME NEW a \in Agent, NEW id \in ToolId, ToolResult(a, id)
      PROVE  UNCHANGED <<ids, running, parent, stack>>
  BY <1>4 DEF ToolResult, cliVars
<1>5. ASSUME NEW a \in Agent, NEW kind \in Said, Chunk(a, kind)
      PROVE  UNCHANGED <<ids, running, parent, stack>>
  BY <1>5 DEF Chunk
<1>6. ASSUME NEW a \in Agent, NEW kind \in Said, NEW i \in Index, StartBlock(a, kind, i)
      PROVE  UNCHANGED <<ids, running, parent, stack>>
  BY <1>6 DEF StartBlock
<1>7. ASSUME NEW a \in Agent, NEW id \in ToolId, ToolUse(a, id)
      PROVE  UNCHANGED <<ids, running, parent, stack>>
  BY <1>7 DEF ToolUse
<1>8. Delta \/ EndBlock \/ ReportError \/ UNCHANGED vars => UNCHANGED <<ids, running, parent, stack>>
  BY DEF Delta, EndBlock, ReportError, vars, cliVars, bufferVars
<1> QED BY <1>1, <1>2, <1>3, <1>4, <1>5, <1>6, <1>7, <1>8 DEF Next

(* The main agent speaks only when no Task runs; and outside of every      *)
(* subagent it alone speaks.                                               *)
LEMMA MainAlone ==
  ASSUME CliType, BufferType, Mirror, orderly, NEW a, Speaks(a)
  PROVE  InSubagent <=> a # Main
<1>1. Len(running) \in Nat /\ Len(stack) = Len(running) /\ (stack = <<>> <=> Len(stack) = 0)
  BY EmptySeq DEF CliType, BufferType, Mirror
<1>2. ASSUME a = Main, Len(running) # 0 PROVE FALSE
  <2>1. 1 \in 1..Len(running) /\ 1..(1 - 1) = {}
    BY <1>1, <1>2
  <2>2. parent[running[1]] = Main
    BY <2>1 DEF Mirror
  <2>3. running[1] \in ToSet(running)
    BY <2>1, InSet DEF CliType
  <2> QED BY <1>2, <2>2, <2>3 DEF Speaks
<1>3. ASSUME a # Main PROVE Len(running) # 0
  <2>1. PICK i \in 1..Len(running) : running[i] = a
    BY <1>3, InSet DEF Speaks, Alive, CliType
  <2> QED BY <1>1
<1> QED BY <1>1, <1>2, <1>3 DEF InSubagent

-----------------------------------------------------------------------------
(* Only the main agent is heard, and a segment that is open for the block  *)
(* being streamed holds nothing of another block.                          *)
Quiet ==
  orderly => \A i \in 1..Len(segments) :
    segments[i].kind \in Said =>
      segments[i].by = Main /\ \E b \in Nat : segments[i].from \subseteq {b}

OpenForBlock ==
  orderly /\ block \in Block /\ block.by = Main =>
    LET n == open[block.kind][block.index]
    IN  n # 0 => segments[n].from \subseteq {block.number}

(* The events that make the transcript grow.                               *)
LEMMA QuietGrown ==
  ASSUME CliType, BufferType, Mirror, Quiet, orderly, NEW a \in Agent, Grown(a),
         Speaks(a) \/ \A b \in Agent : Grown(b)
  PROVE  \A i \in 1..Len(segments') :
           segments'[i].kind \in Said =>
             segments'[i].by = Main /\ \E b \in Nat : segments'[i].from \subseteq {b}
<1> SUFFICES ASSUME NEW i \in 1..Len(segments'), segments'[i].kind \in Said
             PROVE  segments'[i].by = Main /\ \E b \in Nat : segments'[i].from \subseteq {b}
  OBVIOUS
<1>1. Len(segments) \in Nat /\ Len(segments') \in Nat
  BY DEF Grown, BufferType
<1>2. CASE i <= Len(segments)
  <2>1. i \in 1..Len(segments)
    BY <1>1, <1>2
  <2> QED BY <2>1 DEF Grown, Quiet
<1>3. CASE Len(segments) < i
  <2>1. ~InSubagent /\ segments'[i].by = a /\ \E b \in Nat : segments'[i].from \subseteq {b}
    BY <1>3 DEF Grown
  <2>2. CASE Speaks(a)
    BY <2>1, <2>2, MainAlone
  <2>3. CASE \A b \in Agent : Grown(b)
    <3>1. segments'[i].by = Main
      BY <1>3, <2>3, Agents DEF Grown
    <3> QED BY <2>1, <3>1
  <2> QED BY <2>2, <2>3
<1> QED BY <1>1, <1>2, <1>3

(* Segments that grow hold the blocks they held.                           *)
LEMMA OpenGrown ==
  ASSUME BufferType, NEW a \in Agent, Grown(a), NEW b \in Block,
         NEW n \in {open[b.kind][b.index]}, n # 0
  PROVE  segments'[n].from = segments[n].from
<1>1. n \in Nat /\ n <= Len(segments) /\ Len(segments) \in Nat
  BY BlockKinds DEF BufferType
<1>2. n \in 1..Len(segments)
  BY <1>1
<1> QED BY <1>2 DEF Grown

LEMMA QuietStep ==
  ASSUME CliType, BufferType, Mirror, Quiet, OpenForBlock, [Next]_vars
  PROVE  Quiet' /\ OpenForBlock'
<1> SUFFICES ASSUME orderly' PROVE Quiet' /\ OpenForBlock'
  BY DEF Quiet, OpenForBlock
<1>0. orderly
  BY OrderlyBack
<1>1. ASSUME NEW a \in Agent, NEW kind \in Said, NEW i \in Index, StartBlock(a, kind, i)
      PROVE  Quiet' /\ OpenForBlock'
  <2>1. Grown(a) /\ Speaks(a) /\ block' \in Block /\ block'.by = a /\ block'.kind = kind
        /\ block'.index = i
    BY <1>1, StartBlockEffect
  <2>2. Quiet'
    BY <1>0, <2>1, QuietGrown DEF Quiet
  <2>3. CASE InSubagent
    BY <1>0, <2>1, <2>2, <2>3, MainAlone DEF OpenForBlock
  <2>4. CASE ~InSubagent
    <3>1. open'[kind][i] = Len(segments') /\ segments'[Len(segments')].from = {}
      BY <1>1, <2>4, StartBlockEffect
    <3> QED BY <2>1, <2>2, <3>1 DEF OpenForBlock
  <2> QED BY <2>3, <2>4
<1>2. ASSUME Delta PROVE Quiet' /\ OpenForBlock'
  <2>1. CASE UNCHANGED <<block, segments, open, stack>>
    BY <1>0, <2>1 DEF Quiet, OpenForBlock
  <2>2. ASSUME ~InSubagent, NEW n \in Nat, Heard(n) PROVE Quiet' /\ OpenForBlock'
    <3>1. /\ block \in Block /\ Speaks(block.by) /\ block' = block
          /\ n \in 1..Len(segments')
          /\ segments'[n].by = block.by
          /\ \A j \in 1..Len(segments') : j # n => j \in 1..Len(segments) /\ segments'[j] = segments[j]
          /\ open'[block.kind][block.index] = n
      BY <2>2 DEF Heard
    <3>2. block.by = Main /\ block.number \in Nat
      BY <1>0, <2>2, <3>1, MainAlone, BlockKinds
    <3>3. segments'[n].from \subseteq {block.number}
      <4>1. CASE open[block.kind][block.index] = 0
        BY <2>2, <4>1 DEF Heard
      <4>2. CASE open[block.kind][block.index] # 0
        <5>1. /\ n = open[block.kind][block.index]
              /\ segments'[n].from = segments[n].from \cup {block.number}
          BY <2>2, <4>2 DEF Heard
        <5>2. segments[n].from \subseteq {block.number}
          BY <1>0, <3>1, <3>2, <4>2, <5>1 DEF OpenForBlock
        <5> QED BY <5>1, <5>2
      <4> QED BY <4>1, <4>2
    <3>4. OpenForBlock'
      BY <3>1, <3>3 DEF OpenForBlock
    <3>5. Quiet'
      BY <1>0, <3>1, <3>2, <3>3 DEF Quiet
    <3> QED BY <3>4, <3>5
  <2> QED BY <1>2, <2>1, <2>2, DeltaEffect
<1>3. ASSUME OpenShrinks, block' \in {block, NoBlock}, NEW a \in Agent, Grown(a),
             Speaks(a) \/ \A b \in Agent : Grown(b)
      PROVE  Quiet' /\ OpenForBlock'
  <2>1. Quiet'
    BY <1>0, <1>3, QuietGrown DEF Quiet
  <2>2. ASSUME block \in Block, block.by = Main, block' = block,
               open'[block.kind][block.index] # 0
        PROVE  segments'[open'[block.kind][block.index]].from \subseteq {block.number}
    <3> DEFINE n == open[block.kind][block.index]
    <3>1. open'[block.kind][block.index] = n
      BY <1>3, <2>2, BlockKinds DEF OpenShrinks
    <3>2. segments[n].from \subseteq {block.number}
      BY <1>0, <2>2, <3>1 DEF OpenForBlock
    <3>3. segments'[n].from = segments[n].from
      BY <1>3, <2>2, <3>1, OpenGrown
    <3> QED BY <3>1, <3>2, <3>3
  <2>3. OpenForBlock'
    BY <1>3, <2>2, BlockKinds DEF OpenForBlock
  <2> QED BY <2>1, <2>3
<1>4. CASE ~Delta /\ ~\E a \in Agent, kind \in Said, i \in Index : StartBlock(a, kind, i)
  <2>1. OpenShrinks /\ block' \in {block, NoBlock}
        /\ \E a \in Agent : Grown(a) /\ (Speaks(a) \/ \A b \in Agent : Grown(b))
    BY <1>4, QuietEffect, Agents DEF Next
  <2> QED BY <1>3, <2>1
<1> QED BY <1>1, <1>2, <1>4

-----------------------------------------------------------------------------
(* If every Task so far had an id, each entry of the stack is that of a    *)
(* Task of its own that still runs.                                        *)
AllNamed ==
  /\ \A i \in 1..Len(running) : ids[running[i]].call # NoId
  /\ \A t \in ended : ids[t].call # NoId

Owned ==
  AllNamed =>
    /\ \A i \in 1..Len(stack) : \E j \in 1..Len(running) : stack[i].id = ids[running[j]].call
    /\ \A i, j \in 1..Len(stack) : i # j => stack[i].id # stack[j].id

(* The call of one Task is unlike the call, and the result, of another.    *)
LEMMA CallsApart ==
  ASSUME CliType, NEW t \in Task, NEW u \in Task, t # u,
         ids[t].call # NoId, ids[u].call # NoId
  PROVE  /\ ids[u].call # ids[t].call /\ ids[t].result # NoId
         /\ Resembles(ids[t].call, ids[t].result) /\ ~Resembles(ids[u].call, ids[t].result)
<1>1. ids[t] \in IdPairs[t] /\ ids[u] \in IdPairs[u]
  BY DEF CliType
<1>2. ids[t].result # NoId /\ Resembles(ids[t].call, ids[t].result)
  BY <1>1, IdAssumption
<1>3. NoId \notin {ids[t].result, ids[u].call}
  BY <1>2
<1>4. ~Resembles(ids[u].call, ids[t].result)
  BY <1>1, <1>3, ApartAssumption
<1>5. ids[u].call # ids[t].call
  BY <1>2, <1>4
<1> QED BY <1>2, <1>4, <1>5

LEMMA OwnedStep ==
  ASSUME CliType, BufferType, Owned, [Next]_vars
  PROVE  Owned'
<1> DEFINE n == Len(running)
<1>0. n \in Nat /\ Len(stack) \in Nat /\ \A i \in 1..n : running[i] \in Task
  BY ElementOfSeq DEF CliType, BufferType
<1>1. CASE UNCHANGED <<ids, running, ended, stack>>
  BY <1>1 DEF Owned, AllNamed
<1>2. ASSUME NEW a \in Agent, NEW t \in Task, StartTask(a, t), AllNamed' PROVE Owned'
  <2>1. /\ running' = Append(running, t) /\ UNCHANGED <<ids, ended>> /\ t \notin ToSet(running)
        /\ stack' = Append(stack, [id |-> ids[t].call, segment |-> Len(segments')])
    BY <1>2 DEF StartTask
  <2>2. /\ Len(running') = n + 1 /\ running'[n + 1] = t
        /\ \A i \in 1..n : running'[i] = running[i]
    BY <2>1, AppendEffect DEF CliType
  <2> DEFINE s == Len(stack)
  <2>3. /\ Len(stack') = s + 1 /\ stack'[s + 1].id = ids[t].call
        /\ \A i \in 1..s : stack'[i] = stack[i]
    BY <2>1, AppendProperties DEF BufferType
  <2>4. \A i \in 1..n : running[i] # t
    BY <2>1, InSet DEF CliType
  <2> HIDE DEF n, s
  <2>5. \A i \in 1..n : i \in 1..(n + 1)
    BY <1>0 DEF n
  <2>6. n + 1 \in 1..(n + 1) /\ \A i \in 1..(s + 1) : i \in 1..s \/ i = s + 1
    BY <1>0 DEF n, s
  <2>7. \A i \in 1..n : ids[running[i]].call # NoId
    BY <1>2, <2>1, <2>2, <2>5 DEF AllNamed
  <2>8. ids[t].call # NoId
    BY <1>2, <2>1, <2>2, <2>6 DEF AllNamed
  <2>9. AllNamed
    BY <1>2, <2>1, <2>7 DEF AllNamed, n
  <2>10. /\ \A i \in 1..s : \E j \in 1..n : stack[i].id = ids[running[j]].call
         /\ \A i, j \in 1..s : i # j => stack[i].id # stack[j].id
    BY <2>9 DEF Owned, n, s
  <2>11. \A i \in 1..s : stack[i].id # ids[t].call
    <3> SUFFICES ASSUME NEW i \in 1..s PROVE stack[i].id # ids[t].call
      OBVIOUS
    <3>1. PICK j \in 1..n : stack[i].id = ids[running[j]].call
      BY <2>10
    <3>2. running[j] \in Task /\ running[j] # t /\ ids[running[j]].call # NoId
      BY <1>0, <2>4, <2>7 DEF n
    <3> QED BY <2>8, <3>1, <3>2, CallsApart
  <2>12. \A i \in 1..(s + 1) : \E j \in 1..(n + 1) : stack'[i].id = ids'[running'[j]].call
    <3>1. ASSUME NEW i \in 1..s
          PROVE  \E j \in 1..(n + 1) : stack'[i].id = ids'[running'[j]].call
      <4>1. PICK j \in 1..n : stack[i].id = ids[running[j]].call
        BY <2>10
      <4>2. j \in 1..(n + 1) /\ running'[j] = running[j] /\ stack'[i].id = stack[i].id /\ ids' = ids
        BY <2>1, <2>2, <2>3, <2>5
      <4> QED BY <4>1, <4>2
    <3>2. stack'[s + 1].id = ids'[running'[n + 1]].call
      BY <2>1, <2>2, <2>3
    <3> QED BY <2>6, <3>1, <3>2
  <2>13. \A i, j \in 1..(s + 1) : i # j => stack'[i].id # stack'[j].id
    BY <2>3, <2>6, <2>10, <2>11
  <2> QED BY <2>2, <2>3, <2>12, <2>13 DEF Owned
<1>3. ASSUME NEW k \in 1..n, EndTask(k), AllNamed' PROVE Owned'
  <2> DEFINE t == running[k]
  <2>1. ids' = ids /\ ended' = ended \cup {t} /\ stack' = Popped(ids[t].result)
    BY <1>3 DEF EndTask
  <2>2. \A i \in 1..n : i # k => \E j \in 1..Len(running') : running'[j] = running[i]
    BY <1>3, EndTaskEffect
  <2>3. t \in Task /\ ids[t].call # NoId
    BY <1>0, <1>3, <2>1 DEF AllNamed
  <2>4. \A i \in 1..n : ids[running[i]].call # NoId
    <3> SUFFICES ASSUME NEW i \in 1..n, i # k PROVE ids[running[i]].call # NoId
      BY <2>3
    <3>1. PICK j \in 1..Len(running') : running'[j] = running[i]
      BY <2>2
    <3>2. ids'[running'[j]].call # NoId
      BY <1>3 DEF AllNamed
    <3> QED BY <2>1, <3>1, <3>2
  <2>5. AllNamed
    BY <1>3, <2>1, <2>4 DEF AllNamed
  <2>6. /\ \A i \in 1..Len(stack) : \E j \in 1..n : stack[i].id = ids[running[j]].call
        /\ \A i, j \in 1..Len(stack) : i # j => stack[i].id # stack[j].id
    BY <2>5 DEF Owned
  <2>7. ids[t].result # NoId /\ Resembles(ids[t].call, ids[t].result)
    <3>1. ids[t] \in IdPairs[t]
      BY <2>3 DEF CliType
    <3> QED BY <2>3, <3>1, IdAssumption
  <2>8. \A i \in 1..Len(stack) : i \in Alike(ids[t].result) <=> stack[i].id = ids[t].call
    <3> SUFFICES ASSUME NEW i \in 1..Len(stack)
                 PROVE  i \in Alike(ids[t].result) <=> stack[i].id = ids[t].call
      OBVIOUS
    <3>1. PICK j \in 1..n : stack[i].id = ids[running[j]].call
      BY <2>6
    <3>2. running[j] \in Task /\ ids[running[j]].call # NoId
      BY <1>0, <2>4
    <3>3. running[j] = t \/ ~Resembles(stack[i].id, ids[t].result)
      BY <2>3, <3>1, <3>2, CallsApart
    <3> QED BY <2>3, <2>7, <3>1, <3>2, <3>3 DEF Alike
  <2>9. PICK m \in 0..Len(stack) :
          /\ Len(Popped(ids[t].result)) = m
          /\ \A i \in 1..m : Popped(ids[t].result)[i] = stack[i]
          /\ \A i \in Alike(ids[t].result) : i <= m + 1
          /\ Alike(ids[t].result) # {} => m + 1 \in Alike(ids[t].result)
    BY PoppedEffect DEF BufferType
  <2>10. \A i \in 1..m : i \in 1..Len(stack) /\ i # m + 1
    BY <1>0
  <2>11. \A i \in 1..m : stack[i].id # ids[t].call
    <3> SUFFICES ASSUME NEW i \in 1..m, stack[i].id = ids[t].call PROVE FALSE
      OBVIOUS
    <3>1. i \in Alike(ids[t].result)
      BY <2>8, <2>10
    <3>2. m + 1 \in Alike(ids[t].result)
      BY <2>9, <3>1
    <3>3. m + 1 \in 1..Len(stack) /\ stack[m + 1].id = ids[t].call
      BY <2>8, <3>2 DEF Alike
    <3> QED BY <2>6, <2>10, <3>3
  <2> DEFINE p == Popped(ids[t].result)
  <2>12. \A i \in 1..m : \E j \in 1..Len(running') : p[i].id = ids[running'[j]].call
    <3> SUFFICES ASSUME NEW i \in 1..m
                 PROVE  \E j \in 1..Len(running') : p[i].id = ids[running'[j]].call
      OBVIOUS
    <3>1. p[i] = stack[i] /\ stack[i].id # ids[t].call
      BY <2>9, <2>11
    <3>2. PICK j \in 1..n : stack[i].id = ids[running[j]].call
      BY <2>6, <2>10
    <3>3. j # k
      BY <3>1, <3>2
    <3> QED BY <2>2, <3>1, <3>2, <3>3
  <2>13. \A i, j \in 1..m : i # j => p[i].id # p[j].id
    BY <2>6, <2>9, <2>10
  <2>14. Len(p) = m /\ stack' = p
    BY <2>1, <2>9
  <2> HIDE DEF p
  <2>15. \A i \in 1..Len(stack') : \E j \in 1..Len(running') : stack'[i].id = ids'[running'[j]].call
    BY <2>1, <2>12, <2>14
  <2> QED BY <2>13, <2>14, <2>15 DEF Owned
<1>4. ASSUME NEW a \in Agent, NEW id \in ToolId, ToolResult(a, id), AllNamed' PROVE Owned'
  <2>1. UNCHANGED <<ids, running, ended>> /\ stack' = Popped(id)
    BY <1>4 DEF ToolResult, cliVars
  <2>2. PICK m \in 0..Len(stack) : /\ Len(Popped(id)) = m
                                   /\ \A i \in 1..m : Popped(id)[i] = stack[i]
    BY PoppedEffect DEF BufferType
  <2>3. \A i \in 1..m : i \in 1..Len(stack)
    BY <1>0
  <2>4. AllNamed
    BY <1>4, <2>1 DEF AllNamed
  <2>5. /\ \A i \in 1..Len(stack) : \E j \in 1..n : stack[i].id = ids[running[j]].call
        /\ \A i, j \in 1..Len(stack) : i # j => stack[i].id # stack[j].id
    BY <2>4 DEF Owned
  <2>6. Len(stack') = m /\ \A i \in 1..m : i \in 1..Len(stack) /\ stack'[i] = stack[i]
    BY <2>1, <2>2, <2>3
  <2>7. \A i \in 1..Len(stack') : \E j \in 1..Len(running') : stack'[i].id = ids'[running'[j]].call
    <3> SUFFICES ASSUME NEW i \in 1..Len(stack')
                 PROVE  \E j \in 1..Len(running') : stack'[i].id = ids'[running'[j]].call
      OBVIOUS
    <3>1. PICK j \in 1..n : stack[i].id = ids[running[j]].call
      BY <2>5, <2>6
    <3>2. stack'[i] = stack[i] /\ running' = running /\ ids' = ids
      BY <2>1, <2>6
    <3> QED BY <3>1, <3>2
  <2>8. \A i, j \in 1..Len(stack') : i # j => stack'[i].id # stack'[j].id
    BY <2>5, <2>6
  <2> QED BY <2>7, <2>8 DEF Owned
<1>5. ASSUME NEW a \in Agent, NEW kind \in Said, Chunk(a, kind)
      PROVE  UNCHANGED <<ids, running, ended, stack>>
  BY <1>5 DEF Chunk
<1>6. ASSUME NEW a \in Agent, NEW kind \in Said, NEW i \in Index, StartBlock(a, kind, i)
      PROVE  UNCHANGED <<ids, running, ended, stack>>
  BY <1>6 DEF StartBlock
<1>7. ASSUME NEW a \in Agent, NEW id \in ToolId, ToolUse(a, id)
      PROVE  UNCHANGED <<ids, running, ended, stack>>
  BY <1>7 DEF ToolUse
<1>8. Delta \/ EndBlock \/ ReportError \/ UNCHANGED vars => UNCHANGED <<ids, running, ended, stack>>
  BY DEF Delta, EndBlock, ReportError, vars, cliVars, bufferVars
<1>9. ASSUME NEW k \in DOMAIN running, EndTask(k), AllNamed' PROVE Owned'
  <2>1. k \in 1..n
    BY DEF CliType
  <2> QED BY <1>3, <1>9, <2>1
<1>10. ~AllNamed' => Owned'
  BY DEF Owned
<1> QED BY <1>1, <1>2, <1>4, <1>5, <1>6, <1>7, <1>8, <1>9, <1>10 DEF Next

-----------------------------------------------------------------------------
TranscriptInv == CliType /\ BufferType /\ Mirror /\ Quiet /\ OpenForBlock /\ Owned

LEMMA TranscriptInit == Init => TranscriptInv
<1> SUFFICES ASSUME Init PROVE TranscriptInv
  OBVIOUS
<1>1. Len(running) = 0 /\ Len(stack) = 0 /\ Len(segments) = 0 /\ block = NoBlock
      /\ running = <<>> /\ stack = <<>> /\ segments = <<>>
  BY DEF Init
<1>2. CliType
  <2>1. running \in Seq(Task) /\ parent \in [Task -> Agent]
    BY Agents DEF Init
  <2>2. \A t \in Task : ids[t] \in IdPairs[t]
    BY DEF Init
  <2> QED BY <1>1, <2>1, <2>2 DEF Init, CliType
<1>3. BufferType
  <2>1. \A k \in Said, i \in Index : open[k][i] = 0
    BY DEF Init
  <2>2. open \in [Said -> [Index -> Nat]]
    BY DEF Init
  <2> QED BY <1>1, <2>1, <2>2 DEF BufferType
<1>4. Mirror /\ Quiet /\ Owned
  BY <1>1 DEF Mirror, Quiet, Owned
<1>5. OpenForBlock
  BY <1>1, BlockKinds DEF OpenForBlock
<1> QED BY <1>2, <1>3, <1>4, <1>5 DEF TranscriptInv

(* The buffer's stack and its open blocks agree with what the CLI does,    *)
(* whatever the order of its events (TranscriptBuffer.apply).              *)
THEOREM TranscriptInvariant == Spec => []TranscriptInv
<1>1. Init => TranscriptInv
  BY TranscriptInit
<1>2. TranscriptInv /\ [Next]_vars => TranscriptInv'
  BY CliTypeStep, BufferTypeStep, MirrorStep, QuietStep, OwnedStep DEF TranscriptInv
<1> QED BY <1>1, <1>2, PTL DEF Spec

(* Nothing a subagent says or thinks is shown, for any number of Tasks     *)
(* nested and side by side, as long as each result closes its own          *)
(* (transcript.py:343).                                                    *)
THEOREM SubagentsStayQuiet == Spec => []SubagentsQuiet
<1>1. TranscriptInv => SubagentsQuiet
  <2> SUFFICES ASSUME TranscriptInv, orderly, NEW i \in DOMAIN segments, segments[i].kind \in Said
               PROVE  segments[i].by = Main
    BY DEF SubagentsQuiet
  <2>1. i \in 1..Len(segments)
    BY DEF TranscriptInv, BufferType
  <2> QED BY <2>1 DEF TranscriptInv, Quiet
<1> QED BY <1>1, TranscriptInvariant, PTL

(* A segment of text or thinking is of one content block, however the CLI  *)
(* uses its indices again and whatever stops are left out                  *)
(* (transcript.py:357).                                                    *)
THEOREM BlocksStayApart == Spec => []BlocksKeepApart
<1>1. TranscriptInv => BlocksKeepApart
  <2> SUFFICES ASSUME TranscriptInv, orderly, NEW i \in DOMAIN segments, segments[i].kind \in Said
               PROVE  Cardinality(segments[i].from) <= 1
    BY DEF BlocksKeepApart
  <2>1. PICK b \in Nat : segments[i].from \subseteq {b}
    BY DEF TranscriptInv, BufferType, Quiet
  <2>2. Cardinality({}) = 0 /\ Cardinality({b}) = 1
    BY FS_EmptySet, FS_Singleton
  <2>3. segments[i].from = {} \/ segments[i].from = {b}
    BY <2>1
  <2>4. Cardinality(segments[i].from) \in {0, 1}
    BY <2>2, <2>3, Zenon
  <2> QED BY <2>4
<1> QED BY <1>1, TranscriptInvariant, PTL

(* Once no Task runs, none is left on the stack, in whatever order they    *)
(* ended and whatever their results' ids are like, if their calls had ids  *)
(* (transcript.py:294).                                                    *)
THEOREM MainHeardAgain == Spec => []MainIsHeardAgain
<1>1. TranscriptInv => MainIsHeardAgain
  <2> SUFFICES ASSUME TranscriptInv, running = <<>>, \A t \in ended : ids[t].call # NoId
               PROVE  stack = <<>>
    BY DEF MainIsHeardAgain
  <2>1. Len(running) = 0 /\ AllNamed
    BY DEF AllNamed
  <2>2. Len(stack) \in Nat /\ \A i \in 1..Len(stack) : FALSE
    BY <2>1 DEF TranscriptInv, BufferType, Owned
  <2>3. Len(stack) = 0
    BY <2>2
  <2> QED BY <2>3, EmptySeq DEF TranscriptInv, BufferType
<1> QED BY <1>1, TranscriptInvariant, PTL

-----------------------------------------------------------------------------
(* render.                                                                 *)

(* A set of numbers that goes on from each of its members has them all.    *)
LEMMA NatAll ==
  ASSUME NEW S \in SUBSET Nat, 0 \in S, \A n \in S : n + 1 \in S
  PROVE  Nat \subseteq S
<1> SUFFICES ASSUME Nat \ S # {} PROVE FALSE
  OBVIOUS
<1>1. PICK x \in Nat \ S : \A y \in Nat \ S : x <= y
  <2>1. Nat \ S \in SUBSET Nat
    OBVIOUS
  <2> QED BY <2>1, NatMin
<1>2. x # 0
  OBVIOUS
<1>3. x - 1 \in Nat /\ ~(x <= x - 1) /\ (x - 1) + 1 = x
  BY <1>2
<1>4. x - 1 \in S
  BY <1>1, <1>3
<1> QED BY <1>1, <1>3, <1>4

(* f[n] is the length of the n newest of k parts and the status line.      *)
Lengths(f, parts, k, status) ==
  f = [n \in 0..k |-> IF n = 0 THEN status ELSE f[n - 1] + parts[Len(parts) + 1 - n]]

LEMMA LengthsExist ==
  ASSUME NEW parts, NEW status, NEW k \in Nat
  PROVE  \E f : Lengths(f, parts, k, status)
<1> DEFINE S == {i \in Nat : \E f : Lengths(f, parts, i, status)}
<1>1. 0 \in S
  <2> DEFINE f == [n \in 0..0 |-> status]
  <2>1. Lengths(f, parts, 0, status)
    BY DEF Lengths
  <2> QED BY <2>1
<1>2. ASSUME NEW i \in S PROVE i + 1 \in S
  <2>1. PICK f : Lengths(f, parts, i, status)
    OBVIOUS
  <2>2. \A n \in 0..i : f[n] = IF n = 0 THEN status ELSE f[n - 1] + parts[Len(parts) + 1 - n]
    BY <2>1 DEF Lengths
  <2> DEFINE last == f[i] + parts[Len(parts) + 1 - (i + 1)]
  <2> DEFINE h == [n \in 0..(i + 1) |-> IF n <= i THEN f[n] ELSE last]
  <2>3. \A n \in 0..(i + 1) : h[n] = IF n = 0 THEN status ELSE h[n - 1] + parts[Len(parts) + 1 - n]
    <3> SUFFICES ASSUME NEW n \in 0..(i + 1)
                 PROVE  h[n] = IF n = 0 THEN status ELSE h[n - 1] + parts[Len(parts) + 1 - n]
      OBVIOUS
    <3>1. CASE n = 0
      <4>1. h[n] = f[n] /\ f[0] = status
        BY <2>2, <3>1
      <4> QED BY <3>1, <4>1
    <3>2. CASE n \in 1..i
      <4>1. h[n] = f[n] /\ h[n - 1] = f[n - 1] /\ f[n] = f[n - 1] + parts[Len(parts) + 1 - n]
        BY <2>2, <3>2
      <4> QED BY <3>2, <4>1
    <3>3. CASE n = i + 1
      <4>1. h[n] = last /\ h[n - 1] = f[i] /\ n # 0
        BY <3>3
      <4> QED BY <3>3, <4>1
    <3> QED BY <3>1, <3>2, <3>3
  <2>4. h = [n \in 0..(i + 1) |-> h[n]]
    OBVIOUS
  <2> HIDE DEF h
  <2>5. Lengths(h, parts, i + 1, status)
    BY <2>3, <2>4 DEF Lengths
  <2> QED BY <2>5
<1> HIDE DEF S
<1>3. k \in S
  BY <1>1, <1>2, NatAll DEF S
<1> QED BY <1>3 DEF S

(* Joining parts gives a text of some length.                              *)
LEMMA JoinedSize ==
  ASSUME NEW parts \in Seq(Nat), NEW k \in 0..Len(parts), NEW marker \in Nat, NEW status \in Nat
  PROVE  Joined(parts, k, marker, status) \in Nat
<1> DEFINE f == CHOOSE f : f = [n \in 0..k |->
                  IF n = 0 THEN status ELSE f[n - 1] + parts[Len(parts) + 1 - n]]
<1>1. Joined(parts, k, marker, status) = f[k] + (IF k = 0 THEN 0 ELSE k - 1 + marker)
  BY DEF Joined
<1>2. k \in Nat /\ Len(parts) \in Nat /\ k <= Len(parts)
  OBVIOUS
<1>3. Lengths(f, parts, k, status)
  <2>1. \E g : Lengths(g, parts, k, status)
    BY <1>2, LengthsExist
  <2> QED BY <2>1 DEF Lengths
<1> HIDE DEF f
<1>4. \A n \in 0..k : f[n] = IF n = 0 THEN status ELSE f[n - 1] + parts[Len(parts) + 1 - n]
  BY <1>3 DEF Lengths
<1> DEFINE S == {n \in Nat : n <= k => f[n] \in Nat}
<1>5. 0 \in S
  BY <1>2, <1>4
<1>6. ASSUME NEW n \in S PROVE n + 1 \in S
  <2> SUFFICES ASSUME n + 1 <= k PROVE f[n + 1] \in Nat
    OBVIOUS
  <2>1. /\ n + 1 \in 0..k /\ n + 1 # 0 /\ (n + 1) - 1 = n /\ n <= k
        /\ Len(parts) + 1 - (n + 1) \in 1..Len(parts)
    BY <1>2
  <2>2. f[n + 1] = f[n] + parts[Len(parts) + 1 - (n + 1)]
    BY <1>4, <2>1
  <2>3. f[n] \in Nat /\ parts[Len(parts) + 1 - (n + 1)] \in Nat
    BY <2>1, ElementOfSeq
  <2> QED BY <2>2, <2>3
<1> HIDE DEF S
<1>7. k \in S
  BY <1>2, <1>5, <1>6, NatAll DEF S
<1>8. f[k] \in Nat
  BY <1>2, <1>7 DEF S
<1>9. (IF k = 0 THEN 0 ELSE k - 1 + marker) \in Nat
  BY <1>2
<1> QED BY <1>1, <1>8, <1>9

(* f[i] is what is shown of the first i segments.                          *)
ShownNext(q, i) == IF Size(segments[i]) > 0 THEN Append(q, Size(segments[i])) ELSE q
Shown(f, k) == f = [i \in 0..k |-> IF i = 0 THEN <<>> ELSE ShownNext(f[i - 1], i)]

LEMMA ShownExists ==
  ASSUME NEW k \in Nat
  PROVE  \E f : Shown(f, k)
<1> DEFINE S == {i \in Nat : \E f : Shown(f, i)}
<1>1. 0 \in S
  <2> DEFINE f == [n \in 0..0 |-> <<>>]
  <2>1. Shown(f, 0)
    BY DEF Shown
  <2> QED BY <2>1
<1>2. ASSUME NEW i \in S PROVE i + 1 \in S
  <2>1. PICK f : Shown(f, i)
    OBVIOUS
  <2>2. \A n \in 0..i : f[n] = IF n = 0 THEN <<>> ELSE ShownNext(f[n - 1], n)
    BY <2>1 DEF Shown
  <2> DEFINE h == [n \in 0..(i + 1) |-> IF n <= i THEN f[n] ELSE ShownNext(f[i], i + 1)]
  <2>3. \A n \in 0..(i + 1) : h[n] = IF n = 0 THEN <<>> ELSE ShownNext(h[n - 1], n)
    <3> SUFFICES ASSUME NEW n \in 0..(i + 1)
                 PROVE  h[n] = IF n = 0 THEN <<>> ELSE ShownNext(h[n - 1], n)
      OBVIOUS
    <3>1. CASE n = 0
      <4>1. h[n] = f[n] /\ f[0] = <<>>
        BY <2>2, <3>1
      <4> QED BY <3>1, <4>1
    <3>2. CASE n \in 1..i
      <4>1. h[n] = f[n] /\ h[n - 1] = f[n - 1] /\ f[n] = ShownNext(f[n - 1], n)
        BY <2>2, <3>2
      <4> QED BY <3>2, <4>1
    <3>3. CASE n = i + 1
      <4>1. h[n] = ShownNext(f[i], i + 1) /\ h[n - 1] = f[i] /\ n # 0
        BY <3>3
      <4> QED BY <3>3, <4>1
    <3> QED BY <3>1, <3>2, <3>3
  <2>4. h = [n \in 0..(i + 1) |-> h[n]]
    OBVIOUS
  <2> HIDE DEF h
  <2>5. Shown(h, i + 1)
    BY <2>3, <2>4 DEF Shown
  <2> QED BY <2>5
<1> HIDE DEF S
<1>3. k \in S
  BY <1>1, <1>2, NatAll DEF S
<1> QED BY <1>3 DEF S

(* The rendered segments have lengths.                                     *)
LEMMA PartsType ==
  ASSUME BufferType
  PROVE  Parts \in Seq(Nat)
<1> DEFINE n == Len(segments)
<1> DEFINE f == CHOOSE f : f = [i \in 0..n |->
                  IF i = 0 THEN <<>>
                  ELSE IF Size(segments[i]) > 0 THEN Append(f[i-1], Size(segments[i]))
                  ELSE f[i-1]]
<1>1. n \in Nat /\ \A i \in 1..n : segments[i] \in Seg
  BY DEF BufferType
<1>2. \A i \in 1..n : Size(segments[i]) \in Nat
  <2> HIDE DEF n
  <2> SUFFICES ASSUME NEW i \in 1..n PROVE Size(segments[i]) \in Nat
    OBVIOUS
  <2> DEFINE chunks == segments[i].chunks
  <2>1. chunks \in Nat
    BY <1>1 DEF Seg
  <2> HIDE DEF chunks
  <2>2. chunks * ChunkLen \in Nat /\ HeadLen \in Nat /\ TextTail \in Nat /\ 2 * HeadLen \in Nat
    BY <2>1, SizeAssumption
  <2> DEFINE body == AtMost(chunks * ChunkLen, TextTail)
  <2>3. body \in Nat
    BY <2>2 DEF AtMost
  <2>4. Size(segments[i]) \in {body, HeadLen + body, 2 * HeadLen, HeadLen}
    BY DEF Size, chunks
  <2> HIDE DEF body
  <2> QED BY <2>2, <2>3, <2>4
<1>3. Parts = f[n]
  BY DEF Parts
<1>4. Shown(f, n)
  <2>1. \E g : Shown(g, n)
    BY <1>1, ShownExists
  <2> QED BY <2>1 DEF Shown, ShownNext
<1> HIDE DEF f, n
<1>5. \A i \in 0..n : f[i] = IF i = 0 THEN <<>> ELSE ShownNext(f[i - 1], i)
  BY <1>4 DEF Shown
<1> DEFINE S == {i \in Nat : i <= n => f[i] \in Seq(Nat)}
<1>6. 0 \in S
  <2>1. f[0] = <<>> /\ <<>> \in Seq(Nat)
    BY <1>1, <1>5
  <2> QED BY <2>1
<1>7. ASSUME NEW i \in S PROVE i + 1 \in S
  <2> SUFFICES ASSUME i + 1 <= n PROVE f[i + 1] \in Seq(Nat)
    OBVIOUS
  <2>1. i + 1 \in 0..n /\ i + 1 \in 1..n /\ i + 1 # 0 /\ (i + 1) - 1 = i /\ i <= n
    BY <1>1
  <2>2. f[i + 1] = ShownNext(f[i], i + 1)
    BY <1>5, <2>1
  <2>3. f[i] \in Seq(Nat) /\ Size(segments[i + 1]) \in Nat
    BY <1>2, <2>1
  <2> QED BY <2>2, <2>3 DEF ShownNext
<1> HIDE DEF S
<1>8. n \in S
  BY <1>1, <1>6, <1>7, NatAll DEF S
<1> QED BY <1>1, <1>3, <1>8 DEF S

(* The message fits; it shows a segment or the end of one if there is room *)
(* for it; and one segment more would have been too many.                  *)
LEMMA RenderEffect ==
  ASSUME NEW parts \in Seq(Nat), NEW len \in StatusLen,
         NEW status, status = (IF len = 0 THEN 0 ELSE len + 2), NEW r, r = Render(parts, len)
  PROVE  /\ len <= Limit => r.size <= Limit
         /\ parts # <<>> /\ Limit > Marker + status + 20 => r.whole > 0 \/ r.tail > 0
         /\ r.whole < Len(parts) => Joined(parts, r.whole + 1, Marker, status) > Limit
<1> DEFINE n == Len(parts)
<1> DEFINE fitting == {k \in DOMAIN parts : Joined(parts, k, Marker, status) <= Limit}
<1> DEFINE size == Joined(parts, n, 0, status)
<1>1. /\ n \in Nat /\ DOMAIN parts = 1..n /\ (parts # <<>> => n > 0)
      /\ Limit \in Nat /\ Marker \in Nat /\ len \in Nat /\ status \in Nat
  BY SizeAssumption
<1>2. \A k \in 1..n : Joined(parts, k, Marker, status) \in Nat
  <2> HIDE DEF fitting, size
  <2>1. \A k \in 1..n : k \in 0..Len(parts)
    BY <1>1
  <2> HIDE DEF n
  <2> TAKE k \in 1..n
  <2> QED BY <1>1, <2>1, JoinedSize
<1>3. size \in Nat
  <2>1. n \in 0..Len(parts) /\ 0 \in Nat
    BY <1>1
  <2> HIDE DEF n, fitting
  <2> QED BY <1>1, <2>1, JoinedSize
<1>4. r = IF size <= Limit
            THEN [whole |-> n, tail |-> 0, size |-> size]
          ELSE IF fitting # {}
            THEN [whole |-> Max(fitting), tail |-> 0,
                  size |-> Joined(parts, Max(fitting), Marker, status)]
          ELSE IF parts # <<>> /\ Limit > Marker + status + 20
            THEN [whole |-> 0, tail |-> Limit - Marker - status, size |-> Limit]
          ELSE IF parts # <<>> /\ Marker + len <= Limit
            THEN [whole |-> 0, tail |-> 0, size |-> Marker + len]
          ELSE [whole |-> 0, tail |-> 0, size |-> len]
  BY DEF Render
<1>5. /\ fitting \subseteq 1..n
      /\ \A k \in 1..n : k \in fitting <=> Joined(parts, k, Marker, status) <= Limit
  BY <1>1
<1> HIDE DEF n, fitting, size
<1>6. \A k \in (1..n) \ fitting : Joined(parts, k, Marker, status) > Limit
  BY <1>1, <1>2, <1>5
<1>7. CASE size <= Limit
  <2>1. r.whole = n /\ r.size = size
    BY <1>4, <1>7
  <2>2. r.whole > 0 \/ parts = <<>>
    BY <1>1, <2>1
  <2>3. ~(r.whole < n)
    BY <1>1, <2>1
  <2> QED BY <1>7, <2>1, <2>2, <2>3 DEF n
<1>8. CASE ~(size <= Limit) /\ fitting # {}
  <2> DEFINE k == Max(fitting)
  <2>1. fitting \in SUBSET (0..n)
    BY <1>1, <1>5
  <2>2. k \in fitting /\ \A j \in fitting : j <= k
    BY <1>1, <1>8, <2>1, NatMax
  <2>3. r.whole = k /\ r.size = Joined(parts, k, Marker, status)
    BY <1>4, <1>8
  <2> HIDE DEF k
  <2>4. k \in 1..n /\ r.size <= Limit /\ r.whole > 0
    BY <1>1, <1>5, <2>2, <2>3
  <2>5. ASSUME r.whole < n PROVE Joined(parts, r.whole + 1, Marker, status) > Limit
    <3>1. k + 1 \in 1..n /\ ~(k + 1 <= k)
      BY <1>1, <2>3, <2>4, <2>5
    <3>2. k + 1 \in (1..n) \ fitting
      BY <2>2, <3>1
    <3> QED BY <1>6, <2>3, <3>2
  <2> QED BY <2>4, <2>5 DEF n
<1>9. CASE ~(size <= Limit) /\ fitting = {}
  <2>1. ASSUME 0 < n PROVE Joined(parts, 0 + 1, Marker, status) > Limit
    <3>1. 1 \in (1..n) \ fitting /\ 0 + 1 = 1
      BY <1>1, <1>9, <2>1
    <3> QED BY <1>6, <3>1
  <2>2. CASE parts # <<>> /\ Limit > Marker + status + 20
    <3>1. r.whole = 0 /\ r.tail = Limit - Marker - status /\ r.size = Limit
      BY <1>4, <1>9, <2>2
    <3>2. r.tail > 0 /\ r.size <= Limit
      BY <1>1, <2>2, <3>1
    <3> QED BY <2>1, <3>1, <3>2 DEF n
  <2>3. CASE ~(parts # <<>> /\ Limit > Marker + status + 20)
    <3>1. r.whole = 0 /\ (r.size = len \/ (r.size = Marker + len /\ Marker + len <= Limit))
      BY <1>4, <1>9, <2>3
    <3>2. len <= Limit => r.size <= Limit
      BY <3>1
    <3> QED BY <2>1, <2>3, <3>1, <3>2 DEF n
  <2> QED BY <2>2, <2>3
<1> QED BY <1>7, <1>8, <1>9

(* Whatever was streamed, the text that render makes of it fits the        *)
(* message, and what is left out is left out at the start, and only for    *)
(* lack of room (transcript.py:523-577).                                   *)
THEOREM RenderFitsAndShowsTheEnd == Spec => []RenderShowsTheEnd
<1>1. TranscriptInv => RenderShowsTheEnd
  <2> SUFFICES ASSUME TranscriptInv PROVE RenderShowsTheEnd
    OBVIOUS
  <2> DEFINE parts == Parts
  <2>1. parts \in Seq(Nat)
    BY PartsType DEF TranscriptInv
  <2> HIDE DEF parts
  <2>2. ASSUME NEW len \in StatusLen, NEW status, status = (IF len = 0 THEN 0 ELSE len + 2),
               NEW r, r = Render(parts, len)
        PROVE  /\ len <= Limit => r.size <= Limit
               /\ parts # <<>> /\ Limit > Marker + status + 20 => r.whole > 0 \/ r.tail > 0
               /\ r.whole < Len(parts) => Joined(parts, r.whole + 1, Marker, status) > Limit
    BY <2>1, <2>2, RenderEffect
  <2> QED BY <2>2, Zenon DEF RenderShowsTheEnd, parts
<1> QED BY <1>1, TranscriptInvariant, PTL
=============================================================================
