----------------------------- MODULE Transcript -----------------------------
(***************************************************************************)
(* The transcript a node's status message shows: the events that           *)
(* event_parser makes of the Claude CLI's output, TranscriptBuffer.apply   *)
(* with its stack of subagents and its open content blocks, and render,    *)
(* which cuts the transcript to the size of a chat message.                *)
(*                                                                         *)
(* The CLI is an environment: a main agent, and the Tasks (subagents) it   *)
(* and they have started, which run in parallel and end in any order.  An  *)
(* agent whose Tasks run waits for them.  A text is what counts of it      *)
(* here: how many chunks it has, and the content block they came from.     *)
(***************************************************************************)
EXTENDS Naturals, FiniteSets, SequencesExt, FiniteSetsExt

CONSTANTS Task,        \* the Task calls of this run
          Main,        \* the main agent
          NoId,        \* an id that is missing from an event
          IdPairs,     \* for each Task, what its tool_use and its
                       \* tool_result may carry as an id
          ToolId,      \* the ids other tools' calls carry
          Rough,       \* pairs of different ids, one a prefix of the other
          TaskLike,    \* ids that contain "task"
          Index,       \* indices of content blocks
          Limit,       \* render's limit_chars
          HeadLen,     \* length of a segment's header
          ChunkLen,    \* length of a chunk of text
          TextTail,    \* text_tail_max and thinking_tail_max
          Marker,      \* length of "... (truncated)\n"
          StatusLen,   \* lengths of the status line, 0 for none
          MaxEvents    \* bound on the number of events

Resembles(id, other) == id = other \/ <<id, other>> \in Rough

ASSUME MainAssumption == Main \notin Task
ASSUME SizeAssumption ==
  {Limit, HeadLen, ChunkLen, TextTail, Marker} \subseteq Nat /\ StatusLen \subseteq Nat
(* What the comments of _subagent_pop and of "tool_result" provide for. *)
ASSUME IdAssumption ==
  \A t \in Task : \A pair \in IdPairs[t] :
    IF pair.call = NoId THEN pair.result \in {NoId} \cup (TaskLike \ ToolId)
                        ELSE pair.result # NoId /\ Resembles(pair.call, pair.result)
(* An id is unique: the result of a Task does not carry the id of another, *)
(* or one that begins like it.                                             *)
ASSUME ApartAssumption ==
  \A t, u \in Task : t # u =>
    \A pair \in IdPairs[t], other \in IdPairs[u] :
      NoId \notin {pair.result, other.call} => ~Resembles(other.call, pair.result)

VARIABLES
  \* the CLI
  ids,       \* the ids each Task's call and result carry
  running,   \* the Tasks that run, in the order they were started
  parent,    \* the agent each Task was started by
  ended,     \* the Tasks whose result has been reported
  block,     \* the content block being streamed
  blocks,    \* how many blocks have been begun
  called,    \* the ids of the tools called so far
  events,    \* how many events were emitted
  \* the TranscriptBuffer
  segments,  \* _segments
  open,      \* _open_thinking_by_index, _open_text_by_index: segment or 0
  tools,     \* the keys of _open_tools_by_index
  stack,     \* _subagent_stack and _subagent_segments, always of one length
  \* history, read by the properties only
  orderly    \* every result so far has closed what it is the result of

cliVars    == <<ids, running, parent, ended, block, blocks, called>>
bufferVars == <<segments, open, tools, stack>>
vars       == <<cliVars, events, bufferVars, orderly>>

Said    == {"text", "thinking"}
Agent   == {Main} \cup Task
NoBlock == [by |-> Main, kind |-> "none", index |-> 0, number |-> 0]

Init ==
  /\ ids \in {f \in [Task -> UNION {IdPairs[t] : t \in Task}] : \A t \in Task : f[t] \in IdPairs[t]}
  /\ running = <<>> /\ parent = [t \in Task |-> Main] /\ ended = {}
  /\ block = NoBlock /\ blocks = 0 /\ called = {} /\ events = 0
  /\ segments = <<>> /\ stack = <<>> /\ tools = {}
  /\ open = [k \in Said |-> [i \in Index |-> 0]]
  /\ orderly = TRUE

-----------------------------------------------------------------------------
(* The CLI.                                                                *)

Alive(a) == a = Main \/ a \in ToSet(running)
(* Not ended, and not waiting for a Task of its own. *)
Speaks(a) == Alive(a) /\ \A t \in ToSet(running) : parent[t] # a
Emit == events < MaxEvents /\ events' = events + 1

-----------------------------------------------------------------------------
(* TranscriptBuffer.                                                       *)

InNestedSubagent == Len(stack) > 1    \* a wrong variant of InSubagent
InSubagent == stack # <<>>

Segment(kind, by, from, chunks) ==
  [kind |-> kind, by |-> by, from |-> from, chunks |-> chunks]

(* "block_stop": the first of tool, thinking and text that is open there. *)
OpenAfterStop(i) ==
  IF i \in tools THEN open
  ELSE IF open["thinking"][i] # 0 THEN [open EXCEPT !["thinking"][i] = 0]
  ELSE [open EXCEPT !["text"][i] = 0]

(* _subagent_pop, as "tool_result" uses it: down to the newest Task its id *)
(* resembles; else, if the id is missing or is that of no other tool and   *)
(* looks like a Task's, a Task without an id is popped off the top.        *)

(* A wrong variant: only the top of the stack is looked at. *)
PoppedTop(id) ==
  IF /\ stack # <<>>
     /\ \/ NoId \notin {Last(stack).id, id} /\ Resembles(Last(stack).id, id)
        \/ Last(stack).id = NoId /\ (id = NoId \/ id \in TaskLike \ called)
  THEN Front(stack)
  ELSE stack

Popped(id) ==
  LET alike == {i \in DOMAIN stack :
                  NoId \notin {stack[i].id, id} /\ Resembles(stack[i].id, id)}
  IN IF alike # {} THEN SubSeq(stack, 1, Max(alike) - 1)
     ELSE IF /\ stack # <<>> /\ Last(stack).id = NoId
             /\ id = NoId \/ id \in TaskLike \ called
          THEN Front(stack)
     ELSE stack

-----------------------------------------------------------------------------
(* Events.                                                                 *)

(* content_block_start of a text or a thinking block.  The stop of the     *)
(* block before it may have been left out.                                 *)

(* A wrong variant: a block that is open there is gone on with. *)
StartBlockAgain(a, kind, i) ==
  /\ Speaks(a) /\ Emit
  /\ blocks' = blocks + 1
  /\ block' = [by |-> a, kind |-> kind, index |-> i, number |-> blocks']
  /\ \/ (InSubagent \/ open[kind][i] # 0) /\ UNCHANGED <<segments, open, tools>>
     \/ /\ ~InSubagent /\ open[kind][i] = 0
        /\ segments' = Append(segments, Segment(kind, a, {}, 0))
        /\ open' = [OpenAfterStop(i) EXCEPT ![kind][i] = Len(segments')]
        /\ tools' = tools \ {i}
  /\ UNCHANGED <<ids, running, parent, ended, called, stack, orderly>>

StartBlock(a, kind, i) ==
  /\ Speaks(a) /\ Emit
  /\ blocks' = blocks + 1
  /\ block' = [by |-> a, kind |-> kind, index |-> i, number |-> blocks']
  /\ \/ InSubagent /\ UNCHANGED <<segments, open, tools>>
     \/ /\ ~InSubagent
        /\ segments' = Append(segments, Segment(kind, a, {}, 0))
        /\ open' = [OpenAfterStop(i) EXCEPT ![kind][i] = Len(segments')]
        /\ tools' = tools \ {i}
  /\ UNCHANGED <<ids, running, parent, ended, called, stack, orderly>>

(* content_block_delta of such a block. *)
Delta ==
  LET kind == block.kind
      i == block.index
      Extend(s, n) == [s EXCEPT ![n].from = @ \cup {block.number},
                                ![n].by = block.by, ![n].chunks = @ + 1]
  IN
  /\ block # NoBlock /\ Speaks(block.by) /\ Emit
  /\ \/ InSubagent /\ UNCHANGED <<segments, open>>
     \/ /\ ~InSubagent /\ open[kind][i] # 0
        /\ segments' = Extend(segments, open[kind][i])
        /\ UNCHANGED open
     \/ /\ ~InSubagent /\ open[kind][i] = 0
        /\ segments' = Extend(Append(segments, Segment(kind, block.by, {}, 0)),
                              Len(segments) + 1)
        /\ open' = [open EXCEPT ![kind][i] = Len(segments')]
  /\ UNCHANGED <<cliVars, tools, stack, orderly>>

(* content_block_stop. *)
EndBlock ==
  /\ block # NoBlock /\ Speaks(block.by) /\ Emit
  /\ block' = NoBlock
  /\ open' = OpenAfterStop(block.index)
  /\ tools' = tools \ {block.index}
  /\ UNCHANGED <<ids, running, parent, ended, blocks, called, segments, stack, orderly>>

(* A text or thinking block of a whole message. *)
Chunk(a, kind) ==
  /\ Speaks(a) /\ Emit
  /\ blocks' = blocks + 1
  /\ segments' = IF InSubagent THEN segments
                 ELSE Append(segments, Segment(kind, a, {blocks'}, 1))
  /\ UNCHANGED <<ids, running, parent, ended, block, called, open, tools, stack, orderly>>

(* A tool_use is a block at an index, which is closed before, or a block   *)
(* of a whole message.                                                     *)
ToolBlock(opened) ==
  \/ UNCHANGED <<block, open, tools>>
  \/ \E i \in Index :
       /\ block' = NoBlock
       /\ open' = OpenAfterStop(i)
       /\ tools' = IF opened THEN tools \cup {i} ELSE tools \ {i}

(* A tool other than Task.  In a subagent it is shown in the segment of    *)
(* the newest Task.                                                        *)
ToolUse(a, id) ==
  /\ Speaks(a) /\ Emit
  /\ called' = called \cup {id}
  /\ segments' = IF InSubagent THEN [segments EXCEPT ![Last(stack).segment].chunks = @ + 1]
                 ELSE Append(segments, Segment("tool_call", a, {}, 0))
  /\ ToolBlock(TRUE)
  /\ UNCHANGED <<ids, running, parent, ended, blocks, stack, orderly>>

(* Its result, which the handler's transcript does not show. *)
ToolResult(a, id) ==
  /\ Speaks(a) /\ Emit
  /\ id \in called
  /\ stack' = Popped(id)
  /\ orderly' = (orderly /\ stack' = stack)
  /\ UNCHANGED <<cliVars, segments, open, tools>>

StartTask(a, t) ==
  /\ Alive(a) /\ t \notin ToSet(running) \cup ended /\ Emit
  /\ running' = Append(running, t)
  /\ parent' = [parent EXCEPT ![t] = a]
  /\ segments' = Append(segments, Segment("subagent", a, {}, 0))
  /\ stack' = Append(stack, [id |-> ids[t].call, segment |-> Len(segments')])
  /\ ToolBlock(FALSE)
  /\ UNCHANGED <<ids, ended, blocks, called, orderly>>

EndTask(k) ==
  LET t == running[k]
  IN  /\ Speaks(t) /\ Emit
      /\ running' = RemoveAt(running, k)
      /\ ended' = ended \cup {t}
      /\ stack' = Popped(ids[t].result)
      /\ orderly' = (orderly /\ k = Len(running))
      /\ UNCHANGED <<ids, parent, block, blocks, called, segments, open, tools>>

(* An "error" event, or an exit with an error. *)
ReportError ==
  /\ Emit
  /\ segments' = Append(segments, Segment("error", Main, {}, 0))
  /\ UNCHANGED <<cliVars, open, tools, stack, orderly>>

Next ==
  \/ \E a \in Agent, kind \in Said : Chunk(a, kind) \/ \E i \in Index : StartBlock(a, kind, i)
  \/ \E a \in Agent, id \in ToolId : ToolUse(a, id) \/ ToolResult(a, id)
  \/ \E a \in Agent, t \in Task : StartTask(a, t)
  \/ \E k \in DOMAIN running : EndTask(k)
  \/ Delta \/ EndBlock \/ ReportError

Spec == Init /\ [][Next]_vars

-----------------------------------------------------------------------------
(* render, in characters.                                                  *)

AtMost(n, max) == IF n > max THEN max ELSE n

Size(s) ==
  IF s.kind = "text" THEN AtMost(s.chunks * ChunkLen, TextTail)
  ELSE IF s.kind = "thinking" THEN HeadLen + AtMost(s.chunks * ChunkLen, TextTail)
  ELSE IF s.kind = "subagent" /\ s.chunks > 0 THEN 2 * HeadLen
  ELSE HeadLen

(* The rendered segments; an empty one is left out. *)
Parts ==
  LET shown[i \in 0..Len(segments)] ==
        IF i = 0 THEN <<>>
        ELSE IF Size(segments[i]) > 0 THEN Append(shown[i-1], Size(segments[i]))
        ELSE shown[i-1]
  IN  shown[Len(segments)]

(* _join of the k newest parts: a newline between two of them, the marker *)
(* before them if it is due.                                               *)
Joined(parts, k, marker, status) ==
  LET length[n \in 0..k] == IF n = 0 THEN status ELSE length[n-1] + parts[Len(parts) + 1 - n]
  IN length[k] + (IF k = 0 THEN 0 ELSE k - 1 + marker)

(* How many parts are shown whole, how much of the newest one when none    *)
(* is, and the length of the message.                                      *)

(* A wrong variant, which leaves the marker out when it counts. *)
RenderUnmarked(parts, len) ==
  LET status == IF len = 0 THEN 0 ELSE len + 2
      fitting == {k \in DOMAIN parts : Joined(parts, k, 0, status) <= Limit}
      whole == IF fitting = {} THEN 0 ELSE Max(fitting)
  IN [whole |-> whole, tail |-> IF whole = 0 /\ parts # <<>> THEN Limit - status ELSE 0,
      size |-> Joined(parts, whole, IF whole < Len(parts) THEN Marker ELSE 0, status)]

Render(parts, len) ==
  LET status == IF len = 0 THEN 0 ELSE len + 2
      Cut(k) == Joined(parts, k, Marker, status)
      fitting == {k \in DOMAIN parts : Cut(k) <= Limit}
      whole == Joined(parts, Len(parts), 0, status)
  IN IF whole <= Limit
       THEN [whole |-> Len(parts), tail |-> 0, size |-> whole]
     ELSE IF fitting # {}
       THEN [whole |-> Max(fitting), tail |-> 0, size |-> Cut(Max(fitting))]
     ELSE IF parts # <<>> /\ Limit > Marker + status + 20
       THEN [whole |-> 0, tail |-> Limit - Marker - status, size |-> Limit]
     ELSE IF parts # <<>> /\ Marker + len <= Limit
       THEN [whole |-> 0, tail |-> 0, size |-> Marker + len]
     ELSE [whole |-> 0, tail |-> 0, size |-> len]

-----------------------------------------------------------------------------
(* "Inside a Task/subagent, we only show tool calls/results"               *)
(* (transcript.py:343): nothing a subagent says or thinks is shown, as     *)
(* long as every Task ends before those started before it and no other     *)
(* tool's result is taken for a Task's.                                    *)
SubagentsQuiet ==
  orderly => \A i \in DOMAIN segments :
               segments[i].kind \in Said => segments[i].by = Main

(* The main agent is heard again once its Tasks have ended, in whatever    *)
(* order and whatever ids their results carry, if all had ids themselves   *)
(* (transcript.py:294, "defensive against non-LIFO emissions").            *)
MainIsHeardAgain ==
  running = <<>> /\ (\A t \in ended : ids[t].call # NoId) => stack = <<>>

(* Texts of different content blocks never flow into one segment, though   *)
(* the CLI uses an index again and leaves a stop out (transcript.py:357).  *)
BlocksKeepApart ==
  orderly => \A i \in DOMAIN segments :
               segments[i].kind \in Said => Cardinality(segments[i].from) <= 1

(* A rendered transcript fits the message, and shows the newest segment or *)
(* its end, and all the segments before it that fit (transcript.py:523).   *)
RenderShowsTheEnd ==
  LET parts == Parts
  IN \A len \in StatusLen :
       LET r == Render(parts, len)
           status == IF len = 0 THEN 0 ELSE len + 2
       IN /\ len <= Limit => r.size <= Limit
          /\ parts # <<>> /\ Limit > Marker + status + 20 => r.whole > 0 \/ r.tail > 0
          /\ r.whole < Len(parts) =>
               Joined(parts, r.whole + 1, Marker, status) > Limit
=============================================================================
