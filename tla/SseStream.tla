------------------------------- MODULE SseStream -------------------------------
(***************************************************************************)
(* One stream of an OpenAI-compatible provider, turned into Anthropic's    *)
(* server-sent events: the generator _stream_response_impl, the SSEBuilder *)
(* and its ContentBlockManager, and the client that reads the events.      *)
(*                                                                         *)
(* Every yield suspends the generator, and its consumer may close it there *)
(* for good.  The generator's own state is not shared: what it does with a *)
(* chunk is one step, which leaves the events to be yielded in out.  A     *)
(* chunk with several parts is handled part by part, like several chunks.  *)
(* What the think tag and the heuristic tool parser make of the text is    *)
(* chosen freely: any order of thinking, text and tool calls.              *)
(***************************************************************************)
EXTENDS Integers, SequencesExt

CONSTANTS ToolName,   \* names of tools: sequences of the pieces they may come in
          Task, ToolCallName,  \* "Task", and the name given to a nameless call
          None,       \* a chunk without a name
          ToolChunk,  \* the chunks with a tool call that the upstream may send
          MaxChunks   \* bound

ASSUME NameAssumption ==
  /\ Task \in ToolName /\ ToolName \subseteq Seq(STRING) \ {<<>>}
  /\ ToolCallName \in Seq(STRING) \ ToolName

(* No tool has a name that goes on, piece by piece, where Task ends: such  *)
(* a tool would be announced as Task before the rest of its name comes.    *)
ASSUME TaskAssumption == \A name \in ToolName : IsPrefix(Task, name) => name = Task

(* Arguments come in the halves of a JSON object, or as a list; a provider *)
(* that knows no index sends a negative one.                               *)
ASSUME ChunkAssumption ==
  /\ ToolChunk \subseteq
       [index: Int, id: BOOLEAN, name: Seq(STRING) \cup {None}, args: {"", "{", "}", "[]"}]
  /\ MaxChunks \in Nat

VARIABLES
  \* the generator
  thinkingEnabled,
  phase,     \* streaming, ending, over, closed
  error,     \* error_occurred
  sse,       \* the SSEBuilder, and in out the events to be yielded
  chunks,    \* number of parts received
  \* the client
  blocks,    \* the blocks by index
  message,   \* new, open, ended, stopped, cut; or broken
  \* history, read by the properties only
  given      \* the argument pieces received for each tool, by its place in tools

genVars    == <<thinkingEnabled, phase, error, sse, chunks>>
clientVars == <<blocks, message>>
vars       == <<genVars, clientVars, given>>

NoIndex == -1

Init ==
  /\ thinkingEnabled \in BOOLEAN
  /\ phase = "streaming"
  /\ error = FALSE
  /\ sse = [next |-> 0, thinking |-> NoIndex, text |-> NoIndex,
            thinkingStarted |-> FALSE, textStarted |-> FALSE,
            tools |-> <<>>, out |-> <<[type |-> "message_start"]>>]
  /\ chunks = 0
  /\ blocks = <<>> /\ message = "new"
  /\ given = <<>>

-----------------------------------------------------------------------------
(* SSEBuilder.  Each operator gives the builder s after a call.            *)

Yield(s, e) == [s EXCEPT !.out = Append(@, e)]

BlockStart(s, kind, name) ==
  [Yield(s, [type |-> "start", index |-> s.next, kind |-> kind, name |-> name])
     EXCEPT !.next = @ + 1]
BlockDelta(s, i, d) == Yield(s, [type |-> "delta", index |-> i, content |-> d])
BlockStop(s, i)     == Yield(s, [type |-> "stop", index |-> i])

StopThinkingBlock(s) ==
  IF s.thinkingStarted
  THEN [BlockStop(s, s.thinking) EXCEPT !.thinkingStarted = FALSE] ELSE s

StopTextBlock(s) ==
  IF s.textStarted THEN [BlockStop(s, s.text) EXCEPT !.textStarted = FALSE] ELSE s

EnsureThinkingBlock(s) ==
  LET t == StopTextBlock(s)
  IN  IF t.thinkingStarted THEN t
      ELSE [BlockStart(t, "thinking", <<>>) EXCEPT !.thinking = t.next, !.thinkingStarted = TRUE]

EnsureTextBlock(s) ==
  LET t == StopThinkingBlock(s)
  IN  IF t.textStarted THEN t
      ELSE [BlockStart(t, "text", <<>>) EXCEPT !.text = t.next, !.textStarted = TRUE]

EmitThinkingDelta(s, d) == BlockDelta(s, s.thinking, d)
EmitTextDelta(s, d)     == BlockDelta(s, s.text, d)
CloseContentBlocks(s)   == StopTextBlock(StopThinkingBlock(s))

EmitError(s) == BlockStop(BlockDelta(BlockStart(s, "text", <<>>), s.next, "error"), s.next)

-----------------------------------------------------------------------------
(* Tool calls: tool_states, in the order of insertion.                     *)

IndexOf(s, i)  == {j \in DOMAIN s.tools : s.tools[j].index = i}
Known(s, i)    == IndexOf(s, i) # {}
Place(s, i)    == CHOOSE j \in IndexOf(s, i) : TRUE
Started(s, i)  == Known(s, i) /\ s.tools[Place(s, i)].started
NameOf(s, i)   == IF Known(s, i) THEN s.tools[Place(s, i)].name ELSE <<>>

NewTool(i, name) ==
  [index |-> i, block |-> NoIndex, name |-> name, started |-> FALSE,
   buffer |-> <<>>, emitted |-> FALSE]

(* register_tool_name: a name comes whole, again and again, longer each    *)
(* time, or in fragments.                                                  *)
Merged(prev, name) ==
  IF IsPrefix(prev, name) THEN name ELSE IF IsPrefix(name, prev) THEN prev ELSE prev \o name

RegisterToolName(s, i, name) ==
  IF Known(s, i)
  THEN [s EXCEPT !.tools[Place(s, i)].name = Merged(@, name)]
  ELSE [s EXCEPT !.tools = Append(@, NewTool(i, name))]

StartToolBlock(s, i, name) ==
  LET t == IF Known(s, i) THEN s ELSE [s EXCEPT !.tools = Append(@, NewTool(i, name))]
  IN  [BlockStart(t, "tool_use", name)
         EXCEPT !.tools[Place(t, i)].block = s.next, !.tools[Place(t, i)].started = TRUE]

EmitToolDelta(s, j, d) == BlockDelta(s, s.tools[j].block, d)

(* json.loads of what has been buffered.                                   *)
Parsed(buffer) ==
  CASE buffer = <<"{", "}">> -> "object" [] buffer = <<"[]">> -> "list" [] OTHER -> "invalid"

(* Wrong variant of BufferTaskArgs: it starts over after a whole object.   *)
BufferTaskArgsAgain(s, j, args) ==
  LET t == [s EXCEPT !.tools[j].buffer = Append(@, args)]
  IN  IF Parsed(t.tools[j].buffer) = "object"
      THEN EmitToolDelta([t EXCEPT !.tools[j].buffer = <<>>], j, "patched")
      ELSE t

(* buffer_task_args, and the delta if it returns the patched arguments.    *)
BufferTaskArgs(s, j, args) ==
  LET t == [s EXCEPT !.tools[j].buffer = Append(@, args)]
  IN  IF s.tools[j].emitted THEN s
      ELSE IF Parsed(t.tools[j].buffer) = "object"
      THEN EmitToolDelta([t EXCEPT !.tools[j].buffer = <<>>, !.tools[j].emitted = TRUE],
                         j, "patched")
      ELSE t

(* A list has no get: the AttributeError ends the stream.                  *)
Raises(s) ==
  \E j \in DOMAIN s.tools : ~s.tools[j].emitted /\ Parsed(s.tools[j].buffer) = "list"

Unflushed(tool) == tool.buffer # <<>> /\ ~tool.emitted
Flushed(tool)   == IF Parsed(tool.buffer) = "object" THEN "patched" ELSE "{}"

(* What is not a whole object becomes "{}".                                *)
FlushTool(s, j) ==
  IF Unflushed(s.tools[j])
  THEN EmitToolDelta([s EXCEPT !.tools[j].buffer = <<>>, !.tools[j].emitted = TRUE],
                     j, Flushed(s.tools[j]))
  ELSE s

(* flush_task_arg_buffers, tool by tool. *)
FlushTaskArgs(s) ==
  LET after[j \in 0..Len(s.tools)] == IF j = 0 THEN s ELSE FlushTool(after[j - 1], j)
  IN  after[Len(s.tools)]

StopTool(s, j) == IF s.tools[j].started THEN BlockStop(s, s.tools[j].block) ELSE s

StopToolBlocks(s) ==
  LET after[j \in 0..Len(s.tools)] == IF j = 0 THEN s ELSE StopTool(after[j - 1], j)
  IN  after[Len(s.tools)]

(* Wrong variant of CloseAllBlocks: tool calls stay open.                  *)
CloseAllBlocksButTools(s) == CloseContentBlocks(s)

CloseAllBlocks(s) == StopToolBlocks(CloseContentBlocks(s))

ToolIndex(s, i) == IF i < 0 THEN Len(s.tools) ELSE i

(* A tool call is announced once it has an id or a name, or arguments.     *)
Announced(s, i, id, args) ==
  LET named == NameOf(s, i)
  IN  IF Started(s, i) THEN s
      ELSE IF id \/ named # <<>> THEN StartToolBlock(s, i, named)
      ELSE IF args # "" THEN StartToolBlock(s, i, ToolCallName)
      ELSE s

(* Wrong variant of ProcessToolCall: the call is announced each time.      *)
ProcessToolCallAgain(s, tc) ==
  LET i == ToolIndex(s, tc.index)
      t == IF tc.name = None THEN s ELSE RegisterToolName(s, i, tc.name)
      u == StartToolBlock(t, i, NameOf(t, i))
  IN  IF tc.args = "" THEN u
      ELSE IF NameOf(u, i) = Task THEN BufferTaskArgs(u, Place(u, i), tc.args)
      ELSE EmitToolDelta(u, Place(u, i), tc.args)

(* _process_tool_call.                                                     *)
ProcessToolCall(s, tc) ==
  LET i == ToolIndex(s, tc.index)
      t == IF tc.name = None THEN s ELSE RegisterToolName(s, i, tc.name)
      u == Announced(t, i, tc.id, tc.args)
  IN  IF tc.args = "" THEN u
      ELSE IF NameOf(u, i) = Task THEN BufferTaskArgs(u, Place(u, i), tc.args)
      ELSE EmitToolDelta(u, Place(u, i), tc.args)

-----------------------------------------------------------------------------
(* The generator resumes when the client has read all it has yielded.      *)

Receive ==
  /\ phase = "streaming"
  /\ sse.out = <<>>
  /\ chunks < MaxChunks
  /\ chunks' = chunks + 1
  /\ UNCHANGED <<thinkingEnabled, clientVars>>

(* reasoning_content, a provider's reasoning_details, or the inside of a   *)
(* think tag.                                                              *)
ReceiveThinking ==
  /\ Receive
  /\ sse' = IF thinkingEnabled
            THEN EmitThinkingDelta(EnsureThinkingBlock(sse), "thinking") ELSE sse
  /\ UNCHANGED <<phase, error, given>>

ReceiveText ==
  /\ Receive
  /\ sse' = EmitTextDelta(EnsureTextBlock(sse), "text")
  /\ UNCHANGED <<phase, error, given>>

(* A tool call found in the text: its block is started, filled and stopped *)
(* at once.                                                                *)
TextualToolCall(s, name) ==
  LET t == CloseContentBlocks(s)
  IN  BlockStop(BlockDelta(BlockStart(t, "tool_use", name), t.next, "input"), t.next)

ReceiveTextualToolCall(name) ==
  /\ Receive
  /\ sse' = TextualToolCall(sse, name)
  /\ UNCHANGED <<phase, error, given>>

(* An exception: what is open of thinking and text is closed, the error is *)
(* shown, and the message is brought to its end.                           *)
Failed(s) == EmitError(CloseContentBlocks(s))

(* Names come whole, once or again and again, grow, or come in fragments.  *)
NamePossible(prev, name) ==
  \E full \in ToolName :
    IsPrefix(prev \o name, full) \/ (IsPrefix(name, full) /\ IsPrefix(prev, full))

Given(s, j, args) ==
  LET before == IF j \in DOMAIN given THEN given[j] ELSE <<>>
  IN  [k \in 1..Len(s.tools) |->
         IF k = j THEN IF args = "" THEN before ELSE Append(before, args)
         ELSE IF k \in DOMAIN given THEN given[k] ELSE <<>>]

ReceiveToolCall(tc) ==
  LET s == ProcessToolCall(CloseContentBlocks(sse), tc)
      i == ToolIndex(sse, tc.index)
  IN  /\ Receive
      /\ tc.name # None => NamePossible(NameOf(sse, i), tc.name)
      /\ sse' = IF Raises(s) THEN Failed(s) ELSE s
      /\ error' = Raises(s)
      /\ phase' = IF Raises(s) THEN "ending" ELSE "streaming"
      /\ given' = Given(s, IF Known(s, i) THEN Place(s, i) ELSE 0, tc.args)

(* Wrong variant of UpstreamFails: the generator ends with the error.      *)
UpstreamFailsAtOnce ==
  /\ phase = "streaming"
  /\ sse.out = <<>>
  /\ phase' = "over"
  /\ error' = TRUE
  /\ sse' = Failed(sse)
  /\ UNCHANGED <<thinkingEnabled, chunks, clientVars, given>>

UpstreamFails ==
  /\ phase = "streaming"
  /\ sse.out = <<>>
  /\ phase' = "ending"
  /\ error' = TRUE
  /\ sse' = Failed(sse)
  /\ UNCHANGED <<thinkingEnabled, chunks, clientVars, given>>

UpstreamEnds ==
  /\ phase = "streaming"
  /\ sse.out = <<>>
  /\ phase' = "ending"
  /\ UNCHANGED <<thinkingEnabled, error, sse, chunks, clientVars, given>>

(* What the think tag parser had kept back.                                *)
FlushRest(s, rest) ==
  CASE rest = "thinking" /\ thinkingEnabled -> EmitThinkingDelta(EnsureThinkingBlock(s), rest)
    [] rest = "text" -> EmitTextDelta(EnsureTextBlock(s), rest)
    [] OTHER -> s

(* A client would not accept a message without content.                    *)
FillEmpty(s) ==
  IF ~error /\ s.text = NoIndex /\ s.tools = <<>>
  THEN EmitTextDelta(EnsureTextBlock(s), " ") ELSE s

(* The rest of the generator after the stream has ended, or failed.        *)
Finish ==
  /\ phase = "ending"
  /\ sse.out = <<>>
  /\ phase' = "over"
  /\ \E rest \in {"", "thinking", "text"}, calls \in {<<>>, <<Task>>} :
       LET s == FlushRest(sse, rest)
           t == IF calls = <<>> THEN s ELSE TextualToolCall(s, Task)
           u == CloseAllBlocks(FlushTaskArgs(FillEmpty(t)))
       IN  sse' = Yield(Yield(u, [type |-> "message_delta"]), [type |-> "message_stop"])
  /\ UNCHANGED <<thinkingEnabled, error, chunks, clientVars, given>>

-----------------------------------------------------------------------------
(* The client reads the next event.                                        *)

NewBlock(e) == [kind |-> e.kind, name |-> e.name, open |-> TRUE, deltas |-> <<>>]

OpenBlock(i) == i + 1 \in DOMAIN blocks /\ blocks[i + 1].open

Read ==
  /\ phase # "closed"
  /\ sse.out # <<>>
  /\ sse' = [sse EXCEPT !.out = Tail(@)]
  /\ LET e == Head(sse.out)
     IN  \/ /\ e.type = "message_start" /\ message' = "open"
            /\ UNCHANGED blocks
         \/ /\ e.type = "start" /\ e.index = Len(blocks)
            /\ blocks' = Append(blocks, NewBlock(e))
            /\ UNCHANGED message
         \/ /\ e.type = "delta" /\ OpenBlock(e.index)
            /\ blocks' = [blocks EXCEPT ![e.index + 1].deltas = Append(@, e.content)]
            /\ UNCHANGED message
         \/ /\ e.type = "stop" /\ OpenBlock(e.index)
            /\ blocks' = [blocks EXCEPT ![e.index + 1].open = FALSE]
            /\ UNCHANGED message
         \/ /\ e.type = "message_delta" /\ message' = "ended"
            /\ UNCHANGED blocks
         \/ /\ e.type = "message_stop" /\ message' = "stopped"
            /\ UNCHANGED blocks
         \/ /\ \/ e.type = "start" /\ e.index # Len(blocks)
               \/ e.type \in {"delta", "stop"} /\ ~OpenBlock(e.index)
            /\ message' = "broken"
            /\ UNCHANGED blocks
  /\ UNCHANGED <<thinkingEnabled, phase, error, chunks, given>>

(* The client goes away: the generator is closed where it is suspended.    *)
Disconnect ==
  /\ phase # "closed"
  /\ message # "stopped"
  /\ phase' = "closed"
  /\ message' = "cut"
  /\ UNCHANGED <<thinkingEnabled, error, sse, chunks, blocks, given>>

GeneratorStep ==
  \/ ReceiveThinking
  \/ ReceiveText
  \/ \E name \in ToolName : ReceiveTextualToolCall(name)
  \/ \E tc \in ToolChunk : ReceiveToolCall(tc)
  \/ UpstreamFails
  \/ UpstreamEnds
  \/ Finish

Next == GeneratorStep \/ Read \/ Disconnect

Spec == Init /\ [][Next]_vars

(* The client reads, and the upstream goes on, or ends by its timeout.     *)
FairSpec == Spec /\ WF_vars(GeneratorStep) /\ WF_vars(Read)
-----------------------------------------------------------------------------
(* Properties.                                                             *)

Content == {"thinking", "text", "error", "input", "patched", "{", "}", "[]", "{}", " "}
(* A tool whose name comes in fragments is announced under the first one.  *)
Announceable ==
  {ToolCallName} \cup UNION {{SubSeq(n, 1, k) : k \in 0..Len(n)} : n \in ToolName}

(* The stream keeps the promises made to its client.                       *)
Protocol == INSTANCE SseProtocol WITH Name <- Announceable, Delta <- Content
KeepsProtocol == Protocol!Spec

ToolBlock(j) == blocks[sse.tools[j].block + 1]

(* Whatever else is streamed in between, and however they are cut, the     *)
(* arguments of a tool call reach its own block, complete and in order.    *)
ArgsDelivered ==
  message = "stopped" =>
    \A j \in DOMAIN sse.tools :
      sse.tools[j].started /\ sse.tools[j].name # Task => ToolBlock(j).deltas = given[j]

(* The arguments of a Task are sent at most once, with run_in_background   *)
(* set to false; if they never make an object, an empty one is sent.       *)
TaskArgsPatched ==
  message = "stopped" =>
    \A j \in DOMAIN sse.tools :
      sse.tools[j].started /\ ToolBlock(j).name = Task =>
        ToolBlock(j).deltas =
          IF given[j] = <<>> THEN <<>>
          ELSE IF IsPrefix(<<"{", "}">>, given[j]) THEN <<"patched">> ELSE <<"{}">>

(* Every message ends, also after an error, unless its client goes away.   *)
EveryMessageEnds == message = "open" ~> message \in {"stopped", "cut"}
=============================================================================
