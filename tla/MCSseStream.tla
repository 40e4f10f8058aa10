----------------------------- MODULE MCSseStream -----------------------------
(* SseStream for TLC: the names, and the tool call chunks an upstream sends. *)
EXTENDS SseStream

TaskName == <<"Ta", "sk">>
ReadName == <<"Read">>
MCToolName == {TaskName, ReadName}
MCToolCallName == <<"tool_call">>

(* The first chunk of a call has its id, and its name or a part of it;     *)
(* later ones have arguments, or the rest of the name.  Some providers     *)
(* know no index, send no id, or an empty name.                            *)
First(i) == [index: {i}, id: {TRUE}, name: {TaskName, ReadName}, args: {"", "{"}]
Later(i) == [index: {i}, id: {FALSE}, name: {None}, args: {"{", "}", "[]"}]

MCToolChunk ==
  First(0) \cup Later(0) \cup
  {[index |-> 0, id |-> TRUE, name |-> <<"Ta">>, args |-> ""],
   [index |-> 0, id |-> FALSE, name |-> <<"sk">>, args |-> ""],
   [index |-> 0, id |-> FALSE, name |-> <<>>, args |-> ""],
   [index |-> 1, id |-> TRUE, name |-> ReadName, args |-> ""],
   [index |-> 1, id |-> FALSE, name |-> None, args |-> "}"],
   [index |-> -1, id |-> TRUE, name |-> ReadName, args |-> "{"]}
=============================================================================
