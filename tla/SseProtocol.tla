------------------------------- MODULE SseProtocol -------------------------------
(***************************************************************************)
(* What a client of the proxy is promised of one streamed message: content *)
(* blocks are numbered in the order they start, each gets its deltas while *)
(* it is open and is stopped once; text and thinking are never open beside *)
(* each other, nor when a tool call starts; and when the message ends, no  *)
(* block is left open.  The stream may be cut at any moment.               *)
(***************************************************************************)
EXTENDS Naturals, Sequences

CONSTANTS Name,  \* names of tools
          Delta  \* contents of deltas

VARIABLES blocks,   \* the blocks by index: kind, name, open, deltas
          message   \* new, open, ended (message_delta sent), stopped, or cut

vars == <<blocks, message>>

ContentKind == {"thinking", "text"}

Open(i) == i \in DOMAIN blocks /\ blocks[i].open
ContentOpen == \E i \in DOMAIN blocks : Open(i) /\ blocks[i].kind \in ContentKind

Init == blocks = <<>> /\ message = "new"

StartMessage ==
  /\ message = "new"
  /\ message' = "open"
  /\ UNCHANGED blocks

(* The error text of a failed stream is a text block like any other.       *)
StartBlock(kind, name) ==
  /\ message = "open"
  /\ ~ContentOpen
  /\ blocks' = Append(blocks, [kind |-> kind, name |-> name, open |-> TRUE, deltas |-> <<>>])
  /\ UNCHANGED message

AddDelta(i, d) ==
  /\ message = "open"
  /\ Open(i)
  /\ blocks' = [blocks EXCEPT ![i].deltas = Append(@, d)]
  /\ UNCHANGED message

StopBlock(i) ==
  /\ message = "open"
  /\ Open(i)
  /\ blocks' = [blocks EXCEPT ![i].open = FALSE]
  /\ UNCHANGED message

EndMessage ==
  /\ message = "open"
  /\ \A i \in DOMAIN blocks : ~Open(i)
  /\ message' = "ended"
  /\ UNCHANGED blocks

StopMessage ==
  /\ message = "ended"
  /\ message' = "stopped"
  /\ UNCHANGED blocks

Cut ==
  /\ message # "stopped"
  /\ message' = "cut"
  /\ UNCHANGED blocks

Next ==
  \/ StartMessage
  \/ \E kind \in ContentKind \cup {"tool_use"}, name \in Name : StartBlock(kind, name)
  \/ \E i \in DOMAIN blocks : StopBlock(i) \/ \E d \in Delta : AddDelta(i, d)
  \/ EndMessage
  \/ StopMessage
  \/ Cut

Spec == Init /\ [][Next]_vars
=============================================================================
