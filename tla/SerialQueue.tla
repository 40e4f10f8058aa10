----------------------------- MODULE SerialQueue -----------------------------
(***************************************************************************)
(* What the bot promises of one conversation ("Per-tree queue ensures      *)
(* ordered processing", handler.py:111): messages are served one at a     *)
(* time and the oldest first, and a message that is over, because it was   *)
(* served or because it was cancelled, failed or removed while it waited,  *)
(* is never served again.                                                  *)
(***************************************************************************)
EXTENDS Naturals, Sequences

CONSTANT Message

VARIABLES line,     \* the messages in the order they were accepted
          serving,  \* the message that is being served, as a set
          over      \* the messages that will not be served any more

vars == <<line, serving, over>>

InLine == {line[i] : i \in DOMAIN line}

(* n waits, and nobody who came before it does.                            *)
ItsTurn(n) ==
  \E i \in DOMAIN line :
    /\ line[i] = n /\ n \notin serving \cup over
    /\ \A j \in DOMAIN line : j < i => line[j] \in serving \cup over

Init ==
  \E n \in Message : line = <<n>> /\ serving = {n} /\ over = {}

Arrive(n) ==
  /\ n \notin InLine
  /\ line' = Append(line, n)
  /\ UNCHANGED <<serving, over>>

(* Only a conversation with nobody in it serves a message as it arrives.   *)
ArriveAndServe(n) ==
  /\ n \notin InLine
  /\ serving = {} /\ InLine \subseteq over
  /\ line' = Append(line, n)
  /\ serving' = {n}
  /\ UNCHANGED over

(* Messages are over, waiting ones and the one that is served alike.       *)
Leave(S) ==
  /\ over' = over \cup S
  /\ serving' = serving \ S
  /\ UNCHANGED line

(* The message that was served is over, and the next one has its turn.     *)
Serve(n) ==
  /\ ItsTurn(n)
  /\ serving' = {n}
  /\ over' = over \cup serving
  /\ UNCHANGED line

Next ==
  \/ \E n \in Message : Arrive(n) \/ ArriveAndServe(n) \/ Serve(n)
  \/ \E S \in SUBSET InLine : Leave(S)

Spec == Init /\ [][Next]_vars
=============================================================================
