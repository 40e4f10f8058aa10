----------------------------- MODULE SseStreamProofs -----------------------------
(***************************************************************************)
(* A stream keeps the protocol of its blocks, and delivers the arguments   *)
(* of its tool calls, whatever the upstream sends and however it is cut.   *)
(* From "Parsers ==" on: the thinking in a text is told apart from what is *)
(* not, wherever the text is cut.                                          *)
(***************************************************************************)
EXTENDS SseStream, TextReading, SequenceTheorems, WellFoundedInduction, TLAPS

-----------------------------------------------------------------------------
(* The values of the variables.                                            *)

Kind   == {"thinking", "text", "tool_use"}
Piece  == {"{", "}", "[]"}
Object == <<"{", "}">>

Block  == [kind : Kind, name : Announceable, open : BOOLEAN, deltas : Seq(Content)]
Client == [blocks : Seq(Block), message : {"new", "open", "ended", "stopped", "cut"}]

Event ==
  [type : {"message_start", "message_delta", "message_stop"}] \cup
  [type : {"start"}, index : Int, kind : Kind, name : Announceable] \cup
  [type : {"delta"}, index : Int, content : Content] \cup
  [type : {"stop"}, index : Int]

Call ==
  [index : Int, block : Int, name : Seq(STRING), started : BOOLEAN,
   buffer : Seq(Piece), emitted : BOOLEAN]

Builder ==
  [next : Nat, thinking : Int, text : Int, thinkingStarted : BOOLEAN, textStarted : BOOLEAN,
   tools : Seq(Call), out : Seq(Event)]

-----------------------------------------------------------------------------
(* How a client takes an event that keeps the protocol.                    *)

At(b, m) == [blocks |-> b, message |-> m]

Writes(c) == \E i \in 1..Len(c.blocks) : c.blocks[i].open /\ c.blocks[i].kind # "tool_use"

TakesStart(c, e, d) ==
  \E kind \in Kind, name \in Announceable :
    /\ c.message = "open" /\ ~Writes(c)
    /\ e = [type |-> "start", index |-> Len(c.blocks), kind |-> kind, name |-> name]
    /\ d = At(Append(c.blocks, [kind |-> kind, name |-> name, open |-> TRUE, deltas |-> <<>>]),
              "open")

TakesDelta(c, e, d) ==
  \E i \in 1..Len(c.blocks), x \in Content :
    /\ c.message = "open" /\ c.blocks[i].open
    /\ e = [type |-> "delta", index |-> i - 1, content |-> x]
    /\ d = At([c.blocks EXCEPT ![i].deltas = Append(@, x)], "open")

TakesStop(c, e, d) ==
  \E i \in 1..Len(c.blocks) :
    /\ c.message = "open" /\ c.blocks[i].open
    /\ e = [type |-> "stop", index |-> i - 1]
    /\ d = At([c.blocks EXCEPT ![i].open = FALSE], "open")

TakesMessage(c, e, d) ==
  \/ /\ e = [type |-> "message_start"] /\ c.message = "new"
     /\ d = At(c.blocks, "open")
  \/ /\ e = [type |-> "message_delta"] /\ c.message = "open"
     /\ \A i \in 1..Len(c.blocks) : ~c.blocks[i].open
     /\ d = At(c.blocks, "ended")
  \/ /\ e = [type |-> "message_stop"] /\ c.message = "ended"
     /\ d = At(c.blocks, "stopped")

Takes(c, e, d) ==
  TakesStart(c, e, d) \/ TakesDelta(c, e, d) \/ TakesStop(c, e, d) \/ TakesMessage(c, e, d)

(* What is yielded takes the client, event by event, to c.                 *)
Leads(run, b, m, events, c) ==
  /\ Len(run) = Len(events) + 1
  /\ run[1] = At(b, m)
  /\ \A k \in 1..Len(events) : Takes(run[k], events[k], run[k + 1])
  /\ run[Len(events) + 1] = c

Pending(events, c) == \E run \in Seq(Client) : Leads(run, blocks, message, events, c)

LEMMA NothingPending ==
  ASSUME NEW events, events = <<>>
  PROVE  /\ At(blocks, message) \in Client => Pending(events, At(blocks, message))
         /\ \A c : Pending(events, c) => c = At(blocks, message)
<1>1. Len(events) = 0 /\ \A k \in 1..0 : FALSE
  OBVIOUS
<1>2. ASSUME At(blocks, message) \in Client PROVE Pending(events, At(blocks, message))
  <2> DEFINE c == At(blocks, message)
  <2> DEFINE run == <<c>>
  <2>1. run \in Seq(Client) /\ Len(run) = 1 /\ run[1] = c
    BY <1>2
  <2> HIDE DEF c, run
  <2>2. Leads(run, blocks, message, events, c)
    BY <1>1, <2>1 DEF Leads, c
  <2> QED BY <2>1, <2>2 DEF Pending, c
<1>3. ASSUME NEW c, Pending(events, c) PROVE c = At(blocks, message)
  BY <1>1, <1>3 DEF Pending, Leads
<1> QED BY <1>2, <1>3

(* One more event is yielded.                                              *)
LEMMA OneMore ==
  ASSUME NEW events \in Seq(Event), NEW e \in Event, NEW c, NEW d \in Client,
         Pending(events, c), Takes(c, e, d)
  PROVE  Pending(Append(events, e), d)
<1>1. PICK run \in Seq(Client) : Leads(run, blocks, message, events, c)
  BY DEF Pending
<1> DEFINE n == Len(events)
<1> DEFINE more == Append(run, d)
<1>2. n \in Nat /\ Len(run) = n + 1 /\ run[n + 1] = c /\ run[1] = At(blocks, message)
      /\ \A k \in 1..n : Takes(run[k], events[k], run[k + 1])
  BY <1>1 DEF Leads
<1>3. /\ Len(Append(events, e)) = n + 1 /\ Append(events, e)[n + 1] = e
      /\ \A k \in 1..n : Append(events, e)[k] = events[k]
  BY AppendProperties
<1>4. /\ more \in Seq(Client) /\ Len(more) = Len(run) + 1 /\ more[Len(run) + 1] = d
      /\ \A k \in 1..Len(run) : more[k] = run[k]
  BY AppendProperties
<1> HIDE DEF n, more
<1>5. /\ Len(more) = n + 1 + 1 /\ more[n + 1 + 1] = d
      /\ \A k \in 1..(n + 1) : more[k] = run[k]
  BY <1>2, <1>4
<1>6. 1 \in 1..(n + 1) /\ n + 1 \in 1..(n + 1)
      /\ \A k \in 1..n : k \in 1..(n + 1) /\ k + 1 \in 1..(n + 1)
  BY <1>2
<1>7. ASSUME NEW k \in 1..(n + 1) PROVE Takes(more[k], Append(events, e)[k], more[k + 1])
  <2>1. CASE k \in 1..n
    <3>1. more[k] = run[k] /\ more[k + 1] = run[k + 1] /\ Append(events, e)[k] = events[k]
      BY <1>3, <1>5, <1>6, <2>1
    <3> QED BY <1>2, <2>1, <3>1
  <2>2. CASE k = n + 1
    <3>1. more[k] = c /\ more[k + 1] = d /\ Append(events, e)[k] = e
      BY <1>2, <1>3, <1>5, <1>6, <2>2
    <3> QED BY <3>1
  <2>3. k \in 1..n \/ k = n + 1
    BY <1>2
  <2> QED BY <2>1, <2>2, <2>3
<1>8. Leads(more, blocks, message, Append(events, e), d)
  BY <1>2, <1>3, <1>5, <1>6, <1>7 DEF Leads
<1> QED BY <1>4, <1>8 DEF Pending

(* The client takes the first.                                             *)
LEMMA OneLess ==
  ASSUME NEW events \in Seq(Event), NEW c, events # <<>>, Pending(events, c)
  PROVE  \E d \in Client :
           /\ Takes(At(blocks, message), Head(events), d)
           /\ blocks' = d.blocks /\ message' = d.message =>
                \E run \in Seq(Client) : Leads(run, blocks', message', Tail(events), c)
<1>1. PICK run \in Seq(Client) : Leads(run, blocks, message, events, c)
  BY DEF Pending
<1> DEFINE n == Len(events)
<1>2. n \in Nat /\ n # 0 /\ Len(run) = n + 1 /\ run[n + 1] = c /\ run[1] = At(blocks, message)
      /\ \A k \in 1..n : Takes(run[k], events[k], run[k + 1])
  BY <1>1, EmptySeq DEF Leads
<1>3. /\ Tail(events) \in Seq(Event) /\ Len(Tail(events)) = n - 1 /\ Head(events) = events[1]
      /\ \A k \in 1..(n - 1) : Tail(events)[k] = events[k + 1]
  BY HeadTailProperties
<1>4. /\ Tail(run) \in Seq(Client) /\ Len(Tail(run)) = n
      /\ \A k \in 1..n : Tail(run)[k] = run[k + 1] /\ run[k + 1] \in Client
  <2>1. run # <<>>
    BY <1>2, EmptySeq
  <2>2. /\ Tail(run) \in Seq(Client) /\ Len(Tail(run)) = Len(run) - 1
        /\ \A k \in 1..Len(Tail(run)) : Tail(run)[k] = run[k + 1]
    BY <2>1, HeadTailProperties
  <2>3. \A k \in 1..n : k + 1 \in 1..Len(run)
    BY <1>2
  <2>4. \A k \in 1..n : run[k + 1] \in Client
    BY <2>3, ElementOfSeq
  <2> QED BY <1>2, <2>2, <2>4
<1> HIDE DEF n
<1> DEFINE d == run[2]
<1>5. 1 \in 1..n /\ 1 + 1 = 2 /\ (n - 1) + 1 = n /\ n \in 1..n
      /\ \A k \in 1..(n - 1) : k \in 1..n /\ k + 1 \in 1..n
  BY <1>2
<1>6. d \in Client /\ Takes(At(blocks, message), Head(events), d) /\ Tail(run)[1] = d
  BY <1>2, <1>3, <1>4, <1>5
<1>7. d = At(d.blocks, d.message)
  BY <1>6 DEF Client, At
<1>8. ASSUME blocks' = d.blocks, message' = d.message
      PROVE  Leads(Tail(run), blocks', message', Tail(events), c)
  <2>1. Tail(run)[1] = At(blocks', message')
    BY <1>6, <1>7, <1>8
  <2>2. \A k \in 1..(n - 1) : Takes(Tail(run)[k], Tail(events)[k], Tail(run)[k + 1])
    BY <1>2, <1>3, <1>4, <1>5
  <2>3. Tail(run)[n] = c
    BY <1>2, <1>4, <1>5
  <2> QED BY <1>3, <1>4, <1>5, <2>1, <2>2, <2>3 DEF Leads
<1> QED BY <1>4, <1>6, <1>8

-----------------------------------------------------------------------------
(* What a client reads keeps the protocol.                                 *)

LEMMA ReadEffect ==
  ASSUME blocks \in Seq(Block), Read, NEW d \in Client,
         Takes(At(blocks, message), Head(sse.out), d)
  PROVE  blocks' = d.blocks /\ message' = d.message /\ Protocol!Next
<1> DEFINE c == At(blocks, message)
<1> DEFINE e == Head(sse.out)
<1>1. c.blocks = blocks /\ c.message = message /\ DOMAIN blocks = 1..Len(blocks) /\ Len(blocks) \in Nat
  BY DEF At
<1>2. \A b, m : At(b, m).blocks = b /\ At(b, m).message = m
  BY DEF At
<1>3. CASE TakesStart(c, e, d)
  <2>1. PICK kind \in Kind, name \in Announceable :
          /\ message = "open" /\ ~Writes(c)
          /\ e = [type |-> "start", index |-> Len(blocks), kind |-> kind, name |-> name]
          /\ d = At(Append(blocks, [kind |-> kind, name |-> name, open |-> TRUE, deltas |-> <<>>]), "open")
    BY <1>1, <1>3 DEF TakesStart
  <2>2. blocks' = Append(blocks, [kind |-> kind, name |-> name, open |-> TRUE, deltas |-> <<>>])
        /\ message' = message
    <3>1. e.type = "start" /\ e.index = Len(blocks) /\ e.kind = kind /\ e.name = name
      BY <2>1
    <3>2. NewBlock(e) = [kind |-> kind, name |-> name, open |-> TRUE, deltas |-> <<>>]
      BY <3>1 DEF NewBlock
    <3>3. blocks' = Append(blocks, NewBlock(e)) /\ message' = message
      BY <3>1 DEF Read
    <3> QED BY <3>2, <3>3
  <2>3. \A i \in 1..Len(blocks) : ~(blocks[i].open /\ blocks[i].kind \in {"thinking", "text"})
    BY <1>1, <2>1 DEF Writes
  <2>4. Protocol!StartBlock(kind, name)
    BY <1>1, <2>1, <2>2, <2>3
       DEF Protocol!StartBlock, Protocol!ContentOpen, Protocol!Open, Protocol!ContentKind
  <2>5. kind \in Protocol!ContentKind \cup {"tool_use"}
    BY DEF Kind, Protocol!ContentKind
  <2> QED BY <1>2, <2>1, <2>2, <2>4, <2>5 DEF Protocol!Next
<1>4. CASE TakesDelta(c, e, d)
  <2>1. PICK i \in 1..Len(blocks), x \in Content :
          /\ message = "open" /\ blocks[i].open
          /\ e = [type |-> "delta", index |-> i - 1, content |-> x]
          /\ d = At([blocks EXCEPT ![i].deltas = Append(@, x)], "open")
    BY <1>1, <1>4 DEF TakesDelta
  <2>2. e.type = "delta" /\ e.index = i - 1 /\ e.content = x /\ (i - 1) + 1 = i
    BY <2>1
  <2>3. OpenBlock(e.index)
    BY <1>1, <2>1, <2>2 DEF OpenBlock
  <2>4. blocks' = [blocks EXCEPT ![i].deltas = Append(@, x)] /\ message' = message
    BY <2>2, <2>3 DEF Read
  <2>5. Protocol!AddDelta(i, x)
    BY <1>1, <2>1, <2>4 DEF Protocol!AddDelta, Protocol!Open
  <2> QED BY <1>1, <1>2, <2>1, <2>4, <2>5 DEF Protocol!Next
<1>5. CASE TakesStop(c, e, d)
  <2>1. PICK i \in 1..Len(blocks) :
          /\ message = "open" /\ blocks[i].open
          /\ e = [type |-> "stop", index |-> i - 1]
          /\ d = At([blocks EXCEPT ![i].open = FALSE], "open")
    BY <1>1, <1>5 DEF TakesStop
  <2>2. e.type = "stop" /\ e.index = i - 1 /\ (i - 1) + 1 = i
    BY <2>1
  <2>3. OpenBlock(e.index)
    BY <1>1, <2>1, <2>2 DEF OpenBlock
  <2>4. blocks' = [blocks EXCEPT ![i].open = FALSE] /\ message' = message
    BY <2>2, <2>3 DEF Read
  <2>5. Protocol!StopBlock(i)
    BY <1>1, <2>1, <2>4 DEF Protocol!StopBlock, Protocol!Open
  <2> QED BY <1>1, <1>2, <2>1, <2>4, <2>5 DEF Protocol!Next
<1>6. CASE TakesMessage(c, e, d)
  <2>1. CASE e = [type |-> "message_start"] /\ message = "new" /\ d = At(blocks, "open")
    <3>0. e.type = "message_start"
      BY <2>1
    <3>1. blocks' = blocks /\ message' = "open"
      BY <3>0 DEF Read
    <3> QED BY <1>2, <2>1, <3>1 DEF Protocol!Next, Protocol!StartMessage
  <2>2. CASE /\ e = [type |-> "message_delta"] /\ message = "open"
             /\ \A i \in 1..Len(blocks) : ~blocks[i].open
             /\ d = At(blocks, "ended")
    <3>0. e.type = "message_delta"
      BY <2>2
    <3>1. blocks' = blocks /\ message' = "ended"
      BY <3>0 DEF Read
    <3> QED BY <1>1, <1>2, <2>2, <3>1 DEF Protocol!Next, Protocol!EndMessage, Protocol!Open
  <2>3. CASE e = [type |-> "message_stop"] /\ message = "ended" /\ d = At(blocks, "stopped")
    <3>0. e.type = "message_stop"
      BY <2>3
    <3>1. blocks' = blocks /\ message' = "stopped"
      BY <3>0 DEF Read
    <3> QED BY <1>2, <2>3, <3>1 DEF Protocol!Next, Protocol!StopMessage
  <2> QED BY <1>1, <1>6, <2>1, <2>2, <2>3 DEF TakesMessage
<1> QED BY <1>3, <1>4, <1>5, <1>6 DEF Takes

-----------------------------------------------------------------------------
(* The events that the builder yields, as the client takes them.           *)

LEMMA ClientFields ==
  ASSUME NEW c \in Client
  PROVE  /\ c.blocks \in Seq(Block) /\ Len(c.blocks) \in Nat
         /\ \A i \in 1..Len(c.blocks) : c.blocks[i] \in Block
<1>1. c.blocks \in Seq(Block)
  BY DEF Client
<1> QED BY <1>1, ElementOfSeq

(* The client when it has read that a block starts, goes on or stops.      *)
Begun(c, d, kind, name) ==
  /\ d \in Client /\ d.message = "open" /\ Len(d.blocks) = Len(c.blocks) + 1
  /\ \A i \in 1..Len(c.blocks) : d.blocks[i] = c.blocks[i]
  /\ d.blocks[Len(c.blocks) + 1] = [kind |-> kind, name |-> name, open |-> TRUE, deltas |-> <<>>]

Added(c, d, i, x) ==
  /\ d \in Client /\ d.message = "open" /\ Len(d.blocks) = Len(c.blocks)
  /\ \A k \in 1..Len(c.blocks) : /\ d.blocks[k].kind = c.blocks[k].kind
                                 /\ d.blocks[k].name = c.blocks[k].name
                                 /\ d.blocks[k].open = c.blocks[k].open
                                 /\ k # i => d.blocks[k].deltas = c.blocks[k].deltas
  /\ d.blocks[i].deltas = Append(c.blocks[i].deltas, x)

Stopped(c, d, i) ==
  /\ d \in Client /\ d.message = "open" /\ Len(d.blocks) = Len(c.blocks)
  /\ \A k \in 1..Len(c.blocks) : /\ d.blocks[k].kind = c.blocks[k].kind
                                 /\ d.blocks[k].name = c.blocks[k].name
                                 /\ d.blocks[k].deltas = c.blocks[k].deltas
                                 /\ k # i => d.blocks[k].open = c.blocks[k].open
  /\ ~d.blocks[i].open

LEMMA StartEvent ==
  ASSUME NEW events \in Seq(Event), NEW c \in Client, Pending(events, c),
         c.message = "open", ~Writes(c),
         NEW kind \in Kind, NEW name \in Announceable, NEW n, n = Len(c.blocks),
         NEW e, e = [type |-> "start", index |-> n, kind |-> kind, name |-> name]
  PROVE  \E d : Begun(c, d, kind, name) /\ Pending(Append(events, e), d)
<1> DEFINE new == [kind |-> kind, name |-> name, open |-> TRUE, deltas |-> <<>>]
<1> DEFINE d == At(Append(c.blocks, new), "open")
<1>1. c.blocks \in Seq(Block) /\ n \in Nat
  BY ClientFields
<1>2. new \in Block
  <2>1. <<>> \in Seq(Content)
    OBVIOUS
  <2> QED BY <2>1 DEF Block
<1>3. e \in Event
  BY <1>1 DEF Event
<1>4. Takes(c, e, d)
  BY DEF Takes, TakesStart
<1> HIDE DEF new
<1>5. /\ Append(c.blocks, new) \in Seq(Block) /\ Len(Append(c.blocks, new)) = n + 1
      /\ \A i \in 1..n : Append(c.blocks, new)[i] = c.blocks[i]
      /\ Append(c.blocks, new)[n + 1] = new
  BY <1>1, <1>2, AppendProperties
<1>6. d \in Client /\ d.message = "open" /\ d.blocks = Append(c.blocks, new)
  BY <1>5 DEF Client, At
<1> HIDE DEF d
<1>7. Pending(Append(events, e), d)
  BY <1>3, <1>4, <1>6, OneMore
<1>8. Begun(c, d, kind, name)
  BY <1>5, <1>6 DEF Begun, new
<1> QED BY <1>7, <1>8

LEMMA DeltaEvent ==
  ASSUME NEW events \in Seq(Event), NEW c \in Client, Pending(events, c), c.message = "open",
         NEW i \in 1..Len(c.blocks), c.blocks[i].open, NEW x \in Content,
         NEW e, e = [type |-> "delta", index |-> i - 1, content |-> x]
  PROVE  \E d : Added(c, d, i, x) /\ Pending(Append(events, e), d)
<1> DEFINE b == c.blocks[i]
<1> DEFINE new == [b EXCEPT !.deltas = Append(@, x)]
<1> DEFINE q == [c.blocks EXCEPT ![i].deltas = Append(@, x)]
<1> DEFINE d == At(q, "open")
<1>1. c.blocks \in Seq(Block) /\ b \in Block /\ i - 1 \in Int
  BY ClientFields
<1>2. new \in Block /\ new.kind = b.kind /\ new.name = b.name /\ new.open = b.open
      /\ new.deltas = Append(b.deltas, x)
  <2>1. b.deltas \in Seq(Content) /\ Append(b.deltas, x) \in Seq(Content)
    BY <1>1 DEF Block
  <2> HIDE DEF b
  <2> QED BY <1>1, <2>1 DEF Block
<1>3. e \in Event
  BY <1>1 DEF Event
<1>4. Takes(c, e, d)
  BY DEF Takes, TakesDelta
<1>5. q = [c.blocks EXCEPT ![i] = new]
  OBVIOUS
<1> HIDE DEF new, q
<1>6. /\ q \in Seq(Block) /\ Len(q) = Len(c.blocks)
      /\ \A k \in 1..Len(c.blocks) : q[k] = IF k = i THEN new ELSE c.blocks[k]
  BY <1>1, <1>2, <1>5, ExceptSeq
<1>7. d \in Client /\ d.message = "open" /\ d.blocks = q
  BY <1>6 DEF Client, At
<1> HIDE DEF d
<1>8. Pending(Append(events, e), d)
  BY <1>3, <1>4, <1>7, OneMore
<1>9. \A k \in 1..Len(c.blocks) : /\ q[k].kind = c.blocks[k].kind
                                  /\ q[k].name = c.blocks[k].name
                                  /\ q[k].open = c.blocks[k].open
                                  /\ k # i => q[k].deltas = c.blocks[k].deltas
  BY <1>2, <1>6
<1>10. q[i].deltas = Append(c.blocks[i].deltas, x)
  BY <1>2, <1>6
<1>11. Added(c, d, i, x)
  BY <1>6, <1>7, <1>9, <1>10 DEF Added
<1> QED BY <1>8, <1>11

LEMMA StopEvent ==
  ASSUME NEW events \in Seq(Event), NEW c \in Client, Pending(events, c), c.message = "open",
         NEW i \in 1..Len(c.blocks), c.blocks[i].open,
         NEW e, e = [type |-> "stop", index |-> i - 1]
  PROVE  \E d : Stopped(c, d, i) /\ Pending(Append(events, e), d)
<1> DEFINE b == c.blocks[i]
<1> DEFINE new == [b EXCEPT !.open = FALSE]
<1> DEFINE q == [c.blocks EXCEPT ![i].open = FALSE]
<1> DEFINE d == At(q, "open")
<1>1. c.blocks \in Seq(Block) /\ b \in Block /\ i - 1 \in Int
  BY ClientFields
<1>2. new \in Block /\ new.kind = b.kind /\ new.name = b.name /\ new.open = FALSE
      /\ new.deltas = b.deltas
  <2> HIDE DEF b
  <2> QED BY <1>1 DEF Block
<1>3. e \in Event
  BY <1>1 DEF Event
<1>4. Takes(c, e, d)
  BY DEF Takes, TakesStop
<1>5. q = [c.blocks EXCEPT ![i] = new]
  OBVIOUS
<1> HIDE DEF new, q
<1>6. /\ q \in Seq(Block) /\ Len(q) = Len(c.blocks)
      /\ \A k \in 1..Len(c.blocks) : q[k] = IF k = i THEN new ELSE c.blocks[k]
  BY <1>1, <1>2, <1>5, ExceptSeq
<1>7. d \in Client /\ d.message = "open" /\ d.blocks = q
  BY <1>6 DEF Client, At
<1> HIDE DEF d
<1>8. Pending(Append(events, e), d)
  BY <1>3, <1>4, <1>7, OneMore
<1>9. \A k \in 1..Len(c.blocks) : /\ q[k].kind = c.blocks[k].kind
                                  /\ q[k].name = c.blocks[k].name
                                  /\ q[k].deltas = c.blocks[k].deltas
                                  /\ k # i => q[k].open = c.blocks[k].open
  BY <1>2, <1>6
<1>10. ~q[i].open
  BY <1>2, <1>6
<1>11. Stopped(c, d, i)
  BY <1>6, <1>7, <1>9, <1>10 DEF Stopped
<1> QED BY <1>8, <1>11

-----------------------------------------------------------------------------
(* The fields of the builder after a call.                                 *)

Rec(next, thinking, textIndex, thinkingStarted, textStarted, tools, events) ==
  [next |-> next, thinking |-> thinking, text |-> textIndex, thinkingStarted |-> thinkingStarted,
   textStarted |-> textStarted, tools |-> tools, out |-> events]

LEMMA BuilderFields ==
  ASSUME NEW s \in Builder
  PROVE  /\ s.next \in Nat /\ s.thinking \in Int /\ s.text \in Int
         /\ s.thinkingStarted \in BOOLEAN /\ s.textStarted \in BOOLEAN
         /\ s.tools \in Seq(Call) /\ s.out \in Seq(Event)
BY DEF Builder, Rec

LEMMA RecType ==
  ASSUME NEW n \in Nat, NEW th \in Int, NEW tx \in Int, NEW a \in BOOLEAN, NEW b \in BOOLEAN,
         NEW q \in Seq(Call), NEW o \in Seq(Event)
  PROVE  Rec(n, th, tx, a, b, q, o) \in Builder
BY DEF Builder, Rec

LEMMA BuilderExcept ==
  ASSUME NEW s \in Builder, NEW x
  PROVE  /\ [s EXCEPT !.next = x]
              = Rec(x, s.thinking, s.text, s.thinkingStarted, s.textStarted, s.tools, s.out)
         /\ [s EXCEPT !.thinking = x]
              = Rec(s.next, x, s.text, s.thinkingStarted, s.textStarted, s.tools, s.out)
         /\ [s EXCEPT !.text = x]
              = Rec(s.next, s.thinking, x, s.thinkingStarted, s.textStarted, s.tools, s.out)
         /\ [s EXCEPT !.thinkingStarted = x]
              = Rec(s.next, s.thinking, s.text, x, s.textStarted, s.tools, s.out)
         /\ [s EXCEPT !.textStarted = x]
              = Rec(s.next, s.thinking, s.text, s.thinkingStarted, x, s.tools, s.out)
         /\ [s EXCEPT !.tools = x]
              = Rec(s.next, s.thinking, s.text, s.thinkingStarted, s.textStarted, x, s.out)
         /\ [s EXCEPT !.out = x]
              = Rec(s.next, s.thinking, s.text, s.thinkingStarted, s.textStarted, s.tools, x)
BY DEF Builder, Rec

LEMMA YieldFields ==
  ASSUME NEW s \in Builder, NEW e \in Event
  PROVE  /\ Yield(s, e) = Rec(s.next, s.thinking, s.text, s.thinkingStarted, s.textStarted,
                              s.tools, Append(s.out, e))
         /\ Yield(s, e) \in Builder
<1> DEFINE o == Append(s.out, e)
<1>1. Yield(s, e) = [s EXCEPT !.out = o]
  BY DEF Yield
<1>2. o \in Seq(Event)
  BY BuilderFields, AppendProperties
<1> HIDE DEF o
<1>3. Yield(s, e) = Rec(s.next, s.thinking, s.text, s.thinkingStarted, s.textStarted, s.tools, o)
  BY <1>1, BuilderExcept
<1>4. Yield(s, e) \in Builder
  <2>1. Rec(s.next, s.thinking, s.text, s.thinkingStarted, s.textStarted, s.tools, o) \in Builder
    BY <1>2, BuilderFields, RecType
  <2> QED BY <1>3, <2>1
<1> QED BY <1>3, <1>4 DEF o

LEMMA BlockStartFields ==
  ASSUME NEW s \in Builder, NEW kind \in Kind, NEW name \in Announceable
  PROVE  /\ BlockStart(s, kind, name)
              = Rec(s.next + 1, s.thinking, s.text, s.thinkingStarted, s.textStarted, s.tools,
                    Append(s.out, [type |-> "start", index |-> s.next, kind |-> kind, name |-> name]))
         /\ BlockStart(s, kind, name) \in Builder
<1> DEFINE e == [type |-> "start", index |-> s.next, kind |-> kind, name |-> name]
<1> DEFINE t == Yield(s, e)
<1>1. BlockStart(s, kind, name) = [t EXCEPT !.next = @ + 1]
  BY DEF BlockStart
<1>2. e \in Event
  BY BuilderFields DEF Event
<1> HIDE DEF e
<1>3. t = Rec(s.next, s.thinking, s.text, s.thinkingStarted, s.textStarted, s.tools, Append(s.out, e))
      /\ t \in Builder
  BY <1>2, YieldFields
<1> HIDE DEF t
<1>4. t.next = s.next /\ t.thinking = s.thinking /\ t.text = s.text /\ t.tools = s.tools
      /\ t.thinkingStarted = s.thinkingStarted /\ t.textStarted = s.textStarted
      /\ t.out = Append(s.out, e)
  BY <1>3 DEF Rec
<1>5. [t EXCEPT !.next = s.next + 1]
        = Rec(s.next + 1, s.thinking, s.text, s.thinkingStarted, s.textStarted, s.tools, Append(s.out, e))
  <2> DEFINE m == s.next + 1
  <2> HIDE DEF m
  <2>1. [t EXCEPT !.next = m]
          = Rec(m, t.thinking, t.text, t.thinkingStarted, t.textStarted, t.tools, t.out)
    <3>1. t \in Builder
      BY <1>3
    <3> QED BY <3>1, BuilderExcept
  <2> QED BY <1>4, <2>1 DEF m
<1>6. BlockStart(s, kind, name) = [t EXCEPT !.next = s.next + 1]
  BY <1>1, <1>4
<1>7. s.next + 1 \in Nat /\ Append(s.out, e) \in Seq(Event)
  BY <1>3, <1>4, BuilderFields
<1> HIDE DEF t
<1>8. BlockStart(s, kind, name) \in Builder
  <2>1. Rec(s.next + 1, s.thinking, s.text, s.thinkingStarted, s.textStarted, s.tools, Append(s.out, e)) \in Builder
    BY <1>7, BuilderFields, RecType
  <2> QED BY <1>5, <1>6, <2>1
<1> QED BY <1>5, <1>6, <1>8 DEF e

LEMMA DeltaFields ==
  ASSUME NEW s \in Builder, NEW i \in Int, NEW x \in Content
  PROVE  /\ BlockDelta(s, i, x)
              = Rec(s.next, s.thinking, s.text, s.thinkingStarted, s.textStarted, s.tools,
                    Append(s.out, [type |-> "delta", index |-> i, content |-> x]))
         /\ BlockDelta(s, i, x) \in Builder
<1>1. [type |-> "delta", index |-> i, content |-> x] \in Event
  BY DEF Event
<1> QED BY <1>1, YieldFields DEF BlockDelta

LEMMA StopFields ==
  ASSUME NEW s \in Builder, NEW i \in Int
  PROVE  /\ BlockStop(s, i)
              = Rec(s.next, s.thinking, s.text, s.thinkingStarted, s.textStarted, s.tools,
                    Append(s.out, [type |-> "stop", index |-> i]))
         /\ BlockStop(s, i) \in Builder
<1>1. [type |-> "stop", index |-> i] \in Event
  BY DEF Event
<1> QED BY <1>1, YieldFields DEF BlockStop

-----------------------------------------------------------------------------
(* The client, once it has read all that was yielded, has open what the    *)
(* builder has open: of the tool calls, those after place m.               *)

OpenAs(c, i, kind) ==
  i + 1 \in 1..Len(c.blocks) /\ c.blocks[i + 1].open /\ c.blocks[i + 1].kind = kind

Held(s, i, m) ==
  \/ s.thinkingStarted /\ i = s.thinking + 1
  \/ s.textStarted /\ i = s.text + 1
  \/ \E j \in 1..Len(s.tools) : m < j /\ s.tools[j].started /\ i = s.tools[j].block + 1

ToolsApart(s) ==
  \A j, k \in 1..Len(s.tools) :
    s.tools[j].started /\ s.tools[k].started /\ j # k => s.tools[j].block # s.tools[k].block

InStep(s, c, m) ==
  /\ c.message = "open" /\ Len(c.blocks) = s.next
  /\ ~(s.thinkingStarted /\ s.textStarted)
  /\ s.thinkingStarted => OpenAs(c, s.thinking, "thinking")
  /\ s.textStarted => OpenAs(c, s.text, "text")
  /\ \A i \in 1..Len(c.blocks) : c.blocks[i].open => Held(s, i, m)
  /\ \A j \in 1..Len(s.tools) : m < j /\ s.tools[j].started => OpenAs(c, s.tools[j].block, "tool_use")
  /\ \A j \in 1..Len(s.tools) : s.tools[j].started => s.tools[j].block + 1 \in 1..Len(c.blocks)
  /\ ToolsApart(s)

Ok(s, c, m) == s \in Builder /\ c \in Client /\ Pending(s.out, c) /\ InStep(s, c, m)

Idle(s) == ~s.thinkingStarted /\ ~s.textStarted

(* The tool calls are what they were, for the builder and for the client.  *)
SameTools(s, c, t, d) ==
  /\ t.tools = s.tools
  /\ \A j \in 1..Len(s.tools) : s.tools[j].started =>
       LET i == s.tools[j].block + 1
       IN  d.blocks[i].name = c.blocks[i].name /\ d.blocks[i].deltas = c.blocks[i].deltas

LEMMA SameToolsTwice ==
  ASSUME NEW s, NEW c, NEW t, NEW d, NEW u, NEW e, SameTools(s, c, t, d), SameTools(t, d, u, e)
  PROVE  SameTools(s, c, u, e)
BY DEF SameTools

(* Nothing is written when neither text nor thinking is open.              *)
LEMMA IdleIsQuiet ==
  ASSUME NEW s, NEW c, NEW m \in Nat, Ok(s, c, m), Idle(s)
  PROVE  ~Writes(c)
<1> SUFFICES ASSUME NEW i \in 1..Len(c.blocks), c.blocks[i].open, c.blocks[i].kind # "tool_use"
             PROVE  FALSE
  BY DEF Writes
<1>1. PICK j \in 1..Len(s.tools) : m < j /\ s.tools[j].started /\ i = s.tools[j].block + 1
  BY DEF Ok, InStep, Held, Idle
<1>2. OpenAs(c, s.tools[j].block, "tool_use")
  BY <1>1 DEF Ok, InStep
<1> QED BY <1>1, <1>2 DEF OpenAs

(* A call that starts a block, adds to one or stops one.                   *)
SameFields(s, t) ==
  /\ t \in Builder /\ t.thinking = s.thinking /\ t.text = s.text /\ t.tools = s.tools
  /\ t.thinkingStarted = s.thinkingStarted /\ t.textStarted = s.textStarted

LEMMA BlockStartEffect ==
  ASSUME NEW s \in Builder, NEW c \in Client, Pending(s.out, c), c.message = "open", ~Writes(c),
         Len(c.blocks) = s.next, NEW kind \in Kind, NEW name \in Announceable
  PROVE  /\ SameFields(s, BlockStart(s, kind, name)) /\ BlockStart(s, kind, name).next = s.next + 1
         /\ \E d : Begun(c, d, kind, name) /\ Pending(BlockStart(s, kind, name).out, d)
<1> DEFINE u == BlockStart(s, kind, name)
<1> DEFINE e == [type |-> "start", index |-> s.next, kind |-> kind, name |-> name]
<1>1. /\ u = Rec(s.next + 1, s.thinking, s.text, s.thinkingStarted, s.textStarted, s.tools,
                 Append(s.out, e))
      /\ u \in Builder
  BY BlockStartFields
<1>2. s.out \in Seq(Event)
  BY BuilderFields
<1> HIDE DEF u
<1>3. \E d : Begun(c, d, kind, name) /\ Pending(Append(s.out, e), d)
  BY <1>2, StartEvent
<1> HIDE DEF e
<1>4. SameFields(s, u) /\ u.next = s.next + 1 /\ u.out = Append(s.out, e)
  BY <1>1 DEF Rec, SameFields
<1> QED BY <1>3, <1>4 DEF u

LEMMA BlockDeltaEffect ==
  ASSUME NEW s \in Builder, NEW c \in Client, Pending(s.out, c), c.message = "open",
         NEW i \in Int, i + 1 \in 1..Len(c.blocks), c.blocks[i + 1].open, NEW x \in Content
  PROVE  /\ SameFields(s, BlockDelta(s, i, x)) /\ BlockDelta(s, i, x).next = s.next
         /\ \E d : Added(c, d, i + 1, x) /\ Pending(BlockDelta(s, i, x).out, d)
<1> DEFINE u == BlockDelta(s, i, x)
<1> DEFINE e == [type |-> "delta", index |-> i, content |-> x]
<1>1. /\ u = Rec(s.next, s.thinking, s.text, s.thinkingStarted, s.textStarted, s.tools, Append(s.out, e))
      /\ u \in Builder
  BY DeltaFields
<1> DEFINE m == i + 1
<1>2. s.out \in Seq(Event) /\ m - 1 = i /\ m \in 1..Len(c.blocks) /\ c.blocks[m].open
  BY BuilderFields
<1>3. e = [type |-> "delta", index |-> m - 1, content |-> x]
  BY <1>2
<1> HIDE DEF m, u, e
<1>4. \E d : Added(c, d, m, x) /\ Pending(Append(s.out, e), d)
  BY <1>2, <1>3, DeltaEvent
<1>5. SameFields(s, u) /\ u.next = s.next /\ u.out = Append(s.out, e)
  BY <1>1 DEF Rec, SameFields
<1> QED BY <1>4, <1>5 DEF u, m

LEMMA BlockStopEffect ==
  ASSUME NEW s \in Builder, NEW c \in Client, Pending(s.out, c), c.message = "open",
         NEW i \in Int, i + 1 \in 1..Len(c.blocks), c.blocks[i + 1].open
  PROVE  /\ SameFields(s, BlockStop(s, i)) /\ BlockStop(s, i).next = s.next
         /\ \E d : Stopped(c, d, i + 1) /\ Pending(BlockStop(s, i).out, d)
<1> DEFINE u == BlockStop(s, i)
<1> DEFINE e == [type |-> "stop", index |-> i]
<1>1. /\ u = Rec(s.next, s.thinking, s.text, s.thinkingStarted, s.textStarted, s.tools, Append(s.out, e))
      /\ u \in Builder
  BY StopFields
<1> DEFINE m == i + 1
<1>2. s.out \in Seq(Event) /\ m - 1 = i /\ m \in 1..Len(c.blocks) /\ c.blocks[m].open
  BY BuilderFields
<1>3. e = [type |-> "stop", index |-> m - 1]
  BY <1>2
<1> HIDE DEF m, u, e
<1>4. \E d : Stopped(c, d, m) /\ Pending(Append(s.out, e), d)
  BY <1>2, <1>3, StopEvent
<1>5. SameFields(s, u) /\ u.next = s.next /\ u.out = Append(s.out, e)
  BY <1>1 DEF Rec, SameFields
<1> QED BY <1>4, <1>5 DEF u, m

(* The block of thinking or text is stopped.                               *)
LEMMA ContentStopped ==
  ASSUME NEW s, NEW c, Ok(s, c, 0), NEW t \in Builder, NEW d, NEW n,
         \/ s.thinkingStarted /\ n = s.thinking /\ ~t.thinkingStarted /\ t.textStarted = s.textStarted
         \/ s.textStarted /\ n = s.text /\ ~t.textStarted /\ t.thinkingStarted = s.thinkingStarted,
         t.next = s.next, t.tools = s.tools, Stopped(c, d, n + 1), Pending(t.out, d)
  PROVE  Ok(t, d, 0) /\ SameTools(s, c, t, d)
<1> DEFINE i == n + 1
<1>1. InStep(s, c, 0)
  BY DEF Ok
<1>2. i \in 1..Len(c.blocks) /\ c.blocks[i].open /\ c.blocks[i].kind # "tool_use"
  BY <1>1 DEF InStep, OpenAs
<1>3. /\ d \in Client /\ d.message = "open" /\ Len(d.blocks) = Len(c.blocks) /\ ~d.blocks[i].open
      /\ \A k \in 1..Len(c.blocks) : /\ d.blocks[k].kind = c.blocks[k].kind
                                     /\ d.blocks[k].name = c.blocks[k].name
                                     /\ d.blocks[k].deltas = c.blocks[k].deltas
                                     /\ k # i => d.blocks[k].open = c.blocks[k].open
  BY DEF Stopped
<1>4. ~t.thinkingStarted /\ ~t.textStarted
  BY <1>1 DEF InStep
<1>5. SameTools(s, c, t, d)
  BY <1>1, <1>3 DEF SameTools, InStep
<1>6. ASSUME NEW k \in 1..Len(d.blocks), d.blocks[k].open PROVE Held(t, k, 0)
  <2>1. k # i /\ Held(s, k, 0)
    BY <1>1, <1>3, <1>6 DEF InStep
  <2> QED BY <1>1, <2>1 DEF Held, InStep
<1>7. ASSUME NEW j \in 1..Len(t.tools), t.tools[j].started
      PROVE  OpenAs(d, t.tools[j].block, "tool_use") /\ t.tools[j].block + 1 \in 1..Len(d.blocks)
  <2>1. j \in 1..Len(s.tools) /\ s.tools[j].started /\ s.tools[j] = t.tools[j] /\ 0 < j
    BY <1>7
  <2>2. OpenAs(c, s.tools[j].block, "tool_use")
    BY <1>1, <2>1 DEF InStep
  <2>3. s.tools[j].block + 1 # i
    BY <1>2, <2>2 DEF OpenAs
  <2> QED BY <1>3, <2>1, <2>2, <2>3 DEF OpenAs
<1>8. ToolsApart(t)
  BY <1>1 DEF InStep, ToolsApart
<1>9. InStep(t, d, 0)
  BY <1>1, <1>3, <1>4, <1>6, <1>7, <1>8 DEF InStep
<1> QED BY <1>3, <1>5, <1>9 DEF Ok

LEMMA StopThinkingEffect ==
  ASSUME NEW s, NEW c, Ok(s, c, 0)
  PROVE  LET t == StopThinkingBlock(s)
         IN  \E d : /\ Ok(t, d, 0) /\ SameTools(s, c, t, d) /\ ~t.thinkingStarted
                    /\ t.textStarted = s.textStarted
<1> DEFINE t == StopThinkingBlock(s)
<1>1. CASE ~s.thinkingStarted
  <2>1. t = s
    BY <1>1 DEF StopThinkingBlock
  <2> QED BY <1>1, <2>1 DEF SameTools
<1>2. CASE s.thinkingStarted
  <2> DEFINE u == BlockStop(s, s.thinking)
  <2>1. s \in Builder /\ c \in Client /\ Pending(s.out, c) /\ InStep(s, c, 0) /\ c.message = "open"
    BY DEF Ok, InStep
  <2>2. s.thinking + 1 \in 1..Len(c.blocks) /\ c.blocks[s.thinking + 1].open /\ s.thinking \in Int
    BY <1>2, <2>1, BuilderFields DEF InStep, OpenAs
  <2>3. SameFields(s, u) /\ u.next = s.next /\ \E d : Stopped(c, d, s.thinking + 1) /\ Pending(u.out, d)
    BY <2>1, <2>2, BlockStopEffect
  <2>4. PICK d : Stopped(c, d, s.thinking + 1) /\ Pending(u.out, d)
    BY <2>3
  <2> HIDE DEF u
  <2>5. t = Rec(s.next, s.thinking, s.text, FALSE, s.textStarted, s.tools, u.out)
    <3>1. t = [u EXCEPT !.thinkingStarted = FALSE]
      BY <1>2 DEF StopThinkingBlock, u
    <3>2. [u EXCEPT !.thinkingStarted = FALSE]
            = Rec(u.next, u.thinking, u.text, FALSE, u.textStarted, u.tools, u.out)
      BY <2>3, BuilderExcept DEF SameFields
    <3> QED BY <2>3, <3>1, <3>2 DEF SameFields
  <2>6. t \in Builder
    <3>1. u.out \in Seq(Event)
      BY <2>3, BuilderFields DEF SameFields
    <3>2. Rec(s.next, s.thinking, s.text, FALSE, s.textStarted, s.tools, u.out) \in Builder
      BY <2>1, <3>1, BuilderFields, RecType
    <3> QED BY <2>5, <3>2
  <2>7. /\ t.next = s.next /\ t.textStarted = s.textStarted /\ ~t.thinkingStarted
        /\ t.tools = s.tools /\ t.out = u.out
    BY <2>5 DEF Rec
  <2> HIDE DEF t
  <2>8. Ok(t, d, 0) /\ SameTools(s, c, t, d)
    BY <1>2, <2>4, <2>6, <2>7, ContentStopped
  <2> QED BY <2>7, <2>8 DEF t
<1> QED BY <1>1, <1>2

LEMMA StopTextEffect ==
  ASSUME NEW s, NEW c, Ok(s, c, 0)
  PROVE  LET t == StopTextBlock(s)
         IN  \E d : /\ Ok(t, d, 0) /\ SameTools(s, c, t, d) /\ ~t.textStarted
                    /\ t.thinkingStarted = s.thinkingStarted
<1> DEFINE t == StopTextBlock(s)
<1>1. CASE ~s.textStarted
  <2>1. t = s
    BY <1>1 DEF StopTextBlock
  <2> QED BY <1>1, <2>1 DEF SameTools
<1>2. CASE s.textStarted
  <2> DEFINE u == BlockStop(s, s.text)
  <2>1. s \in Builder /\ c \in Client /\ Pending(s.out, c) /\ InStep(s, c, 0) /\ c.message = "open"
    BY DEF Ok, InStep
  <2>2. s.text + 1 \in 1..Len(c.blocks) /\ c.blocks[s.text + 1].open /\ s.text \in Int
    BY <1>2, <2>1, BuilderFields DEF InStep, OpenAs
  <2>3. SameFields(s, u) /\ u.next = s.next /\ \E d : Stopped(c, d, s.text + 1) /\ Pending(u.out, d)
    BY <2>1, <2>2, BlockStopEffect
  <2>4. PICK d : Stopped(c, d, s.text + 1) /\ Pending(u.out, d)
    BY <2>3
  <2> HIDE DEF u
  <2>5. t = Rec(s.next, s.thinking, s.text, s.thinkingStarted, FALSE, s.tools, u.out)
    <3>1. t = [u EXCEPT !.textStarted = FALSE]
      BY <1>2 DEF StopTextBlock, u
    <3>2. [u EXCEPT !.textStarted = FALSE]
            = Rec(u.next, u.thinking, u.text, u.thinkingStarted, FALSE, u.tools, u.out)
      BY <2>3, BuilderExcept DEF SameFields
    <3> QED BY <2>3, <3>1, <3>2 DEF SameFields
  <2>6. t \in Builder
    <3>1. u.out \in Seq(Event)
      BY <2>3, BuilderFields DEF SameFields
    <3>2. Rec(s.next, s.thinking, s.text, s.thinkingStarted, FALSE, s.tools, u.out) \in Builder
      BY <2>1, <3>1, BuilderFields, RecType
    <3> QED BY <2>5, <3>2
  <2>7. /\ t.next = s.next /\ t.thinkingStarted = s.thinkingStarted /\ ~t.textStarted
        /\ t.tools = s.tools /\ t.out = u.out
    BY <2>5 DEF Rec
  <2> HIDE DEF t
  <2>8. Ok(t, d, 0) /\ SameTools(s, c, t, d)
    BY <1>2, <2>4, <2>6, <2>7, ContentStopped
  <2> QED BY <2>7, <2>8 DEF t
<1> QED BY <1>1, <1>2

LEMMA CloseContentEffect ==
  ASSUME NEW s, NEW c, Ok(s, c, 0)
  PROVE  \E d : Ok(CloseContentBlocks(s), d, 0) /\ SameTools(s, c, CloseContentBlocks(s), d)
                /\ Idle(CloseContentBlocks(s))
<1> DEFINE t == StopThinkingBlock(s)
<1>1. PICK d : Ok(t, d, 0) /\ SameTools(s, c, t, d) /\ ~t.thinkingStarted
  BY StopThinkingEffect
<1> HIDE DEF t
<1> DEFINE u == StopTextBlock(t)
<1>2. PICK e : Ok(u, e, 0) /\ SameTools(t, d, u, e) /\ ~u.textStarted /\ u.thinkingStarted = t.thinkingStarted
  BY <1>1, StopTextEffect
<1>3. u = CloseContentBlocks(s)
  BY DEF CloseContentBlocks, t
<1> HIDE DEF u
<1>4. SameTools(s, c, u, e)
  BY <1>1, <1>2, SameToolsTwice
<1> QED BY <1>1, <1>2, <1>3, <1>4 DEF Idle

-----------------------------------------------------------------------------
(* Thinking, text, and blocks that are written at once.                    *)

LEMMA NoName == <<>> \in Announceable
<1>1. Task \in ToolName /\ Task \in Seq(STRING)
  BY NameAssumption
<1>2. 0 \in 0..Len(Task) /\ SubSeq(Task, 1, 0) = <<>>
  BY <1>1
<1>3. <<>> \in {SubSeq(Task, 1, k) : k \in 0..Len(Task)}
  BY <1>2
<1> QED BY <1>1, <1>3 DEF Announceable

(* A block of thinking or text is started.                                 *)
LEMMA ContentStarted ==
  ASSUME NEW s, NEW c, Ok(s, c, 0), Idle(s), NEW t \in Builder, NEW d, NEW kind,
         \/ kind = "thinking" /\ t.thinkingStarted /\ t.thinking = s.next /\ ~t.textStarted
         \/ kind = "text" /\ t.textStarted /\ t.text = s.next /\ ~t.thinkingStarted,
         t.next = s.next + 1, t.tools = s.tools, Begun(c, d, kind, <<>>), Pending(t.out, d)
  PROVE  Ok(t, d, 0) /\ SameTools(s, c, t, d)
<1> DEFINE n == Len(c.blocks)
<1>1. InStep(s, c, 0) /\ n = s.next /\ n \in Nat
  BY ClientFields DEF Ok, InStep
<1>2. /\ d \in Client /\ d.message = "open" /\ Len(d.blocks) = n + 1
      /\ \A i \in 1..n : d.blocks[i] = c.blocks[i]
      /\ d.blocks[n + 1].open /\ d.blocks[n + 1].kind = kind
  BY DEF Begun
<1>3. SameTools(s, c, t, d)
  BY <1>1, <1>2 DEF SameTools, InStep
<1>4. OpenAs(d, n, kind)
  BY <1>1, <1>2 DEF OpenAs
<1>5. ASSUME NEW i \in 1..Len(d.blocks), d.blocks[i].open PROVE Held(t, i, 0)
  <2>1. CASE i = n + 1
    BY <1>1, <2>1 DEF Held
  <2>2. CASE i \in 1..n
    <3>1. Held(s, i, 0)
      BY <1>1, <1>2, <1>5, <2>2 DEF InStep
    <3> QED BY <3>1 DEF Held, Idle
  <2> QED BY <1>1, <1>2, <2>1, <2>2
<1>6. ASSUME NEW j \in 1..Len(t.tools), t.tools[j].started
      PROVE  OpenAs(d, t.tools[j].block, "tool_use") /\ t.tools[j].block + 1 \in 1..Len(d.blocks)
  <2>1. j \in 1..Len(s.tools) /\ s.tools[j].started /\ s.tools[j] = t.tools[j] /\ 0 < j
    BY <1>6
  <2>2. OpenAs(c, s.tools[j].block, "tool_use")
    BY <1>1, <2>1 DEF InStep
  <2>3. s.tools[j].block + 1 \in 1..n /\ s.tools[j].block + 1 \in 1..(n + 1)
    BY <1>1, <2>2 DEF OpenAs
  <2> HIDE DEF n
  <2>4. d.blocks[s.tools[j].block + 1] = c.blocks[s.tools[j].block + 1]
    BY <1>2, <2>3
  <2> QED BY <1>2, <2>1, <2>2, <2>3, <2>4 DEF OpenAs
<1>7. ToolsApart(t)
  BY <1>1 DEF InStep, ToolsApart
<1> HIDE DEF n
<1>8. InStep(t, d, 0)
  BY <1>1, <1>2, <1>4, <1>5, <1>6, <1>7 DEF InStep
<1> QED BY <1>2, <1>3, <1>8 DEF Ok

(* A delta opens and closes nothing.                                       *)
LEMMA DeltaOk ==
  ASSUME NEW s, NEW c, NEW m \in Nat, Ok(s, c, m), NEW t, SameFields(s, t), t.next = s.next,
         NEW i, NEW x, NEW d, Added(c, d, i, x), Pending(t.out, d)
  PROVE  Ok(t, d, m)
<1>1. InStep(s, c, m)
  BY DEF Ok
<1>2. /\ d \in Client /\ d.message = "open" /\ Len(d.blocks) = Len(c.blocks)
      /\ \A k \in 1..Len(c.blocks) : d.blocks[k].kind = c.blocks[k].kind
                                     /\ d.blocks[k].open = c.blocks[k].open
  BY DEF Added
<1>3. /\ t \in Builder /\ t.thinking = s.thinking /\ t.text = s.text /\ t.tools = s.tools
      /\ t.thinkingStarted = s.thinkingStarted /\ t.textStarted = s.textStarted
  BY DEF SameFields
<1>4. \A n, kind : OpenAs(c, n, kind) => OpenAs(d, n, kind)
  BY <1>2 DEF OpenAs
<1>5. \A n : Held(s, n, m) => Held(t, n, m)
  BY <1>3 DEF Held
<1>6. ToolsApart(t)
  BY <1>1, <1>3 DEF InStep, ToolsApart
<1>7. InStep(t, d, m)
  BY <1>1, <1>2, <1>3, <1>4, <1>5, <1>6 DEF InStep
<1> QED BY <1>2, <1>3, <1>7 DEF Ok

(* A delta of thinking or text does not touch the tool calls.              *)
LEMMA ContentDelta ==
  ASSUME NEW s, NEW c, Ok(s, c, 0), NEW n, NEW x \in Content,
         (s.thinkingStarted /\ n = s.thinking) \/ (s.textStarted /\ n = s.text)
  PROVE  \E d : Ok(BlockDelta(s, n, x), d, 0) /\ SameTools(s, c, BlockDelta(s, n, x), d)
<1> DEFINE t == BlockDelta(s, n, x)
<1>1. s \in Builder /\ c \in Client /\ Pending(s.out, c) /\ InStep(s, c, 0) /\ c.message = "open"
  BY DEF Ok, InStep
<1>2. n + 1 \in 1..Len(c.blocks) /\ c.blocks[n + 1].open /\ c.blocks[n + 1].kind # "tool_use"
      /\ n \in Int
  BY <1>1, BuilderFields DEF InStep, OpenAs
<1>3. SameFields(s, t) /\ t.next = s.next /\ \E d : Added(c, d, n + 1, x) /\ Pending(t.out, d)
  BY <1>1, <1>2, BlockDeltaEffect
<1>4. PICK d : Added(c, d, n + 1, x) /\ Pending(t.out, d)
  BY <1>3
<1> HIDE DEF t
<1>5. Ok(t, d, 0)
  BY <1>3, <1>4, DeltaOk
<1>6. SameTools(s, c, t, d)
  <2>1. ASSUME NEW j \in 1..Len(s.tools), s.tools[j].started
        PROVE  /\ s.tools[j].block + 1 \in 1..Len(c.blocks) /\ s.tools[j].block + 1 # n + 1
    <3>1. OpenAs(c, s.tools[j].block, "tool_use")
      BY <1>1, <2>1 DEF InStep
    <3> QED BY <1>2, <3>1 DEF OpenAs
  <2> QED BY <1>3, <1>4, <2>1 DEF SameTools, SameFields, Added
<1> QED BY <1>5, <1>6 DEF t

LEMMA ThinkingEffect ==
  ASSUME NEW s, NEW c, Ok(s, c, 0), NEW x \in Content
  PROVE  \E d : Ok(EmitThinkingDelta(EnsureThinkingBlock(s), x), d, 0)
                /\ SameTools(s, c, EmitThinkingDelta(EnsureThinkingBlock(s), x), d)
<1> DEFINE t == StopTextBlock(s)
<1>1. PICK d : Ok(t, d, 0) /\ SameTools(s, c, t, d) /\ ~t.textStarted
  BY StopTextEffect
<1> DEFINE u == EnsureThinkingBlock(s)
<1>2. u = IF t.thinkingStarted THEN t
          ELSE [BlockStart(t, "thinking", <<>>) EXCEPT !.thinking = t.next, !.thinkingStarted = TRUE]
  BY DEF EnsureThinkingBlock
<1> HIDE DEF t
<1>3. \E e : Ok(u, e, 0) /\ SameTools(t, d, u, e) /\ u.thinkingStarted
  <2>1. CASE t.thinkingStarted
    <3>1. u = t
      BY <1>2, <2>1
    <3> HIDE DEF u
    <3> QED BY <1>1, <2>1, <3>1 DEF SameTools
  <2>2. CASE ~t.thinkingStarted
    <3> DEFINE v == BlockStart(t, "thinking", <<>>)
    <3>1. t \in Builder /\ d \in Client /\ Pending(t.out, d) /\ d.message = "open"
          /\ Len(d.blocks) = t.next /\ Idle(t)
      BY <1>1, <2>2 DEF Ok, InStep, Idle
    <3>2. ~Writes(d)
      BY <1>1, <3>1, IdleIsQuiet
    <3>3. SameFields(t, v) /\ v.next = t.next + 1
          /\ \E e : Begun(d, e, "thinking", <<>>) /\ Pending(v.out, e)
      BY <3>1, <3>2, NoName, BlockStartEffect DEF Kind
    <3>4. PICK e : Begun(d, e, "thinking", <<>>) /\ Pending(v.out, e)
      BY <3>3
    <3>5. u = [v EXCEPT !.thinking = t.next, !.thinkingStarted = TRUE]
      BY <1>2, <2>2
    <3> HIDE DEF u, v
    <3> DEFINE w == Rec(v.next, t.next, v.text, v.thinkingStarted, v.textStarted, v.tools, v.out)
    <3>6. v \in Builder /\ t.next \in Int
      BY <3>1, <3>3, BuilderFields DEF SameFields
    <3>7. [v EXCEPT !.thinking = t.next] = w
      BY <3>6, BuilderExcept
    <3>8. w \in Builder
      BY <3>6, BuilderFields, RecType
    <3>9. u = [w EXCEPT !.thinkingStarted = TRUE]
      BY <3>5, <3>7
    <3>10. w.next = v.next /\ w.thinking = t.next /\ w.text = v.text /\ w.textStarted = v.textStarted
           /\ w.tools = v.tools /\ w.out = v.out
      BY DEF Rec
    <3> HIDE DEF w
    <3>11. u = Rec(w.next, w.thinking, w.text, TRUE, w.textStarted, w.tools, w.out)
      BY <3>8, <3>9, BuilderExcept
    <3>12. u \in Builder
      <4>1. Rec(w.next, w.thinking, w.text, TRUE, w.textStarted, w.tools, w.out) \in Builder
        BY <3>8, BuilderFields, RecType
      <4> QED BY <3>11, <4>1
    <3>13. /\ u.next = t.next + 1 /\ u.thinking = t.next /\ u.thinkingStarted /\ u.tools = t.tools
           /\ u.textStarted = t.textStarted /\ u.out = v.out
      BY <3>3, <3>10, <3>11 DEF Rec, SameFields
    <3>14. ~u.textStarted
      BY <1>1, <3>13
    <3>15. Ok(u, e, 0) /\ SameTools(t, d, u, e)
      BY <1>1, <3>1, <3>4, <3>12, <3>13, <3>14, ContentStarted
    <3> QED BY <3>13, <3>15
  <2> QED BY <2>1, <2>2
<1>4. PICK e : Ok(u, e, 0) /\ SameTools(t, d, u, e) /\ u.thinkingStarted
  BY <1>3
<1> HIDE DEF u
<1> DEFINE v == BlockDelta(u, u.thinking, x)
<1>5. \E f : Ok(v, f, 0) /\ SameTools(u, e, v, f)
  BY <1>4, ContentDelta
<1>6. v = EmitThinkingDelta(EnsureThinkingBlock(s), x)
  BY DEF u, EmitThinkingDelta
<1> HIDE DEF v
<1>7. PICK f : Ok(v, f, 0) /\ SameTools(u, e, v, f)
  BY <1>5
<1>8. SameTools(s, c, v, f)
  BY <1>1, <1>4, <1>7, SameToolsTwice
<1> QED BY <1>6, <1>7, <1>8

LEMMA TextEffect ==
  ASSUME NEW s, NEW c, Ok(s, c, 0), NEW x \in Content
  PROVE  \E d : Ok(EmitTextDelta(EnsureTextBlock(s), x), d, 0)
                /\ SameTools(s, c, EmitTextDelta(EnsureTextBlock(s), x), d)
<1> DEFINE t == StopThinkingBlock(s)
<1>1. PICK d : Ok(t, d, 0) /\ SameTools(s, c, t, d) /\ ~t.thinkingStarted
  BY StopThinkingEffect
<1> DEFINE u == EnsureTextBlock(s)
<1>2. u = IF t.textStarted THEN t
          ELSE [BlockStart(t, "text", <<>>) EXCEPT !.text = t.next, !.textStarted = TRUE]
  BY DEF EnsureTextBlock
<1> HIDE DEF t
<1>3. \E e : Ok(u, e, 0) /\ SameTools(t, d, u, e) /\ u.textStarted
  <2>1. CASE t.textStarted
    <3>1. u = t
      BY <1>2, <2>1
    <3> HIDE DEF u
    <3> QED BY <1>1, <2>1, <3>1 DEF SameTools
  <2>2. CASE ~t.textStarted
    <3> DEFINE v == BlockStart(t, "text", <<>>)
    <3>1. t \in Builder /\ d \in Client /\ Pending(t.out, d) /\ d.message = "open"
          /\ Len(d.blocks) = t.next /\ Idle(t)
      BY <1>1, <2>2 DEF Ok, InStep, Idle
    <3>2. ~Writes(d)
      BY <1>1, <3>1, IdleIsQuiet
    <3>3. SameFields(t, v) /\ v.next = t.next + 1
          /\ \E e : Begun(d, e, "text", <<>>) /\ Pending(v.out, e)
      BY <3>1, <3>2, NoName, BlockStartEffect DEF Kind
    <3>4. PICK e : Begun(d, e, "text", <<>>) /\ Pending(v.out, e)
      BY <3>3
    <3>5. u = [v EXCEPT !.text = t.next, !.textStarted = TRUE]
      BY <1>2, <2>2
    <3> HIDE DEF u, v
    <3> DEFINE w == Rec(v.next, v.thinking, t.next, v.thinkingStarted, v.textStarted, v.tools, v.out)
    <3>6. v \in Builder /\ t.next \in Int
      BY <3>1, <3>3, BuilderFields DEF SameFields
    <3>7. [v EXCEPT !.text = t.next] = w
      BY <3>6, BuilderExcept
    <3>8. w \in Builder
      BY <3>6, BuilderFields, RecType
    <3>9. u = [w EXCEPT !.textStarted = TRUE]
      BY <3>5, <3>7
    <3>10. w.next = v.next /\ w.text = t.next /\ w.thinking = v.thinking
           /\ w.thinkingStarted = v.thinkingStarted /\ w.tools = v.tools /\ w.out = v.out
      BY DEF Rec
    <3> HIDE DEF w
    <3>11. u = Rec(w.next, w.thinking, w.text, w.thinkingStarted, TRUE, w.tools, w.out)
      BY <3>8, <3>9, BuilderExcept
    <3>12. u \in Builder
      <4>1. Rec(w.next, w.thinking, w.text, w.thinkingStarted, TRUE, w.tools, w.out) \in Builder
        BY <3>8, BuilderFields, RecType
      <4> QED BY <3>11, <4>1
    <3>13. /\ u.next = t.next + 1 /\ u.text = t.next /\ u.textStarted /\ u.tools = t.tools
           /\ u.thinkingStarted = t.thinkingStarted /\ u.out = v.out
      BY <3>3, <3>10, <3>11 DEF Rec, SameFields
    <3>14. ~u.thinkingStarted
      BY <1>1, <3>13
    <3>15. Ok(u, e, 0) /\ SameTools(t, d, u, e)
      BY <1>1, <3>1, <3>4, <3>12, <3>13, <3>14, ContentStarted
    <3> QED BY <3>13, <3>15
  <2> QED BY <2>1, <2>2
<1>4. PICK e : Ok(u, e, 0) /\ SameTools(t, d, u, e) /\ u.textStarted
  BY <1>3
<1> HIDE DEF u
<1> DEFINE v == BlockDelta(u, u.text, x)
<1>5. \E f : Ok(v, f, 0) /\ SameTools(u, e, v, f)
  BY <1>4, ContentDelta
<1>6. v = EmitTextDelta(EnsureTextBlock(s), x)
  BY DEF u, EmitTextDelta
<1> HIDE DEF v
<1>7. PICK f : Ok(v, f, 0) /\ SameTools(u, e, v, f)
  BY <1>5
<1>8. SameTools(s, c, v, f)
  BY <1>1, <1>4, <1>7, SameToolsTwice
<1> QED BY <1>6, <1>7, <1>8

(* A block that is started, filled and stopped at once.                    *)
Whole(s, kind, name, x) == BlockStop(BlockDelta(BlockStart(s, kind, name), s.next, x), s.next)

LEMMA WholeEffect ==
  ASSUME NEW s, NEW c, Ok(s, c, 0), Idle(s), NEW kind \in Kind, NEW name \in Announceable,
         NEW x \in Content
  PROVE  \E d : Ok(Whole(s, kind, name, x), d, 0) /\ SameTools(s, c, Whole(s, kind, name, x), d)
                /\ Idle(Whole(s, kind, name, x))
<1> DEFINE n == s.next
<1> DEFINE t == BlockStart(s, kind, name)
<1> DEFINE u == BlockDelta(t, n, x)
<1> DEFINE v == BlockStop(u, n)
<1>1. s \in Builder /\ c \in Client /\ Pending(s.out, c) /\ InStep(s, c, 0) /\ c.message = "open"
      /\ Len(c.blocks) = n /\ n \in Nat /\ n \in Int
  BY BuilderFields DEF Ok, InStep
<1>2. ~Writes(c)
  BY IdleIsQuiet
<1>3. SameFields(s, t) /\ t.next = n + 1 /\ \E d : Begun(c, d, kind, name) /\ Pending(t.out, d)
  BY <1>1, <1>2, BlockStartEffect
<1>4. PICK d : Begun(c, d, kind, name) /\ Pending(t.out, d)
  BY <1>3
<1> HIDE DEF t
<1>5. /\ d \in Client /\ d.message = "open" /\ Len(d.blocks) = n + 1
      /\ \A i \in 1..n : d.blocks[i] = c.blocks[i]
      /\ d.blocks[n + 1].open /\ n + 1 \in 1..Len(d.blocks)
  BY <1>1, <1>4 DEF Begun
<1>6. SameFields(t, u) /\ u.next = t.next /\ \E e : Added(d, e, n + 1, x) /\ Pending(u.out, e)
  BY <1>1, <1>3, <1>4, <1>5, BlockDeltaEffect DEF SameFields
<1>7. PICK e : Added(d, e, n + 1, x) /\ Pending(u.out, e)
  BY <1>6
<1> HIDE DEF u
<1>8. e \in Client /\ e.message = "open" /\ Len(e.blocks) = n + 1 /\ e.blocks[n + 1].open
      /\ n + 1 \in 1..Len(e.blocks)
  BY <1>5, <1>7 DEF Added
<1>9. SameFields(u, v) /\ v.next = u.next /\ \E f : Stopped(e, f, n + 1) /\ Pending(v.out, f)
  BY <1>1, <1>6, <1>7, <1>8, BlockStopEffect DEF SameFields
<1>10. PICK f : Stopped(e, f, n + 1) /\ Pending(v.out, f)
  BY <1>9
<1> HIDE DEF v
<1>11. SameFields(s, v) /\ v.next = n + 1
  BY <1>3, <1>6, <1>9 DEF SameFields
<1> HIDE DEF n
<1>12. /\ f \in Client /\ f.message = "open" /\ Len(f.blocks) = n + 1 /\ ~f.blocks[n + 1].open
       /\ \A i \in 1..n : /\ f.blocks[i].kind = c.blocks[i].kind /\ f.blocks[i].name = c.blocks[i].name
                          /\ f.blocks[i].open = c.blocks[i].open
                          /\ f.blocks[i].deltas = c.blocks[i].deltas
  <2>1. \A i \in 1..n : i \in 1..(n + 1) /\ i # n + 1
    BY <1>1
  <2> QED BY <1>5, <1>7, <1>8, <1>10, <2>1 DEF Added, Stopped
<1>13. SameTools(s, c, v, f)
  BY <1>1, <1>11, <1>12 DEF SameTools, SameFields, InStep
<1>14. InStep(v, f, 0)
  <2>1. ASSUME NEW i \in 1..Len(f.blocks), f.blocks[i].open PROVE Held(v, i, 0)
    <3>1. i \in 1..n
      BY <1>1, <1>12, <2>1
    <3>2. Held(s, i, 0)
      BY <1>1, <1>12, <2>1, <3>1 DEF InStep
    <3> QED BY <1>11, <3>2 DEF Held, SameFields
  <2>2. ASSUME NEW j \in 1..Len(v.tools), v.tools[j].started
        PROVE  OpenAs(f, v.tools[j].block, "tool_use") /\ v.tools[j].block + 1 \in 1..Len(f.blocks)
    <3>1. j \in 1..Len(s.tools) /\ s.tools[j].started /\ s.tools[j] = v.tools[j] /\ 0 < j
      BY <1>11, <2>2 DEF SameFields
    <3> DEFINE y == s.tools[j].block
    <3>2. OpenAs(c, y, "tool_use")
      BY <1>1, <3>1 DEF InStep
    <3> HIDE DEF y
    <3>3. y + 1 \in 1..n /\ y + 1 \in 1..(n + 1) /\ c.blocks[y + 1].open /\ c.blocks[y + 1].kind = "tool_use"
      BY <1>1, <3>2 DEF OpenAs
    <3>4. f.blocks[y + 1].open /\ f.blocks[y + 1].kind = "tool_use"
      BY <1>12, <3>3
    <3>5. OpenAs(f, y, "tool_use") /\ y + 1 \in 1..Len(f.blocks)
      BY <1>12, <3>3, <3>4 DEF OpenAs
    <3> QED BY <3>1, <3>5 DEF y
  <2>3. ToolsApart(v)
    BY <1>1, <1>11 DEF InStep, ToolsApart, SameFields
  <2>4. ~v.thinkingStarted /\ ~v.textStarted
    BY <1>11 DEF SameFields, Idle
  <2> QED BY <1>11, <1>12, <2>1, <2>2, <2>3, <2>4 DEF InStep
<1>15. Ok(v, f, 0) /\ Idle(v)
  BY <1>10, <1>11, <1>12, <1>14 DEF Ok, SameFields, Idle
<1> QED BY <1>13, <1>15 DEF v, u, t, n, Whole

-----------------------------------------------------------------------------
(* What the generator makes of text, of an error and of the end.           *)

LEMMA PrefixFields ==
  ASSUME NEW S, NEW p \in Seq(S), NEW q \in Seq(S)
  PROVE  /\ Len(p) \in Nat /\ Len(q) \in Nat
         /\ IsPrefix(p, q) <=> Len(p) <= Len(q) /\ \A k \in 1..Len(p) : p[k] = q[k]
         /\ IsPrefix(p, q) => p = SubSeq(q, 1, Len(p))
<1>1. Len(p) \in Nat /\ Len(q) \in Nat
  OBVIOUS
<1>2. p = SubSeq(p, 1, Len(p))
  OBVIOUS
<1>3. ASSUME Len(p) <= Len(q)
      PROVE  SubSeq(p, 1, Len(p)) = SubSeq(q, 1, Len(p)) <=> \A k \in 1..Len(p) : p[k] = q[k]
  <2> DEFINE r == SubSeq(q, 1, Len(p))
  <2>1. Len(r) = Len(p) /\ r \in Seq(S) /\ \A k \in 1..Len(p) : r[k] = q[k]
    BY <1>1, <1>3
  <2> HIDE DEF r
  <2>2. p = r <=> \A k \in 1..Len(p) : p[k] = r[k]
    BY <2>1, SeqEqual
  <2>3. p = r <=> \A k \in 1..Len(p) : p[k] = q[k]
    BY <2>1, <2>2
  <2> QED BY <1>2, <2>3 DEF r
<1> QED BY <1>1, <1>2, <1>3 DEF IsPrefix

LEMMA NamePrefix ==
  ASSUME NEW p \in Seq(STRING), NEW q \in Seq(STRING)
  PROVE  /\ Len(p) \in Nat /\ Len(q) \in Nat
         /\ IsPrefix(p, q) => /\ Len(p) <= Len(q) /\ \A k \in 1..Len(p) : p[k] = q[k]
                              /\ p = SubSeq(q, 1, Len(p))
         /\ Len(p) <= Len(q) /\ (\A k \in 1..Len(p) : p[k] = q[k]) => IsPrefix(p, q)
         /\ Len(p) = 0 => IsPrefix(p, q)
<1>1. /\ Len(p) \in Nat /\ Len(q) \in Nat
      /\ IsPrefix(p, q) <=> Len(p) <= Len(q) /\ \A k \in 1..Len(p) : p[k] = q[k]
      /\ IsPrefix(p, q) => p = SubSeq(q, 1, Len(p))
  BY PrefixFields
<1>2. Len(p) = 0 => Len(p) <= Len(q) /\ \A k \in 1..Len(p) : p[k] = q[k]
  BY <1>1
<1> QED BY <1>1, <1>2

LEMMA NamesAnnounceable ==
  /\ ToolCallName \in Announceable /\ ToolName \subseteq Announceable
  /\ \A n \in ToolName : \A p \in Seq(STRING) : IsPrefix(p, n) => p \in Announceable
<1>1. ToolName \subseteq Seq(STRING)
  BY NameAssumption
<1>2. ASSUME NEW n \in ToolName, NEW k \in 0..Len(n) PROVE SubSeq(n, 1, k) \in Announceable
  <2>1. SubSeq(n, 1, k) \in {SubSeq(n, 1, i) : i \in 0..Len(n)}
    OBVIOUS
  <2> QED BY <2>1 DEF Announceable
<1>3. ASSUME NEW n \in ToolName, NEW p \in Seq(STRING), IsPrefix(p, n) PROVE p \in Announceable
  <2>1. n \in Seq(STRING)
    BY <1>1
  <2>2. p = SubSeq(n, 1, Len(p)) /\ Len(p) \in 0..Len(n)
    BY <1>3, <2>1, PrefixFields
  <2> QED BY <1>2, <2>2
<1>4. ASSUME NEW n \in ToolName PROVE n \in Announceable
  <2>1. n \in Seq(STRING)
    BY <1>1
  <2>2. IsPrefix(n, n)
    BY <2>1, PrefixFields
  <2> QED BY <1>3, <2>1, <2>2
<1> QED BY <1>3, <1>4 DEF Announceable

LEMMA FailedEffect ==
  ASSUME NEW s, NEW c, Ok(s, c, 0)
  PROVE  \E d : Ok(Failed(s), d, 0) /\ SameTools(s, c, Failed(s), d)
<1> DEFINE t == CloseContentBlocks(s)
<1>1. Failed(s) = Whole(t, "text", <<>>, "error")
  BY DEF Failed, EmitError, Whole
<1>2. PICK d : Ok(t, d, 0) /\ SameTools(s, c, t, d) /\ Idle(t)
  BY CloseContentEffect
<1> HIDE DEF t
<1>3. "text" \in Kind /\ "error" \in Content
  BY DEF Kind, Content
<1> DEFINE u == Whole(t, "text", <<>>, "error")
<1>4. \E e : Ok(u, e, 0) /\ SameTools(t, d, u, e)
  BY <1>2, <1>3, NoName, WholeEffect
<1> HIDE DEF u
<1>5. \E e : Ok(u, e, 0) /\ SameTools(s, c, u, e)
  BY <1>2, <1>4, SameToolsTwice
<1> QED BY <1>1, <1>5 DEF u

LEMMA TextualEffect ==
  ASSUME NEW s, NEW c, Ok(s, c, 0), NEW name \in ToolName
  PROVE  \E d : Ok(TextualToolCall(s, name), d, 0) /\ SameTools(s, c, TextualToolCall(s, name), d)
<1> DEFINE t == CloseContentBlocks(s)
<1>1. TextualToolCall(s, name) = Whole(t, "tool_use", name, "input")
  BY DEF TextualToolCall, Whole
<1>2. PICK d : Ok(t, d, 0) /\ SameTools(s, c, t, d) /\ Idle(t)
  BY CloseContentEffect
<1> HIDE DEF t
<1>3. "tool_use" \in Kind /\ "input" \in Content /\ name \in Announceable
  BY NamesAnnounceable DEF Kind, Content
<1> DEFINE u == Whole(t, "tool_use", name, "input")
<1>4. \E e : Ok(u, e, 0) /\ SameTools(t, d, u, e)
  BY <1>2, <1>3, WholeEffect
<1> HIDE DEF u
<1>5. \E e : Ok(u, e, 0) /\ SameTools(s, c, u, e)
  BY <1>2, <1>4, SameToolsTwice
<1> QED BY <1>1, <1>5 DEF u

(* What the parsers had kept back, and the filler.                         *)
LEMMA RestEffect ==
  ASSUME NEW s, NEW c, Ok(s, c, 0), NEW rest \in {"", "thinking", "text"},
         NEW calls \in {<<>>, <<Task>>}
  PROVE  LET t == FlushRest(s, rest)
             u == FillEmpty(IF calls = <<>> THEN t ELSE TextualToolCall(t, Task))
         IN  \E d : Ok(u, d, 0) /\ SameTools(s, c, u, d)
<1> DEFINE t == FlushRest(s, rest)
<1> DEFINE u == IF calls = <<>> THEN t ELSE TextualToolCall(t, Task)
<1> DEFINE v == FillEmpty(u)
<1>0. SameTools(s, c, s, c)
  BY DEF SameTools
<1>1. \E d : Ok(t, d, 0) /\ SameTools(s, c, t, d)
  <2>1. rest \in {"thinking", "text"} => rest \in Content
    BY DEF Content
  <2>2. \/ rest = "thinking" /\ t = EmitThinkingDelta(EnsureThinkingBlock(s), rest)
        \/ rest = "text" /\ t = EmitTextDelta(EnsureTextBlock(s), rest)
        \/ t = s
    BY DEF FlushRest
  <2> HIDE DEF t
  <2>3. CASE rest = "thinking" /\ t = EmitThinkingDelta(EnsureThinkingBlock(s), rest)
    BY <2>1, <2>3, ThinkingEffect
  <2>4. CASE rest = "text" /\ t = EmitTextDelta(EnsureTextBlock(s), rest)
    BY <2>1, <2>4, TextEffect
  <2>5. CASE t = s
    BY <1>0, <2>5
  <2> QED BY <2>2, <2>3, <2>4, <2>5
<1> HIDE DEF t
<1>2. PICK d : Ok(t, d, 0) /\ SameTools(s, c, t, d)
  BY <1>1
<1>3. \E e : Ok(u, e, 0) /\ SameTools(s, c, u, e)
  <2>1. CASE calls = <<>>
    BY <1>2, <2>1
  <2>2. CASE calls # <<>>
    <3> DEFINE w == TextualToolCall(t, Task)
    <3>1. \E e : Ok(w, e, 0) /\ SameTools(t, d, w, e)
      BY <1>2, NameAssumption, TextualEffect
    <3>2. u = w
      BY <2>2
    <3> HIDE DEF w, u
    <3> QED BY <1>2, <3>1, <3>2, SameToolsTwice
  <2> QED BY <2>1, <2>2
<1> HIDE DEF u
<1>4. PICK e : Ok(u, e, 0) /\ SameTools(s, c, u, e)
  BY <1>3
<1>5. \E f : Ok(v, f, 0) /\ SameTools(s, c, v, f)
  <2> DEFINE w == EmitTextDelta(EnsureTextBlock(u), " ")
  <2>1. v = u \/ v = w
    BY DEF FillEmpty
  <2>2. " " \in Content
    BY DEF Content
  <2>3. \E f : Ok(w, f, 0) /\ SameTools(u, e, w, f)
    BY <1>4, <2>2, TextEffect
  <2> HIDE DEF w, v
  <2>4. \E f : Ok(w, f, 0) /\ SameTools(s, c, w, f)
    BY <1>4, <2>3, SameToolsTwice
  <2>5. CASE v = u
    BY <1>4, <2>5
  <2>6. CASE v = w
    BY <2>4, <2>6
  <2> QED BY <2>1, <2>5, <2>6
<1> QED BY <1>5 DEF t, u

-----------------------------------------------------------------------------
(* Changes to the tool calls.                                              *)

LEMMA CallFields ==
  ASSUME NEW t \in Call
  PROVE  /\ t.index \in Int /\ t.block \in Int /\ t.name \in Seq(STRING) /\ t.started \in BOOLEAN
         /\ t.buffer \in Seq(Piece) /\ t.emitted \in BOOLEAN
BY DEF Call

ToolRec(index, block, name, started, buffer, emitted) ==
  [index |-> index, block |-> block, name |-> name, started |-> started, buffer |-> buffer,
   emitted |-> emitted]

LEMMA ToolRecType ==
  ASSUME NEW i \in Int, NEW b \in Int, NEW n \in Seq(STRING), NEW st \in BOOLEAN,
         NEW bf \in Seq(Piece), NEW em \in BOOLEAN
  PROVE  ToolRec(i, b, n, st, bf, em) \in Call
BY DEF Call, ToolRec

LEMMA CallExcept ==
  ASSUME NEW t \in Call, NEW x
  PROVE  /\ [t EXCEPT !.block = x] = ToolRec(t.index, x, t.name, t.started, t.buffer, t.emitted)
         /\ [t EXCEPT !.name = x] = ToolRec(t.index, t.block, x, t.started, t.buffer, t.emitted)
         /\ [t EXCEPT !.started = x] = ToolRec(t.index, t.block, t.name, x, t.buffer, t.emitted)
         /\ [t EXCEPT !.buffer = x] = ToolRec(t.index, t.block, t.name, t.started, x, t.emitted)
         /\ [t EXCEPT !.emitted = x] = ToolRec(t.index, t.block, t.name, t.started, t.buffer, x)
<1>1. [t EXCEPT !.block = x] = ToolRec(t.index, x, t.name, t.started, t.buffer, t.emitted)
  BY DEF Call, ToolRec
<1>2. [t EXCEPT !.name = x] = ToolRec(t.index, t.block, x, t.started, t.buffer, t.emitted)
  BY DEF Call, ToolRec
<1>3. [t EXCEPT !.started = x] = ToolRec(t.index, t.block, t.name, x, t.buffer, t.emitted)
  BY DEF Call, ToolRec
<1>4. [t EXCEPT !.buffer = x] = ToolRec(t.index, t.block, t.name, t.started, x, t.emitted)
  BY DEF Call, ToolRec
<1>5. [t EXCEPT !.emitted = x] = ToolRec(t.index, t.block, t.name, t.started, t.buffer, x)
  BY DEF Call, ToolRec
<1> QED BY <1>1, <1>2, <1>3, <1>4, <1>5

LEMMA ToolsOf ==
  ASSUME NEW s \in Builder
  PROVE  /\ s.tools \in Seq(Call) /\ Len(s.tools) \in Nat /\ DOMAIN s.tools = 1..Len(s.tools)
         /\ \A j \in 1..Len(s.tools) : s.tools[j] \in Call
<1>1. s.tools \in Seq(Call)
  BY BuilderFields
<1> QED BY <1>1, ElementOfSeq

(* Nothing but the tool calls is changed.                                  *)
OnlyTools(s, t) ==
  /\ t \in Builder /\ t.next = s.next /\ t.thinking = s.thinking /\ t.text = s.text
  /\ t.thinkingStarted = s.thinkingStarted /\ t.textStarted = s.textStarted /\ t.out = s.out

LEMMA ToolsSet ==
  ASSUME NEW s \in Builder, NEW q \in Seq(Call)
  PROVE  OnlyTools(s, [s EXCEPT !.tools = q]) /\ [s EXCEPT !.tools = q].tools = q
<1> DEFINE t == [s EXCEPT !.tools = q]
<1>1. t = Rec(s.next, s.thinking, s.text, s.thinkingStarted, s.textStarted, q, s.out)
  BY BuilderExcept
<1>2. t \in Builder
  <2>1. Rec(s.next, s.thinking, s.text, s.thinkingStarted, s.textStarted, q, s.out) \in Builder
    BY BuilderFields, RecType
  <2> QED BY <1>1, <2>1
<1> HIDE DEF t
<1>3. OnlyTools(s, t) /\ t.tools = q
  BY <1>1, <1>2 DEF Rec, OnlyTools
<1> QED BY <1>3 DEF t

(* The tool call at place p becomes x; a tool call is added; a tool call's *)
(* block is started.                                                       *)
WithTool(s, p, x)  == [s EXCEPT !.tools = [s.tools EXCEPT ![p] = x]]
WithMore(s, x)     == [s EXCEPT !.tools = Append(s.tools, x)]
StartAt(s, p, name) ==
  [BlockStart(s, "tool_use", name) EXCEPT !.tools[p].block = s.next, !.tools[p].started = TRUE]

LEMMA ToolSet ==
  ASSUME NEW s \in Builder, NEW p \in 1..Len(s.tools), NEW x \in Call, NEW t,
         t = WithTool(s, p, x)
  PROVE  /\ OnlyTools(s, t) /\ Len(t.tools) = Len(s.tools)
         /\ \A j \in 1..Len(s.tools) : t.tools[j] = IF j = p THEN x ELSE s.tools[j]
<1> DEFINE q == [s.tools EXCEPT ![p] = x]
<1>1. /\ q \in Seq(Call) /\ Len(q) = Len(s.tools)
      /\ \A j \in 1..Len(s.tools) : q[j] = IF j = p THEN x ELSE s.tools[j]
  BY ToolsOf, ExceptSeq
<1> HIDE DEF q
<1>2. OnlyTools(s, [s EXCEPT !.tools = q]) /\ [s EXCEPT !.tools = q].tools = q
  BY <1>1, ToolsSet
<1>3. OnlyTools(s, t) /\ t.tools = q
  BY <1>2 DEF q, WithTool
<1> QED BY <1>1, <1>3

LEMMA ToolAdded ==
  ASSUME NEW s \in Builder, NEW x \in Call, NEW t,
         t = WithMore(s, x)
  PROVE  /\ OnlyTools(s, t) /\ Len(t.tools) = Len(s.tools) + 1
         /\ \A j \in 1..Len(s.tools) : t.tools[j] = s.tools[j]
         /\ t.tools[Len(s.tools) + 1] = x
<1> DEFINE q == Append(s.tools, x)
<1>1. /\ q \in Seq(Call) /\ Len(q) = Len(s.tools) + 1 /\ q[Len(s.tools) + 1] = x
      /\ \A j \in 1..Len(s.tools) : q[j] = s.tools[j]
  BY ToolsOf, AppendProperties
<1> HIDE DEF q
<1>2. OnlyTools(s, t) /\ t.tools = q
  <2>1. OnlyTools(s, [s EXCEPT !.tools = q]) /\ [s EXCEPT !.tools = q].tools = q
    BY <1>1, ToolsSet
  <2> QED BY <2>1 DEF q, WithMore
<1> QED BY <1>1, <1>2

(* Nothing is started.                                                     *)
LEMMA QuietChange ==
  ASSUME NEW s, NEW c, NEW m \in Nat, Ok(s, c, m), NEW t, OnlyTools(s, t),
         Len(t.tools) >= Len(s.tools),
         \A j \in 1..Len(s.tools) : /\ t.tools[j].block = s.tools[j].block
                                    /\ t.tools[j].started = s.tools[j].started,
         \A j \in 1..Len(t.tools) : j \in 1..Len(s.tools) \/ ~t.tools[j].started
  PROVE  Ok(t, c, m)
<1>1. InStep(s, c, m) /\ s \in Builder /\ t \in Builder /\ Len(s.tools) \in Nat /\ Len(t.tools) \in Nat
  BY ToolsOf DEF Ok, OnlyTools
<1>2. \A j \in 1..Len(s.tools) : j \in 1..Len(t.tools)
  BY <1>1
<1>3. ASSUME NEW i, Held(s, i, m) PROVE Held(t, i, m)
  BY <1>2, <1>3 DEF Held, OnlyTools
<1>4. ToolsApart(t)
  <2> SUFFICES ASSUME NEW j \in 1..Len(t.tools), NEW k \in 1..Len(t.tools), j # k,
                      t.tools[j].started, t.tools[k].started
               PROVE  t.tools[j].block # t.tools[k].block
    BY DEF ToolsApart
  <2>1. j \in 1..Len(s.tools) /\ k \in 1..Len(s.tools)
    OBVIOUS
  <2>2. ToolsApart(s)
    BY <1>1 DEF InStep
  <2> QED BY <2>1, <2>2 DEF ToolsApart
<1>5. ASSUME NEW j \in 1..Len(t.tools), t.tools[j].started
      PROVE  /\ m < j => OpenAs(c, t.tools[j].block, "tool_use")
             /\ t.tools[j].block + 1 \in 1..Len(c.blocks)
  BY <1>1, <1>5 DEF InStep
<1>6. InStep(t, c, m)
  BY <1>1, <1>3, <1>4, <1>5 DEF InStep, OnlyTools
<1> QED BY <1>1, <1>6 DEF Ok, OnlyTools

(* The block of the tool call at place p is started.                       *)
JustStarted(s, c, u, d, p, name) ==
  /\ Ok(u, d, 0) /\ Idle(u) /\ Len(u.tools) = Len(s.tools)
  /\ \A j \in 1..Len(s.tools) : j # p => u.tools[j] = s.tools[j]
  /\ u.tools[p] = ToolRec(s.tools[p].index, s.next, s.tools[p].name, TRUE, s.tools[p].buffer,
                          s.tools[p].emitted)
  /\ \A i \in 1..Len(c.blocks) : d.blocks[i] = c.blocks[i]
  /\ d.blocks[s.next + 1].name = name /\ d.blocks[s.next + 1].deltas = <<>>

LEMMA ToolStarted ==
  ASSUME NEW s, NEW c, Ok(s, c, 0), Idle(s), NEW p \in 1..Len(s.tools), ~s.tools[p].started,
         NEW name \in Announceable, NEW u,
         u = StartAt(s, p, name)
  PROVE  \E d : JustStarted(s, c, u, d, p, name)
<1> DEFINE x == s.tools[p]
<1> DEFINE b == BlockStart(s, "tool_use", name)
<1> DEFINE y == ToolRec(x.index, s.next, x.name, TRUE, x.buffer, x.emitted)
<1>1. s \in Builder /\ c \in Client /\ Pending(s.out, c) /\ InStep(s, c, 0) /\ c.message = "open"
      /\ Len(c.blocks) = s.next /\ s.next \in Nat /\ s.next \in Int
  BY BuilderFields DEF Ok, InStep
<1>2. ~Writes(c)
  BY IdleIsQuiet
<1>3. SameFields(s, b) /\ b.next = s.next + 1 /\ \E d : Begun(c, d, "tool_use", name) /\ Pending(b.out, d)
  BY <1>1, <1>2, BlockStartEffect DEF Kind
<1>4. PICK d : Begun(c, d, "tool_use", name) /\ Pending(b.out, d)
  BY <1>3
<1> HIDE DEF b
<1>5. b \in Builder /\ b.tools = s.tools /\ x \in Call
  BY <1>1, <1>3, ToolsOf DEF SameFields
<1>6. [[x EXCEPT !.block = s.next] EXCEPT !.started = TRUE] = y /\ y \in Call
  <2> DEFINE z == ToolRec(x.index, s.next, x.name, x.started, x.buffer, x.emitted)
  <2>1. z \in Call /\ y \in Call
    BY <1>1, <1>5, CallFields, ToolRecType
  <2>2. [x EXCEPT !.block = s.next] = z
    BY <1>5, CallExcept
  <2>3. z.index = x.index /\ z.block = s.next /\ z.name = x.name /\ z.buffer = x.buffer
        /\ z.emitted = x.emitted
    BY DEF ToolRec
  <2> HIDE DEF z
  <2>4. [z EXCEPT !.started = TRUE] = ToolRec(z.index, z.block, z.name, TRUE, z.buffer, z.emitted)
    BY <2>1, CallExcept
  <2> QED BY <2>1, <2>2, <2>3, <2>4
<1>7. u = WithTool(b, p, y)
  <2>1. u = [b EXCEPT !.tools = [b.tools EXCEPT ![p] = [[b.tools[p] EXCEPT !.block = s.next] EXCEPT !.started = TRUE]]]
    BY <1>5, ToolsOf DEF Builder, b, StartAt
  <2> HIDE DEF y
  <2> QED BY <1>5, <1>6, <2>1 DEF WithTool
<1> HIDE DEF y, x
<1>8. /\ OnlyTools(b, u) /\ Len(u.tools) = Len(b.tools)
      /\ \A j \in 1..Len(b.tools) : u.tools[j] = IF j = p THEN y ELSE b.tools[j]
  <2>1. p \in 1..Len(b.tools)
    BY <1>5
  <2> QED BY <1>5, <1>6, <1>7, <2>1, ToolSet
<1>9. /\ u \in Builder /\ Len(u.tools) = Len(s.tools) /\ u.tools[p] = y /\ u.next = s.next + 1
      /\ \A j \in 1..Len(s.tools) : j # p => u.tools[j] = s.tools[j]
      /\ ~u.thinkingStarted /\ ~u.textStarted /\ u.out = b.out
  BY <1>3, <1>5, <1>8 DEF OnlyTools, SameFields, Idle
<1>10. /\ d \in Client /\ d.message = "open" /\ Len(d.blocks) = s.next + 1
       /\ \A i \in 1..Len(c.blocks) : d.blocks[i] = c.blocks[i]
       /\ d.blocks[s.next + 1] = [kind |-> "tool_use", name |-> name, open |-> TRUE, deltas |-> <<>>]
  BY <1>1, <1>4 DEF Begun
<1>11. y.block = s.next /\ y.started
  BY DEF y, ToolRec
<1>12. OpenAs(d, s.next, "tool_use") /\ s.next + 1 \in 1..Len(d.blocks)
  BY <1>1, <1>10 DEF OpenAs
<1>13. ASSUME NEW j \in 1..Len(s.tools), j # p, s.tools[j].started
       PROVE  /\ OpenAs(d, s.tools[j].block, "tool_use")
              /\ s.tools[j].block + 1 \in 1..Len(d.blocks)
              /\ s.tools[j].block # s.next
  <2>1. OpenAs(c, s.tools[j].block, "tool_use") /\ 0 < j
    BY <1>1, <1>13 DEF InStep
  <2>2. s.tools[j].block + 1 \in 1..Len(c.blocks)
    BY <2>1 DEF OpenAs
  <2>3. s.tools[j].block \in Int
    BY <1>1, ToolsOf, CallFields
  <2>4. s.tools[j].block + 1 \in 1..Len(d.blocks) /\ s.tools[j].block # s.next
    BY <1>1, <1>10, <2>2, <2>3
  <2> QED BY <1>10, <2>1, <2>2, <2>4 DEF OpenAs
<1>14. ASSUME NEW i \in 1..Len(d.blocks), d.blocks[i].open PROVE Held(u, i, 0)
  <2>1. CASE i = s.next + 1
    BY <1>9, <1>11, <2>1 DEF Held
  <2>2. CASE i \in 1..Len(c.blocks)
    <3>1. Held(s, i, 0)
      BY <1>1, <1>10, <1>14, <2>2 DEF InStep
    <3>2. PICK j \in 1..Len(s.tools) : 0 < j /\ s.tools[j].started /\ i = s.tools[j].block + 1
      BY <3>1 DEF Held, Idle
    <3>3. j # p
      BY <3>2
    <3>4. u.tools[j] = s.tools[j] /\ j \in 1..Len(u.tools)
      BY <1>9, <3>3
    <3> QED BY <3>2, <3>4 DEF Held
  <2> QED BY <1>1, <1>10, <2>1, <2>2
<1>15. ASSUME NEW j \in 1..Len(u.tools), u.tools[j].started
       PROVE  OpenAs(d, u.tools[j].block, "tool_use") /\ u.tools[j].block + 1 \in 1..Len(d.blocks)
  <2>1. CASE j = p
    BY <1>9, <1>11, <1>12, <2>1
  <2>2. CASE j # p
    BY <1>9, <1>13, <1>15, <2>2
  <2> QED BY <2>1, <2>2
<1>16. ToolsApart(u)
  <2> SUFFICES ASSUME NEW j \in 1..Len(u.tools), NEW k \in 1..Len(u.tools),
                      u.tools[j].started, u.tools[k].started, j # k
               PROVE  u.tools[j].block # u.tools[k].block
    BY DEF ToolsApart
  <2>1. CASE j = p
    BY <1>9, <1>11, <1>13, <2>1
  <2>2. CASE k = p
    BY <1>9, <1>11, <1>13, <2>2
  <2>3. CASE j # p /\ k # p
    BY <1>1, <1>9, <2>3 DEF InStep, ToolsApart
  <2> QED BY <2>1, <2>2, <2>3
<1>17. InStep(u, d, 0)
  BY <1>9, <1>10, <1>14, <1>15, <1>16 DEF InStep
<1>18. Ok(u, d, 0) /\ Idle(u)
  BY <1>4, <1>9, <1>10, <1>17 DEF Ok, Idle
<1>19. d.blocks[s.next + 1].name = name /\ d.blocks[s.next + 1].deltas = <<>>
  BY <1>10
<1> QED BY <1>9, <1>10, <1>18, <1>19 DEF y, x, JustStarted

-----------------------------------------------------------------------------
(* What a tool call has received, g, is in its block or in its buffer.     *)

Delivered(t, b, g) ==
  /\ ~t.started => t.name = <<>> /\ g = <<>> /\ t.buffer = <<>> /\ ~t.emitted
  /\ t.started /\ t.name # Task => t.buffer = <<>> /\ b.deltas = g
  /\ t.started /\ b.name = Task =>
       /\ t.name = Task
       /\ t.emitted => IsPrefix(Object, g) /\ t.buffer = <<>> /\ b.deltas = <<"patched">>
       /\ ~t.emitted => ~IsPrefix(Object, g) /\ t.buffer = g /\ b.deltas = <<>>

BlockOf(s, c, j) == c.blocks[s.tools[j].block + 1]

Args(s, c, g) ==
  /\ g \in Seq(Seq(Piece)) /\ Len(g) = Len(s.tools)
  /\ \A j \in 1..Len(s.tools) : Delivered(s.tools[j], BlockOf(s, c, j), g[j])

LEMMA SameArgs ==
  ASSUME NEW s, NEW c, NEW t, NEW d, NEW g, SameTools(s, c, t, d), Args(s, c, g)
  PROVE  Args(t, d, g)
<1> SUFFICES ASSUME NEW j \in 1..Len(s.tools)
             PROVE  Delivered(s.tools[j], BlockOf(t, d, j), g[j])
  BY DEF Args, SameTools
<1>1. Delivered(s.tools[j], BlockOf(s, c, j), g[j]) /\ t.tools = s.tools
  BY DEF Args, SameTools
<1>2. CASE ~s.tools[j].started
  BY <1>1, <1>2 DEF Delivered
<1>3. CASE s.tools[j].started
  <2>1. BlockOf(t, d, j).name = BlockOf(s, c, j).name /\ BlockOf(t, d, j).deltas = BlockOf(s, c, j).deltas
    BY <1>3 DEF SameTools, BlockOf
  <2> QED BY <1>1, <2>1 DEF Delivered
<1> QED BY <1>2, <1>3

(* The names of a call, as they come.                                      *)
LEMMA Names ==
  ASSUME NEW prev \in Seq(STRING), NEW name \in Seq(STRING), NamePossible(prev, name)
  PROVE  /\ Merged(prev, name) \in Seq(STRING)
         /\ prev = <<>> => Merged(prev, name) = name /\ name \in Announceable
         /\ prev = Task => Merged(prev, name) = Task
<1>1. PICK full \in ToolName :
        IsPrefix(prev \o name, full) \/ (IsPrefix(name, full) /\ IsPrefix(prev, full))
  BY DEF NamePossible
<1>2. full \in Seq(STRING) /\ prev \o name \in Seq(STRING)
  BY NameAssumption, ConcatProperties
<1>3. Merged(prev, name) \in Seq(STRING)
  BY <1>2 DEF Merged
<1>4. ASSUME prev = <<>> PROVE Merged(prev, name) = name /\ name \in Announceable
  <2>1. prev \o name = name
    BY <1>4, ConcatEmptySeq
  <2>2. IsPrefix(name, full)
    BY <1>1, <2>1
  <2>3. IsPrefix(prev, name)
    <3>1. Len(prev) = 0
      BY <1>4
    <3> QED BY <3>1, NamePrefix
  <2> QED BY <2>2, <2>3, NamesAnnounceable DEF Merged
<1>5. ASSUME prev = Task PROVE Merged(prev, name) = Task
  <2>1. Task \in Seq(STRING) /\ Task # <<>>
    BY NameAssumption
  <2>2. CASE IsPrefix(name, full) /\ IsPrefix(prev, full)
    <3>1. full = Task
      BY <1>5, <2>2, TaskAssumption
    <3>2. IsPrefix(Task, name) => name = Task
      <4> SUFFICES ASSUME IsPrefix(Task, name) PROVE name = Task
        OBVIOUS
      <4>1. Len(Task) <= Len(name) /\ Len(name) <= Len(Task) /\ Len(name) \in Nat /\ Len(Task) \in Nat
        BY <2>1, <2>2, <3>1, NamePrefix
      <4>2. Len(Task) = Len(name)
        BY <4>1
      <4>3. Task = SubSeq(name, 1, Len(Task)) /\ name = SubSeq(name, 1, Len(name))
        BY <2>1, NamePrefix
      <4> QED BY <4>2, <4>3
    <3> QED BY <1>5, <2>2, <3>1, <3>2 DEF Merged
  <2>3. CASE IsPrefix(prev \o name, full)
    <3>1. /\ Len(Task \o name) = Len(Task) + Len(name) /\ Len(Task) \in Nat /\ Len(name) \in Nat
          /\ \A k \in 1..Len(Task) : (Task \o name)[k] = Task[k]
      BY <2>1, ConcatProperties
    <3>2. IsPrefix(Task, full)
      <4> DEFINE both == Task \o name
      <4>0. both \in Seq(STRING) /\ IsPrefix(both, full)
        BY <1>2, <1>5, <2>3
      <4> HIDE DEF both
      <4>1. Len(both) <= Len(full) /\ \A k \in 1..Len(both) : both[k] = full[k]
        BY <1>2, <4>0, NamePrefix
      <4> USE DEF both
      <4>2. \A k \in 1..Len(Task) : k \in 1..Len(Task \o name)
        BY <3>1
      <4>3. Len(Task) <= Len(full)
        BY <1>2, <3>1, <4>1
      <4> QED BY <1>2, <2>1, <3>1, <4>1, <4>2, <4>3, NamePrefix
    <3>3. full = Task
      BY <3>2, TaskAssumption
    <3>4. Len(name) = 0
      <4>1. Len(Task \o name) <= Len(Task)
        BY <1>2, <1>5, <2>3, <3>3, NamePrefix
      <4> QED BY <3>1, <4>1
    <3>5. name = <<>>
      BY <3>4, EmptySeq
    <3>6. ~IsPrefix(Task, name)
      <4>1. Len(Task) # 0
        BY <2>1, EmptySeq
      <4>2. ~(Len(Task) <= Len(name))
        BY <3>1, <3>4, <4>1
      <4> QED BY <2>1, <4>2, NamePrefix
    <3>7. IsPrefix(name, Task)
      BY <2>1, <3>1, <3>4, NamePrefix
    <3> QED BY <1>5, <3>6, <3>7 DEF Merged
  <2> QED BY <1>1, <2>2, <2>3
<1> QED BY <1>3, <1>4, <1>5

-----------------------------------------------------------------------------
(* The place of a tool call.                                               *)

SamePlaces(s, t) ==
  Len(t.tools) = Len(s.tools) /\ \A j \in 1..Len(s.tools) : t.tools[j].index = s.tools[j].index

LEMMA SamePlace ==
  ASSUME NEW s \in Builder, NEW t \in Builder, SamePlaces(s, t)
  PROVE  \A i : (Known(t, i) <=> Known(s, i)) /\ Place(t, i) = Place(s, i)
<1>1. \A i : IndexOf(t, i) = IndexOf(s, i)
  BY ToolsOf DEF IndexOf, SamePlaces
<1> QED BY <1>1 DEF Known, Place

LEMMA PlaceFields ==
  ASSUME NEW s \in Builder, NEW i, Known(s, i)
  PROVE  Place(s, i) \in 1..Len(s.tools) /\ NameOf(s, i) = s.tools[Place(s, i)].name
<1>1. Place(s, i) \in IndexOf(s, i)
  BY DEF Known, Place
<1> QED BY <1>1, ToolsOf DEF IndexOf, NameOf

LEMMA NewPlace ==
  ASSUME NEW s \in Builder, NEW i, ~Known(s, i), NEW t \in Builder,
         Len(t.tools) = Len(s.tools) + 1,
         \A j \in 1..Len(s.tools) : t.tools[j] = s.tools[j],
         t.tools[Len(s.tools) + 1].index = i
  PROVE  Known(t, i) /\ Place(t, i) = Len(s.tools) + 1
<1> DEFINE p == Len(s.tools) + 1
<1>1. DOMAIN t.tools = 1..Len(t.tools) /\ DOMAIN s.tools = 1..Len(s.tools) /\ Len(s.tools) \in Nat
  BY ToolsOf
<1>2. \A j \in 1..Len(s.tools) : s.tools[j].index # i
  BY <1>1 DEF Known, IndexOf
<1>3. \A j \in 1..Len(t.tools) : j \in 1..Len(s.tools) \/ j = p
  BY <1>1
<1>4. IndexOf(t, i) = {p}
  BY <1>1, <1>2, <1>3 DEF IndexOf
<1> QED BY <1>4 DEF Known, Place

LEMMA NewToolType ==
  ASSUME NEW i \in Int, NEW name \in Seq(STRING)
  PROVE  NewTool(i, name) = ToolRec(i, NoIndex, name, FALSE, <<>>, FALSE) /\ NewTool(i, name) \in Call
<1>1. NoIndex \in Int /\ <<>> \in Seq(Piece)
  BY DEF NoIndex
<1>2. ToolRec(i, NoIndex, name, FALSE, <<>>, FALSE) \in Call
  BY <1>1, ToolRecType
<1>3. NewTool(i, name) = ToolRec(i, NoIndex, name, FALSE, <<>>, FALSE)
  BY DEF NewTool, ToolRec
<1> QED BY <1>2, <1>3

-----------------------------------------------------------------------------
(* A chunk with a tool call: the name, the announcement, the arguments.    *)

LEMMA ArgsFields ==
  ASSUME NEW s \in Builder, NEW c, NEW g, Args(s, c, g)
  PROVE  /\ g \in Seq(Seq(Piece)) /\ Len(g) = Len(s.tools) /\ Len(g) \in Nat
         /\ \A j \in 1..Len(g) : g[j] \in Seq(Piece)
<1>1. g \in Seq(Seq(Piece)) /\ Len(g) = Len(s.tools)
  BY DEF Args
<1> QED BY <1>1, ElementOfSeq

(* What was received is the same; a new call has received nothing.         *)
Pads(g, h) ==
  Len(g) <= Len(h) /\ \A j \in 1..Len(h) : h[j] = IF j \in 1..Len(g) THEN g[j] ELSE <<>>

(* All but the call at place p, whose name is known but which may not be   *)
(* announced yet, are as they should be.                                   *)
Registered(t, b, g) ==
  /\ t.started => Delivered(t, b, g)
  /\ ~t.started => g = <<>> /\ t.buffer = <<>> /\ ~t.emitted /\ t.name \in Announceable

Half(s, c, g, p) ==
  /\ g \in Seq(Seq(Piece)) /\ Len(g) = Len(s.tools) /\ p \in 1..Len(s.tools)
  /\ \A j \in 1..Len(s.tools) : j # p => Delivered(s.tools[j], BlockOf(s, c, j), g[j])
  /\ Registered(s.tools[p], BlockOf(s, c, p), g[p])

LEMMA PadsItself ==
  ASSUME NEW g \in Seq(Seq(Piece))
  PROVE  Pads(g, g)
BY DEF Pads

LEMMA ToolAddedEffect ==
  ASSUME NEW s, NEW c, NEW g, Ok(s, c, 0), Args(s, c, g), NEW i \in Int, ~Known(s, i),
         NEW name \in Seq(STRING), name \in Announceable, NEW t,
         t = WithMore(s, NewTool(i, name))
  PROVE  /\ Ok(t, c, 0) /\ OnlyTools(s, t) /\ Known(t, i)
         /\ ~t.tools[Place(t, i)].started /\ t.tools[Place(t, i)].name = name
         /\ \E h : Pads(g, h) /\ Half(t, c, h, Place(t, i))
<1> DEFINE n == Len(s.tools)
<1> DEFINE p == n + 1
<1> DEFINE x == NewTool(i, name)
<1>1. s \in Builder /\ n \in Nat
  BY ToolsOf DEF Ok
<1>2. x = ToolRec(i, NoIndex, name, FALSE, <<>>, FALSE) /\ x \in Call
  BY NewToolType
<1>3. x.index = i /\ x.name = name /\ ~x.started /\ x.buffer = <<>> /\ ~x.emitted
  BY <1>2 DEF ToolRec
<1> HIDE DEF x
<1>4. /\ OnlyTools(s, t) /\ Len(t.tools) = n + 1
      /\ \A j \in 1..n : t.tools[j] = s.tools[j]
      /\ t.tools[n + 1] = x
  <2>1. t = WithMore(s, x)
    BY DEF x
  <2>2. s \in Builder /\ x \in Call
    BY <1>1, <1>2
  <2> QED BY <2>1, <2>2, ToolAdded
<1>5. t \in Builder
  BY <1>4 DEF OnlyTools
<1>6. Known(t, i) /\ Place(t, i) = p
  BY <1>1, <1>3, <1>4, <1>5, NewPlace
<1> HIDE DEF n
<1>7. p \in 1..Len(t.tools) /\ t.tools[p] = x /\ Len(t.tools) >= n
      /\ \A j \in 1..Len(t.tools) : j \in 1..n \/ j = p
  BY <1>1, <1>4
<1>8. Ok(t, c, 0)
  <2>1. \A j \in 1..Len(t.tools) : j \in 1..n \/ ~t.tools[j].started
    BY <1>3, <1>7
  <2>2. \A j \in 1..n : t.tools[j].block = s.tools[j].block /\ t.tools[j].started = s.tools[j].started
    BY <1>4
  <2> QED BY <1>4, <1>7, <2>1, <2>2, QuietChange DEF n
<1> DEFINE h == Append(g, <<>>)
<1>9. g \in Seq(Seq(Piece)) /\ Len(g) = n
  BY <1>1, ArgsFields DEF n
<1>10. /\ h \in Seq(Seq(Piece)) /\ Len(h) = n + 1 /\ h[n + 1] = <<>>
       /\ \A j \in 1..n : h[j] = g[j]
  <2>1. <<>> \in Seq(Piece)
    OBVIOUS
  <2> QED BY <1>9, <2>1, AppendProperties
<1> HIDE DEF h
<1>11. Pads(g, h)
  BY <1>1, <1>9, <1>10 DEF Pads
<1>12. ASSUME NEW j \in 1..Len(t.tools), j # p
       PROVE  Delivered(t.tools[j], BlockOf(t, c, j), h[j])
  <2>1. j \in 1..n
    BY <1>7, <1>12
  <2>2. Delivered(s.tools[j], BlockOf(s, c, j), g[j])
    BY <2>1 DEF Args, n
  <2>3. BlockOf(t, c, j) = BlockOf(s, c, j)
    BY <1>4, <2>1 DEF BlockOf
  <2> QED BY <1>4, <1>10, <2>1, <2>2, <2>3
<1>13. Registered(t.tools[p], BlockOf(t, c, p), h[p])
  BY <1>3, <1>7, <1>10 DEF Registered
<1>14. Half(t, c, h, p)
  BY <1>4, <1>7, <1>10, <1>12, <1>13 DEF Half
<1> QED BY <1>3, <1>4, <1>6, <1>7, <1>8, <1>11, <1>14

LEMMA RegisterEffect ==
  ASSUME NEW s, NEW c, NEW g, Ok(s, c, 0), Args(s, c, g), NEW i \in Int, NEW name \in Seq(STRING),
         NamePossible(NameOf(s, i), name), NEW t, t = RegisterToolName(s, i, name)
  PROVE  /\ Ok(t, c, 0) /\ OnlyTools(s, t) /\ Known(t, i)
         /\ \E h : Pads(g, h) /\ Half(t, c, h, Place(t, i))
<1>1. s \in Builder /\ Len(s.tools) \in Nat
  BY ToolsOf DEF Ok
<1>2. CASE ~Known(s, i)
  <2>1. NameOf(s, i) = <<>> /\ <<>> \in Seq(STRING)
    BY <1>2 DEF NameOf
  <2>2. name \in Announceable
    BY <2>1, Names
  <2>3. t = WithMore(s, NewTool(i, name))
    BY <1>2 DEF RegisterToolName, WithMore
  <2> QED BY <1>2, <2>2, <2>3, ToolAddedEffect
<1>3. CASE Known(s, i)
  <2> DEFINE p == Place(s, i)
  <2> DEFINE x == s.tools[p]
  <2> DEFINE w == Merged(x.name, name)
  <2>1. p \in 1..Len(s.tools) /\ NameOf(s, i) = x.name
    BY <1>1, <1>3, PlaceFields
  <2>2. x \in Call /\ x.name \in Seq(STRING)
    BY <1>1, <2>1, ToolsOf, CallFields
  <2>3. /\ w \in Seq(STRING) /\ (x.name = <<>> => w \in Announceable)
        /\ x.name = Task => w = Task
    BY <2>1, <2>2, Names
  <2> DEFINE y == [x EXCEPT !.name = w]
  <2>4. t = WithTool(s, p, y)
    BY <1>1, <1>3, <2>1 DEF RegisterToolName, Builder, WithTool
  <2> HIDE DEF w, p
  <2>5. y = ToolRec(x.index, x.block, w, x.started, x.buffer, x.emitted)
    <3> HIDE DEF x
    <3> QED BY <2>2, CallExcept
  <2>6. y \in Call
    <3> HIDE DEF x
    <3>0. /\ x.index \in Int /\ x.block \in Int /\ x.started \in BOOLEAN
          /\ x.buffer \in Seq(Piece) /\ x.emitted \in BOOLEAN
      BY <2>2, CallFields
    <3>1. ToolRec(x.index, x.block, w, x.started, x.buffer, x.emitted) \in Call
      BY <2>3, <3>0, ToolRecType
    <3> QED BY <2>5, <3>1
  <2>7. /\ y.index = x.index /\ y.block = x.block /\ y.name = w /\ y.started = x.started
        /\ y.buffer = x.buffer /\ y.emitted = x.emitted
    BY <2>5 DEF ToolRec
  <2> HIDE DEF y
  <2>8. /\ OnlyTools(s, t) /\ Len(t.tools) = Len(s.tools)
        /\ \A j \in 1..Len(s.tools) : t.tools[j] = IF j = p THEN y ELSE s.tools[j]
    BY <1>1, <2>1, <2>4, <2>6, ToolSet
  <2>9. t \in Builder
    BY <2>8 DEF OnlyTools
  <2>10. SamePlaces(s, t)
    BY <2>7, <2>8 DEF SamePlaces
  <2>11. Known(t, i) /\ Place(t, i) = p
    BY <1>1, <1>3, <2>9, <2>10, SamePlace DEF p
  <2>12. \A j \in 1..Len(s.tools) : t.tools[j].block = s.tools[j].block
                                    /\ t.tools[j].started = s.tools[j].started
    BY <2>7, <2>8
  <2>13. Len(t.tools) >= Len(s.tools)
    BY <1>1, <2>8
  <2>14. Ok(t, c, 0)
    BY <2>8, <2>12, <2>13, QuietChange
  <2>15. Pads(g, g)
    BY <1>1, ArgsFields, PadsItself
  <2>16. \A j \in 1..Len(s.tools) : BlockOf(t, c, j) = BlockOf(s, c, j)
    BY <2>12 DEF BlockOf
  <2>17. \A j \in 1..Len(t.tools) : j # p => Delivered(t.tools[j], BlockOf(t, c, j), g[j])
    BY <2>8, <2>16 DEF Args
  <2>18. Registered(t.tools[p], BlockOf(t, c, p), g[p])
    <3> DEFINE b == BlockOf(t, c, p)
    <3>1. Delivered(x, b, g[p]) /\ t.tools[p] = y
      BY <2>1, <2>8, <2>16 DEF Args
    <3> HIDE DEF x, b
    <3>2. x.started => Delivered(y, b, g[p])
      BY <2>3, <2>7, <3>1 DEF Delivered
    <3>3. ~x.started => g[p] = <<>> /\ y.buffer = <<>> /\ ~y.emitted /\ y.name \in Announceable
      BY <2>3, <2>7, <3>1 DEF Delivered
    <3> QED BY <2>7, <3>1, <3>2, <3>3 DEF Registered, b
  <2>19. Half(t, c, g, p)
    BY <1>1, <2>1, <2>8, <2>17, <2>18, ArgsFields DEF Half
  <2> QED BY <2>8, <2>11, <2>14, <2>15, <2>19
<1> QED BY <1>2, <1>3

(* The call is announced, under the name that is known then.               *)
LEMMA StartKnown ==
  ASSUME NEW s, NEW c, NEW g, Ok(s, c, 0), Idle(s), NEW i, Known(s, i), Half(s, c, g, Place(s, i)),
         ~s.tools[Place(s, i)].started, NEW name \in Announceable,
         name = Task => s.tools[Place(s, i)].name = Task, NEW u,
         u = StartAt(s, Place(s, i), name)
  PROVE  \E d : Ok(u, d, 0) /\ Args(u, d, g) /\ Known(u, i) /\ u.tools[Place(u, i)].started
<1> DEFINE p == Place(s, i)
<1> DEFINE x == s.tools[p]
<1> DEFINE y == ToolRec(x.index, s.next, x.name, TRUE, x.buffer, x.emitted)
<1>1. /\ g \in Seq(Seq(Piece)) /\ Len(g) = Len(s.tools) /\ p \in 1..Len(s.tools)
      /\ \A j \in 1..Len(s.tools) : j # p => Delivered(s.tools[j], BlockOf(s, c, j), g[j])
      /\ Registered(x, BlockOf(s, c, p), g[p])
  BY DEF Half
<1>2. s \in Builder /\ InStep(s, c, 0)
  BY DEF Ok
<1>3. PICK d :
        /\ Ok(u, d, 0) /\ Idle(u) /\ Len(u.tools) = Len(s.tools)
        /\ \A j \in 1..Len(s.tools) : j # p => u.tools[j] = s.tools[j]
        /\ u.tools[p] = y
        /\ \A k \in 1..Len(c.blocks) : d.blocks[k] = c.blocks[k]
        /\ d.blocks[s.next + 1].name = name /\ d.blocks[s.next + 1].deltas = <<>>
  <2>1. PICK d : JustStarted(s, c, u, d, p, name)
    BY <1>1, ToolStarted
  <2> QED BY <2>1 DEF JustStarted
<1>4. /\ y.index = x.index /\ y.block = s.next /\ y.name = x.name /\ y.started
      /\ y.buffer = x.buffer /\ y.emitted = x.emitted
  BY DEF ToolRec
<1> HIDE DEF y
<1>5. Known(u, i) /\ Place(u, i) = p
  <2>1. u \in Builder
    BY <1>3 DEF Ok
  <2>2. SamePlaces(s, u)
    BY <1>3, <1>4 DEF SamePlaces
  <2> QED BY <1>2, <2>1, <2>2, SamePlace
<1> HIDE DEF p
<1>6. ASSUME NEW j \in 1..Len(u.tools) PROVE Delivered(u.tools[j], BlockOf(u, d, j), g[j])
  <2>1. CASE j = p
    <3>1. u.tools[j] = y /\ BlockOf(u, d, j).name = name /\ BlockOf(u, d, j).deltas = <<>>
      BY <1>3, <1>4, <2>1 DEF BlockOf
    <3>2. g[j] = <<>> /\ y.buffer = <<>> /\ ~y.emitted
      BY <1>1, <1>4, <2>1 DEF Registered, p
    <3>3. ~IsPrefix(Object, <<>>)
      <4>1. Len(Object) = 2 /\ Len(<<>>) = 0
        BY DEF Object
      <4> QED BY <4>1 DEF IsPrefix
    <3> QED BY <1>4, <3>1, <3>2, <3>3 DEF Delivered, p
  <2>2. CASE j # p
    <3>1. u.tools[j] = s.tools[j] /\ Delivered(s.tools[j], BlockOf(s, c, j), g[j])
      BY <1>1, <1>3, <2>2
    <3>2. CASE ~s.tools[j].started
      BY <3>1, <3>2 DEF Delivered
    <3>3. CASE s.tools[j].started
      <4>1. s.tools[j].block + 1 \in 1..Len(c.blocks)
        BY <1>2, <1>3, <3>3 DEF InStep
      <4>2. BlockOf(u, d, j) = BlockOf(s, c, j)
        BY <1>3, <3>1, <4>1 DEF BlockOf
      <4> QED BY <3>1, <4>2
    <3> QED BY <3>2, <3>3
  <2> QED BY <2>1, <2>2
<1>7. Args(u, d, g)
  BY <1>1, <1>3, <1>6 DEF Args
<1> QED BY <1>3, <1>4, <1>5, <1>7

Announces(g, i, args, u, d, h) ==
  /\ Pads(g, h) /\ Ok(u, d, 0) /\ Args(u, d, h)
  /\ args # "" => Known(u, i) /\ u.tools[Place(u, i)].started

LEMMA AnnounceEffect ==
  ASSUME NEW s, NEW c, NEW g, Ok(s, c, 0), Idle(s), NEW i \in Int, NEW id \in BOOLEAN, NEW args,
         \/ ~Known(s, i) /\ Args(s, c, g)
         \/ Known(s, i) /\ Half(s, c, g, Place(s, i)),
         g \in Seq(Seq(Piece)), NEW u, u = Announced(s, i, id, args)
  PROVE  \E d, h : Announces(g, i, args, u, d, h)
<1> USE DEF Announces
<1>1. s \in Builder /\ Len(s.tools) \in Nat /\ Pads(g, g)
  BY ToolsOf, PadsItself DEF Ok
<1>2. ToolCallName \in Announceable /\ ToolCallName \in Seq(STRING) /\ ToolCallName # Task
      /\ <<>> \in Announceable /\ <<>> \in Seq(STRING) /\ <<>> # Task
  <2>1. ToolCallName \in Seq(STRING) /\ ToolCallName # Task /\ <<>> # Task
    BY NameAssumption
  <2> QED BY <2>1, NoName, NamesAnnounceable
<1>3. CASE ~Known(s, i)
  <2>1. NameOf(s, i) = <<>> /\ ~Started(s, i)
    BY <1>3 DEF NameOf, Started
  <2>2. ASSUME NEW name \in {<<>>, ToolCallName}, u = StartToolBlock(s, i, name)
        PROVE  \E d, h : Announces(g, i, args, u, d, h)
    <3> DEFINE t == WithMore(s, NewTool(i, name))
    <3>0. name \in Seq(STRING) /\ name \in Announceable /\ name # Task
      BY <1>2
    <3>1. u = [BlockStart(t, "tool_use", name)
                 EXCEPT !.tools[Place(t, i)].block = s.next, !.tools[Place(t, i)].started = TRUE]
      BY <1>3, <2>2 DEF StartToolBlock, WithMore
    <3> HIDE DEF t
    <3>2. /\ Ok(t, c, 0) /\ OnlyTools(s, t) /\ Known(t, i)
          /\ ~t.tools[Place(t, i)].started /\ t.tools[Place(t, i)].name = name
          /\ \E h : Pads(g, h) /\ Half(t, c, h, Place(t, i))
      BY <1>3, <3>0, ToolAddedEffect DEF t
    <3>3. PICK h : Pads(g, h) /\ Half(t, c, h, Place(t, i))
      BY <3>2
    <3>4. Idle(t) /\ t.next = s.next
      BY <3>2 DEF Idle, OnlyTools
    <3>45. u = StartAt(t, Place(t, i), name)
      BY <3>1, <3>4 DEF StartAt
    <3>5. \E d : Ok(u, d, 0) /\ Args(u, d, h) /\ Known(u, i) /\ u.tools[Place(u, i)].started
      BY <3>0, <3>2, <3>3, <3>4, <3>45, StartKnown
    <3> QED BY <3>3, <3>5
  <2>3. (u = s /\ args = "") \/ u = StartToolBlock(s, i, <<>>) \/ u = StartToolBlock(s, i, ToolCallName)
    BY <2>1 DEF Announced
  <2>4. CASE u = s /\ args = ""
    BY <1>1, <1>3, <2>4
  <2> QED BY <2>2, <2>3, <2>4
<1>4. CASE Known(s, i)
  <2> DEFINE p == Place(s, i)
  <2> DEFINE x == s.tools[p]
  <2>1. p \in 1..Len(s.tools) /\ NameOf(s, i) = x.name /\ x \in Call
    BY <1>1, <1>4, PlaceFields, ToolsOf
  <2>2. Half(s, c, g, p)
    BY <1>4
  <2>3. x.started = TRUE \/ x.started = FALSE
    BY <2>1, CallFields
  <2>4. Started(s, i) <=> x.started
    BY <1>4 DEF Started
  <2>5. x.started \/ x.name = <<>> => Delivered(x, BlockOf(s, c, p), g[p])
    BY <2>2 DEF Half, Registered, Delivered
  <2>6. Delivered(x, BlockOf(s, c, p), g[p]) => Args(s, c, g)
    BY <2>2 DEF Half, Args
  <2>7. CASE x.started
    <3>1. u = s
      BY <2>4, <2>7 DEF Announced
    <3> QED BY <1>1, <1>4, <2>5, <2>6, <2>7, <3>1
  <2>8. CASE ~x.started
    <3>1. x.name \in Announceable
      BY <2>2, <2>8 DEF Half, Registered
    <3>2. ASSUME NEW name \in {x.name, ToolCallName}, u = StartToolBlock(s, i, name)
          PROVE  \E d, h : Announces(g, i, args, u, d, h)
      <4>1. u = StartAt(s, p, name)
        BY <1>4, <3>2 DEF StartToolBlock, StartAt
      <4>2. name \in Announceable /\ (name = Task => x.name = Task)
        BY <1>2, <3>1
      <4>3. \E d : Ok(u, d, 0) /\ Args(u, d, g) /\ Known(u, i) /\ u.tools[Place(u, i)].started
        BY <1>4, <2>2, <2>8, <4>1, <4>2, StartKnown
      <4> QED BY <1>1, <4>3
    <3>3. \/ u = s /\ args = "" /\ x.name = <<>>
          \/ u = StartToolBlock(s, i, x.name) \/ u = StartToolBlock(s, i, ToolCallName)
      BY <2>1, <2>4, <2>8 DEF Announced
    <3>4. CASE u = s /\ args = "" /\ x.name = <<>>
      BY <1>1, <2>5, <2>6, <3>4
    <3> QED BY <3>2, <3>3, <3>4
  <2> QED BY <2>7, <2>8
<1> QED BY <1>3, <1>4

-----------------------------------------------------------------------------
(* The arguments of a call go to its block, or to its buffer.              *)

More(g, p, args) == [g EXCEPT ![p] = Append(g[p], args)]

IsMore(h, g, p, args) ==
  /\ h \in Seq(Seq(Piece)) /\ Len(h) = Len(g) /\ g[p] \in Seq(Piece)
  /\ \A j \in 1..Len(g) : h[j] = IF j = p THEN Append(g[p], args) ELSE g[j]

LEMMA MoreFields ==
  ASSUME NEW g \in Seq(Seq(Piece)), NEW p \in 1..Len(g), NEW args \in Piece
  PROVE  IsMore(More(g, p, args), g, p, args)
<1>1. g[p] \in Seq(Piece)
  BY ElementOfSeq
<1>2. Append(g[p], args) \in Seq(Piece)
  BY <1>1, AppendProperties
<1> DEFINE x == Append(g[p], args)
<1>3. More(g, p, args) = [g EXCEPT ![p] = x]
  BY DEF More
<1> HIDE DEF x
<1>4. x \in Seq(Piece)
  BY <1>2 DEF x
<1>5. /\ [g EXCEPT ![p] = x] \in Seq(Seq(Piece)) /\ Len([g EXCEPT ![p] = x]) = Len(g)
      /\ \A j \in 1..Len(g) : [g EXCEPT ![p] = x][j] = IF j = p THEN x ELSE g[j]
  BY <1>4, ExceptSeq
<1> QED BY <1>1, <1>3, <1>5 DEF x, IsMore

LEMMA ObjectFields == Object \in Seq(Piece) /\ Len(Object) = 2
BY DEF Object, Piece

LEMMA PiecePrefix ==
  ASSUME NEW p \in Seq(Piece), NEW q \in Seq(Piece)
  PROVE  IsPrefix(p, q) <=> Len(p) <= Len(q) /\ \A k \in 1..Len(p) : p[k] = q[k]
BY PrefixFields

LEMMA ObjectPrefix ==
  ASSUME NEW g \in Seq(Piece), NEW a \in Piece
  PROVE  /\ IsPrefix(Object, g) => IsPrefix(Object, Append(g, a))
         /\ IsPrefix(Object, Append(g, a)) => IsPrefix(Object, g) \/ Append(g, a) = Object
         /\ Append(g, a) = Object => IsPrefix(Object, Append(g, a)) /\ ~IsPrefix(Object, g)
         /\ Append(g, a) # <<>> /\ ~IsPrefix(Object, <<>>)
<1> DEFINE h == Append(g, a)
<1>1. Object \in Seq(Piece) /\ Len(Object) = 2
  BY ObjectFields
<1>2. /\ h \in Seq(Piece) /\ Len(h) = Len(g) + 1 /\ Len(g) \in Nat
      /\ \A j \in 1..Len(g) : h[j] = g[j]
  BY AppendProperties
<1> HIDE DEF h
<1>3. \A q \in Seq(Piece) : IsPrefix(Object, q) <=> 2 <= Len(q) /\ q[1] = Object[1] /\ q[2] = Object[2]
  <2> SUFFICES ASSUME NEW q \in Seq(Piece)
               PROVE  IsPrefix(Object, q) <=> 2 <= Len(q) /\ q[1] = Object[1] /\ q[2] = Object[2]
    OBVIOUS
  <2>1. IsPrefix(Object, q) <=> Len(Object) <= Len(q) /\ \A k \in 1..Len(Object) : Object[k] = q[k]
    BY <1>1, PiecePrefix
  <2>2. (\A k \in 1..Len(Object) : Object[k] = q[k]) <=> q[1] = Object[1] /\ q[2] = Object[2]
    <3>1. \A k \in 1..Len(Object) : k = 1 \/ k = 2
      BY <1>1
    <3>2. 1 \in 1..Len(Object) /\ 2 \in 1..Len(Object)
      BY <1>1
    <3> QED BY <1>1, <3>1, <3>2
  <2> QED BY <1>1, <2>1, <2>2
<1>4. IsPrefix(Object, g) => IsPrefix(Object, h)
  BY <1>2, <1>3
<1>5. ASSUME IsPrefix(Object, h), ~IsPrefix(Object, g) PROVE h = Object
  <2>1. 2 <= Len(h) /\ h[1] = Object[1] /\ h[2] = Object[2]
    BY <1>2, <1>3, <1>5
  <2>2. Len(h) = 2
    BY <1>2, <1>3, <1>5, <2>1
  <2>3. \A k \in 1..Len(h) : h[k] = Object[k]
    <3>1. \A k \in 1..Len(h) : k = 1 \/ k = 2
      BY <2>2
    <3> QED BY <2>1, <3>1
  <2> QED BY <1>1, <1>2, <2>2, <2>3, SeqEqual
<1>6. h = Object => IsPrefix(Object, h) /\ ~IsPrefix(Object, g)
  <2> SUFFICES ASSUME h = Object PROVE IsPrefix(Object, h) /\ ~IsPrefix(Object, g)
    OBVIOUS
  <2>0. Len(h) = 2
    BY <1>1
  <2>1. Len(g) = 1
    <3> DEFINE n == Len(g)
    <3>1. n \in Nat /\ n + 1 = Len(h)
      BY <1>2
    <3>2. n + 1 = 2
      BY <2>0, <3>1
    <3> HIDE DEF n
    <3>3. n = 1
      BY <3>1, <3>2
    <3> QED BY <3>3 DEF n
  <2>2. ~IsPrefix(Object, g)
    BY <1>3, <2>1
  <2>3. IsPrefix(Object, h)
    BY <1>1, <1>2, <1>3
  <2> QED BY <2>2, <2>3
<1>7. h # <<>>
  BY <1>2
<1>8. ~IsPrefix(Object, <<>>)
  <2> DEFINE q == <<>>
  <2>1. q \in Seq(Piece) /\ Len(q) = 0
    OBVIOUS
  <2> HIDE DEF q
  <2>2. ~(2 <= Len(q))
    BY <2>1
  <2>3. ~IsPrefix(Object, q)
    BY <1>3, <2>1, <2>2
  <2> QED BY <2>3 DEF q
<1> QED BY <1>4, <1>5, <1>6, <1>7, <1>8 DEF h

LEMMA PairIsNoSingle == \A a, b, c : <<a, b>> # <<c>>
OBVIOUS

LEMMA ParsedObject ==
  ASSUME NEW g
  PROVE  Parsed(g) = "object" <=> g = Object
<1>1. Object # <<"[]">>
  BY PairIsNoSingle, Zenon DEF Object
<1>2. Parsed(g) = CASE g = Object -> "object" [] g = <<"[]">> -> "list" [] OTHER -> "invalid"
  BY Zenon DEF Parsed, Object
<1> DEFINE list == <<"[]">>
<1> HIDE DEF list
<1>3. (CASE g = Object -> "object" [] g = list -> "list" [] OTHER -> "invalid") = "object" <=> g = Object
  BY <1>1 DEF list
<1> QED BY <1>2, <1>3 DEF list

(* A delta for the block of the call at place p.                           *)
Fed(s, c, v, e, p, x) ==
  /\ Ok(v, e, 0) /\ v.tools = s.tools
  /\ \A j \in 1..Len(s.tools) : s.tools[j].started =>
       /\ BlockOf(v, e, j).name = BlockOf(s, c, j).name
       /\ j = p => BlockOf(v, e, j).deltas = Append(BlockOf(s, c, j).deltas, x)
       /\ j # p => BlockOf(v, e, j).deltas = BlockOf(s, c, j).deltas

LEMMA FedEffect ==
  ASSUME NEW s, NEW c, Ok(s, c, 0), NEW p \in 1..Len(s.tools), s.tools[p].started, NEW x \in Content,
         NEW v, v = EmitToolDelta(s, p, x)
  PROVE  \E e : Fed(s, c, v, e, p, x)
<1> DEFINE n == s.tools[p].block
<1>1. s \in Builder /\ c \in Client /\ Pending(s.out, c) /\ InStep(s, c, 0) /\ c.message = "open"
  BY DEF Ok, InStep
<1>2. n \in Int
  BY <1>1, ToolsOf, CallFields
<1>3. n + 1 \in 1..Len(c.blocks) /\ c.blocks[n + 1].open
  <2>1. 0 < p
    OBVIOUS
  <2>2. OpenAs(c, n, "tool_use")
    BY <1>1, <2>1 DEF InStep
  <2> QED BY <2>2 DEF OpenAs
<1>4. v = BlockDelta(s, n, x)
  BY DEF EmitToolDelta
<1> HIDE DEF n
<1>5. SameFields(s, v) /\ v.next = s.next /\ \E d : Added(c, d, n + 1, x) /\ Pending(v.out, d)
  BY <1>1, <1>2, <1>3, <1>4, BlockDeltaEffect
<1>6. PICK d : Added(c, d, n + 1, x) /\ Pending(v.out, d)
  BY <1>5
<1>7. Ok(v, d, 0) /\ v.tools = s.tools
  BY <1>5, <1>6, DeltaOk DEF SameFields
<1>8. ASSUME NEW j \in 1..Len(s.tools), s.tools[j].started
      PROVE  /\ BlockOf(v, d, j).name = BlockOf(s, c, j).name
             /\ j = p => BlockOf(v, d, j).deltas = Append(BlockOf(s, c, j).deltas, x)
             /\ j # p => BlockOf(v, d, j).deltas = BlockOf(s, c, j).deltas
  <2> DEFINE k == s.tools[j].block + 1
  <2>1. k \in 1..Len(c.blocks) /\ s.tools[j].block \in Int
    BY <1>1, <1>8, ToolsOf, CallFields DEF InStep
  <2>2. j # p => k # n + 1
    <3>1. j # p => s.tools[j].block # n
      BY <1>1, <1>8 DEF InStep, ToolsApart, n
    <3> QED BY <1>2, <2>1, <3>1
  <2>3. j = p => k = n + 1
    BY DEF n
  <2> HIDE DEF k
  <2>4. /\ d.blocks[k].name = c.blocks[k].name
        /\ k # n + 1 => d.blocks[k].deltas = c.blocks[k].deltas
        /\ k = n + 1 => d.blocks[k].deltas = Append(c.blocks[k].deltas, x)
    BY <1>6, <2>1 DEF Added
  <2> QED BY <1>7, <2>2, <2>3, <2>4 DEF BlockOf, k
<1> QED BY <1>7, <1>8 DEF Fed

(* The buffer of the call at place p, and whether its arguments were sent. *)
Buffers(s, p, bf, em) ==
  WithTool(s, p, ToolRec(s.tools[p].index, s.tools[p].block, s.tools[p].name, s.tools[p].started, bf, em))

Buffered(s, c, t, p, bf, em) ==
  /\ Ok(t, c, 0) /\ Len(t.tools) = Len(s.tools) /\ SamePlaces(s, t)
  /\ \A j \in 1..Len(s.tools) : /\ j # p => t.tools[j] = s.tools[j]
                                /\ BlockOf(t, c, j) = BlockOf(s, c, j)
  /\ t.tools[p].buffer = bf /\ t.tools[p].emitted = em /\ t.tools[p].block = s.tools[p].block
  /\ t.tools[p].name = s.tools[p].name /\ t.tools[p].started = s.tools[p].started

LEMMA BuffersFields ==
  ASSUME NEW s, NEW c, Ok(s, c, 0), NEW p \in 1..Len(s.tools), NEW bf \in Seq(Piece),
         NEW em, em \in BOOLEAN, NEW t, t = Buffers(s, p, bf, em)
  PROVE  Buffered(s, c, t, p, bf, em)
<1> DEFINE x == s.tools[p]
<1> DEFINE y == ToolRec(x.index, x.block, x.name, x.started, bf, em)
<1>1. s \in Builder /\ x \in Call /\ Len(s.tools) \in Nat
  BY ToolsOf DEF Ok
<1>2. t = WithTool(s, p, y)
  BY DEF Buffers
<1> HIDE DEF x
<1>3. x.index \in Int /\ x.block \in Int /\ x.name \in Seq(STRING) /\ x.started \in BOOLEAN
  BY <1>1, CallFields
<1>4. y \in Call
  BY <1>3, ToolRecType
<1>5. y.index = x.index /\ y.block = x.block /\ y.name = x.name /\ y.started = x.started
      /\ y.buffer = bf /\ y.emitted = em
  BY DEF ToolRec
<1> HIDE DEF y
<1>6. /\ OnlyTools(s, t) /\ Len(t.tools) = Len(s.tools)
      /\ \A j \in 1..Len(s.tools) : t.tools[j] = IF j = p THEN y ELSE s.tools[j]
  BY <1>1, <1>2, <1>4, ToolSet
<1>7. \A j \in 1..Len(s.tools) : /\ t.tools[j].block = s.tools[j].block
                                 /\ t.tools[j].started = s.tools[j].started
                                 /\ t.tools[j].index = s.tools[j].index
  BY <1>5, <1>6 DEF x
<1>8. Ok(t, c, 0)
  <2>1. Len(t.tools) >= Len(s.tools)
    BY <1>1, <1>6
  <2> QED BY <1>6, <1>7, <2>1, QuietChange
<1>9. SamePlaces(s, t)
  BY <1>6, <1>7 DEF SamePlaces
<1>10. t.tools[p] = y /\ \A j \in 1..Len(s.tools) : j # p => t.tools[j] = s.tools[j]
  BY <1>6
<1>11. \A j \in 1..Len(s.tools) : BlockOf(t, c, j) = BlockOf(s, c, j)
  BY <1>7 DEF BlockOf
<1> QED BY <1>5, <1>6, <1>8, <1>9, <1>10, <1>11 DEF x, Buffered

SetBuffer(s, p, bf)    == [s EXCEPT !.tools[p].buffer = bf]
SetBuffers(s, p, bf, em) == [s EXCEPT !.tools[p].buffer = bf, !.tools[p].emitted = em]

LEMMA BuffersSet ==
  ASSUME NEW s \in Builder, NEW p \in 1..Len(s.tools), NEW bf, NEW em
  PROVE  SetBuffers(s, p, bf, em) = Buffers(s, p, bf, em)
<1> DEFINE x == s.tools[p]
<1>1. x \in Call /\ s.tools \in Seq(Call)
  BY ToolsOf
<1>2. SetBuffers(s, p, bf, em)
        = [s EXCEPT !.tools = [s.tools EXCEPT ![p] = [x EXCEPT !.buffer = bf, !.emitted = em]]]
  BY <1>1, ToolsOf DEF Builder, SetBuffers
<1>3. [x EXCEPT !.buffer = bf, !.emitted = em]
        = ToolRec(x.index, x.block, x.name, x.started, bf, em)
  <2> DEFINE y == [x EXCEPT !.buffer = bf]
  <2> HIDE DEF x
  <2>1. [x EXCEPT !.buffer = bf, !.emitted = em] = [y EXCEPT !.emitted = em]
    OBVIOUS
  <2>2. y = ToolRec(x.index, x.block, x.name, x.started, bf, x.emitted)
    BY <1>1, CallExcept
  <2> HIDE DEF y
  <2> QED BY <2>1, <2>2 DEF ToolRec
<1> QED BY <1>2, <1>3 DEF Buffers, WithTool

LEMMA BufferSet ==
  ASSUME NEW s \in Builder, NEW p \in 1..Len(s.tools), NEW bf
  PROVE  /\ SetBuffer(s, p, bf) = Buffers(s, p, bf, s.tools[p].emitted)
         /\ SetBuffer(s, p, bf).tools[p].buffer = bf
         /\ \A bg, em : SetBuffers(SetBuffer(s, p, bf), p, bg, em) = Buffers(s, p, bg, em)
<1> DEFINE x == s.tools[p]
<1>1. x \in Call /\ s.tools \in Seq(Call)
  BY ToolsOf
<1>2. SetBuffer(s, p, bf)
        = [s EXCEPT !.tools = [s.tools EXCEPT ![p] = [x EXCEPT !.buffer = bf]]]
  BY <1>1, ToolsOf DEF Builder, SetBuffer
<1>3. [x EXCEPT !.buffer = bf] = ToolRec(x.index, x.block, x.name, x.started, bf, x.emitted)
  <2> HIDE DEF x
  <2> QED BY <1>1, CallExcept
<1>4. SetBuffer(s, p, bf).tools[p].buffer = bf
  BY <1>1, ToolsOf DEF Builder, Call, SetBuffer
<1>5. ASSUME NEW bg, NEW em
      PROVE  SetBuffers(SetBuffer(s, p, bf), p, bg, em) = Buffers(s, p, bg, em)
  <2>1. SetBuffers(SetBuffer(s, p, bf), p, bg, em) = SetBuffers(s, p, bg, em)
    BY <1>1, ToolsOf DEF Builder, SetBuffer, SetBuffers
  <2> QED BY <2>1, BuffersSet
<1> QED BY <1>2, <1>3, <1>4, <1>5 DEF Buffers, WithTool

(* A piece of the arguments for the call at place p.                       *)
TakeArgs(s, p, args) ==
  IF s.tools[p].name = Task THEN BufferTaskArgs(s, p, args) ELSE EmitToolDelta(s, p, args)

LEMMA SamePlacesTwice ==
  ASSUME NEW s, NEW t, NEW u, SamePlaces(s, t), SamePlaces(t, u)
  PROVE  SamePlaces(s, u)
BY DEF SamePlaces

(* The arguments of a call that is not a Task, or not yet.                 *)
LEMMA PlainArgs ==
  ASSUME NEW s, NEW c, NEW g, Ok(s, c, 0), Args(s, c, g), NEW p \in 1..Len(s.tools),
         s.tools[p].started, s.tools[p].name # Task, NEW args \in Piece,
         NEW v, v = EmitToolDelta(s, p, args)
  PROVE  \E e : Ok(v, e, 0) /\ SamePlaces(s, v) /\ Args(v, e, More(g, p, args))
<1>1. args \in Content
  BY DEF Piece, Content
<1>2. PICK e : Fed(s, c, v, e, p, args)
  BY <1>1, FedEffect
<1>3. s \in Builder
  BY DEF Ok
<1>4. g \in Seq(Seq(Piece)) /\ Len(g) = Len(s.tools)
  BY DEF Args
<1>5. /\ More(g, p, args) \in Seq(Seq(Piece)) /\ Len(More(g, p, args)) = Len(g)
      /\ \A j \in 1..Len(g) : More(g, p, args)[j] = IF j = p THEN Append(g[p], args) ELSE g[j]
  <2>1. p \in 1..Len(g)
    BY <1>4
  <2>2. IsMore(More(g, p, args), g, p, args)
    BY <1>4, <2>1, MoreFields
  <2> QED BY <2>2 DEF IsMore
<1>6. v.tools = s.tools /\ SamePlaces(s, v) /\ Ok(v, e, 0)
  BY <1>2 DEF Fed, SamePlaces
<1>7. ASSUME NEW j \in 1..Len(s.tools)
      PROVE  Delivered(s.tools[j], BlockOf(v, e, j), More(g, p, args)[j])
  <2>1. Delivered(s.tools[j], BlockOf(s, c, j), g[j])
    BY DEF Args
  <2>2. CASE ~s.tools[j].started
    <3>1. j # p
      BY <2>2
    <3>2. More(g, p, args)[j] = g[j]
      BY <1>4, <1>5, <3>1
    <3> QED BY <2>1, <2>2, <3>2 DEF Delivered
  <2>3. CASE s.tools[j].started /\ j # p
    <3>1. More(g, p, args)[j] = g[j]
      BY <1>4, <1>5, <2>3
    <3>2. BlockOf(v, e, j).name = BlockOf(s, c, j).name /\ BlockOf(v, e, j).deltas = BlockOf(s, c, j).deltas
      BY <1>2, <2>3 DEF Fed
    <3> QED BY <2>1, <3>1, <3>2 DEF Delivered
  <2>4. CASE j = p
    <3>1. More(g, p, args)[j] = Append(g[j], args)
      BY <1>4, <1>5, <2>4
    <3>2. BlockOf(v, e, j).name = BlockOf(s, c, j).name
          /\ BlockOf(v, e, j).deltas = Append(BlockOf(s, c, j).deltas, args)
      BY <1>2, <2>4 DEF Fed
    <3> QED BY <2>1, <2>4, <3>1, <3>2 DEF Delivered
  <2> QED BY <2>2, <2>3, <2>4
<1>8. Args(v, e, More(g, p, args))
  BY <1>4, <1>5, <1>6, <1>7 DEF Args
<1> QED BY <1>6, <1>8

(* The arguments of a Task: they are buffered until they make an object.   *)
LEMMA TaskArgs ==
  ASSUME NEW s, NEW c, NEW g, Ok(s, c, 0), Args(s, c, g), NEW p \in 1..Len(s.tools),
         s.tools[p].started, s.tools[p].name = Task, NEW args \in Piece,
         NEW v, v = BufferTaskArgs(s, p, args)
  PROVE  \E e : Ok(v, e, 0) /\ SamePlaces(s, v) /\ Args(v, e, More(g, p, args))
<1> DEFINE x == s.tools[p]
<1> DEFINE bf == Append(x.buffer, args)
<1> DEFINE h == More(g, p, args)
<1> SUFFICES \E e : Ok(v, e, 0) /\ SamePlaces(s, v) /\ Args(v, e, h)
  OBVIOUS
<1>1. s \in Builder /\ x \in Call /\ x.buffer \in Seq(Piece) /\ x.emitted \in BOOLEAN
  BY ToolsOf, CallFields DEF Ok
<1>2. g \in Seq(Seq(Piece)) /\ Len(g) = Len(s.tools)
  BY DEF Args
<1>3. /\ h \in Seq(Seq(Piece)) /\ Len(h) = Len(s.tools) /\ g[p] \in Seq(Piece)
      /\ h[p] = Append(g[p], args)
      /\ \A j \in 1..Len(s.tools) : j # p => h[j] = g[j]
  <2>1. p \in 1..Len(g)
    BY <1>2
  <2>2. IsMore(h, g, p, args)
    BY <1>2, <2>1, MoreFields
  <2> HIDE DEF h
  <2> QED BY <1>2, <2>1, <2>2 DEF IsMore
<1>4. bf \in Seq(Piece)
  BY <1>1, AppendProperties
<1>5. Delivered(x, BlockOf(s, c, p), g[p])
  BY DEF Args
<1>6. \A j \in 1..Len(s.tools) : j # p => Delivered(s.tools[j], BlockOf(s, c, j), h[j])
  BY <1>3 DEF Args
<1>7. /\ IsPrefix(Object, g[p]) => IsPrefix(Object, h[p])
      /\ IsPrefix(Object, h[p]) => IsPrefix(Object, g[p]) \/ h[p] = Object
      /\ h[p] = Object => IsPrefix(Object, h[p]) /\ ~IsPrefix(Object, g[p])
  BY <1>3, ObjectPrefix
<1> HIDE DEF h
<1>8. v = IF x.emitted THEN s
          ELSE IF Parsed(SetBuffer(s, p, bf).tools[p].buffer) = "object"
          THEN EmitToolDelta(SetBuffers(SetBuffer(s, p, bf), p, <<>>, TRUE), p, "patched")
          ELSE SetBuffer(s, p, bf)
  BY DEF BufferTaskArgs, SetBuffer, SetBuffers
<1> HIDE DEF bf
<1>9. v = IF x.emitted THEN s
          ELSE IF bf = Object THEN EmitToolDelta(Buffers(s, p, <<>>, TRUE), p, "patched")
          ELSE Buffers(s, p, bf, x.emitted)
  <2>1. SetBuffer(s, p, bf) = Buffers(s, p, bf, x.emitted)
    BY <1>1, BufferSet
  <2>2. SetBuffers(SetBuffer(s, p, bf), p, <<>>, TRUE) = Buffers(s, p, <<>>, TRUE)
    <3>1. \A bg, em : SetBuffers(SetBuffer(s, p, bf), p, bg, em) = Buffers(s, p, bg, em)
      BY <1>1, BufferSet
    <3> QED BY <3>1, Zenon
  <2>3. SetBuffer(s, p, bf).tools[p].buffer = bf
    BY <1>1, BufferSet
  <2>4. Parsed(SetBuffer(s, p, bf).tools[p].buffer) = "object" <=> bf = Object
    BY <2>3, ParsedObject
  <2> QED BY <1>8, <2>1, <2>2, <2>4
<1>10. CASE x.emitted
  <2>1. v = s /\ SamePlaces(s, v)
    BY <1>9, <1>10 DEF SamePlaces
  <2>2. Delivered(x, BlockOf(s, c, p), h[p])
    BY <1>5, <1>7, <1>10 DEF Delivered
  <2>3. Args(s, c, h)
    BY <1>3, <1>6, <2>2 DEF Args
  <2> QED BY <2>1, <2>3
<1>11. CASE ~x.emitted /\ bf # Object
  <2>1. v = Buffers(s, p, bf, x.emitted)
    BY <1>9, <1>11
  <2>2. /\ Ok(v, c, 0) /\ Len(v.tools) = Len(s.tools) /\ SamePlaces(s, v)
        /\ \A j \in 1..Len(s.tools) : /\ j # p => v.tools[j] = s.tools[j]
                                      /\ BlockOf(v, c, j) = BlockOf(s, c, j)
        /\ v.tools[p].buffer = bf /\ v.tools[p].emitted = x.emitted
        /\ v.tools[p].name = x.name /\ v.tools[p].started = x.started
    <3>1. Buffered(s, c, v, p, bf, x.emitted)
      BY <1>1, <1>4, <2>1, BuffersFields
    <3> QED BY <3>1 DEF Buffered
  <2>3. Delivered(v.tools[p], BlockOf(s, c, p), h[p])
    <3>1. BlockOf(s, c, p).name = Task =>
            ~IsPrefix(Object, h[p]) /\ bf = h[p] /\ BlockOf(s, c, p).deltas = <<>>
      BY <1>3, <1>5, <1>7, <1>11 DEF Delivered, bf
    <3> QED BY <1>11, <2>2, <3>1 DEF Delivered
  <2>4. Args(v, c, h)
    BY <1>3, <1>6, <2>2, <2>3 DEF Args
  <2> QED BY <2>2, <2>4
<1>12. CASE ~x.emitted /\ bf = Object
  <2> DEFINE t == Buffers(s, p, <<>>, TRUE)
  <2>1. v = EmitToolDelta(t, p, "patched") /\ <<>> \in Seq(Piece) /\ "patched" \in Content
    BY <1>9, <1>12 DEF Content
  <2>2. /\ Ok(t, c, 0) /\ Len(t.tools) = Len(s.tools) /\ SamePlaces(s, t)
        /\ \A j \in 1..Len(s.tools) : /\ j # p => t.tools[j] = s.tools[j]
                                      /\ BlockOf(t, c, j) = BlockOf(s, c, j)
        /\ t.tools[p].buffer = <<>> /\ t.tools[p].emitted = TRUE
        /\ t.tools[p].name = x.name /\ t.tools[p].started = x.started
    <3>1. TRUE \in BOOLEAN
      OBVIOUS
    <3>2. Buffered(s, c, t, p, <<>>, TRUE)
      BY <2>1, <3>1, BuffersFields
    <3> HIDE DEF t
    <3> QED BY <3>2 DEF Buffered
  <2> HIDE DEF t
  <2>3. PICK e : Fed(t, c, v, e, p, "patched")
    BY <2>1, <2>2, FedEffect
  <2>4. v.tools = t.tools /\ Ok(v, e, 0) /\ SamePlaces(s, v)
    BY <2>2, <2>3 DEF Fed, SamePlaces
  <2>5. Delivered(t.tools[p], BlockOf(v, e, p), h[p])
    <3>1. BlockOf(s, c, p).name = Task => h[p] = Object /\ BlockOf(s, c, p).deltas = <<>>
      BY <1>3, <1>5, <1>12 DEF Delivered, bf
    <3>2. BlockOf(v, e, p).name = BlockOf(s, c, p).name
          /\ BlockOf(v, e, p).deltas = Append(BlockOf(s, c, p).deltas, "patched")
      BY <2>2, <2>3 DEF Fed
    <3>3. Append(<<>>, "patched") = <<"patched">>
      OBVIOUS
    <3>4. BlockOf(v, e, p).name = Task => IsPrefix(Object, h[p]) /\ BlockOf(v, e, p).deltas = <<"patched">>
      BY <1>7, <3>1, <3>2, <3>3
    <3> QED BY <2>2, <3>4 DEF Delivered
  <2>6. ASSUME NEW j \in 1..Len(s.tools), j # p PROVE Delivered(t.tools[j], BlockOf(v, e, j), h[j])
    <3>1. Delivered(s.tools[j], BlockOf(s, c, j), h[j]) /\ t.tools[j] = s.tools[j]
      BY <1>6, <2>2, <2>6
    <3>2. s.tools[j].started => BlockOf(v, e, j).name = BlockOf(s, c, j).name
                                /\ BlockOf(v, e, j).deltas = BlockOf(s, c, j).deltas
      BY <2>2, <2>3, <2>6 DEF Fed
    <3> QED BY <3>1, <3>2 DEF Delivered
  <2>7. Args(v, e, h)
    BY <1>3, <2>2, <2>4, <2>5, <2>6 DEF Args
  <2> QED BY <2>4, <2>7
<1> QED BY <1>1, <1>10, <1>11, <1>12 DEF h

LEMMA TakeArgsEffect ==
  ASSUME NEW s, NEW c, NEW g, Ok(s, c, 0), Args(s, c, g), NEW p \in 1..Len(s.tools),
         s.tools[p].started, NEW args \in Piece, NEW v, v = TakeArgs(s, p, args)
  PROVE  \E e : Ok(v, e, 0) /\ SamePlaces(s, v) /\ Args(v, e, More(g, p, args))
<1>1. CASE s.tools[p].name = Task
  BY <1>1, TaskArgs DEF TakeArgs
<1>2. CASE s.tools[p].name # Task
  BY <1>2, PlainArgs DEF TakeArgs
<1> QED BY <1>1, <1>2

-----------------------------------------------------------------------------
(* A chunk with a tool call.                                               *)

(* Given, for any account of what was received.                            *)
GivenTo(g, s, j, args) ==
  LET before == IF j \in DOMAIN g THEN g[j] ELSE <<>>
  IN  [k \in 1..Len(s.tools) |->
         IF k = j THEN IF args = "" THEN before ELSE Append(before, args)
         ELSE IF k \in DOMAIN g THEN g[k] ELSE <<>>]

LEMMA PadsTwice ==
  ASSUME NEW g \in Seq(Seq(Piece)), NEW h \in Seq(Seq(Piece)), NEW k \in Seq(Seq(Piece)),
         Pads(g, h), Pads(h, k)
  PROVE  Pads(g, k)
<1>1. Len(g) \in Nat /\ Len(h) \in Nat /\ Len(k) \in Nat /\ Len(g) <= Len(h) /\ Len(h) <= Len(k)
  BY DEF Pads
<1>2. ASSUME NEW j \in 1..Len(k) PROVE k[j] = IF j \in 1..Len(g) THEN g[j] ELSE <<>>
  <2>1. j \in 1..Len(g) => j \in 1..Len(h)
    BY <1>1
  <2>2. k[j] = IF j \in 1..Len(h) THEN h[j] ELSE <<>>
    BY DEF Pads
  <2>3. j \in 1..Len(h) => h[j] = IF j \in 1..Len(g) THEN g[j] ELSE <<>>
    BY DEF Pads
  <2> QED BY <2>1, <2>2, <2>3
<1>3. Len(g) <= Len(k)
  BY <1>1
<1> QED BY <1>2, <1>3 DEF Pads

LEMMA AllOfASeq ==
  ASSUME NEW k \in Seq(Seq(Piece))
  PROVE  k = [j \in 1..Len(k) |-> k[j]]
OBVIOUS

LEMMA GivenNothing ==
  ASSUME NEW g \in Seq(Seq(Piece)), NEW k \in Seq(Seq(Piece)), Pads(g, k), NEW s,
         Len(k) = Len(s.tools), NEW p
  PROVE  k = GivenTo(g, s, p, "")
<1>1. DOMAIN g = 1..Len(g)
  OBVIOUS
<1>2. k = [j \in 1..Len(s.tools) |-> k[j]]
  BY AllOfASeq
<1>3. ASSUME NEW j \in 1..Len(s.tools)
      PROVE  k[j] = GivenTo(g, s, p, "")[j]
  <2>1. k[j] = IF j \in DOMAIN g THEN g[j] ELSE <<>>
    BY <1>1 DEF Pads
  <2>2. GivenTo(g, s, p, "")[j] = IF j \in DOMAIN g THEN g[j] ELSE <<>>
    BY DEF GivenTo
  <2> DEFINE x == IF j \in DOMAIN g THEN g[j] ELSE <<>>
  <2> HIDE DEF x
  <2>3. k[j] = x /\ GivenTo(g, s, p, "")[j] = x
    BY <2>1, <2>2 DEF x
  <2> QED BY <2>3
<1>4. GivenTo(g, s, p, "") = [j \in 1..Len(s.tools) |-> GivenTo(g, s, p, "")[j]]
  BY DEF GivenTo
<1> QED BY <1>2, <1>3, <1>4

LEMMA GivenMore ==
  ASSUME NEW g \in Seq(Seq(Piece)), NEW k \in Seq(Seq(Piece)), Pads(g, k), NEW s,
         Len(k) = Len(s.tools), NEW p \in 1..Len(k), NEW args \in Piece
  PROVE  More(k, p, args) = GivenTo(g, s, p, args)
<1>0. DOMAIN g = 1..Len(g)
  OBVIOUS
<1>1. args # ""
  BY DEF Piece
<1> DEFINE q == More(k, p, args)
<1>2. IsMore(q, k, p, args)
  BY MoreFields
<1> HIDE DEF q
<1>3. q = [j \in 1..Len(s.tools) |-> q[j]]
  BY <1>2, AllOfASeq DEF IsMore
<1>4. ASSUME NEW j \in 1..Len(s.tools)
      PROVE  q[j] = GivenTo(g, s, p, args)[j]
  <2>1. k[j] = IF j \in DOMAIN g THEN g[j] ELSE <<>>
    BY <1>0 DEF Pads
  <2>2. GivenTo(g, s, p, args)[j]
          = IF j = p THEN Append(IF p \in DOMAIN g THEN g[p] ELSE <<>>, args)
            ELSE IF j \in DOMAIN g THEN g[j] ELSE <<>>
    BY <1>1 DEF GivenTo
  <2>3. q[j] = IF j = p THEN Append(k[p], args) ELSE k[j]
    BY <1>2 DEF IsMore
  <2> QED BY <2>1, <2>2, <2>3
<1>5. GivenTo(g, s, p, args) = [j \in 1..Len(s.tools) |-> GivenTo(g, s, p, args)[j]]
  BY DEF GivenTo
<1> QED BY <1>3, <1>4, <1>5 DEF q

LEMMA HalfOfAll ==
  ASSUME NEW s, NEW c, NEW g, Args(s, c, g), NEW p \in 1..Len(s.tools)
  PROVE  Half(s, c, g, p)
<1>1. Delivered(s.tools[p], BlockOf(s, c, p), g[p])
  BY DEF Args
<1>2. Registered(s.tools[p], BlockOf(s, c, p), g[p])
  BY <1>1, NoName DEF Delivered, Registered
<1> QED BY <1>2 DEF Args, Half

LEMMA ProcessEffect ==
  ASSUME NEW s, NEW c, NEW g, Ok(s, c, 0), Idle(s), Args(s, c, g), NEW tc \in ToolChunk,
         NEW i, i = ToolIndex(s, tc.index), tc.name # None => NamePossible(NameOf(s, i), tc.name),
         NEW v, v = ProcessToolCall(s, tc)
  PROVE  \E e : Ok(v, e, 0) /\ Args(v, e, GivenTo(g, v, IF Known(v, i) THEN Place(v, i) ELSE 0, tc.args))
<1> DEFINE t == IF tc.name = None THEN s ELSE RegisterToolName(s, i, tc.name)
<1> DEFINE u == Announced(t, i, tc.id, tc.args)
<1>1. s \in Builder /\ g \in Seq(Seq(Piece)) /\ Len(s.tools) \in Nat
  BY ToolsOf DEF Ok, Args
<1>2. /\ tc.index \in Int /\ tc.id \in BOOLEAN /\ (tc.name # None => tc.name \in Seq(STRING))
      /\ (tc.args = "" \/ tc.args \in Piece)
  <2>1. tc \in [index: Int, id: BOOLEAN, name: Seq(STRING) \cup {None}, args: {"", "{", "}", "[]"}]
    BY ChunkAssumption
  <2> QED BY <2>1 DEF Piece
<1>3. i \in Int
  <2> DEFINE n == tc.index
  <2>1. n \in Int /\ i = ToolIndex(s, n)
    BY <1>2
  <2> HIDE DEF n
  <2> QED BY <1>1, <2>1 DEF ToolIndex
<1>4. v = IF tc.args = "" THEN u
          ELSE IF NameOf(u, i) = Task THEN BufferTaskArgs(u, Place(u, i), tc.args)
          ELSE EmitToolDelta(u, Place(u, i), tc.args)
  BY DEF ProcessToolCall
<1>5. /\ Ok(t, c, 0) /\ Idle(t)
      /\ \E h \in Seq(Seq(Piece)) :
           /\ Pads(g, h)
           /\ \/ ~Known(t, i) /\ Args(t, c, h)
              \/ Known(t, i) /\ Half(t, c, h, Place(t, i))
  <2>1. CASE tc.name = None
    <3>1. t = s /\ Pads(g, g)
      BY <1>1, <2>1, PadsItself
    <3>2. Known(s, i) => Half(s, c, g, Place(s, i))
      BY <1>1, PlaceFields, HalfOfAll
    <3> HIDE DEF t
    <3> QED BY <1>1, <3>1, <3>2
  <2>2. CASE tc.name # None
    <3>1. t = RegisterToolName(s, i, tc.name)
      BY <2>2
    <3> DEFINE name == tc.name
    <3>2. name \in Seq(STRING) /\ NamePossible(NameOf(s, i), name) /\ t = RegisterToolName(s, i, name)
      BY <1>2, <2>2, <3>1
    <3> HIDE DEF t, name
    <3>3. /\ Ok(t, c, 0) /\ OnlyTools(s, t) /\ Known(t, i)
          /\ \E h : Pads(g, h) /\ Half(t, c, h, Place(t, i))
      BY <1>3, <3>2, RegisterEffect
    <3>4. Idle(t)
      BY <3>3 DEF OnlyTools, Idle
    <3>5. PICK h : Pads(g, h) /\ Half(t, c, h, Place(t, i))
      BY <3>3
    <3>6. h \in Seq(Seq(Piece))
      BY <3>5 DEF Half
    <3> QED BY <3>3, <3>4, <3>5, <3>6
  <2> QED BY <2>1, <2>2
<1>6. PICK h \in Seq(Seq(Piece)) :
           /\ Pads(g, h)
           /\ \/ ~Known(t, i) /\ Args(t, c, h)
              \/ Known(t, i) /\ Half(t, c, h, Place(t, i))
  BY <1>5
<1> HIDE DEF t
<1> DEFINE id == tc.id
<1> DEFINE args == tc.args
<1>7. u = Announced(t, i, id, args) /\ id \in BOOLEAN
  BY <1>2
<1> HIDE DEF id, u
<1>8. \E d, k : Announces(h, i, args, u, d, k)
  BY <1>3, <1>5, <1>6, <1>7, AnnounceEffect
<1>9. PICK d, k : /\ Pads(h, k) /\ Ok(u, d, 0) /\ Args(u, d, k)
                  /\ args # "" => Known(u, i) /\ u.tools[Place(u, i)].started
  BY <1>8 DEF Announces
<1>10. k \in Seq(Seq(Piece)) /\ Len(k) = Len(u.tools) /\ u \in Builder
  BY <1>9 DEF Args, Ok
<1>11. Pads(g, k)
  BY <1>1, <1>6, <1>9, <1>10, PadsTwice
<1>12. CASE args = ""
  <2>1. v = u
    BY <1>4, <1>12
  <2>2. k = GivenTo(g, u, IF Known(u, i) THEN Place(u, i) ELSE 0, "")
    BY <1>1, <1>10, <1>11, GivenNothing
  <2> QED BY <1>9, <1>12, <2>1, <2>2
<1>13. CASE args # ""
  <2> DEFINE p == Place(u, i)
  <2>1. args \in Piece /\ Known(u, i) /\ u.tools[p].started
    BY <1>2, <1>9, <1>13
  <2>2. p \in 1..Len(u.tools) /\ NameOf(u, i) = u.tools[p].name
    BY <1>10, <2>1, PlaceFields
  <2>3. v = TakeArgs(u, p, args)
    BY <1>4, <1>13, <2>2 DEF TakeArgs
  <2> HIDE DEF p, args
  <2>4. PICK e : Ok(v, e, 0) /\ SamePlaces(u, v) /\ Args(v, e, More(k, p, args))
    BY <1>9, <2>1, <2>2, <2>3, TakeArgsEffect
  <2>5. v \in Builder /\ Len(k) = Len(v.tools)
    BY <1>10, <2>4 DEF Ok, SamePlaces
  <2>6. Known(v, i) /\ Place(v, i) = p
    BY <1>10, <2>1, <2>4, <2>5, SamePlace DEF p
  <2>7. More(k, p, args) = GivenTo(g, v, p, args)
    BY <1>1, <1>10, <1>11, <2>1, <2>2, <2>5, GivenMore
  <2> QED BY <2>4, <2>6, <2>7 DEF args
<1> QED BY <1>12, <1>13

-----------------------------------------------------------------------------
(* The two loops over the tool calls.                                      *)

LEMMA NatMin ==
  ASSUME NEW T \in SUBSET Nat, T # {}
  PROVE  \E x \in T : \A y \in T : x <= y
<1> DEFINE R == OpToRel(<, Nat)
<1>1. IsWellFoundedOn(R, Nat)
  BY NatLessThanWellFounded
<1>2. R = {ss \in Nat \X Nat : ss[1] < ss[2]}
  BY DEF OpToRel
<1> HIDE DEF R
<1>3. PICK x \in T : \A y \in T : ~ (<<y, x>> \in R)
  BY <1>1, WFMin
<1>4. \A y \in T : ~(y < x)
  BY <1>2, <1>3
<1> QED BY <1>4

(* A set of numbers that goes on from each of its members has them all.    *)
LEMMA NatAll ==
  ASSUME NEW S \in SUBSET Nat, 0 \in S, \A n \in S : n + 1 \in S
  PROVE  Nat \subseteq S
<1> SUFFICES ASSUME Nat \ S # {} PROVE FALSE
  OBVIOUS
<1>1. PICK x \in Nat \ S : \A y \in Nat \ S : x <= y
  <2>1. Nat \ S \in SUBSET Nat
    OBVIOUS
  <2> QED BY <2>1, NatMin
<1>2. x # 0
  OBVIOUS
<1>3. x - 1 \in Nat /\ ~(x <= x - 1) /\ (x - 1) + 1 = x
  BY <1>2
<1>4. x - 1 \in S
  BY <1>1, <1>3
<1> QED BY <1>1, <1>3, <1>4

LEMMA FlushLoop ==
  ASSUME NEW s, NEW n \in Nat, n = Len(s.tools)
  PROVE  \E f : /\ f[0] = s /\ f[n] = FlushTaskArgs(s)
                /\ \A j \in 1..n : f[j] = FlushTool(f[j - 1], j)
<1> DEFINE S == {k \in Nat : \E f : f = [j \in 0..k |-> IF j = 0 THEN s ELSE FlushTool(f[j - 1], j)]}
<1>1. 0 \in S
  <2> DEFINE f == [j \in 0..0 |-> s]
  <2>1. f = [j \in 0..0 |-> IF j = 0 THEN s ELSE FlushTool(f[j - 1], j)]
    OBVIOUS
  <2> QED BY <2>1
<1>2. ASSUME NEW k \in S PROVE k + 1 \in S
  <2>1. PICK f : f = [j \in 0..k |-> IF j = 0 THEN s ELSE FlushTool(f[j - 1], j)]
    OBVIOUS
  <2> DEFINE h == [j \in 0..(k + 1) |-> IF j <= k THEN f[j] ELSE FlushTool(f[k], k + 1)]
  <2>2. \A j \in 0..(k + 1) : h[j] = IF j = 0 THEN s ELSE FlushTool(h[j - 1], j)
    <3> SUFFICES ASSUME NEW j \in 0..(k + 1)
                 PROVE  h[j] = IF j = 0 THEN s ELSE FlushTool(h[j - 1], j)
      OBVIOUS
    <3>1. CASE j = 0
      <4>1. h[j] = f[j] /\ f[0] = s
        BY <2>1, <3>1
      <4> QED BY <3>1, <4>1
    <3>2. CASE j \in 1..k
      <4>1. h[j] = f[j] /\ h[j - 1] = f[j - 1] /\ f[j] = FlushTool(f[j - 1], j)
        BY <2>1, <3>2
      <4> QED BY <3>2, <4>1
    <3>3. CASE j = k + 1
      <4>1. h[j] = FlushTool(f[k], k + 1) /\ h[j - 1] = f[k] /\ j # 0
        BY <3>3
      <4> QED BY <3>3, <4>1
    <3> QED BY <3>1, <3>2, <3>3
  <2>3. h = [j \in 0..(k + 1) |-> h[j]]
    OBVIOUS
  <2> HIDE DEF h
  <2>4. h = [j \in 0..(k + 1) |-> IF j = 0 THEN s ELSE FlushTool(h[j - 1], j)]
    BY <2>2, <2>3
  <2> QED BY <2>4
<1> HIDE DEF S
<1>3. n \in S
  BY <1>1, <1>2, NatAll DEF S
<1> DEFINE f == CHOOSE f : f = [j \in 0..n |-> IF j = 0 THEN s ELSE FlushTool(f[j - 1], j)]
<1>4. f = [j \in 0..n |-> IF j = 0 THEN s ELSE FlushTool(f[j - 1], j)]
  BY <1>3 DEF S
<1>5. FlushTaskArgs(s) = f[n]
  BY DEF FlushTaskArgs
<1> HIDE DEF f
<1>6. \A j \in 0..n : f[j] = IF j = 0 THEN s ELSE FlushTool(f[j - 1], j)
  BY <1>4
<1>7. 0 \in 0..n /\ \A j \in 1..n : j \in 0..n /\ j # 0
  OBVIOUS
<1>8. f[0] = s /\ \A j \in 1..n : f[j] = FlushTool(f[j - 1], j)
  BY <1>6, <1>7
<1> QED BY <1>5, <1>8

LEMMA StopLoop ==
  ASSUME NEW s, NEW n \in Nat, n = Len(s.tools)
  PROVE  \E f : /\ f[0] = s /\ f[n] = StopToolBlocks(s)
                /\ \A j \in 1..n : f[j] = StopTool(f[j - 1], j)
<1> DEFINE S == {k \in Nat : \E f : f = [j \in 0..k |-> IF j = 0 THEN s ELSE StopTool(f[j - 1], j)]}
<1>1. 0 \in S
  <2> DEFINE f == [j \in 0..0 |-> s]
  <2>1. f = [j \in 0..0 |-> IF j = 0 THEN s ELSE StopTool(f[j - 1], j)]
    OBVIOUS
  <2> QED BY <2>1
<1>2. ASSUME NEW k \in S PROVE k + 1 \in S
  <2>1. PICK f : f = [j \in 0..k |-> IF j = 0 THEN s ELSE StopTool(f[j - 1], j)]
    OBVIOUS
  <2> DEFINE h == [j \in 0..(k + 1) |-> IF j <= k THEN f[j] ELSE StopTool(f[k], k + 1)]
  <2>2. \A j \in 0..(k + 1) : h[j] = IF j = 0 THEN s ELSE StopTool(h[j - 1], j)
    <3> SUFFICES ASSUME NEW j \in 0..(k + 1)
                 PROVE  h[j] = IF j = 0 THEN s ELSE StopTool(h[j - 1], j)
      OBVIOUS
    <3>1. CASE j = 0
      <4>1. h[j] = f[j] /\ f[0] = s
        BY <2>1, <3>1
      <4> QED BY <3>1, <4>1
    <3>2. CASE j \in 1..k
      <4>1. h[j] = f[j] /\ h[j - 1] = f[j - 1] /\ f[j] = StopTool(f[j - 1], j)
        BY <2>1, <3>2
      <4> QED BY <3>2, <4>1
    <3>3. CASE j = k + 1
      <4>1. h[j] = StopTool(f[k], k + 1) /\ h[j - 1] = f[k] /\ j # 0
        BY <3>3
      <4> QED BY <3>3, <4>1
    <3> QED BY <3>1, <3>2, <3>3
  <2>3. h = [j \in 0..(k + 1) |-> h[j]]
    OBVIOUS
  <2> HIDE DEF h
  <2>4. h = [j \in 0..(k + 1) |-> IF j = 0 THEN s ELSE StopTool(h[j - 1], j)]
    BY <2>2, <2>3
  <2> QED BY <2>4
<1> HIDE DEF S
<1>3. n \in S
  BY <1>1, <1>2, NatAll DEF S
<1> DEFINE f == CHOOSE f : f = [j \in 0..n |-> IF j = 0 THEN s ELSE StopTool(f[j - 1], j)]
<1>4. f = [j \in 0..n |-> IF j = 0 THEN s ELSE StopTool(f[j - 1], j)]
  BY <1>3 DEF S
<1>5. StopToolBlocks(s) = f[n]
  BY DEF StopToolBlocks
<1> HIDE DEF f
<1>6. \A j \in 0..n : f[j] = IF j = 0 THEN s ELSE StopTool(f[j - 1], j)
  BY <1>4
<1>7. 0 \in 0..n /\ \A j \in 1..n : j \in 0..n /\ j # 0
  OBVIOUS
<1>8. f[0] = s /\ \A j \in 1..n : f[j] = StopTool(f[j - 1], j)
  BY <1>6, <1>7
<1> QED BY <1>5, <1>8

(* What is shown of a tool call in the end.                                *)
Final(t, b, g) ==
  t.started =>
    /\ t.name # Task => b.deltas = g
    /\ b.name = Task =>
         b.deltas = IF g = <<>> THEN <<>> ELSE IF IsPrefix(Object, g) THEN <<"patched">> ELSE <<"{}">>

(* The first j calls are flushed.                                          *)
Flushing(s, c, g, j) ==
  /\ Ok(s, c, 0) /\ g \in Seq(Seq(Piece)) /\ Len(g) = Len(s.tools)
  /\ \A k \in 1..Len(s.tools) : /\ k <= j => Final(s.tools[k], BlockOf(s, c, k), g[k])
                                /\ j < k => Delivered(s.tools[k], BlockOf(s, c, k), g[k])

LEMMA FlushToolEffect ==
  ASSUME NEW s, NEW c, NEW g, NEW j, j \in 1..Len(s.tools), Flushing(s, c, g, j - 1),
         NEW v, v = FlushTool(s, j)
  PROVE  \E e : Flushing(v, e, g, j) /\ Len(v.tools) = Len(s.tools)
<1> DEFINE x == s.tools[j]
<1>1. s \in Builder /\ x \in Call /\ x.buffer \in Seq(Piece) /\ x.emitted \in BOOLEAN
      /\ x.started \in BOOLEAN /\ Len(s.tools) \in Nat /\ Ok(s, c, 0)
  BY ToolsOf, CallFields DEF Ok, Flushing
<1>2. j \in Int /\ j - 1 < j /\ \A k \in 1..Len(s.tools) : (k <= j => k <= j - 1 \/ k = j) /\ (j < k => j - 1 < k)
  BY <1>1
<1>3. Delivered(x, BlockOf(s, c, j), g[j])
  BY <1>2 DEF Flushing
<1>4. \A k \in 1..Len(s.tools) : /\ k <= j - 1 => Final(s.tools[k], BlockOf(s, c, k), g[k])
                                 /\ j < k => Delivered(s.tools[k], BlockOf(s, c, k), g[k])
  BY <1>2 DEF Flushing
<1>5. g \in Seq(Seq(Piece)) /\ Len(g) = Len(s.tools) /\ g[j] \in Seq(Piece)
  <2>1. g \in Seq(Seq(Piece)) /\ Len(g) = Len(s.tools)
    BY DEF Flushing
  <2>2. j \in 1..Len(g)
    BY <2>1
  <2> QED BY <2>1, <2>2, ElementOfSeq
<1>6. IsPrefix(Object, Object) /\ ~IsPrefix(Object, <<>>)
  <2>1. IsPrefix(Object, Object)
    BY ObjectFields, PrefixFields
  <2>2. <<>> \in Seq(Piece) /\ "{" \in Piece
    BY DEF Piece
  <2> QED BY <2>1, <2>2, ObjectPrefix
<1>7. CASE ~Unflushed(x)
  <2>1. v = s
    BY <1>7 DEF FlushTool
  <2>2. Final(x, BlockOf(s, c, j), g[j])
    BY <1>3, <1>6, <1>7 DEF Final, Delivered, Unflushed
  <2>3. \A k \in 1..Len(s.tools) : k <= j => Final(s.tools[k], BlockOf(s, c, k), g[k])
    BY <1>2, <1>4, <2>2
  <2>4. Flushing(s, c, g, j)
    BY <1>1, <1>4, <1>5, <2>3 DEF Flushing
  <2> QED BY <2>1, <2>4
<1>8. CASE Unflushed(x)
  <2> DEFINE y == Flushed(x)
  <2> DEFINE t == Buffers(s, j, <<>>, TRUE)
  <2>1. x.buffer # <<>> /\ ~x.emitted /\ x.started /\ x.name = Task
    BY <1>1, <1>3, <1>8 DEF Unflushed, Delivered
  <2>2. y \in Content /\ (x.buffer # Object => y = "{}")
    <3>1. y \in {"patched", "{}"} /\ (Parsed(x.buffer) # "object" => y = "{}")
      BY DEF Flushed
    <3>2. {"patched", "{}"} \subseteq Content
      BY DEF Content
    <3> HIDE DEF y
    <3> QED BY <3>1, <3>2, ParsedObject
  <2>3. v = EmitToolDelta(SetBuffers(s, j, <<>>, TRUE), j, y)
    BY <1>8 DEF FlushTool, SetBuffers
  <2>4. SetBuffers(s, j, <<>>, TRUE) = t
    <3>1. \A bg, em : SetBuffers(s, j, bg, em) = Buffers(s, j, bg, em)
      BY <1>1, BuffersSet
    <3> QED BY <3>1, Zenon
  <2> HIDE DEF y
  <2>5. Buffered(s, c, t, j, <<>>, TRUE)
    <3>1. <<>> \in Seq(Piece) /\ TRUE \in BOOLEAN
      OBVIOUS
    <3> QED BY <1>1, <3>1, BuffersFields
  <2> HIDE DEF t
  <2>6. /\ Ok(t, c, 0) /\ Len(t.tools) = Len(s.tools)
        /\ \A k \in 1..Len(s.tools) : /\ k # j => t.tools[k] = s.tools[k]
                                      /\ BlockOf(t, c, k) = BlockOf(s, c, k)
        /\ t.tools[j].name = x.name /\ t.tools[j].started = x.started
    BY <2>5 DEF Buffered
  <2>7. PICK e : Fed(t, c, v, e, j, y)
    BY <2>1, <2>2, <2>3, <2>4, <2>6, FedEffect
  <2>8. Ok(v, e, 0) /\ v.tools = t.tools
    BY <2>7 DEF Fed
  <2>9. Final(t.tools[j], BlockOf(v, e, j), g[j])
    <3> DEFINE b == BlockOf(s, c, j)
    <3>1. b.name = Task => g[j] # Object /\ x.buffer = g[j] /\ b.deltas = <<>> /\ ~IsPrefix(Object, g[j])
      BY <1>3, <1>6, <2>1 DEF Delivered
    <3>2. BlockOf(v, e, j).name = b.name /\ BlockOf(v, e, j).deltas = Append(b.deltas, y)
      BY <2>1, <2>6, <2>7 DEF Fed
    <3>3. Append(<<>>, y) = <<y>>
      OBVIOUS
    <3>4. b.name = Task => BlockOf(v, e, j).deltas = <<y>> /\ y = "{}" /\ g[j] # <<>>
      BY <2>1, <2>2, <3>1, <3>2, <3>3
    <3>5. b.name = Task => BlockOf(v, e, j).deltas = <<"{}">> /\ g[j] # <<>> /\ ~IsPrefix(Object, g[j])
      BY <3>1, <3>4
    <3> HIDE DEF b
    <3> QED BY <2>1, <2>6, <3>2, <3>5 DEF Final
  <2>10. ASSUME NEW k \in 1..Len(s.tools), k # j
         PROVE  /\ k <= j => Final(t.tools[k], BlockOf(v, e, k), g[k])
                /\ j < k => Delivered(t.tools[k], BlockOf(v, e, k), g[k])
    <3>1. t.tools[k] = s.tools[k] /\ k \in 1..Len(t.tools)
      BY <2>6, <2>10
    <3>2. s.tools[k].started => BlockOf(v, e, k).name = BlockOf(s, c, k).name
                                /\ BlockOf(v, e, k).deltas = BlockOf(s, c, k).deltas
      BY <2>6, <2>7, <2>10, <3>1 DEF Fed
    <3>3. k <= j => Final(s.tools[k], BlockOf(s, c, k), g[k])
      BY <1>2, <1>4, <2>10
    <3>4. j < k => Delivered(s.tools[k], BlockOf(s, c, k), g[k])
      BY <1>4
    <3>5. Final(s.tools[k], BlockOf(s, c, k), g[k]) => Final(t.tools[k], BlockOf(v, e, k), g[k])
      BY <3>1, <3>2 DEF Final
    <3>6. Delivered(s.tools[k], BlockOf(s, c, k), g[k]) => Delivered(t.tools[k], BlockOf(v, e, k), g[k])
      BY <3>1, <3>2 DEF Delivered
    <3> QED BY <3>3, <3>4, <3>5, <3>6
  <2>11. ~(j < j)
    BY <1>2
  <2>12. Flushing(v, e, g, j)
    BY <1>5, <2>6, <2>8, <2>9, <2>10, <2>11 DEF Flushing
  <2> QED BY <2>6, <2>8, <2>12
<1> QED BY <1>7, <1>8

FlushedTo(s, g, j, n) == Len(s.tools) = n /\ \E c : Flushing(s, c, g, j)

LEMMA FlushedNext ==
  ASSUME NEW n, NEW j \in 1..n, NEW k, k = j - 1, NEW s, NEW g, FlushedTo(s, g, k, n),
         NEW v, v = FlushTool(s, j)
  PROVE  FlushedTo(v, g, j, n)
<1>1. PICK c : Flushing(s, c, g, j - 1)
  BY DEF FlushedTo
<1>2. j \in 1..Len(s.tools) /\ Len(s.tools) = n
  BY DEF FlushedTo
<1>3. \E e : Flushing(v, e, g, j) /\ Len(v.tools) = Len(s.tools)
  BY <1>1, <1>2, FlushToolEffect
<1> QED BY <1>2, <1>3 DEF FlushedTo

-----------------------------------------------------------------------------
(* The end of a message: all is flushed, and all is stopped.               *)

FinalAll(s, c, g) ==
  /\ g \in Seq(Seq(Piece)) /\ Len(g) = Len(s.tools)
  /\ \A j \in 1..Len(s.tools) : Final(s.tools[j], BlockOf(s, c, j), g[j])

LEMMA SameFinal ==
  ASSUME NEW s, NEW c, NEW t, NEW d, NEW g, SameTools(s, c, t, d), FinalAll(s, c, g)
  PROVE  FinalAll(t, d, g)
<1> SUFFICES ASSUME NEW j \in 1..Len(s.tools), s.tools[j].started
             PROVE  Final(s.tools[j], BlockOf(t, d, j), g[j])
  BY DEF FinalAll, SameTools, Final
<1>1. Final(s.tools[j], BlockOf(s, c, j), g[j]) /\ t.tools = s.tools
  BY DEF FinalAll, SameTools
<1>2. BlockOf(t, d, j).name = BlockOf(s, c, j).name /\ BlockOf(t, d, j).deltas = BlockOf(s, c, j).deltas
  BY DEF SameTools, BlockOf
<1> QED BY <1>1, <1>2 DEF Final

LEMMA FlushEffect ==
  ASSUME NEW s, NEW c, NEW g, Ok(s, c, 0), Args(s, c, g), NEW v, v = FlushTaskArgs(s)
  PROVE  \E e : Ok(v, e, 0) /\ FinalAll(v, e, g)
<1> DEFINE n == Len(s.tools)
<1>1. s \in Builder /\ n \in Nat
  BY ToolsOf DEF Ok
<1>2. PICK f : f[0] = s /\ f[n] = v /\ \A j \in 1..n : f[j] = FlushTool(f[j - 1], j)
  BY <1>1, FlushLoop
<1> DEFINE S == {k \in Nat : k <= n => FlushedTo(f[k], g, k, n)}
<1>3. 0 \in S
  <2>1. \A k \in 1..n : ~(k <= 0)
    BY <1>1
  <2>2. Flushing(s, c, g, 0)
    BY <2>1 DEF Flushing, Args
  <2>3. FlushedTo(f[0], g, 0, n)
    BY <1>2, <2>2 DEF FlushedTo
  <2> QED BY <2>3
<1>4. ASSUME NEW k \in S PROVE k + 1 \in S
  <2> DEFINE j == k + 1
  <2>1. k \in Nat /\ j \in Nat /\ k = j - 1
    BY <1>4
  <2>2. ASSUME j <= n PROVE FlushedTo(f[j], g, j, n)
    <3>1. k <= n /\ j \in 1..n
      BY <1>1, <2>1, <2>2
    <3>2. FlushedTo(f[k], g, k, n) /\ f[j] = FlushTool(f[k], j)
      BY <1>2, <1>4, <2>1, <3>1
    <3> HIDE DEF j, n, S
    <3> QED BY <2>1, <3>1, <3>2, FlushedNext
  <2> QED BY <2>1, <2>2
<1> HIDE DEF S
<1>5. n \in S
  BY <1>1, <1>3, <1>4, NatAll DEF S
<1>6. PICK e : Flushing(f[n], e, g, n) /\ Len(f[n].tools) = n
  BY <1>1, <1>5 DEF S, FlushedTo
<1> HIDE DEF n
<1>7. \A k \in 1..n : k <= n
  BY <1>1
<1>8. Ok(v, e, 0) /\ FinalAll(v, e, g)
  BY <1>2, <1>6, <1>7 DEF Flushing, FinalAll
<1> QED BY <1>8

LEMMA StopToolEffect ==
  ASSUME NEW s, NEW c, NEW j \in 1..Len(s.tools), Ok(s, c, j - 1), Idle(s), NEW v, v = StopTool(s, j)
  PROVE  \E d : Ok(v, d, j) /\ Idle(v) /\ SameTools(s, c, v, d)
<1> DEFINE x == s.tools[j]
<1>1. s \in Builder /\ c \in Client /\ Pending(s.out, c) /\ InStep(s, c, j - 1) /\ c.message = "open"
      /\ x \in Call /\ x.block \in Int /\ Len(s.tools) \in Nat
  BY ToolsOf, CallFields DEF Ok, InStep
<1>2. /\ j \in Int /\ j - 1 < j
      /\ \A k \in 1..Len(s.tools) : (j < k => j - 1 < k) /\ (j - 1 < k => k = j \/ j < k) /\ (j < k => k # j)
  BY <1>1
<1>3. CASE ~x.started
  <2>1. v = s
    BY <1>3 DEF StopTool
  <2>2. \A i : Held(s, i, j - 1) => Held(s, i, j)
    BY <1>2, <1>3 DEF Held
  <2>3. InStep(s, c, j)
    BY <1>1, <1>2, <2>2 DEF InStep
  <2>4. SameTools(s, c, s, c)
    BY DEF SameTools
  <2> QED BY <1>1, <2>1, <2>3, <2>4 DEF Ok
<1>4. CASE x.started
  <2> DEFINE b == x.block
  <2>1. v = BlockStop(s, b)
    BY <1>4 DEF StopTool
  <2>2. OpenAs(c, b, "tool_use")
    BY <1>1, <1>2, <1>4 DEF InStep
  <2>3. b + 1 \in 1..Len(c.blocks) /\ c.blocks[b + 1].open /\ b \in Int
    BY <1>1, <2>2 DEF OpenAs
  <2>4. SameFields(s, v) /\ v.next = s.next /\ \E d : Stopped(c, d, b + 1) /\ Pending(v.out, d)
    <3> HIDE DEF b
    <3> QED BY <1>1, <2>1, <2>3, BlockStopEffect
  <2>5. PICK d : Stopped(c, d, b + 1) /\ Pending(v.out, d)
    BY <2>4
  <2> DEFINE i == b + 1
  <2>6. /\ d \in Client /\ d.message = "open" /\ Len(d.blocks) = Len(c.blocks) /\ ~d.blocks[i].open
        /\ \A k \in 1..Len(c.blocks) : /\ d.blocks[k].kind = c.blocks[k].kind
                                       /\ d.blocks[k].name = c.blocks[k].name
                                       /\ d.blocks[k].deltas = c.blocks[k].deltas
                                       /\ k # i => d.blocks[k].open = c.blocks[k].open
    BY <2>5 DEF Stopped
  <2>7. v \in Builder /\ v.tools = s.tools /\ Idle(v)
    BY <2>4 DEF SameFields, Idle
  <2>8. SameTools(s, c, v, d)
    BY <1>1, <2>6, <2>7 DEF SameTools, InStep
  <2>9. \A k \in 1..Len(s.tools) : s.tools[k].started /\ j < k => s.tools[k].block # b
    BY <1>1, <1>2, <1>4 DEF InStep, ToolsApart
  <2>10. \A k \in 1..Len(s.tools) : s.tools[k].started /\ j < k => s.tools[k].block + 1 # i
    <3> SUFFICES ASSUME NEW k \in 1..Len(s.tools), s.tools[k].started, j < k
                 PROVE  s.tools[k].block + 1 # i
      OBVIOUS
    <3>1. s.tools[k].block \in Int
      BY <1>1, ToolsOf, CallFields
    <3> DEFINE y == s.tools[k].block
    <3>2. y # b
      BY <2>9
    <3> HIDE DEF y, b
    <3> QED BY <2>3, <3>1, <3>2 DEF y
  <2> HIDE DEF i, b
  <2>11. ASSUME NEW k \in 1..Len(d.blocks), d.blocks[k].open PROVE Held(v, k, j)
    <3>1. k \in 1..Len(c.blocks) /\ k # i /\ c.blocks[k].open
      BY <2>6, <2>11
    <3>2. Held(s, k, j - 1)
      BY <1>1, <3>1 DEF InStep
    <3>3. PICK q \in 1..Len(s.tools) : j - 1 < q /\ s.tools[q].started /\ k = s.tools[q].block + 1
      BY <3>2 DEF Held, Idle
    <3>4. q # j
      BY <3>1, <3>3 DEF i, b
    <3>5. j < q
      BY <1>2, <3>3, <3>4
    <3> QED BY <2>7, <3>3, <3>5 DEF Held
  <2>12. ASSUME NEW k \in 1..Len(v.tools), j < k, v.tools[k].started
         PROVE  OpenAs(d, v.tools[k].block, "tool_use")
    <3>1. k \in 1..Len(s.tools) /\ s.tools[k].started /\ v.tools[k] = s.tools[k] /\ j - 1 < k
      BY <1>2, <2>7, <2>12
    <3>2. OpenAs(c, s.tools[k].block, "tool_use")
      BY <1>1, <3>1 DEF InStep
    <3>3. s.tools[k].block + 1 # i
      BY <2>10, <2>12, <3>1
    <3> QED BY <2>6, <3>1, <3>2, <3>3 DEF OpenAs
  <2>13. \A k \in 1..Len(v.tools) : v.tools[k].started => v.tools[k].block + 1 \in 1..Len(d.blocks)
    BY <1>1, <2>6, <2>7 DEF InStep
  <2>14. ToolsApart(v)
    BY <1>1, <2>7 DEF InStep, ToolsApart
  <2>15. Len(d.blocks) = v.next
    BY <1>1, <2>4, <2>6 DEF InStep
  <2>16. InStep(v, d, j)
    BY <2>6, <2>7, <2>11, <2>12, <2>13, <2>14, <2>15 DEF InStep, Idle
  <2> QED BY <2>5, <2>6, <2>7, <2>8, <2>16 DEF Ok
<1> QED BY <1>3, <1>4

(* Nothing is left open.                                                   *)
LEMMA StopEffect ==
  ASSUME NEW s, NEW c, Ok(s, c, 0), Idle(s), NEW v, v = StopToolBlocks(s)
  PROVE  \E d : /\ v \in Builder /\ d \in Client /\ Pending(v.out, d) /\ SameTools(s, c, v, d)
                /\ d.message = "open" /\ \A i \in 1..Len(d.blocks) : ~d.blocks[i].open
<1> DEFINE n == Len(s.tools)
<1>1. s \in Builder /\ n \in Nat
  BY ToolsOf DEF Ok
<1>2. PICK f : f[0] = s /\ f[n] = v /\ \A j \in 1..n : f[j] = StopTool(f[j - 1], j)
  BY <1>1, StopLoop
<1> DEFINE S == {k \in Nat : k <= n => \E e : Ok(f[k], e, k) /\ Idle(f[k]) /\ SameTools(s, c, f[k], e)}
<1>3. 0 \in S
  <2>1. SameTools(s, c, s, c)
    BY DEF SameTools
  <2> QED BY <1>2, <2>1
<1>4. ASSUME NEW k \in S PROVE k + 1 \in S
  <2>1. k \in Nat /\ k + 1 \in Nat /\ (k + 1) - 1 = k
    BY <1>4
  <2>2. SUFFICES ASSUME k + 1 <= n
                 PROVE  \E e : Ok(f[k + 1], e, k + 1) /\ Idle(f[k + 1]) /\ SameTools(s, c, f[k + 1], e)
    BY <2>1
  <2>3. k <= n /\ k + 1 \in 1..n
    BY <1>1, <2>1, <2>2
  <2>4. PICK e : Ok(f[k], e, k) /\ Idle(f[k]) /\ SameTools(s, c, f[k], e)
    BY <1>4, <2>3
  <2> DEFINE j == k + 1
  <2>5. f[j] = StopTool(f[k], j) /\ j \in 1..Len(f[k].tools) /\ j - 1 = k
    BY <1>2, <2>1, <2>3, <2>4 DEF SameTools
  <2> HIDE DEF j, n
  <2>6. \E d : Ok(f[j], d, j) /\ Idle(f[j]) /\ SameTools(f[k], e, f[j], d)
    BY <2>4, <2>5, StopToolEffect
  <2>7. \E d : Ok(f[j], d, j) /\ Idle(f[j]) /\ SameTools(s, c, f[j], d)
    BY <2>4, <2>6, SameToolsTwice
  <2> QED BY <2>7 DEF j
<1> HIDE DEF S
<1>5. n \in S
  BY <1>1, <1>3, <1>4, NatAll DEF S
<1>6. PICK d : Ok(f[n], d, n) /\ Idle(f[n]) /\ SameTools(s, c, f[n], d)
  BY <1>1, <1>5 DEF S
<1> HIDE DEF n
<1>7. \A k \in 1..n : ~(n < k)
  BY <1>1
<1>8. Ok(v, d, n) /\ Idle(v) /\ SameTools(s, c, v, d) /\ Len(v.tools) = n
  BY <1>2, <1>6 DEF SameTools, n
<1>9. \A i : ~Held(v, i, n)
  BY <1>7, <1>8 DEF Held, Idle
<1>10. d.message = "open" /\ \A i \in 1..Len(d.blocks) : ~d.blocks[i].open
  BY <1>8, <1>9 DEF Ok, InStep
<1> QED BY <1>8, <1>10 DEF Ok

LEMMA YieldKeeps ==
  ASSUME NEW s \in Builder, NEW e \in Event, NEW u, u = Yield(s, e)
  PROVE  u \in Builder /\ u.tools = s.tools /\ u.out = Append(s.out, e)
<1> DEFINE o == Append(s.out, e)
<1>1. u = Rec(s.next, s.thinking, s.text, s.thinkingStarted, s.textStarted, s.tools, o) /\ u \in Builder
  BY YieldFields
<1> HIDE DEF o
<1>2. u.tools = s.tools /\ u.out = o
  BY <1>1 DEF Rec
<1> QED BY <1>1, <1>2 DEF o

(* The last two events.                                                    *)
LEMMA EndEffect ==
  ASSUME NEW s \in Builder, NEW c \in Client, Pending(s.out, c), c.message = "open",
         \A i \in 1..Len(c.blocks) : ~c.blocks[i].open,
         NEW v, v = Yield(Yield(s, [type |-> "message_delta"]), [type |-> "message_stop"])
  PROVE  \E d \in Client : /\ v \in Builder /\ Pending(v.out, d) /\ SameTools(s, c, v, d)
                           /\ d.message = "stopped"
<1> DEFINE e == [type |-> "message_delta"]
<1> DEFINE h == [type |-> "message_stop"]
<1> DEFINE u == Yield(s, e)
<1> DEFINE x == At(c.blocks, "ended")
<1> DEFINE y == At(c.blocks, "stopped")
<1>1. e \in Event /\ h \in Event
  BY DEF Event
<1>2. Takes(c, e, x) /\ Takes(x, h, y)
  BY DEF Takes, TakesMessage, At
<1>3. x \in Client /\ y \in Client /\ y.message = "stopped" /\ y.blocks = c.blocks
  BY ClientFields DEF Client, At
<1> HIDE DEF e, h, x, y
<1>4. u \in Builder /\ u.tools = s.tools /\ u.out = Append(s.out, e)
  BY <1>1, YieldKeeps
<1>5. v = Yield(u, h)
  BY DEF e, h
<1> HIDE DEF u
<1>6. v \in Builder /\ v.tools = u.tools /\ v.out = Append(u.out, h)
  BY <1>1, <1>4, <1>5, YieldKeeps
<1>7. s.out \in Seq(Event) /\ u.out \in Seq(Event)
  BY <1>4, BuilderFields
<1>8. Pending(u.out, x)
  BY <1>1, <1>2, <1>3, <1>4, <1>7, OneMore
<1>9. Pending(v.out, y)
  BY <1>1, <1>2, <1>3, <1>6, <1>7, <1>8, OneMore
<1>10. SameTools(s, c, v, y)
  BY <1>3, <1>4, <1>6 DEF SameTools
<1> QED BY <1>3, <1>6, <1>9, <1>10

(* What the generator does at its end.                                     *)
Ended(s) ==
  Yield(Yield(CloseAllBlocks(FlushTaskArgs(s)), [type |-> "message_delta"]), [type |-> "message_stop"])

LEMMA EndedEffect ==
  ASSUME NEW s, NEW c, NEW g, Ok(s, c, 0), Args(s, c, g), NEW v, v = Ended(s)
  PROVE  \E d \in Client : /\ v \in Builder /\ Pending(v.out, d) /\ FinalAll(v, d, g)
                           /\ d.message = "stopped"
<1> DEFINE t == FlushTaskArgs(s)
<1>1. PICK d : Ok(t, d, 0) /\ FinalAll(t, d, g)
  BY FlushEffect
<1> DEFINE u == CloseContentBlocks(t)
<1> DEFINE w == StopToolBlocks(u)
<1>2. v = Yield(Yield(w, [type |-> "message_delta"]), [type |-> "message_stop"])
  BY DEF Ended, CloseAllBlocks
<1> HIDE DEF t
<1>3. PICK e : Ok(u, e, 0) /\ SameTools(t, d, u, e) /\ Idle(u)
  BY <1>1, CloseContentEffect
<1> HIDE DEF u
<1>4. PICK h : /\ w \in Builder /\ h \in Client /\ Pending(w.out, h) /\ SameTools(u, e, w, h)
               /\ h.message = "open" /\ \A i \in 1..Len(h.blocks) : ~h.blocks[i].open
  BY <1>3, StopEffect
<1> HIDE DEF w
<1>5. PICK k \in Client : /\ v \in Builder /\ Pending(v.out, k) /\ SameTools(w, h, v, k)
                          /\ k.message = "stopped"
  BY <1>2, <1>4, EndEffect
<1>6. FinalAll(u, e, g)
  BY <1>1, <1>3, SameFinal
<1>7. FinalAll(w, h, g)
  BY <1>4, <1>6, SameFinal
<1>8. FinalAll(v, k, g)
  BY <1>5, <1>7, SameFinal
<1> QED BY <1>5, <1>8

-----------------------------------------------------------------------------
(* The invariant: what is yielded takes the client on to what the builder  *)
(* has open; in the end, to a message that is stopped and has it all.      *)

Streamed(s, g) == \E c : Ok(s, c, 0) /\ Args(s, c, g)

Over(s, g) ==
  \E c \in Client : s \in Builder /\ Pending(s.out, c) /\ FinalAll(s, c, g) /\ c.message = "stopped"

StreamInv ==
  /\ blocks \in Seq(Block)
  /\ phase \in {"streaming", "ending", "over", "closed"}
  /\ phase \in {"streaming", "ending"} => Streamed(sse, given)
  /\ phase = "over" => Over(sse, given)
  /\ phase = "closed" => message = "cut"

LEMMA InitStream == Init => StreamInv
<1> SUFFICES ASSUME Init PROVE StreamInv
  OBVIOUS
<1> DEFINE e == [type |-> "message_start"]
<1> DEFINE a == At(<<>>, "new")
<1> DEFINE c == At(<<>>, "open")
<1>1. sse = Rec(0, NoIndex, NoIndex, FALSE, FALSE, <<>>, <<e>>)
  BY DEF Init, Rec
<1>2. blocks = <<>> /\ message = "new" /\ phase = "streaming" /\ given = <<>>
  BY DEF Init
<1>3. e \in Event /\ <<>> \in Seq(Event) /\ Append(<<>>, e) = <<e>> /\ <<e>> \in Seq(Event)
  BY DEF Event
<1>4. <<>> \in Seq(Block) /\ Len(<<>>) = 0 /\ <<>> \in Seq(Call) /\ <<>> \in Seq(Seq(Piece))
      /\ \A j \in 1..0 : FALSE
  OBVIOUS
<1>5. a \in Client /\ c \in Client /\ c.message = "open" /\ c.blocks = <<>> /\ Takes(a, e, c)
  BY <1>4 DEF Client, At, Takes, TakesMessage
<1>6. a = At(blocks, message)
  BY <1>2
<1> HIDE DEF e, a, c
<1>7. Pending(<<>>, a)
  BY <1>5, <1>6, NothingPending
<1>8. Pending(<<e>>, c)
  BY <1>3, <1>5, <1>7, OneMore
<1>9. sse \in Builder
  <2>1. NoIndex \in Int
    BY DEF NoIndex
  <2> QED BY <1>1, <1>3, <1>4, <2>1, RecType
<1>10. sse.next = 0 /\ ~sse.thinkingStarted /\ ~sse.textStarted /\ sse.tools = <<>> /\ sse.out = <<e>>
  BY <1>1 DEF Rec
<1>11. InStep(sse, c, 0)
  BY <1>4, <1>5, <1>10 DEF InStep, ToolsApart
<1>12. Ok(sse, c, 0) /\ Args(sse, c, given)
  BY <1>2, <1>4, <1>5, <1>8, <1>9, <1>10, <1>11 DEF Ok, Args
<1>13. Streamed(sse, given)
  BY <1>12 DEF Streamed
<1> QED BY <1>2, <1>4, <1>13 DEF StreamInv

(* What the generator does when it receives something.                     *)
LEMMA ContentReceived ==
  ASSUME Streamed(sse, given),
         ReceiveThinking \/ ReceiveText \/ \E name \in ToolName : ReceiveTextualToolCall(name)
  PROVE  Streamed(sse', given')
<1>1. PICK c : Ok(sse, c, 0) /\ Args(sse, c, given)
  BY DEF Streamed
<1>2. given' = given
  BY DEF ReceiveThinking, ReceiveText, ReceiveTextualToolCall
<1>3. SUFFICES \E d : Ok(sse', d, 0) /\ SameTools(sse, c, sse', d)
  BY <1>1, <1>2, SameArgs DEF Streamed
<1>4. "thinking" \in Content /\ "text" \in Content
  BY DEF Content
<1>5. CASE ReceiveThinking
  <2>1. CASE thinkingEnabled
    <3>1. sse' = EmitThinkingDelta(EnsureThinkingBlock(sse), "thinking")
      BY <1>5, <2>1 DEF ReceiveThinking
    <3> QED BY <1>1, <1>4, <3>1, ThinkingEffect
  <2>2. CASE ~thinkingEnabled
    <3>1. sse' = sse
      BY <1>5, <2>2 DEF ReceiveThinking
    <3>2. SameTools(sse, c, sse, c)
      BY DEF SameTools
    <3> QED BY <1>1, <3>1, <3>2
  <2> QED BY <2>1, <2>2
<1>6. CASE ReceiveText
  <2>1. sse' = EmitTextDelta(EnsureTextBlock(sse), "text")
    BY <1>6 DEF ReceiveText
  <2> QED BY <1>1, <1>4, <2>1, TextEffect
<1>7. ASSUME NEW name \in ToolName, ReceiveTextualToolCall(name)
      PROVE  \E d : Ok(sse', d, 0) /\ SameTools(sse, c, sse', d)
  <2>1. sse' = TextualToolCall(sse, name)
    BY <1>7 DEF ReceiveTextualToolCall
  <2> QED BY <1>1, <2>1, TextualEffect
<1> QED BY <1>5, <1>6, <1>7

LEMMA ToolCallReceived ==
  ASSUME Streamed(sse, given), NEW tc \in ToolChunk, ReceiveToolCall(tc)
  PROVE  Streamed(sse', given')
<1> DEFINE s == CloseContentBlocks(sse)
<1> DEFINE i == ToolIndex(sse, tc.index)
<1> DEFINE v == ProcessToolCall(s, tc)
<1> DEFINE p == IF Known(v, i) THEN Place(v, i) ELSE 0
<1>1. PICK c : Ok(sse, c, 0) /\ Args(sse, c, given)
  BY DEF Streamed
<1>2. PICK d : Ok(s, d, 0) /\ SameTools(sse, c, s, d) /\ Idle(s)
  BY <1>1, CloseContentEffect
<1>3. Args(s, d, given)
  BY <1>1, <1>2, SameArgs
<1>4. /\ tc.name # None => NamePossible(NameOf(sse, i), tc.name)
      /\ sse' = IF Raises(v) THEN Failed(v) ELSE v
      /\ given' = Given(v, p, tc.args)
  BY DEF ReceiveToolCall
<1>5. s.tools = sse.tools
  BY <1>2 DEF SameTools
<1> HIDE DEF s
<1>6. ToolIndex(s, tc.index) = i /\ NameOf(s, i) = NameOf(sse, i)
  <2>1. ToolIndex(s, tc.index) = i
    BY <1>5 DEF ToolIndex
  <2> HIDE DEF i
  <2>2. NameOf(s, i) = NameOf(sse, i)
    BY <1>5 DEF NameOf, Known, Place, IndexOf
  <2> QED BY <2>1, <2>2
<1> HIDE DEF i, v
<1>7. Given(v, p, tc.args) = GivenTo(given, v, p, tc.args)
  BY DEF Given, GivenTo
<1>8. PICK e : Ok(v, e, 0) /\ Args(v, e, GivenTo(given, v, p, tc.args))
  BY <1>2, <1>3, <1>4, <1>6, ProcessEffect DEF v
<1> HIDE DEF p
<1>9. Args(v, e, given')
  BY <1>4, <1>7, <1>8
<1>10. CASE ~Raises(v)
  <2>1. sse' = v
    BY <1>4, <1>10
  <2> QED BY <1>8, <1>9, <2>1 DEF Streamed
<1>11. CASE Raises(v)
  <2>1. sse' = Failed(v)
    BY <1>4, <1>11
  <2>2. PICK h : Ok(Failed(v), h, 0) /\ SameTools(v, e, Failed(v), h)
    BY <1>8, FailedEffect
  <2>3. Args(Failed(v), h, given')
    BY <1>9, <2>2, SameArgs
  <2> QED BY <2>1, <2>2, <2>3 DEF Streamed
<1> QED BY <1>10, <1>11

(* The last flush of the generator, and its end.                           *)
RestOf(s, rest, calls) ==
  FillEmpty(IF calls = <<>> THEN FlushRest(s, rest) ELSE TextualToolCall(FlushRest(s, rest), Task))

LEMMA FinishEffect ==
  ASSUME Streamed(sse, given), Finish
  PROVE  Over(sse', given')
<1>1. PICK c : Ok(sse, c, 0) /\ Args(sse, c, given)
  BY DEF Streamed
<1>2. PICK rest \in {"", "thinking", "text"}, calls \in {<<>>, <<Task>>} :
        sse' = Ended(RestOf(sse, rest, calls))
  BY DEF Finish, Ended, RestOf
<1>3. given' = given
  BY DEF Finish
<1> DEFINE u == RestOf(sse, rest, calls)
<1>4. PICK d : Ok(u, d, 0) /\ SameTools(sse, c, u, d)
  BY <1>1, RestEffect DEF RestOf
<1> HIDE DEF u
<1>5. Args(u, d, given)
  BY <1>1, <1>4, SameArgs
<1>6. sse' = Ended(u)
  BY <1>2 DEF u
<1>7. \E e \in Client : /\ sse' \in Builder /\ Pending(sse'.out, e) /\ FinalAll(sse', e, given)
                        /\ e.message = "stopped"
  BY <1>4, <1>5, <1>6, EndedEffect
<1> QED BY <1>3, <1>7 DEF Over

(* A client that has not read anything else is where it was.               *)
LEMMA PendingStays ==
  ASSUME UNCHANGED clientVars, NEW s, NEW g
  PROVE  /\ Streamed(s, g) => \E c : /\ s \in Builder /\ c \in Client /\ InStep(s, c, 0) /\ Args(s, c, g)
                                     /\ \E run \in Seq(Client) : Leads(run, blocks', message', s.out, c)
         /\ Over(s, g) => \E c \in Client :
                            /\ s \in Builder /\ FinalAll(s, c, g) /\ c.message = "stopped"
                            /\ \E run \in Seq(Client) : Leads(run, blocks', message', s.out, c)
<1>1. blocks' = blocks /\ message' = message
  BY DEF clientVars
<1> QED BY <1>1 DEF Streamed, Over, Ok, Pending

LEMMA StreamedNext ==
  ASSUME NEW c \in Client, sse' \in Builder, InStep(sse', c, 0), Args(sse', c, given'),
         \E run \in Seq(Client) : Leads(run, blocks', message', sse'.out, c)
  PROVE  Streamed(sse, given)'
<1>1. Ok(sse, c, 0)'
  BY DEF Ok, Pending
<1>2. Args(sse, c, given)'
  OBVIOUS
<1> QED BY <1>1, <1>2 DEF Streamed

LEMMA OverNext ==
  ASSUME NEW c \in Client, sse' \in Builder, FinalAll(sse', c, given'), c.message = "stopped",
         \E run \in Seq(Client) : Leads(run, blocks', message', sse'.out, c)
  PROVE  Over(sse, given)'
BY DEF Over, Pending

LEMMA GeneratorKeeps ==
  ASSUME StreamInv, GeneratorStep
  PROVE  StreamInv' /\ UNCHANGED clientVars
<1>1. UNCHANGED clientVars
  BY DEF GeneratorStep, Receive, ReceiveThinking, ReceiveText, ReceiveTextualToolCall, ReceiveToolCall,
         UpstreamFails, UpstreamEnds, Finish, clientVars
<1>2. blocks' \in Seq(Block)
  BY <1>1 DEF StreamInv, clientVars
<1>3. \/ phase' \in {"streaming", "ending"} /\ Streamed(sse', given')
      \/ phase' = "over" /\ Over(sse', given')
  <2>1. CASE ReceiveThinking \/ ReceiveText \/ \E name \in ToolName : ReceiveTextualToolCall(name)
    <3>1. phase = "streaming" /\ phase' = phase
      BY <2>1 DEF ReceiveThinking, ReceiveText, ReceiveTextualToolCall, Receive
    <3>2. Streamed(sse', given')
      BY <2>1, <3>1, ContentReceived DEF StreamInv
    <3> QED BY <3>1, <3>2
  <2>2. ASSUME NEW tc \in ToolChunk, ReceiveToolCall(tc)
        PROVE  phase' \in {"streaming", "ending"} /\ Streamed(sse', given')
    <3>1. phase = "streaming" /\ phase' \in {"streaming", "ending"}
      BY <2>2 DEF ReceiveToolCall, Receive
    <3>2. Streamed(sse', given')
      BY <2>2, <3>1, ToolCallReceived DEF StreamInv
    <3> QED BY <3>1, <3>2
  <2>3. CASE UpstreamFails
    <3>1. phase = "streaming" /\ phase' = "ending" /\ sse' = Failed(sse) /\ given' = given
      BY <2>3 DEF UpstreamFails
    <3>2. PICK c : Ok(sse, c, 0) /\ Args(sse, c, given)
      BY <3>1 DEF StreamInv, Streamed
    <3>3. PICK d : Ok(Failed(sse), d, 0) /\ SameTools(sse, c, Failed(sse), d)
      BY <3>2, FailedEffect
    <3>4. Args(Failed(sse), d, given)
      BY <3>2, <3>3, SameArgs
    <3> QED BY <3>1, <3>3, <3>4 DEF Streamed
  <2>4. CASE UpstreamEnds
    <3>1. phase = "streaming" /\ phase' = "ending" /\ sse' = sse /\ given' = given
      BY <2>4 DEF UpstreamEnds
    <3> QED BY <3>1 DEF StreamInv
  <2>5. CASE Finish
    <3>1. phase = "ending" /\ phase' = "over"
      BY <2>5 DEF Finish
    <3> QED BY <2>5, <3>1, FinishEffect DEF StreamInv
  <2> QED BY <2>1, <2>2, <2>3, <2>4, <2>5 DEF GeneratorStep
<1>4. Streamed(sse', given') => Streamed(sse, given)'
  BY <1>1, PendingStays, StreamedNext
<1>5. Over(sse', given') => Over(sse, given)'
  BY <1>1, PendingStays, OverNext
<1> QED BY <1>1, <1>2, <1>3, <1>4, <1>5 DEF StreamInv

(* The client reads on towards the same end.                               *)
LEMMA ReadKeeps ==
  ASSUME StreamInv, Read
  PROVE  StreamInv' /\ Protocol!Next
<1>1. /\ phase \in {"streaming", "ending", "over"} /\ phase' = phase /\ given' = given
      /\ sse.out # <<>> /\ sse' = [sse EXCEPT !.out = Tail(@)] /\ blocks \in Seq(Block)
  BY DEF Read, StreamInv
<1>2. PICK c \in Client : sse \in Builder /\ Pending(sse.out, c)
        /\ \/ phase \in {"streaming", "ending"} /\ InStep(sse, c, 0) /\ Args(sse, c, given)
           \/ phase = "over" /\ FinalAll(sse, c, given) /\ c.message = "stopped"
  BY <1>1 DEF StreamInv, Streamed, Over, Ok
<1> DEFINE o == Tail(sse.out)
<1>3. sse.out \in Seq(Event) /\ o \in Seq(Event)
  <2>1. sse.out \in Seq(Event)
    BY <1>2, BuilderFields
  <2> QED BY <1>1, <2>1, HeadTailProperties
<1>4. PICK d \in Client :
        /\ Takes(At(blocks, message), Head(sse.out), d)
        /\ blocks' = d.blocks /\ message' = d.message =>
             \E run \in Seq(Client) : Leads(run, blocks', message', Tail(sse.out), c)
  BY <1>1, <1>2, <1>3, OneLess
<1>5. blocks' = d.blocks /\ message' = d.message /\ Protocol!Next
  BY <1>1, <1>4, ReadEffect
<1>6. blocks' \in Seq(Block)
  BY <1>5, ClientFields
<1>7. sse' = [sse EXCEPT !.out = o]
  BY <1>1
<1>8. \E run \in Seq(Client) : Leads(run, blocks', message', o, c)
  BY <1>4, <1>5
<1> HIDE DEF o
<1>9. sse' = Rec(sse.next, sse.thinking, sse.text, sse.thinkingStarted, sse.textStarted, sse.tools, o)
  BY <1>2, <1>7, BuilderExcept
<1>10. /\ sse'.next = sse.next /\ sse'.thinking = sse.thinking /\ sse'.text = sse.text
       /\ sse'.thinkingStarted = sse.thinkingStarted /\ sse'.textStarted = sse.textStarted
       /\ sse'.tools = sse.tools /\ sse'.out = o
  BY <1>9 DEF Rec
<1>11. sse' \in Builder
  BY <1>2, <1>3, <1>9, BuilderFields, RecType
<1>12. \E run \in Seq(Client) : Leads(run, blocks', message', sse'.out, c)
  BY <1>8, <1>10
<1>13. CASE phase \in {"streaming", "ending"}
  <2>1. InStep(sse, c, 0) /\ Args(sse, c, given)
    BY <1>2, <1>13
  <2>2. InStep(sse', c, 0)
    BY <1>10, <2>1 DEF InStep, Held, ToolsApart
  <2>3. Args(sse', c, given')
    BY <1>1, <1>10, <2>1 DEF Args, BlockOf
  <2>4. Streamed(sse, given)'
    BY <1>11, <1>12, <2>2, <2>3, StreamedNext
  <2> QED BY <1>1, <1>5, <1>6, <1>13, <2>4 DEF StreamInv
<1>14. CASE phase = "over"
  <2>1. FinalAll(sse, c, given) /\ c.message = "stopped"
    BY <1>2, <1>14
  <2>2. FinalAll(sse', c, given')
    BY <1>1, <1>10, <2>1 DEF FinalAll, BlockOf
  <2>3. Over(sse, given)'
    BY <1>11, <1>12, <2>1, <2>2, OverNext
  <2> QED BY <1>1, <1>5, <1>6, <1>14, <2>3 DEF StreamInv
<1> QED BY <1>1, <1>13, <1>14

LEMMA DisconnectKeeps ==
  ASSUME StreamInv, Disconnect
  PROVE  StreamInv' /\ Protocol!Next
<1>1. /\ message # "stopped" /\ phase' = "closed" /\ message' = "cut" /\ blocks' = blocks
  BY DEF Disconnect
<1> QED BY <1>1 DEF StreamInv, Protocol!Next, Protocol!Cut

LEMMA StreamStep ==
  ASSUME StreamInv, [Next]_vars
  PROVE  StreamInv' /\ [Protocol!Next]_<<blocks, message>>
<1>1. CASE GeneratorStep
  BY <1>1, GeneratorKeeps DEF clientVars
<1>2. CASE Read
  BY <1>2, ReadKeeps
<1>3. CASE Disconnect
  BY <1>3, DisconnectKeeps
<1>4. CASE UNCHANGED vars
  <2>1. /\ blocks' = blocks /\ message' = message /\ phase' = phase /\ sse' = sse /\ given' = given
        /\ UNCHANGED clientVars
    BY <1>4 DEF vars, genVars, clientVars
  <2>2. Streamed(sse, given) => Streamed(sse, given)'
    BY <2>1, PendingStays, StreamedNext
  <2>3. Over(sse, given) => Over(sse, given)'
    BY <2>1, PendingStays, OverNext
  <2> QED BY <2>1, <2>2, <2>3 DEF StreamInv
<1> QED BY <1>1, <1>2, <1>3, <1>4 DEF Next

-----------------------------------------------------------------------------
(* The theorems.                                                           *)

(* At every moment of a stream, the events that are still to be read bring *)
(* the client to the very blocks that the builder has open, and what each  *)
(* tool call has received is in its block or in its buffer.                *)
THEOREM StreamInvariant == Spec => []StreamInv
<1>1. StreamInv /\ [Next]_vars => StreamInv'
  BY StreamStep
<1> QED BY InitStream, <1>1, PTL DEF Spec

(* Whatever the upstream sends and wherever it fails, the client is sent a *)
(* message that keeps the protocol: SSEBuilder starts, fills and stops its *)
(* blocks in turn, and leaves none open at the end of the message.         *)
THEOREM StreamKeepsProtocol == Spec => KeepsProtocol
<1>1. Init => Protocol!Init
  BY DEF Init, Protocol!Init
<1>2. StreamInv /\ [Next]_vars => [Protocol!Next]_<<blocks, message>>
  BY StreamStep
<1> QED BY <1>1, <1>2, StreamInvariant, PTL DEF Spec, KeepsProtocol, Protocol!Spec, Protocol!vars

(* When a message is stopped, all is read and every tool call has it all.  *)
LEMMA StoppedMessage ==
  ASSUME StreamInv, message = "stopped"
  PROVE  \A j \in DOMAIN sse.tools : Final(sse.tools[j], ToolBlock(j), given[j])
<1>1. phase \in {"streaming", "ending", "over"}
  BY DEF StreamInv
<1>2. PICK c : /\ sse \in Builder /\ Pending(sse.out, c)
               /\ (phase # "over" => c.message = "open") /\ (phase = "over" => FinalAll(sse, c, given))
  BY <1>1 DEF StreamInv, Streamed, Over, Ok, InStep
<1>3. sse.out = <<>>
  <2> SUFFICES ASSUME sse.out # <<>> PROVE FALSE
    OBVIOUS
  <2>1. sse.out \in Seq(Event)
    BY <1>2, BuilderFields
  <2>2. PICK d : Takes(At(blocks, message), Head(sse.out), d)
    BY <1>2, <2>1, OneLess
  <2>3. At(blocks, message).message = "stopped"
    BY DEF At
  <2> QED BY <2>2, <2>3 DEF Takes, TakesStart, TakesDelta, TakesStop, TakesMessage
<1>4. c = At(blocks, message)
  BY <1>2, <1>3, NothingPending
<1>5. phase = "over" /\ c.blocks = blocks
  BY <1>2, <1>4 DEF At
<1>6. DOMAIN sse.tools = 1..Len(sse.tools)
  BY <1>2, ToolsOf
<1> QED BY <1>2, <1>5, <1>6 DEF FinalAll, BlockOf, ToolBlock

(* However the chunks of several tool calls, text and thinking alternate,  *)
(* a call's block holds its argument pieces, all of them and in order.     *)
THEOREM ArgumentsReachTheirBlock == Spec => []ArgsDelivered
<1>1. StreamInv => ArgsDelivered
  BY StoppedMessage DEF ArgsDelivered, Final
<1> QED BY <1>1, StreamInvariant, PTL

(* buffer_task_args and the flush at the end: a Task's arguments are sent  *)
(* once, patched, when the pieces first make an object, and never raw.     *)
THEOREM TaskArgumentsArePatched == Spec => []TaskArgsPatched
<1>1. StreamInv => TaskArgsPatched
  BY StoppedMessage DEF TaskArgsPatched, Final, Object
<1> QED BY <1>1, StreamInvariant, PTL

-----------------------------------------------------------------------------
(* StreamText with its constants and variables (those of TextReading are   *)
(* extended above).  The text it takes apart becomes, piece by piece, the  *)
(* content of SseStream's parts.                                           *)

CONSTANTS Text, MaxHeld
VARIABLES rest, think, tool, calls, merged

Parsers == INSTANCE StreamText

-----------------------------------------------------------------------------
(* Least and greatest positions.                                           *)

LEMMA MinIn ==
  ASSUME NEW S \in SUBSET Nat, S # {}
  PROVE  Parsers!Min(S) \in S /\ \A x \in S : Parsers!Min(S) <= x
<1>1. \E x \in S : \A y \in S : x <= y
  BY NatMin
<1> QED BY <1>1 DEF Parsers!Min

LEMMA MaxIn ==
  ASSUME NEW n \in Nat, NEW S \in SUBSET (0..n), S # {}
  PROVE  Parsers!Max(S) \in S /\ \A x \in S : x <= Parsers!Max(S)
<1> DEFINE T == {n - x : x \in S}
<1>1. T \in SUBSET Nat /\ T # {}
  OBVIOUS
<1>2. PICK y \in T : \A z \in T : y <= z
  BY <1>1, NatMin
<1>3. PICK x \in S : y = n - x
  OBVIOUS
<1>4. \A z \in S : x >= z
  <2> SUFFICES ASSUME NEW z \in S PROVE x >= z
    OBVIOUS
  <2>1. n - x <= n - z
    BY <1>2, <1>3
  <2>2. x \in Nat /\ z \in Nat
    OBVIOUS
  <2> HIDE DEF T
  <2> QED BY <2>1, <2>2
<1> HIDE DEF T
<1>5. \E z \in S : \A v \in S : z >= v
  BY <1>4
<1>6. Parsers!Max(S) \in S /\ \A z \in S : Parsers!Max(S) >= z
  BY <1>5 DEF Parsers!Max
<1>7. \A z \in S : z \in Int
  OBVIOUS
<1> QED BY <1>6, <1>7

-----------------------------------------------------------------------------
(* Parts of sequences.                                                     *)

LEMMA PartType ==
  ASSUME NEW S, NEW s \in Seq(S), NEW m \in Nat \ {0}, NEW n \in Int, n <= Len(s)
  PROVE  /\ SubSeq(s, m, n) \in Seq(S)
         /\ Len(SubSeq(s, m, n)) = IF m <= n THEN n - m + 1 ELSE 0
         /\ \A i \in 1..Len(SubSeq(s, m, n)) : SubSeq(s, m, n)[i] = s[m + i - 1]
BY DEF Max

LEMMA PartOfPart ==
  ASSUME NEW S, NEW s \in Seq(S), NEW p \in Nat \ {0}, NEW q \in Nat, q <= Len(s), p <= q + 1,
         NEW m \in Nat \ {0}, NEW n \in Int, m <= n + 1, n <= q - p + 1
  PROVE  SubSeq(SubSeq(s, p, q), m, n) = SubSeq(s, p + m - 1, p + n - 1)
<1> DEFINE b == SubSeq(s, p, q)
<1> DEFINE u == SubSeq(b, m, n)
<1> DEFINE v == SubSeq(s, p + m - 1, p + n - 1)
<1>1. b \in Seq(S) /\ Len(b) = q - p + 1 /\ \A i \in 1..Len(b) : b[i] = s[p + i - 1]
  BY PartType
<1> HIDE DEF b
<1>2. u \in Seq(S) /\ Len(u) = n - m + 1 /\ \A i \in 1..Len(u) : u[i] = b[m + i - 1]
  BY <1>1, PartType
<1>3. v \in Seq(S) /\ Len(v) = n - m + 1 /\ \A i \in 1..Len(v) : v[i] = s[p + m - 1 + i - 1]
  BY PartType
<1>4. \A i \in 1..Len(u) : u[i] = v[i]
  BY <1>1, <1>2, <1>3
<1> HIDE DEF u, v
<1>5. u = v
  BY <1>2, <1>3, <1>4
<1> QED BY <1>5 DEF u, v, b


(* To append behind the second part is to append behind both.              *)
Behind(s, t, e) == Append(s \o t, e) = s \o Append(t, e)

LEMMA AppendBehind ==
  ASSUME NEW S, NEW s \in Seq(S), NEW t \in Seq(S), NEW e \in S
  PROVE  Behind(s, t, e)
BY DEF Behind

Regroups(s, t, u) == (s \o t) \o u = s \o (t \o u)

LEMMA Regroup ==
  ASSUME NEW S, NEW s \in Seq(S), NEW t \in Seq(S), NEW u \in Seq(S)
  PROVE  Regroups(s, t, u)
BY ConcatAssociative DEF Regroups

LEMMA PrefixByLetter ==
  ASSUME NEW S, NEW T, NEW s \in Seq(S), NEW t \in Seq(T)
  PROVE  Parsers!IsPrefix(s, t) <=> Len(s) <= Len(t) /\ \A i \in 1..Len(s) : s[i] = t[i]
<1> DEFINE u == SubSeq(t, 1, Len(s))
<1>1. SubSeq(s, 1, Len(s)) = s
  BY SubSeqFull
<1>2. ASSUME Len(s) <= Len(t) PROVE s = u <=> \A i \in 1..Len(s) : s[i] = t[i]
  <2>1. /\ u \in Seq(T) /\ Len(u) = Len(s)
        /\ \A i \in 1..Len(s) : u[i] = t[i]
    BY <1>2
  <2> HIDE DEF u
  <2>2. (\A i \in 1..Len(s) : s[i] = u[i]) => s = u
    <3>1. s \in Seq(S \cup T) /\ u \in Seq(S \cup T)
      BY <2>1
    <3> QED BY <2>1, <3>1, SeqEqual
  <2> QED BY <2>1, <2>2
<1> HIDE DEF u
<1>3. Parsers!IsPrefix(s, t) <=> Len(s) <= Len(t) /\ s = u
  BY <1>1 DEF Parsers!IsPrefix, u
<1> QED BY <1>2, <1>3

-----------------------------------------------------------------------------
(* The letters of a sequence at some positions.  PickingOf(s, K)[n] is     *)
(* what has been picked of the first n.                                    *)

PickNext(s, K, q, n) == IF n \in K THEN Append(q, s[n]) ELSE q
Picking(s, K, k, f) == f = [n \in 0..k |-> IF n = 0 THEN <<>> ELSE PickNext(s, K, f[n - 1], n)]
PickingOf(s, K) == CHOOSE f : Picking(s, K, Len(s), f)

LEMMA PickingExists ==
  ASSUME NEW s, NEW K, NEW k \in Nat
  PROVE  \E f : Picking(s, K, k, f)
<1> DEFINE S == {i \in Nat : \E f : Picking(s, K, i, f)}
<1>1. 0 \in S
  <2> DEFINE f == [n \in 0..0 |-> <<>>]
  <2>1. Picking(s, K, 0, f)
    BY DEF Picking
  <2> QED BY <2>1
<1>2. ASSUME NEW i \in S PROVE i + 1 \in S
  <2>1. PICK f : Picking(s, K, i, f)
    OBVIOUS
  <2>2. \A n \in 0..i : f[n] = IF n = 0 THEN <<>> ELSE PickNext(s, K, f[n - 1], n)
    BY <2>1 DEF Picking
  <2> DEFINE h == [n \in 0..(i + 1) |-> IF n <= i THEN f[n] ELSE PickNext(s, K, f[i], i + 1)]
  <2>3. \A n \in 0..(i + 1) : h[n] = IF n = 0 THEN <<>> ELSE PickNext(s, K, h[n - 1], n)
    <3> SUFFICES ASSUME NEW n \in 0..(i + 1)
                 PROVE  h[n] = IF n = 0 THEN <<>> ELSE PickNext(s, K, h[n - 1], n)
      OBVIOUS
    <3>1. CASE n = 0
      <4>1. h[n] = f[n] /\ f[0] = <<>>
        BY <2>2, <3>1
      <4> QED BY <3>1, <4>1
    <3>2. CASE n \in 1..i
      <4>1. h[n] = f[n] /\ h[n - 1] = f[n - 1] /\ f[n] = PickNext(s, K, f[n - 1], n)
        BY <2>2, <3>2
      <4> QED BY <3>2, <4>1
    <3>3. CASE n = i + 1
      <4>1. h[n] = PickNext(s, K, f[i], i + 1) /\ h[n - 1] = f[i] /\ n # 0
        BY <3>3
      <4> QED BY <3>3, <4>1
    <3> QED BY <3>1, <3>2, <3>3
  <2>4. h = [n \in 0..(i + 1) |-> h[n]]
    OBVIOUS
  <2> HIDE DEF h
  <2>5. Picking(s, K, i + 1, h)
    BY <2>3, <2>4 DEF Picking
  <2> QED BY <2>5
<1> HIDE DEF S
<1>3. k \in S
  BY <1>1, <1>2, NatAll DEF S
<1> QED BY <1>3 DEF S

LEMMA PickedOneByOne ==
  ASSUME NEW S, NEW s \in Seq(S), NEW K
  PROVE  /\ Parsers!Picked(s, K) = PickingOf(s, K)[Len(s)]
         /\ PickingOf(s, K)[0] = <<>>
         /\ \A n \in 1..Len(s) :
              PickingOf(s, K)[n] = PickNext(s, K, PickingOf(s, K)[n - 1], n)
<1>1. Parsers!Picked(s, K) = PickingOf(s, K)[Len(s)]
  BY DEF Parsers!Picked, PickingOf, Picking, PickNext
<1>2. Len(s) \in Nat
  OBVIOUS
<1> DEFINE f == PickingOf(s, K)
<1>3. Picking(s, K, Len(s), f)
  BY <1>2, PickingExists DEF PickingOf
<1> HIDE DEF f
<1>4. \A n \in 0..Len(s) : f[n] = IF n = 0 THEN <<>> ELSE PickNext(s, K, f[n - 1], n)
  BY <1>3 DEF Picking
<1>5. f[0] = <<>> /\ \A n \in 1..Len(s) : f[n] = PickNext(s, K, f[n - 1], n)
  BY <1>2, <1>4
<1> QED BY <1>1, <1>5 DEF f

LEMMA PickingType ==
  ASSUME NEW S, NEW s \in Seq(S), NEW K, NEW n \in 0..Len(s)
  PROVE  PickingOf(s, K)[n] \in Seq(S)
<1> DEFINE f == PickingOf(s, K)
<1> DEFINE T == {i \in Nat : i <= Len(s) => f[i] \in Seq(S)}
<1>1. f[0] = <<>> /\ \A i \in 1..Len(s) : f[i] = PickNext(s, K, f[i - 1], i)
  BY PickedOneByOne
<1> HIDE DEF f
<1>2. 0 \in T
  <2>1. f[0] \in Seq(S)
    BY <1>1, EmptySeq
  <2> QED BY <2>1
<1>3. ASSUME NEW i \in T PROVE i + 1 \in T
  <2> SUFFICES ASSUME i + 1 <= Len(s) PROVE f[i + 1] \in Seq(S)
    OBVIOUS
  <2>1. i + 1 \in 1..Len(s) /\ (i + 1) - 1 = i /\ i <= Len(s)
    OBVIOUS
  <2>2. f[i + 1] = PickNext(s, K, f[i], i + 1) /\ f[i] \in Seq(S) /\ s[i + 1] \in S
    BY <1>1, <2>1, ElementOfSeq
  <2> QED BY <2>2 DEF PickNext
<1> HIDE DEF T
<1>4. n \in T
  <2>1. T \in SUBSET Nat /\ n \in Nat
    BY DEF T
  <2> QED BY <1>2, <1>3, <2>1, NatAll
<1>5. f[n] \in Seq(S)
  BY <1>4 DEF T
<1> QED BY <1>5 DEF f

LEMMA PickedType ==
  ASSUME NEW S, NEW s \in Seq(S), NEW K
  PROVE  Parsers!Picked(s, K) \in Seq(S)
<1>1. Len(s) \in 0..Len(s)
  OBVIOUS
<1> QED BY <1>1, PickedOneByOne, PickingType

(* What is picked of two sequences is the same as far as they are.         *)
SameChoice(s, t, K, J, n) == \A i \in 1..n : s[i] = t[i] /\ (i \in K <=> i \in J)

LEMMA PickedAlike ==
  ASSUME NEW S, NEW s \in Seq(S), NEW t \in Seq(S), NEW K, NEW J,
         NEW n \in 0..Len(s), n <= Len(t),
         SameChoice(s, t, K, J, n)
  PROVE  PickingOf(s, K)[n] = PickingOf(t, J)[n]
<1> DEFINE f == PickingOf(s, K)
<1> DEFINE g == PickingOf(t, J)
<1> DEFINE T == {i \in Nat : i <= n => f[i] = g[i]}
<1>1. f[0] = <<>> /\ \A i \in 1..Len(s) : f[i] = PickNext(s, K, f[i - 1], i)
  BY PickedOneByOne
<1>2. g[0] = <<>> /\ \A i \in 1..Len(t) : g[i] = PickNext(t, J, g[i - 1], i)
  BY PickedOneByOne
<1> HIDE DEF f, g
<1>3. 0 \in T
  BY <1>1, <1>2
<1>4. ASSUME NEW i \in T PROVE i + 1 \in T
  <2> SUFFICES ASSUME i + 1 <= n PROVE f[i + 1] = g[i + 1]
    OBVIOUS
  <2>1. i + 1 \in 1..Len(s) /\ i + 1 \in 1..Len(t) /\ (i + 1) - 1 = i /\ i + 1 \in 1..n
    OBVIOUS
  <2>2. f[i] = g[i]
    <3>1. i <= n
      BY <2>1
    <3> QED BY <3>1 DEF T
  <2>3. /\ f[i + 1] = PickNext(s, K, f[i], i + 1)
        /\ g[i + 1] = PickNext(t, J, g[i], i + 1)
    BY <1>1, <1>2, <2>1
  <2>4. s[i + 1] = t[i + 1] /\ (i + 1 \in K <=> i + 1 \in J)
    BY <2>1 DEF SameChoice
  <2> QED BY <2>2, <2>3, <2>4 DEF PickNext
<1> HIDE DEF T
<1>5. n \in T
  <2>1. T \in SUBSET Nat /\ n \in Nat
    BY DEF T
  <2> QED BY <1>3, <1>4, <2>1, NatAll
<1>6. f[n] = g[n]
  BY <1>5 DEF T
<1> QED BY <1>6 DEF f, g

(* The letters behind the first n are picked all, or none of them.         *)
LEMMA NoneMorePicked ==
  ASSUME NEW S, NEW s \in Seq(S), NEW K, NEW n \in 0..Len(s),
         \A i \in n + 1..Len(s) : i \notin K
  PROVE  Parsers!Picked(s, K) = PickingOf(s, K)[n]
<1> DEFINE f == PickingOf(s, K)
<1> DEFINE T == {i \in Nat : n + i <= Len(s) => f[n + i] = f[n]}
<1>1. /\ Parsers!Picked(s, K) = f[Len(s)]
      /\ \A i \in 1..Len(s) : f[i] = PickNext(s, K, f[i - 1], i)
  BY PickedOneByOne
<1> HIDE DEF f
<1>2. 0 \in T
  OBVIOUS
<1>3. ASSUME NEW i \in T PROVE i + 1 \in T
  <2> SUFFICES ASSUME n + (i + 1) <= Len(s) PROVE f[n + (i + 1)] = f[n]
    OBVIOUS
  <2>1. /\ n + (i + 1) \in n + 1..Len(s) /\ n + (i + 1) \in 1..Len(s)
        /\ n + (i + 1) - 1 = n + i /\ n + i <= Len(s)
    OBVIOUS
  <2>2. f[n + (i + 1)] = PickNext(s, K, f[n + i], n + (i + 1))
    BY <1>1, <2>1
  <2>3. f[n + i] = f[n]
    BY <2>1 DEF T
  <2> QED BY <2>1, <2>2, <2>3 DEF PickNext
<1> HIDE DEF T
<1>4. Len(s) - n \in Nat /\ n + (Len(s) - n) = Len(s)
  OBVIOUS
<1>5. Len(s) - n \in T
  BY <1>2, <1>3, <1>4, NatAll DEF T
<1>6. f[Len(s)] = f[n]
  BY <1>4, <1>5 DEF T
<1> QED BY <1>1, <1>6 DEF f

LEMMA AllMorePicked ==
  ASSUME NEW S, NEW s \in Seq(S), NEW K, NEW n \in 0..Len(s),
         \A i \in n + 1..Len(s) : i \in K
  PROVE  Parsers!Picked(s, K) = PickingOf(s, K)[n] \o SubSeq(s, n + 1, Len(s))
<1> DEFINE f == PickingOf(s, K)
<1> DEFINE P(i) == n + i <= Len(s) => f[n + i] = f[n] \o SubSeq(s, n + 1, n + i)
<1> DEFINE T == {i \in Nat : P(i)}
<1>1. /\ Parsers!Picked(s, K) = f[Len(s)]
      /\ \A i \in 1..Len(s) : f[i] = PickNext(s, K, f[i - 1], i)
  BY PickedOneByOne
<1>2. f[n] \in Seq(S)
  BY PickingType
<1> HIDE DEF f
<1>3. P(0)
  <2>1. SubSeq(s, n + 1, n) = <<>>
    BY SubSeqEmpty
  <2>2. f[n] \o <<>> = f[n]
    BY <1>2, ConcatEmptySeq
  <2>3. n + 0 = n
    OBVIOUS
  <2> QED BY <2>1, <2>2, <2>3
<1>4. ASSUME NEW i \in Nat, P(i) PROVE P(i + 1)
  <2> SUFFICES ASSUME n + (i + 1) <= Len(s)
               PROVE  f[n + (i + 1)] = f[n] \o SubSeq(s, n + 1, n + (i + 1))
    OBVIOUS
  <2> DEFINE m == n + (i + 1)
  <2>1. /\ m \in n + 1..Len(s) /\ m \in 1..Len(s)
        /\ m - 1 = n + i /\ n + i <= Len(s)
    OBVIOUS
  <2>2. f[m] = Append(f[n + i], s[m])
    BY <1>1, <2>1 DEF PickNext
  <2>3. f[n + i] = f[n] \o SubSeq(s, n + 1, n + i)
    BY <1>4, <2>1
  <2>4. SubSeq(s, n + 1, m) = SubSeq(s, n + 1, m - 1) \o <<s[m]>>
    <3>1. n + 1 \in 1..Len(s) /\ m \in n + 1..Len(s)
      BY <2>1
    <3> QED BY <3>1, SubSeqRecursiveSecond
  <2> DEFINE u == SubSeq(s, n + 1, n + i)
  <2>5. u \in Seq(S) /\ s[m] \in S
    BY <2>1, PartType, ElementOfSeq
  <2> HIDE DEF u, m
  <2>6. Append(f[n] \o u, s[m]) = f[n] \o Append(u, s[m])
    <3>1. Behind(f[n], u, s[m])
      BY <1>2, <2>5, AppendBehind
    <3> QED BY <3>1 DEF Behind
  <2>7. Append(u, s[m]) = u \o <<s[m]>>
    BY <2>5, AppendIsConcat
  <2>8. f[m] = f[n] \o SubSeq(s, n + 1, m)
    BY <2>1, <2>2, <2>3, <2>4, <2>6, <2>7 DEF u
  <2> QED BY <2>8 DEF m
<1> HIDE DEF P
<1>5. Len(s) - n \in Nat /\ n + (Len(s) - n) = Len(s)
  OBVIOUS
<1>6. P(Len(s) - n)
  <2>1. 0 \in T /\ \A i \in T : i + 1 \in T
    BY <1>3, <1>4
  <2>2. Nat \subseteq T
    BY <2>1, NatAll
  <2> QED BY <1>5, <2>2
<1>7. f[Len(s)] = f[n] \o SubSeq(s, n + 1, Len(s))
  <2> DEFINE k == Len(s) - n
  <2>1. k \in Nat /\ n + k = Len(s) /\ P(k)
    BY <1>5, <1>6
  <2> HIDE DEF k
  <2>2. n + k <= Len(s)
    BY <2>1
  <2>3. f[n + k] = f[n] \o SubSeq(s, n + 1, n + k)
    BY <2>1, <2>2 DEF P
  <2> QED BY <2>1, <2>3
<1> QED BY <1>1, <1>7 DEF f

-----------------------------------------------------------------------------
(* Letters with their kind.                                                *)

Word == {"thinking", "text"} \X STRING
Thought(m) == Parsers!Picked(m, {i \in DOMAIN m : m[i][1] = "thinking"})

LEMMA KindFields ==
  ASSUME NEW kind \in {"thinking", "text"}, NEW x \in Seq(STRING)
  PROVE  /\ Parsers!Kind(kind, x) \in Seq(Word)
         /\ Len(Parsers!Kind(kind, x)) = Len(x)
         /\ \A i \in 1..Len(x) : Parsers!Kind(kind, x)[i] = <<kind, x[i]>>
<1> DEFINE k == [i \in 1..Len(x) |-> <<kind, x[i]>>]
<1>1. Len(x) \in Nat /\ DOMAIN x = 1..Len(x)
  OBVIOUS
<1>2. \A i \in 1..Len(x) : <<kind, x[i]>> \in Word
  BY ElementOfSeq DEF Word
<1>3. k \in [1..Len(x) -> Word]
  BY <1>2
<1>4. k \in Seq(Word) /\ Len(k) = Len(x)
  BY <1>1, <1>3
<1>5. k = Parsers!Kind(kind, x)
  BY <1>1 DEF Parsers!Kind
<1>6. \A i \in 1..Len(x) : k[i] = <<kind, x[i]>>
  OBVIOUS
<1> HIDE DEF k
<1> QED BY <1>4, <1>5, <1>6

LEMMA KindOfNothing ==
  ASSUME NEW kind \in {"thinking", "text"}
  PROVE  Parsers!Kind(kind, <<>>) = <<>>
<1>1. <<>> \in Seq(STRING) /\ Len(<<>>) = 0
  OBVIOUS
<1> DEFINE k == Parsers!Kind(kind, <<>>)
<1>2. k \in Seq(Word) /\ Len(k) = 0
  BY <1>1, KindFields
<1> HIDE DEF k
<1>3. k = <<>>
  BY <1>2
<1> QED BY <1>3 DEF k

(* m with the letters of x behind it.                                      *)
LEMMA KindBehind ==
  ASSUME NEW kind \in {"thinking", "text"}, NEW x \in Seq(STRING), NEW m \in Seq(Word)
  PROVE  /\ m \o Parsers!Kind(kind, x) \in Seq(Word)
         /\ Len(m \o Parsers!Kind(kind, x)) = Len(m) + Len(x)
         /\ \A i \in 1..Len(m) : (m \o Parsers!Kind(kind, x))[i] = m[i]
         /\ \A i \in Len(m) + 1..Len(m) + Len(x) :
              (m \o Parsers!Kind(kind, x))[i] = <<kind, x[i - Len(m)]>>
<1> DEFINE k == Parsers!Kind(kind, x)
<1>1. k \in Seq(Word) /\ Len(k) = Len(x) /\ \A i \in 1..Len(x) : k[i] = <<kind, x[i]>>
  BY KindFields
<1> HIDE DEF k
<1> DEFINE u == m \o k
<1>2. /\ u \in Seq(Word) /\ Len(u) = Len(m) + Len(k)
      /\ \A i \in 1..Len(m) + Len(k) : u[i] = IF i <= Len(m) THEN m[i] ELSE k[i - Len(m)]
  BY <1>1, ConcatProperties
<1> HIDE DEF u
<1>3. Len(m) \in Nat /\ Len(x) \in Nat
  OBVIOUS
<1>4. \A i \in 1..Len(m) : u[i] = m[i]
  BY <1>1, <1>2, <1>3
<1>5. \A i \in Len(m) + 1..Len(m) + Len(x) : u[i] = k[i - Len(m)] /\ i - Len(m) \in 1..Len(x)
  BY <1>1, <1>2, <1>3
<1> QED BY <1>1, <1>2, <1>4, <1>5 DEF u, k

ThoughtOn(m, x) == Thought(m \o Parsers!Kind("thinking", x)) = Thought(m) \o Parsers!Kind("thinking", x)
ThoughtStays(m, x) == Thought(m \o Parsers!Kind("text", x)) = Thought(m)

LEMMA ThoughtType ==
  ASSUME NEW m \in Seq(Word)
  PROVE  Thought(m) \in Seq(Word)
BY PickedType DEF Thought

LEMMA ThoughtWords ==
  ASSUME NEW m \in Seq(Word), NEW x \in Seq(STRING)
  PROVE  ThoughtOn(m, x) /\ ThoughtStays(m, x)
<1>1. ASSUME NEW kind \in {"thinking", "text"}
      PROVE  IF kind = "thinking" THEN ThoughtOn(m, x) ELSE ThoughtStays(m, x)
  <2> DEFINE k == Parsers!Kind(kind, x)
  <2> DEFINE u == m \o k
  <2> DEFINE K == {i \in DOMAIN m : m[i][1] = "thinking"}
  <2> DEFINE J == {i \in DOMAIN u : u[i][1] = "thinking"}
  <2>1. /\ u \in Seq(Word) /\ Len(u) = Len(m) + Len(x)
        /\ \A i \in 1..Len(m) : u[i] = m[i]
        /\ \A i \in Len(m) + 1..Len(m) + Len(x) : u[i] = <<kind, x[i - Len(m)]>>
    BY KindBehind
  <2>2. k \in Seq(Word) /\ Len(k) = Len(x)
    BY KindFields
  <2>3. Len(m) \in 0..Len(m) /\ Len(m) \in 0..Len(u) /\ Len(x) \in Nat
        /\ DOMAIN m = 1..Len(m) /\ DOMAIN u = 1..Len(u)
    BY <2>1
  <2>4. SubSeq(u, Len(m) + 1, Len(u)) = k
    BY <2>1, <2>2, <2>3
  <2> HIDE DEF u, k
  <2>5. \A i \in 1..Len(m) : m[i] = u[i] /\ (i \in K <=> i \in J)
    BY <2>1, <2>3
  <2>6. \A i \in Len(m) + 1..Len(u) : u[i][1] = kind
    BY <2>1
  <2>7. \A i \in Len(m) + 1..Len(u) : i \in J <=> kind = "thinking"
    BY <2>3, <2>6
  <2> HIDE DEF K, J
  <2>8. PickingOf(m, K)[Len(m)] = PickingOf(u, J)[Len(m)]
    <3> DEFINE n == Len(m)
    <3>1. n \in 0..Len(m) /\ n <= Len(u)
      BY <2>3
    <3>2. SameChoice(m, u, K, J, n)
      BY <2>5 DEF SameChoice
    <3> HIDE DEF n
    <3>3. PickingOf(m, K)[n] = PickingOf(u, J)[n]
      BY <2>1, <3>1, <3>2, PickedAlike
    <3> QED BY <3>3 DEF n
  <2>9. Parsers!Picked(m, K) = PickingOf(m, K)[Len(m)]
    BY PickedOneByOne
  <2>10. CASE kind = "thinking"
    <3>1. Parsers!Picked(u, J) = PickingOf(u, J)[Len(m)] \o SubSeq(u, Len(m) + 1, Len(u))
      BY <2>1, <2>3, <2>7, <2>10, AllMorePicked
    <3>2. Parsers!Picked(u, J) = Parsers!Picked(m, K) \o k
      BY <2>4, <2>8, <2>9, <3>1
    <3> QED BY <2>10, <3>2 DEF ThoughtOn, Thought, u, k, K, J
  <2>11. CASE kind = "text"
    <3>1. Parsers!Picked(u, J) = PickingOf(u, J)[Len(m)]
      BY <2>1, <2>3, <2>7, <2>11, NoneMorePicked
    <3>2. Parsers!Picked(u, J) = Parsers!Picked(m, K)
      BY <2>8, <2>9, <3>1
    <3> QED BY <2>11, <3>2 DEF ThoughtStays, Thought, u, k, K, J
  <2> QED BY <2>10, <2>11
<1>2. ThoughtOn(m, x)
  BY <1>1
<1>3. ThoughtStays(m, x)
  BY <1>1
<1> QED BY <1>2, <1>3

LEMMA ThoughtIsOfKind ==
  ASSUME NEW a, NEW b, Thought(a) = Thought(b)
  PROVE  Parsers!OfKind("thinking", a) = Parsers!OfKind("thinking", b)
BY DEF Parsers!OfKind, Thought

(* A text without control tokens stays as it is.                           *)
LEMMA StripType ==
  ASSUME NEW s \in Seq(STRING)
  PROVE  Parsers!StripControlTokens(s) \in Seq(STRING)
BY PickedType DEF Parsers!StripControlTokens

LEMMA NothingToStrip ==
  ASSUME NEW s \in Seq(STRING), \A i \in 1..Len(s) : s[i] # "|"
  PROVE  Parsers!StripControlTokens(s) = s
<1> DEFINE token(i, j) == /\ i + 3 < j /\ s[i] = "<" /\ s[i+1] = "|" /\ s[j-1] = "|" /\ s[j] = ">"
                          /\ \A k \in i+2 .. j-2 : s[k] \notin {"|", ">"}
<1> DEFINE K == {k \in DOMAIN s : ~\E i \in 1..k, j \in k..Len(s) : token(i, j)}
<1>1. Parsers!StripControlTokens(s) = Parsers!Picked(s, K)
  BY DEF Parsers!StripControlTokens
<1>2. \A i \in 1..Len(s) : i \in K
  <2> SUFFICES ASSUME NEW k \in 1..Len(s), NEW i \in 1..k, NEW j \in k..Len(s), token(i, j)
               PROVE  FALSE
    OBVIOUS
  <2>1. i + 3 < j /\ s[i + 1] = "|"
    OBVIOUS
  <2>2. i + 1 \in 1..Len(s)
    BY <2>1
  <2> QED BY <2>1, <2>2
<1> HIDE DEF K
<1>3. Parsers!Picked(s, K) = PickingOf(s, K)[0] \o SubSeq(s, 0 + 1, Len(s))
  <2>1. 0 \in 0..Len(s) /\ \A i \in 0 + 1..Len(s) : i \in K
    BY <1>2
  <2> QED BY <2>1, AllMorePicked
<1>4. PickingOf(s, K)[0] = <<>>
  BY PickedOneByOne
<1>5. SubSeq(s, 0 + 1, Len(s)) = s
  BY SubSeqFull
<1>6. <<>> \o s = s
  BY ConcatEmptySeq
<1> QED BY <1>1, <1>3, <1>4, <1>5, <1>6

-----------------------------------------------------------------------------
(* Tags, and the reader who has the whole text.                            *)

Tag == {Parsers!OpenTag, Parsers!CloseTag}
TagAt(s, t, j) == Parsers!IsPrefix(t, Parsers!From(s, j))
StopsAt(s, inside, j) ==
  TagAt(s, Parsers!CloseTag, j) \/ (~inside /\ TagAt(s, Parsers!OpenTag, j))

Sign == {"<", "think", "/think", ">"}
IsTag(t) == /\ t \in Seq(Sign) /\ Len(t) = 3 /\ t # <<>>
            /\ t[1] = "<" /\ t[2] # "<" /\ t[3] # "<"

LEMMA ThreeLetters ==
  ASSUME NEW S, NEW a \in S, NEW b \in S, NEW c \in S
  PROVE  <<a, b, c>> \in Seq(S) /\ Len(<<a, b, c>>) = 3
OBVIOUS

LEMMA TagFields ==
  /\ \A t \in Tag : IsTag(t)
  /\ Parsers!OpenTag[2] # Parsers!CloseTag[2]
<1>1. IsTag(Parsers!OpenTag)
  <2>1. Parsers!OpenTag \in Seq(Sign) /\ Len(Parsers!OpenTag) = 3
    <3>1. "<" \in Sign /\ "think" \in Sign /\ ">" \in Sign
      BY DEF Sign
    <3> QED BY <3>1, ThreeLetters DEF Parsers!OpenTag
  <2>2. /\ Parsers!OpenTag[1] = "<" /\ Parsers!OpenTag[2] # "<"
        /\ Parsers!OpenTag[3] # "<"
    BY DEF Parsers!OpenTag
  <2>3. Parsers!OpenTag # <<>>
    BY <2>1
  <2> QED BY <2>1, <2>2, <2>3 DEF IsTag
<1>2. IsTag(Parsers!CloseTag)
  <2>1. Parsers!CloseTag \in Seq(Sign) /\ Len(Parsers!CloseTag) = 3
    <3>1. "<" \in Sign /\ "/think" \in Sign /\ ">" \in Sign
      BY DEF Sign
    <3> QED BY <3>1, ThreeLetters DEF Parsers!CloseTag
  <2>2. /\ Parsers!CloseTag[1] = "<" /\ Parsers!CloseTag[2] # "<"
        /\ Parsers!CloseTag[3] # "<"
    BY DEF Parsers!CloseTag
  <2>3. Parsers!CloseTag # <<>>
    BY <2>1
  <2> QED BY <2>1, <2>2, <2>3 DEF IsTag
<1>3. Parsers!OpenTag[2] # Parsers!CloseTag[2]
  BY DEF Parsers!OpenTag, Parsers!CloseTag
<1> QED BY <1>1, <1>2, <1>3 DEF Tag

LEMMA FromFields ==
  ASSUME NEW S, NEW s \in Seq(S), NEW j \in 1..Len(s) + 1
  PROVE  /\ Parsers!From(s, j) \in Seq(S)
         /\ Len(Parsers!From(s, j)) = Len(s) + 1 - j
         /\ \A i \in 1..Len(s) + 1 - j : Parsers!From(s, j)[i] = s[j + i - 1]
<1>1. j \in Nat \ {0} /\ Len(s) \in Int /\ Len(s) <= Len(s)
  OBVIOUS
<1> DEFINE u == SubSeq(s, j, Len(s))
<1>2. /\ u \in Seq(S) /\ Len(u) = IF j <= Len(s) THEN Len(s) - j + 1 ELSE 0
      /\ \A i \in 1..Len(u) : u[i] = s[j + i - 1]
  BY <1>1, PartType
<1> HIDE DEF u
<1>3. Len(u) = Len(s) + 1 - j
  BY <1>1, <1>2
<1>4. u = Parsers!From(s, j)
  BY DEF u, Parsers!From
<1> QED BY <1>2, <1>3, <1>4

BeginsWith(s, t) ==
  Parsers!IsPrefix(t, s) <=> Len(t) <= Len(s) /\ \A i \in 1..Len(t) : t[i] = s[i]

LEMMA PrefixMeans ==
  ASSUME NEW S, NEW T, NEW s \in Seq(S), NEW t \in Seq(T)
  PROVE  BeginsWith(s, t)
BY PrefixByLetter DEF BeginsWith

LEMMA PrefixOfText ==
  ASSUME NEW s \in Seq(STRING), NEW t \in Seq(Sign)
  PROVE  BeginsWith(s, t) /\ BeginsWith(t, s)
BY PrefixMeans

LEMMA TagAtFields ==
  ASSUME NEW s \in Seq(STRING), NEW j \in 1..Len(s), NEW t \in Tag
  PROVE  TagAt(s, t, j) <=> /\ j + 2 <= Len(s)
                            /\ s[j] = t[1] /\ s[j + 1] = t[2] /\ s[j + 2] = t[3]
<1> DEFINE u == Parsers!From(s, j)
<1>1. /\ u \in Seq(STRING) /\ Len(u) = Len(s) + 1 - j
      /\ \A i \in 1..Len(s) + 1 - j : u[i] = s[j + i - 1]
  <2>1. j \in 1..Len(s) + 1
    OBVIOUS
  <2> HIDE DEF u
  <2> QED BY <2>1, FromFields DEF u
<1>2. t \in Seq(Sign) /\ Len(t) = 3
  BY TagFields DEF IsTag
<1>3. TagAt(s, t, j) <=> Parsers!IsPrefix(t, u)
  BY DEF TagAt
<1> HIDE DEF u
<1>4. Parsers!IsPrefix(t, u) <=> Len(t) <= Len(u) /\ \A i \in 1..Len(t) : t[i] = u[i]
  <2>1. BeginsWith(u, t)
    BY <1>1, <1>2, PrefixOfText
  <2> QED BY <2>1 DEF BeginsWith
<1>5. CASE j + 2 <= Len(s)
  <2>1. 1 \in 1..Len(s) + 1 - j /\ 2 \in 1..Len(s) + 1 - j /\ 3 \in 1..Len(s) + 1 - j
    BY <1>5
  <2>2. u[1] = s[j] /\ u[2] = s[j + 1] /\ u[3] = s[j + 2]
    <3>1. u[1] = s[j + 1 - 1] /\ u[2] = s[j + 2 - 1] /\ u[3] = s[j + 3 - 1]
      BY <1>1, <2>1
    <3>2. j + 1 - 1 = j /\ j + 2 - 1 = j + 1 /\ j + 3 - 1 = j + 2
      OBVIOUS
    <3> QED BY <3>1, <3>2
  <2>3. Parsers!IsPrefix(t, u) <=> t[1] = u[1] /\ t[2] = u[2] /\ t[3] = u[3]
    <3>1. Len(t) <= Len(u) /\ 1..Len(t) = {1, 2, 3}
      BY <1>1, <1>2, <1>5
    <3> QED BY <1>4, <3>1
  <2> QED BY <1>3, <1>5, <2>2, <2>3
<1>6. CASE ~(j + 2 <= Len(s))
  <2>1. ~(Len(t) <= Len(u))
    BY <1>1, <1>2, <1>6
  <2> QED BY <1>3, <1>4, <1>6, <2>1
<1> QED BY <1>5, <1>6

Reader == [at : Nat, inside : BOOLEAN, letters : Seq(Word)]
Start  == [at |-> 1, inside |-> FALSE, letters |-> <<>>]
Reads(at, inside, letters) == [at |-> at, inside |-> inside, letters |-> letters]

LEMMA ReaderFields ==
  ASSUME NEW r \in Reader
  PROVE  r = Reads(r.at, r.inside, r.letters)
BY DEF Reader, Reads

LEMMA ReaderPasses ==
  ASSUME NEW r \in Reader, NEW at \in Nat, NEW inside \in BOOLEAN
  PROVE  [r EXCEPT !.at = at, !.inside = inside] = Reads(at, inside, r.letters)
<1> DEFINE u == [r EXCEPT !.at = at, !.inside = inside]
<1>1. u \in Reader /\ u.at = at /\ u.inside = inside /\ u.letters = r.letters
  BY DEF Reader
<1> HIDE DEF u
<1>2. u = Reads(u.at, u.inside, u.letters)
  BY <1>1, ReaderFields
<1> QED BY <1>1, <1>2 DEF u

LEMMA ReaderTakes ==
  ASSUME NEW r \in Reader, NEW at \in Nat, NEW m \in Seq(Word)
  PROVE  [r EXCEPT !.at = at, !.letters = m] = Reads(at, r.inside, m)
<1> DEFINE u == [r EXCEPT !.at = at, !.letters = m]
<1>1. u \in Reader /\ u.at = at /\ u.inside = r.inside /\ u.letters = m
  BY DEF Reader
<1> HIDE DEF u
<1>2. u = Reads(u.at, u.inside, u.letters)
  BY <1>1, ReaderFields
<1> QED BY <1>1, <1>2 DEF u

LEMMA ReadOnEffect ==
  ASSUME NEW s \in Seq(STRING), NEW r \in Reader, r.at \in 1..Len(s) + 1
  PROVE  /\ r.at = Len(s) + 1 => Parsers!ReadOn(s, r) = r
         /\ r.at <= Len(s) /\ ~StopsAt(s, r.inside, r.at) =>
              Parsers!ReadOn(s, r) =
                Reads(r.at + 1, r.inside,
                      Append(r.letters, <<Parsers!Mode(r.inside), s[r.at]>>))
         /\ r.at <= Len(s) /\ TagAt(s, Parsers!CloseTag, r.at) =>
              Parsers!ReadOn(s, r) = Reads(r.at + 3, FALSE, r.letters)
         /\ r.at <= Len(s) /\ ~r.inside /\ TagAt(s, Parsers!OpenTag, r.at) =>
              Parsers!ReadOn(s, r) = Reads(r.at + 3, TRUE, r.letters)
<1> DEFINE left == Parsers!From(s, r.at)
<1>1. /\ left \in Seq(STRING) /\ Len(left) = Len(s) + 1 - r.at
      /\ \A i \in 1..Len(s) + 1 - r.at : left[i] = s[r.at + i - 1]
  BY FromFields
<1>2. \A t \in Tag : TagAt(s, t, r.at) <=> Parsers!IsPrefix(t, left)
  BY DEF TagAt
<1>3. Parsers!OpenTag \in Tag /\ Parsers!CloseTag \in Tag
      /\ Len(Parsers!OpenTag) = 3 /\ Len(Parsers!CloseTag) = 3
  BY TagFields DEF Tag, IsTag
<1>4. r = Reads(r.at, r.inside, r.letters) /\ r.at \in Nat
  BY DEF Reader, Reads
<1>5. CASE r.at = Len(s) + 1
  <2>1. left = <<>>
    BY <1>1, <1>5
  <2>2. ~(r.at <= Len(s))
    BY <1>5
  <2> QED BY <2>1, <2>2 DEF Parsers!ReadOn
<1>6. CASE r.at <= Len(s)
  <2>1. left # <<>> /\ Head(left) = s[r.at]
    <3>1. Len(left) # 0 /\ 1 \in 1..Len(s) + 1 - r.at /\ r.at + 1 - 1 = r.at
      BY <1>1, <1>4, <1>6
    <3>2. left[1] = s[r.at]
      BY <1>1, <3>1
    <3> QED BY <1>1, <3>1, <3>2
  <2> DEFINE w == <<Parsers!Mode(r.inside), Head(left)>>
  <2>9. w \in Word
    <3>1. s[r.at] \in STRING /\ r.inside \in BOOLEAN
      BY <1>4, <1>6, ElementOfSeq DEF Reader
    <3> QED BY <2>1, <3>1 DEF Word, Parsers!Mode
  <2>2. ~(TagAt(s, Parsers!OpenTag, r.at) /\ TagAt(s, Parsers!CloseTag, r.at))
    <3>1. r.at \in 1..Len(s)
      BY <1>6
    <3> QED BY <1>3, <3>1, TagFields, TagAtFields
  <2>3. r.at # Len(s) + 1
    BY <1>6
  <2>4. Parsers!ReadOn(s, r) =
          IF ~r.inside /\ TagAt(s, Parsers!OpenTag, r.at)
            THEN [r EXCEPT !.at = @ + 3, !.inside = TRUE]
          ELSE IF TagAt(s, Parsers!CloseTag, r.at)
            THEN [r EXCEPT !.at = @ + 3, !.inside = FALSE]
          ELSE [r EXCEPT !.at = @ + 1,
                         !.letters = Append(@, w)]
    BY <1>2, <1>3, <2>1 DEF Parsers!ReadOn
  <2>5. /\ [r EXCEPT !.at = @ + 3, !.inside = TRUE] = Reads(r.at + 3, TRUE, r.letters)
        /\ [r EXCEPT !.at = @ + 3, !.inside = FALSE] = Reads(r.at + 3, FALSE, r.letters)
        /\ [r EXCEPT !.at = @ + 1, !.letters = Append(@, w)]
             = Reads(r.at + 1, r.inside, Append(r.letters, w))
    <3>1. /\ r.at + 3 \in Nat /\ r.at + 1 \in Nat
          /\ Append(r.letters, w) \in Seq(Word)
      BY <1>4, <2>9 DEF Reader
    <3> DEFINE a == r.at + 3
    <3> DEFINE b == r.at + 1
    <3> DEFINE m == Append(r.letters, w)
    <3> HIDE DEF a, b, m, w
    <3>2. /\ [r EXCEPT !.at = a, !.inside = TRUE] = Reads(a, TRUE, r.letters)
          /\ [r EXCEPT !.at = a, !.inside = FALSE] = Reads(a, FALSE, r.letters)
      BY <3>1, ReaderPasses DEF a
    <3>3. [r EXCEPT !.at = b, !.letters = m] = Reads(b, r.inside, m)
      BY <3>1, ReaderTakes DEF b, m
    <3> QED BY <3>2, <3>3 DEF a, b, m
  <2> HIDE DEF left
  <2>6. ASSUME ~StopsAt(s, r.inside, r.at)
        PROVE  Parsers!ReadOn(s, r) =
                 Reads(r.at + 1, r.inside,
                       Append(r.letters, <<Parsers!Mode(r.inside), s[r.at]>>))
    <3>1. /\ ~TagAt(s, Parsers!CloseTag, r.at)
          /\ ~(~r.inside /\ TagAt(s, Parsers!OpenTag, r.at))
      BY <2>6 DEF StopsAt
    <3> QED BY <2>1, <2>4, <2>5, <3>1
  <2>7. ASSUME TagAt(s, Parsers!CloseTag, r.at)
        PROVE  Parsers!ReadOn(s, r) = Reads(r.at + 3, FALSE, r.letters)
    BY <2>2, <2>4, <2>5, <2>7
  <2>8. ASSUME ~r.inside /\ TagAt(s, Parsers!OpenTag, r.at)
        PROVE  Parsers!ReadOn(s, r) = Reads(r.at + 3, TRUE, r.letters)
    BY <2>4, <2>5, <2>8
  <2> QED BY <2>3, <2>6, <2>7, <2>8
<1>7. r.at <= Len(s) \/ r.at = Len(s) + 1
  OBVIOUS
<1> QED BY <1>5, <1>6, <1>7

-----------------------------------------------------------------------------
(* The readers on the way through a text.  ReadingOf(s)[n] is the one      *)
(* after n steps.                                                          *)

Reading(s, k, f) == f = [n \in 0..k |-> IF n = 0 THEN Start ELSE Parsers!ReadOn(s, f[n - 1])]
ReadingOf(s) == CHOOSE f : Reading(s, Len(s), f)

LEMMA ReadingExists ==
  ASSUME NEW s, NEW k \in Nat
  PROVE  \E f : Reading(s, k, f)
<1> DEFINE S == {i \in Nat : \E f : Reading(s, i, f)}
<1>1. 0 \in S
  <2> DEFINE f == [n \in 0..0 |-> Start]
  <2>1. Reading(s, 0, f)
    BY DEF Reading
  <2> QED BY <2>1
<1>2. ASSUME NEW i \in S PROVE i + 1 \in S
  <2>1. PICK f : Reading(s, i, f)
    OBVIOUS
  <2>2. \A n \in 0..i : f[n] = IF n = 0 THEN Start ELSE Parsers!ReadOn(s, f[n - 1])
    BY <2>1 DEF Reading
  <2> DEFINE h == [n \in 0..(i + 1) |-> IF n <= i THEN f[n] ELSE Parsers!ReadOn(s, f[i])]
  <2>3. \A n \in 0..(i + 1) : h[n] = IF n = 0 THEN Start ELSE Parsers!ReadOn(s, h[n - 1])
    <3> SUFFICES ASSUME NEW n \in 0..(i + 1)
                 PROVE  h[n] = IF n = 0 THEN Start ELSE Parsers!ReadOn(s, h[n - 1])
      OBVIOUS
    <3>1. CASE n = 0
      <4>1. h[n] = f[n] /\ f[0] = Start
        BY <2>2, <3>1
      <4> QED BY <3>1, <4>1
    <3>2. CASE n \in 1..i
      <4>1. h[n] = f[n] /\ h[n - 1] = f[n - 1] /\ f[n] = Parsers!ReadOn(s, f[n - 1])
        BY <2>2, <3>2
      <4> QED BY <3>2, <4>1
    <3>3. CASE n = i + 1
      <4>1. h[n] = Parsers!ReadOn(s, f[i]) /\ h[n - 1] = f[i] /\ n # 0
        BY <3>3
      <4> QED BY <3>3, <4>1
    <3> QED BY <3>1, <3>2, <3>3
  <2>4. h = [n \in 0..(i + 1) |-> h[n]]
    OBVIOUS
  <2> HIDE DEF h
  <2>5. Reading(s, i + 1, h)
    BY <2>3, <2>4 DEF Reading
  <2> QED BY <2>5
<1> HIDE DEF S
<1>3. k \in S
  BY <1>1, <1>2, NatAll DEF S
<1> QED BY <1>3 DEF S

LEMMA ReadOneByOne ==
  ASSUME NEW S, NEW s \in Seq(S)
  PROVE  /\ Parsers!ReadText(s) = ReadingOf(s)[Len(s)].letters
         /\ ReadingOf(s)[0] = Start
         /\ \A n \in 1..Len(s) : ReadingOf(s)[n] = Parsers!ReadOn(s, ReadingOf(s)[n - 1])
<1>1. Parsers!ReadText(s) = ReadingOf(s)[Len(s)].letters
  BY DEF Parsers!ReadText, ReadingOf, Reading, Start
<1>2. Len(s) \in Nat
  OBVIOUS
<1> DEFINE f == ReadingOf(s)
<1>3. Reading(s, Len(s), f)
  BY <1>2, ReadingExists DEF ReadingOf
<1> HIDE DEF f
<1>4. \A n \in 0..Len(s) : f[n] = IF n = 0 THEN Start ELSE Parsers!ReadOn(s, f[n - 1])
  BY <1>3 DEF Reading
<1>5. f[0] = Start /\ \A n \in 1..Len(s) : f[n] = Parsers!ReadOn(s, f[n - 1])
  BY <1>2, <1>4
<1> QED BY <1>1, <1>5 DEF f

LEMMA ReadsFields ==
  ASSUME NEW at \in Nat, NEW inside \in BOOLEAN, NEW m \in Seq(Word)
  PROVE  /\ Reads(at, inside, m) \in Reader /\ Reads(at, inside, m).at = at
         /\ Reads(at, inside, m).inside = inside /\ Reads(at, inside, m).letters = m
BY DEF Reads, Reader

(* A reader who is not at the end goes on by one letter or more.           *)
LEMMA ReadOnType ==
  ASSUME NEW s \in Seq(STRING), NEW r \in Reader, r.at \in 1..Len(s)
  PROVE  Parsers!ReadOn(s, r) \in Reader /\ Parsers!ReadOn(s, r).at \in r.at + 1..Len(s) + 1
<1> DEFINE n == Parsers!ReadOn(s, r)
<1>0. r.at \in 1..Len(s) + 1 /\ r.at <= Len(s) /\ r.at \in Nat /\ Len(s) \in Nat
  OBVIOUS
<1>1. /\ ~StopsAt(s, r.inside, r.at) =>
           n = Reads(r.at + 1, r.inside, Append(r.letters, <<Parsers!Mode(r.inside), s[r.at]>>))
      /\ TagAt(s, Parsers!CloseTag, r.at) => n = Reads(r.at + 3, FALSE, r.letters)
      /\ ~r.inside /\ TagAt(s, Parsers!OpenTag, r.at) => n = Reads(r.at + 3, TRUE, r.letters)
  BY <1>0, ReadOnEffect
<1>2. \A t \in Tag : TagAt(s, t, r.at) => r.at + 2 <= Len(s)
  BY TagAtFields
<1>3. r.inside \in BOOLEAN /\ r.letters \in Seq(Word)
  BY DEF Reader
<1> HIDE DEF n
<1>4. CASE StopsAt(s, r.inside, r.at)
  <2>1. r.at + 2 <= Len(s)
    BY <1>2, <1>4 DEF StopsAt, Tag
  <2>2. n = Reads(r.at + 3, FALSE, r.letters) \/ n = Reads(r.at + 3, TRUE, r.letters)
    BY <1>1, <1>4 DEF StopsAt
  <2>3. r.at + 3 \in Nat /\ r.at + 3 \in r.at + 1..Len(s) + 1
    BY <1>0, <2>1
  <2> DEFINE a == r.at + 3
  <2> HIDE DEF a
  <2>5. Reads(a, FALSE, r.letters) \in Reader /\ Reads(a, FALSE, r.letters).at = a
    BY <1>3, <2>3, ReadsFields DEF a
  <2>6. Reads(a, TRUE, r.letters) \in Reader /\ Reads(a, TRUE, r.letters).at = a
    BY <1>3, <2>3, ReadsFields DEF a
  <2>4. n \in Reader /\ n.at = r.at + 3
    BY <2>2, <2>5, <2>6 DEF a
  <2> QED BY <2>3, <2>4 DEF n
<1>5. CASE ~StopsAt(s, r.inside, r.at)
  <2> DEFINE w == <<Parsers!Mode(r.inside), s[r.at]>>
  <2>1. w \in Word
    BY <1>3, ElementOfSeq DEF Word, Parsers!Mode
  <2>2. n = Reads(r.at + 1, r.inside, Append(r.letters, w))
    BY <1>1, <1>5
  <2> HIDE DEF w
  <2>3. r.at + 1 \in Nat /\ r.at + 1 \in r.at + 1..Len(s) + 1 /\ Append(r.letters, w) \in Seq(Word)
    BY <1>0, <1>3, <2>1
  <2> DEFINE a == r.at + 1
  <2> DEFINE l == Append(r.letters, w)
  <2>5. a \in Nat /\ l \in Seq(Word) /\ n = Reads(a, r.inside, l)
    BY <2>2, <2>3
  <2> HIDE DEF a, l
  <2>6. Reads(a, r.inside, l) \in Reader /\ Reads(a, r.inside, l).at = a
    BY <1>3, <2>5, ReadsFields
  <2>4. n \in Reader /\ n.at = r.at + 1
    BY <2>5, <2>6 DEF a
  <2> QED BY <2>3, <2>4 DEF n
<1> QED BY <1>4, <1>5

OnTheWay(s, r, k) ==
  r \in Reader /\ r.at \in 1..Len(s) + 1 /\ (k < r.at \/ r.at = Len(s) + 1)

LEMMA ReadingType ==
  ASSUME NEW s \in Seq(STRING), NEW k \in 0..Len(s)
  PROVE  OnTheWay(s, ReadingOf(s)[k], k)
<1> DEFINE f == ReadingOf(s)
<1>1. f[0] = Start /\ \A n \in 1..Len(s) : f[n] = Parsers!ReadOn(s, f[n - 1])
  BY ReadOneByOne
<1> HIDE DEF f
<1> DEFINE T == {i \in Nat : i <= Len(s) => OnTheWay(s, f[i], i)}
<1>2. 0 \in T
  <2>1. Start \in Reader /\ Start.at = 1
    BY EmptySeq DEF Start, Reader
  <2> QED BY <1>1, <2>1 DEF OnTheWay
<1>3. ASSUME NEW i \in T PROVE i + 1 \in T
  <2> SUFFICES ASSUME i + 1 <= Len(s) PROVE OnTheWay(s, f[i + 1], i + 1)
    OBVIOUS
  <2>1. i \in Nat /\ i + 1 \in 1..Len(s) /\ (i + 1) - 1 = i /\ i <= Len(s)
    OBVIOUS
  <2>2. OnTheWay(s, f[i], i) /\ f[i + 1] = Parsers!ReadOn(s, f[i])
    BY <1>1, <2>1
  <2> DEFINE r == f[i]
  <2> DEFINE n == f[i + 1]
  <2> HIDE DEF r, n
  <2>3. CASE r.at = Len(s) + 1
    <3>1. n = r
      BY <2>2, <2>3, ReadOnEffect DEF OnTheWay, r, n
    <3> QED BY <2>2, <2>3, <3>1 DEF OnTheWay, r, n
  <2>4. CASE r.at # Len(s) + 1
    <3>1. r \in Reader /\ r.at \in 1..Len(s) /\ i < r.at
      BY <2>2, <2>4 DEF OnTheWay, r
    <3>2. n \in Reader /\ n.at \in r.at + 1..Len(s) + 1
      BY <2>2, <3>1, ReadOnType DEF r, n
    <3>3. i + 1 < n.at /\ n.at \in 1..Len(s) + 1
      BY <2>1, <3>1, <3>2
    <3> QED BY <3>2, <3>3 DEF OnTheWay, n
  <2> QED BY <2>3, <2>4
<1> HIDE DEF T
<1>4. k \in T
  <2>1. T \in SUBSET Nat /\ k \in Nat
    BY DEF T
  <2> QED BY <1>2, <1>3, <2>1, NatAll
<1> QED BY <1>4 DEF T, f

(* The readers there are.                                                  *)
Reached(s, r) == \E k \in 0..Len(s) : ReadingOf(s)[k] = r

LEMMA StartReached ==
  ASSUME NEW s \in Seq(STRING)
  PROVE  Reached(s, Start)
<1>1. 0 \in 0..Len(s) /\ ReadingOf(s)[0] = Start
  BY ReadOneByOne
<1> QED BY <1>1 DEF Reached

LEMMA ReachedType ==
  ASSUME NEW s \in Seq(STRING), NEW r, Reached(s, r)
  PROVE  r \in Reader /\ r.at \in 1..Len(s) + 1
BY ReadingType DEF Reached, OnTheWay

LEMMA NextReached ==
  ASSUME NEW s \in Seq(STRING), NEW r, Reached(s, r), r.at <= Len(s)
  PROVE  Reached(s, Parsers!ReadOn(s, r))
<1>1. PICK k \in 0..Len(s) : ReadingOf(s)[k] = r
  BY DEF Reached
<1>2. OnTheWay(s, r, k)
  BY <1>1, ReadingType
<1>3. k < r.at /\ r.at \in Nat
  BY <1>2 DEF OnTheWay
<1>4. k + 1 \in 1..Len(s) /\ k + 1 \in 0..Len(s) /\ (k + 1) - 1 = k
  BY <1>3
<1>5. ReadingOf(s)[k + 1] = Parsers!ReadOn(s, r)
  BY <1>1, <1>4, ReadOneByOne
<1> QED BY <1>4, <1>5 DEF Reached

(* At the end it has read everything.                                      *)
LEMMA EndReached ==
  ASSUME NEW s \in Seq(STRING), NEW r, Reached(s, r), r.at = Len(s) + 1
  PROVE  Parsers!ReadText(s) = r.letters
<1>1. PICK k \in 0..Len(s) : ReadingOf(s)[k] = r
  BY DEF Reached
<1> DEFINE f == ReadingOf(s)
<1> DEFINE T == {i \in Nat : k + i <= Len(s) => f[k + i] = r}
<1>2. \A n \in 1..Len(s) : f[n] = Parsers!ReadOn(s, f[n - 1])
  BY ReadOneByOne
<1>3. Parsers!ReadOn(s, r) = r
  <2>1. r \in Reader /\ r.at \in 1..Len(s) + 1
    BY ReachedType
  <2> QED BY <2>1, ReadOnEffect
<1>4. f[k] = r
  BY <1>1
<1> HIDE DEF f
<1>5. 0 \in T
  BY <1>4
<1>6. ASSUME NEW i \in T PROVE i + 1 \in T
  <2> SUFFICES ASSUME k + (i + 1) <= Len(s) PROVE f[k + (i + 1)] = r
    OBVIOUS
  <2>1. /\ k + (i + 1) \in 1..Len(s) /\ k + (i + 1) - 1 = k + i /\ k + i <= Len(s)
    OBVIOUS
  <2>2. f[k + i] = r
    BY <2>1 DEF T
  <2> QED BY <1>2, <1>3, <2>1, <2>2
<1> HIDE DEF T
<1>7. Len(s) - k \in Nat /\ k + (Len(s) - k) = Len(s)
  OBVIOUS
<1>8. Len(s) - k \in T
  BY <1>5, <1>6, <1>7, NatAll DEF T
<1>9. f[Len(s)] = r
  BY <1>7, <1>8 DEF T
<1> QED BY <1>9, ReadOneByOne DEF f

-----------------------------------------------------------------------------
(* Letters in which no tag begins are read one by one.                     *)

LEMMA KindMore ==
  ASSUME NEW kind \in {"thinking", "text"}, NEW x \in Seq(STRING), NEW e \in STRING
  PROVE  Parsers!Kind(kind, Append(x, e)) = Append(Parsers!Kind(kind, x), <<kind, e>>)
<1> DEFINE y == Append(x, e)
<1> DEFINE k == Parsers!Kind(kind, x)
<1> DEFINE l == Parsers!Kind(kind, y)
<1> DEFINE w == <<kind, e>>
<1>1. y \in Seq(STRING) /\ Len(y) = Len(x) + 1 /\ y[Len(x) + 1] = e
      /\ \A i \in 1..Len(x) : y[i] = x[i]
  BY AppendProperties
<1> HIDE DEF y
<1>2. k \in Seq(Word) /\ Len(k) = Len(x) /\ \A i \in 1..Len(x) : k[i] = <<kind, x[i]>>
  BY KindFields
<1>3. l \in Seq(Word) /\ Len(l) = Len(x) + 1
      /\ \A i \in 1..Len(x) + 1 : l[i] = <<kind, y[i]>>
  BY <1>1, KindFields
<1>4. w \in Word /\ l[Len(x) + 1] = w
  BY <1>1, <1>3 DEF Word
<1> HIDE DEF k, l, w
<1>5. \A i \in 1..Len(x) : l[i] = k[i]
  <2>1. \A i \in 1..Len(x) : i \in 1..Len(x) + 1
    OBVIOUS
  <2>2. \A i \in 1..Len(x) : l[i] = <<kind, y[i]>>
    BY <1>3, <2>1
  <2> QED BY <1>1, <1>2, <2>2
<1>6. /\ Append(k, w) \in Seq(Word) /\ Len(Append(k, w)) = Len(x) + 1
      /\ Append(k, w)[Len(x) + 1] = w
      /\ \A i \in 1..Len(x) : Append(k, w)[i] = k[i]
  BY <1>2, <1>4, AppendProperties
<1>7. Len(x) \in Nat
  OBVIOUS
<1>8. \A i \in 1..Len(x) + 1 : l[i] = Append(k, w)[i]
  <2> SUFFICES ASSUME NEW i \in 1..Len(x) + 1 PROVE l[i] = Append(k, w)[i]
    OBVIOUS
  <2>1. i \in 1..Len(x) \/ i = Len(x) + 1
    BY <1>7
  <2> QED BY <1>4, <1>5, <1>6, <2>1
<1>9. l = Append(k, w)
  BY <1>3, <1>6, <1>8, SeqEqual
<1> QED BY <1>9 DEF k, l, w, y

(* r has read n letters more, and no tag.                                  *)
OnByLetters(s, r, n) ==
  Reads(r.at + n, r.inside,
        r.letters \o Parsers!Kind(Parsers!Mode(r.inside), SubSeq(s, r.at, r.at + n - 1)))

LEMMA LettersRead ==
  ASSUME NEW s \in Seq(STRING), NEW r, Reached(s, r), NEW n \in Nat, r.at + n <= Len(s) + 1,
         \A j \in 0..n - 1 : ~StopsAt(s, r.inside, r.at + j)
  PROVE  Reached(s, OnByLetters(s, r, n))
<1>1. /\ r \in Reader /\ r.at \in 1..Len(s) + 1 /\ r.at \in Nat \ {0}
      /\ r.inside \in BOOLEAN /\ r.letters \in Seq(Word)
  BY ReachedType DEF Reader
<1> DEFINE kind == Parsers!Mode(r.inside)
<1>2. kind \in {"thinking", "text"}
  BY DEF Parsers!Mode
<1> HIDE DEF kind
<1> DEFINE T == {i \in Nat : i <= n => Reached(s, OnByLetters(s, r, i))}
<1>3. 0 \in T
  <2>1. SubSeq(s, r.at, r.at + 0 - 1) = <<>>
    <3>1. r.at + 0 - 1 < r.at
      BY <1>1
    <3> QED BY <1>1, <3>1, SubSeqEmpty
  <2>2. r.letters \o Parsers!Kind(kind, <<>>) = r.letters
    BY <1>1, <1>2, KindOfNothing, ConcatEmptySeq
  <2>3. r.at + 0 = r.at
    BY <1>1
  <2>4. OnByLetters(s, r, 0) = Reads(r.at, r.inside, r.letters)
    BY <2>1, <2>2, <2>3 DEF OnByLetters, kind
  <2>5. OnByLetters(s, r, 0) = r
    BY <1>1, <2>4, ReaderFields
  <2> QED BY <2>5
<1>4. ASSUME NEW i \in T PROVE i + 1 \in T
  <2> SUFFICES ASSUME i + 1 <= n PROVE Reached(s, OnByLetters(s, r, i + 1))
    OBVIOUS
  <2>1. i \in Nat /\ i <= n /\ i \in 0..n - 1
    OBVIOUS
  <2> DEFINE at == r.at + i
  <2>2. at = r.at + i /\ r.at <= at /\ at \in Nat /\ at \in 1..Len(s) /\ at <= Len(s) /\ at \in 1..Len(s) + 1 /\ at - 1 \in Int
    BY <1>1, <2>1
  <2>6. at + 1 = r.at + (i + 1) /\ r.at + (i + 1) - 1 = at /\ r.at + i - 1 = at - 1
    BY <1>1, <2>1
  <2> HIDE DEF at
  <2> DEFINE x == SubSeq(s, r.at, at - 1)
  <2> DEFINE m == r.letters \o Parsers!Kind(kind, x)
  <2> DEFINE v == Reads(at, r.inside, m)
  <2>3. Reached(s, v)
    <3>1. Reached(s, OnByLetters(s, r, i))
      BY <2>1 DEF T
    <3> QED BY <2>2, <2>6, <3>1 DEF OnByLetters, kind
  <2>4. ~StopsAt(s, r.inside, at)
    BY <2>1, <2>2
  <2>7. x \in Seq(STRING) /\ s[at] \in STRING
    <3>1. at - 1 \in Int /\ at - 1 <= Len(s)
      BY <2>2
    <3> QED BY <1>1, <2>2, <3>1, PartType, ElementOfSeq
  <2>5. SubSeq(s, r.at, at) = Append(x, s[at])
    <3>1. r.at \in 1..Len(s) /\ at \in r.at..Len(s)
      BY <1>1, <2>1, <2>2
    <3>2. SubSeq(s, r.at, at) = x \o <<s[at]>>
      BY <3>1, SubSeqRecursiveSecond
    <3> QED BY <2>7, <3>2, AppendIsConcat
  <2> HIDE DEF x
  <2> DEFINE k == Parsers!Kind(kind, x)
  <2>8. k \in Seq(Word) /\ Parsers!Kind(kind, Append(x, s[at])) = Append(k, <<kind, s[at]>>)
    BY <1>2, <2>7, KindFields, KindMore
  <2>9. m \in Seq(Word) /\ <<kind, s[at]>> \in Word
    BY <1>1, <1>2, <2>7, <2>8 DEF Word
  <2> HIDE DEF k
  <2>10. Append(m, <<kind, s[at]>>) = r.letters \o Append(k, <<kind, s[at]>>)
    <3>1. Behind(r.letters, k, <<kind, s[at]>>)
      BY <1>1, <2>8, <2>9, AppendBehind
    <3> QED BY <3>1 DEF Behind, k
  <2> HIDE DEF m
  <2>11. v \in Reader /\ v.at = at /\ v.inside = r.inside /\ v.letters = m
    <3> HIDE DEF T
    <3>1. at \in Nat /\ r.inside \in BOOLEAN /\ m \in Seq(Word)
      BY <1>1, <2>2, <2>9
    <3> QED BY <3>1, ReadsFields
  <2> HIDE DEF v
  <2>12. Parsers!ReadOn(s, v) = Reads(at + 1, r.inside, Append(m, <<kind, s[at]>>))
    BY <2>2, <2>4, <2>11, ReadOnEffect DEF kind
  <2>13. Reached(s, Parsers!ReadOn(s, v))
    BY <2>2, <2>3, <2>11, NextReached
  <2>14. OnByLetters(s, r, i + 1) = Reads(at + 1, r.inside, r.letters \o Append(k, <<kind, s[at]>>))
    BY <2>5, <2>6, <2>8 DEF OnByLetters, kind
  <2> QED BY <2>10, <2>12, <2>13, <2>14
<1> HIDE DEF T
<1>5. n \in T
  <2>1. T \in SUBSET Nat
    BY DEF T
  <2> QED BY <1>3, <1>4, <2>1, NatAll
<1> QED BY <1>5 DEF T

(* A tag is read at once.                                                  *)
LEMMA TagRead ==
  ASSUME NEW s \in Seq(STRING), NEW at \in 1..Len(s), NEW inside \in BOOLEAN, NEW m \in Seq(Word),
         Reached(s, Reads(at, inside, m))
  PROVE  /\ TagAt(s, Parsers!CloseTag, at) => Reached(s, Reads(at + 3, FALSE, m))
         /\ ~inside /\ TagAt(s, Parsers!OpenTag, at) => Reached(s, Reads(at + 3, TRUE, m))
<1> DEFINE r == Reads(at, inside, m)
<1>1. r \in Reader /\ r.at = at /\ r.inside = inside /\ r.letters = m
  BY ReadsFields
<1> HIDE DEF r
<1>2. at \in 1..Len(s) + 1 /\ at <= Len(s)
  OBVIOUS
<1>3. Reached(s, Parsers!ReadOn(s, r))
  BY <1>1, <1>2, NextReached DEF r
<1>4. /\ TagAt(s, Parsers!CloseTag, at) => Parsers!ReadOn(s, r) = Reads(at + 3, FALSE, m)
      /\ ~inside /\ TagAt(s, Parsers!OpenTag, at) => Parsers!ReadOn(s, r) = Reads(at + 3, TRUE, m)
  BY <1>1, <1>2, ReadOnEffect
<1> QED BY <1>3, <1>4

-----------------------------------------------------------------------------
(* What the parser of the tags cuts off its buffer.                        *)

LEMMA FindType ==
  ASSUME NEW S, NEW s \in Seq(S), NEW w
  PROVE  Parsers!Find(w, s) \in 0..Len(s)
<1> DEFINE at == {i \in DOMAIN s : Parsers!IsPrefix(w, SubSeq(s, i, Len(s)))}
<1>1. Parsers!Find(w, s) = IF at = {} THEN 0 ELSE Parsers!Min(at)
  BY DEF Parsers!Find
<1>2. at \in SUBSET (1..Len(s)) /\ at \in SUBSET Nat
  OBVIOUS
<1> HIDE DEF at
<1>3. CASE at = {}
  BY <1>1, <1>3
<1>4. CASE at # {}
  <2>1. Parsers!Min(at) \in at
    BY <1>2, <1>4, MinIn
  <2>2. Parsers!Min(at) \in 1..Len(s)
    BY <1>2, <2>1
  <2>3. Parsers!Find(w, s) = Parsers!Min(at)
    BY <1>1, <1>4
  <2> QED BY <2>2, <2>3
<1> QED BY <1>3, <1>4

LEMMA FindMeans ==
  ASSUME NEW S, NEW s \in Seq(S), NEW w
  PROVE  /\ Parsers!Find(w, s) = 0 => \A i \in 1..Len(s) : ~TagAt(s, w, i)
         /\ Parsers!Find(w, s) # 0 =>
              /\ TagAt(s, w, Parsers!Find(w, s))
              /\ \A i \in 1..Parsers!Find(w, s) - 1 : ~TagAt(s, w, i)
<1> DEFINE at == {i \in 1..Len(s) : TagAt(s, w, i)}
<1>1. Parsers!Find(w, s) = IF at = {} THEN 0 ELSE Parsers!Min(at)
  <2>1. DOMAIN s = 1..Len(s)
    OBVIOUS
  <2> QED BY <2>1 DEF Parsers!Find, TagAt, Parsers!From
<1>2. at \in SUBSET (1..Len(s)) /\ at \in SUBSET Nat
  OBVIOUS
<1>3. \A i \in 1..Len(s) : i \in at <=> TagAt(s, w, i)
  OBVIOUS
<1> HIDE DEF at
<1>4. CASE at = {}
  BY <1>1, <1>3, <1>4
<1>5. CASE at # {}
  <2> DEFINE k == Parsers!Min(at)
  <2>1. k \in at /\ \A x \in at : k <= x
    BY <1>2, <1>5, MinIn
  <2> HIDE DEF k
  <2>5. k \in 1..Len(s)
    BY <1>2, <2>1
  <2>6. Parsers!Find(w, s) = k
    BY <1>1, <1>5 DEF k
  <2>2. k \in 1..Len(s) /\ k # 0 /\ Parsers!Find(w, s) = k
    BY <2>5, <2>6
  <2>3. \A i \in 1..k - 1 : i \in 1..Len(s) /\ ~(k <= i)
    BY <2>2
  <2>4. \A i \in 1..k - 1 : ~TagAt(s, w, i)
    BY <1>3, <2>1, <2>3
  <2> QED BY <1>3, <2>1, <2>2, <2>4
<1> QED BY <1>4, <1>5

LastBracket(b) == Parsers!SelectLastInSeq(b, LAMBDA c : c = "<")

LEMMA LastBracketMeans ==
  ASSUME NEW b \in Seq(STRING)
  PROVE  /\ LastBracket(b) \in 0..Len(b)
         /\ LastBracket(b) # 0 => b[LastBracket(b)] = "<"
         /\ \A i \in 1..Len(b) : b[i] = "<" => i <= LastBracket(b)
<1> DEFINE I == {i \in 1..Len(b) : b[i] = "<"}
<1>1. LastBracket(b) = IF I # {} THEN Parsers!Max(I) ELSE 0
  BY DEF LastBracket, Parsers!SelectLastInSeq
<1>2. I \in SUBSET (0..Len(b)) /\ I \in SUBSET (1..Len(b)) /\ Len(b) \in Nat
  OBVIOUS
<1>3. \A i \in 1..Len(b) : i \in I <=> b[i] = "<"
  OBVIOUS
<1> HIDE DEF I
<1>4. CASE I = {}
  BY <1>1, <1>2, <1>3, <1>4
<1>5. CASE I # {}
  <2> DEFINE k == Parsers!Max(I)
  <2>1. k \in I /\ \A x \in I : x <= k
    BY <1>2, <1>5, MaxIn
  <2> HIDE DEF k
  <2>2. LastBracket(b) = k
    BY <1>1, <1>5 DEF k
  <2> QED BY <1>2, <1>3, <2>1, <2>2
<1> QED BY <1>4, <1>5

(* The buffer is the part of the text from p to q.                         *)
LEMMA TagInBuffer ==
  ASSUME NEW s \in Seq(STRING), NEW p \in 1..Len(s) + 1, NEW q \in 0..Len(s), p <= q + 1,
         NEW t \in Tag, NEW b, b = SubSeq(s, p, q), NEW i \in 1..q - p + 1
  PROVE  TagAt(b, t, i) <=> i + 2 <= q - p + 1 /\ TagAt(s, t, p + i - 1)
<1>1. p \in Nat \ {0} /\ q \in Int /\ q <= Len(s)
  OBVIOUS
<1>2. b \in Seq(STRING) /\ Len(b) = q - p + 1 /\ \A k \in 1..q - p + 1 : b[k] = s[p + k - 1]
  BY <1>1, PartType
<1> DEFINE j == p + i - 1
<1>3. j \in 1..Len(s) /\ j \in Nat /\ i \in 1..Len(b) /\ Len(s) \in Nat
  BY <1>2
<1>4. TagAt(b, t, i) <=> i + 2 <= Len(b) /\ b[i] = t[1] /\ b[i + 1] = t[2] /\ b[i + 2] = t[3]
  BY <1>2, <1>3, TagAtFields
<1> HIDE DEF j
<1>5. TagAt(s, t, j) <=> j + 2 <= Len(s) /\ s[j] = t[1] /\ s[j + 1] = t[2] /\ s[j + 2] = t[3]
  BY <1>3, TagAtFields
<1>6. CASE i + 2 <= q - p + 1
  <2>1. i + 1 \in 1..q - p + 1 /\ i + 2 \in 1..q - p + 1 /\ j + 2 <= Len(s)
    BY <1>6 DEF j
  <2>2. p + i - 1 = j /\ p + (i + 1) - 1 = j + 1 /\ p + (i + 2) - 1 = j + 2
    BY DEF j
  <2>3. b[i] = s[j] /\ b[i + 1] = s[j + 1] /\ b[i + 2] = s[j + 2]
    BY <1>2, <2>1, <2>2
  <2> QED BY <1>2, <1>4, <1>5, <1>6, <2>1, <2>3 DEF j
<1>7. CASE ~(i + 2 <= q - p + 1)
  BY <1>2, <1>4, <1>7
<1> QED BY <1>6, <1>7

LEMMA TagBegun ==
  ASSUME NEW u \in Seq(STRING), NEW t \in Tag, Len(u) <= 2,
         u[1] = t[1], Len(u) = 2 => u[2] = t[2]
  PROVE  Parsers!IsStrictPrefix(u, t)
<1>1. t \in Seq(Sign) /\ Len(t) = 3
  BY TagFields DEF IsTag
<1> DEFINE n == Len(u)
<1>2. n \in Nat /\ n <= 2
  OBVIOUS
<1>3. n <= Len(t) /\ n # Len(t)
  <2> HIDE DEF n
  <2> QED BY <1>1, <1>2
<1>4. \A m \in 1..n : u[m] = t[m]
  <2> SUFFICES ASSUME NEW m \in 1..n PROVE u[m] = t[m]
    OBVIOUS
  <2>1. m = 1 \/ (m = 2 /\ n = 2)
    <3> HIDE DEF n
    <3> QED BY <1>2
  <2> QED BY <2>1
<1>5. BeginsWith(t, u)
  BY <1>1, PrefixOfText
<1>6. Parsers!IsPrefix(u, t)
  BY <1>3, <1>4, <1>5 DEF BeginsWith
<1>7. u # t
  BY <1>3
<1> QED BY <1>6, <1>7 DEF Parsers!IsStrictPrefix

LEMMA TagNotOver ==
  ASSUME NEW u \in Seq(STRING), NEW t \in Tag, Parsers!IsStrictPrefix(u, t)
  PROVE  Len(u) <= 2
<1>1. t \in Seq(Sign) /\ Len(t) = 3
  BY TagFields DEF IsTag
<1>2. BeginsWith(t, u)
  BY <1>1, PrefixOfText
<1>3. u # t /\ Len(u) <= Len(t) /\ \A m \in 1..Len(u) : u[m] = t[m]
  BY <1>2 DEF BeginsWith, Parsers!IsStrictPrefix
<1>4. Len(u) # Len(t)
  <2> SUFFICES ASSUME Len(u) = Len(t) PROVE FALSE
    OBVIOUS
  <2>1. u \in Seq(STRING \cup Sign) /\ t \in Seq(STRING \cup Sign)
    BY <1>1
  <2> QED BY <1>3, <2>1, SeqEqual
<1>5. Len(u) \in Nat
  OBVIOUS
<1> QED BY <1>1, <1>3, <1>4, <1>5

(* b is the part of s behind the letter d.  A tag that goes beyond its end *)
(* begins at its last bracket.                                             *)
LEMMA TagOverTheEnd ==
  ASSUME NEW s \in Seq(STRING), NEW b \in Seq(STRING), NEW d \in Nat, d + Len(b) <= Len(s),
         \A k \in 1..Len(b) : b[k] = s[d + k],
         NEW t \in Tag, NEW i \in 1..Len(b), Len(b) < i + 2, TagAt(s, t, d + i)
  PROVE  i = LastBracket(b) /\ Parsers!IsStrictPrefix(Parsers!From(b, i), t)
<1> DEFINE start == LastBracket(b)
<1> DEFINE k == d + i
<1>1. /\ start \in 0..Len(b) /\ (start # 0 => b[start] = "<")
      /\ \A j \in 1..Len(b) : b[j] = "<" => j <= start
  BY LastBracketMeans
<1>2. k \in 1..Len(s) /\ k \in Nat /\ Len(b) \in Nat
  OBVIOUS
<1>3. s[k] = t[1] /\ s[k + 1] = t[2]
  BY <1>2, TagAtFields
<1>4. t[1] = "<" /\ t[2] # "<"
  BY TagFields DEF IsTag
<1>5. b[i] = s[k]
  OBVIOUS
<1>6. i + 1 \in 1..Len(b) => b[i + 1] = s[k + 1]
  <2>1. d + (i + 1) = k + 1
    OBVIOUS
  <2> QED BY <2>1
<1> HIDE DEF start, k
<1>7. i <= start
  BY <1>1, <1>3, <1>4, <1>5
<1>8. ~(i + 1 \in 1..Len(b) /\ start = i + 1)
  BY <1>1, <1>3, <1>4, <1>6
<1>9. i = start
  BY <1>1, <1>2, <1>7, <1>8
<1> DEFINE u == Parsers!From(b, i)
<1>10. /\ u \in Seq(STRING) /\ Len(u) = Len(b) + 1 - i
       /\ \A m \in 1..Len(b) + 1 - i : u[m] = b[i + m - 1]
  <2>1. i \in 1..Len(b) + 1
    BY <1>2
  <2> QED BY <2>1, FromFields
<1> HIDE DEF u
<1>11. Len(u) <= 2
  BY <1>2, <1>10
<1>12. u[1] = t[1]
  <2>1. 1 \in 1..Len(b) + 1 - i /\ i + 1 - 1 = i
    BY <1>2
  <2> QED BY <1>3, <1>5, <1>10, <2>1
<1>13. Len(u) = 2 => u[2] = t[2]
  <2> SUFFICES ASSUME Len(u) = 2 PROVE u[2] = t[2]
    OBVIOUS
  <2>1. 2 \in 1..Len(b) + 1 - i /\ i + 2 - 1 = i + 1 /\ i + 1 \in 1..Len(b)
    <3> DEFINE n == Len(u)
    <3> DEFINE l == Len(b)
    <3>1. n = l + 1 - i /\ n = 2 /\ l \in Nat /\ i \in 1..l
      BY <1>2, <1>10
    <3> HIDE DEF n, l
    <3>2. 2 \in 1..l + 1 - i /\ i + 2 - 1 = i + 1 /\ i + 1 \in 1..l
      BY <3>1
    <3> QED BY <3>2 DEF l
  <2> QED BY <1>3, <1>6, <1>10, <2>1
<1>14. Parsers!IsStrictPrefix(u, t)
  BY <1>10, <1>11, <1>12, <1>13, TagBegun
<1> QED BY <1>9, <1>14 DEF start, u

(* n letters go, and what is kept is too short for a tag.                  *)
LettersCut(s, p, q, b, tags, c, n) ==
  /\ n \in 0..q - p + 1 /\ q - p + 1 <= n + 2
  /\ c.piece = SubSeq(b, 1, n) /\ c.buffer = SubSeq(b, n + 1, Len(b))
  /\ \A j \in 0..n - 1, t \in tags : ~TagAt(s, t, p + j)

LEMMA PartialTagKept ==
  ASSUME NEW s \in Seq(STRING), NEW p \in 1..Len(s) + 1, NEW q \in 0..Len(s), p <= q + 1,
         NEW tags \in SUBSET Tag, NEW b, b = SubSeq(s, p, q),
         \A t \in tags : Parsers!Find(t, b) = 0,
         NEW h \in [buffer : Seq(STRING), inside : BOOLEAN, piece : Seq(STRING)],
         h.buffer = b
  PROVE  /\ \E n : LettersCut(s, p, q, b, tags, Parsers!KeepPartialTag(h, tags), n)
         /\ Parsers!KeepPartialTag(h, tags).inside = h.inside
<1> DEFINE start == LastBracket(b)
<1> DEFINE l == q - p + 1
<1> DEFINE held == start > 0 /\ \E t \in tags : Parsers!IsStrictPrefix(Parsers!From(b, start), t)
<1> DEFINE c == Parsers!KeepPartialTag(h, tags)
<1>1. p \in Nat \ {0} /\ q \in Int /\ q <= Len(s) /\ l \in Nat
  OBVIOUS
<1>2. b \in Seq(STRING) /\ Len(b) = l /\ \A k \in 1..l : b[k] = s[p + k - 1]
  BY <1>1, PartType
<1>3. /\ start \in 0..l /\ (start # 0 => b[start] = "<")
      /\ \A i \in 1..l : b[i] = "<" => i <= start
  BY <1>2, LastBracketMeans
<1>4. c = IF held THEN [h EXCEPT !.buffer = Parsers!From(b, start), !.piece = Parsers!Before(b, start)]
                  ELSE [h EXCEPT !.buffer = <<>>, !.piece = b]
  BY DEF Parsers!KeepPartialTag, LastBracket
<1>5. /\ c.inside = h.inside
      /\ held => c.buffer = Parsers!From(b, start) /\ c.piece = Parsers!Before(b, start)
      /\ ~held => c.buffer = <<>> /\ c.piece = b
  <2> HIDE DEF c, held, start, l
  <2> QED BY <1>4
<1> HIDE DEF c, start
<1>6. \A t \in tags, i \in 1..l : i + 2 <= l => ~TagAt(s, t, p + i - 1)
  <2> SUFFICES ASSUME NEW t \in tags, NEW i \in 1..l, i + 2 <= l PROVE ~TagAt(s, t, p + i - 1)
    OBVIOUS
  <2>1. t \in Tag /\ Parsers!Find(t, b) = 0
    OBVIOUS
  <2>2. ~TagAt(b, t, i)
    BY <1>2, <2>1, FindMeans
  <2> QED BY <2>1, <2>2, TagInBuffer

<1> HIDE DEF l, held
(* A tag that goes beyond the end begins at the last bracket.              *)
<1>7. ASSUME NEW t \in tags, NEW i \in 1..l, TagAt(s, t, p + i - 1)
      PROVE  i = start /\ held
  <2>1. ~(i + 2 <= l)
    BY <1>6, <1>7
  <2>2. l < i + 2 /\ (p - 1) + i = p + i - 1 /\ p - 1 \in Nat /\ (p - 1) + l <= Len(s)
    BY <1>1, <2>1 DEF l
  <2>3. \A k \in 1..l : b[k] = s[(p - 1) + k]
    <3>1. \A k \in 1..l : p + k - 1 = (p - 1) + k
      BY <1>1
    <3> QED BY <1>2, <3>1
  <2>4. i = LastBracket(b) /\ Parsers!IsStrictPrefix(Parsers!From(b, i), t)
    <3> DEFINE d == p - 1
    <3>1. /\ d \in Nat /\ d + Len(b) <= Len(s) /\ \A k \in 1..Len(b) : b[k] = s[d + k]
          /\ t \in Tag /\ i \in 1..Len(b) /\ Len(b) < i + 2 /\ TagAt(s, t, d + i)
      BY <1>2, <1>7, <2>2, <2>3
    <3> HIDE DEF d
    <3> QED BY <1>2, <3>1, TagOverTheEnd
  <2>5. i > 0
    BY <1>1
  <2> QED BY <2>4, <2>5 DEF held, start
<1>8. CASE held
  <2> DEFINE n == start - 1
  <2>1. start \in 1..l /\ start > 0
    BY <1>1, <1>3, <1>8 DEF held
  <2>2. n \in Int /\ n \in 0..l /\ n + 1 = start
    BY <1>1, <2>1
  <2>3. l <= n + 2
    <3>1. PICK t \in tags : Parsers!IsStrictPrefix(Parsers!From(b, start), t)
      BY <1>8 DEF held
    <3> DEFINE u == Parsers!From(b, start)
    <3>2. u \in Seq(STRING) /\ Len(u) = Len(b) + 1 - start
      <4>1. start \in 1..Len(b) + 1
        BY <1>1, <1>2, <2>1
      <4> QED BY <1>2, <4>1, FromFields
    <3> HIDE DEF u
    <3>3. Len(u) <= 2
      <4>1. t \in Tag /\ Parsers!IsStrictPrefix(u, t)
        BY <3>1 DEF u
      <4> QED BY <3>2, <4>1, TagNotOver
    <3> QED BY <1>1, <1>2, <2>1, <3>2, <3>3
  <2>4. c.piece = SubSeq(b, 1, n) /\ c.buffer = SubSeq(b, n + 1, Len(b))
    BY <1>5, <1>8, <2>2 DEF Parsers!Before, Parsers!From
  <2>5. \A j \in 0..n - 1, t \in tags : ~TagAt(s, t, p + j)
    <3> SUFFICES ASSUME NEW j \in 0..n - 1, NEW t \in tags, TagAt(s, t, p + j) PROVE FALSE
      OBVIOUS
    <3>1. j + 1 \in 1..l /\ p + (j + 1) - 1 = p + j /\ j + 1 # start
      BY <1>1, <2>1, <2>2
    <3> QED BY <1>7, <3>1
  <2> HIDE DEF n
  <2>6. LettersCut(s, p, q, b, tags, c, n)
    BY <2>2, <2>3, <2>4, <2>5 DEF LettersCut, l
  <2> QED BY <1>5, <2>6 DEF c
<1>9. CASE ~held
  <2>1. c.piece = SubSeq(b, 1, l) /\ c.buffer = SubSeq(b, l + 1, Len(b))
    <3>1. SubSeq(b, 1, Len(b)) = b
      BY <1>2, SubSeqFull
    <3>2. SubSeq(b, l + 1, Len(b)) = <<>>
      BY <1>1, <1>2, SubSeqEmpty
    <3> QED BY <1>2, <1>5, <1>9, <3>1, <3>2
  <2>2. \A j \in 0..l - 1, t \in tags : ~TagAt(s, t, p + j)
    <3> SUFFICES ASSUME NEW j \in 0..l - 1, NEW t \in tags, TagAt(s, t, p + j) PROVE FALSE
      OBVIOUS
    <3>1. j + 1 \in 1..l /\ p + (j + 1) - 1 = p + j
      BY <1>1
    <3> QED BY <1>7, <1>9, <3>1
  <2>3. l \in 0..l /\ l <= l + 2
    BY <1>1
  <2>4. LettersCut(s, p, q, b, tags, c, l)
    BY <2>1, <2>2, <2>3 DEF LettersCut, l
  <2> QED BY <1>5, <2>4 DEF c
<1> QED BY <1>8, <1>9


LEMMA BufferParts ==
  ASSUME NEW s \in Seq(STRING), NEW p \in 1..Len(s) + 1, NEW q \in 0..Len(s), p <= q + 1,
         NEW b, b = SubSeq(s, p, q), NEW n \in 0..q - p + 1
  PROVE  /\ b \in Seq(STRING) /\ Len(b) = q - p + 1
         /\ SubSeq(b, 1, n) = SubSeq(s, p, p + n - 1)
         /\ SubSeq(b, n + 1, Len(b)) = SubSeq(s, p + n, q)
<1> DEFINE l == q - p + 1
<1>1. p \in Nat \ {0} /\ q \in Nat /\ q \in Int /\ q <= Len(s) /\ l \in Nat /\ n \in 0..l
  OBVIOUS
<1>2. b \in Seq(STRING) /\ Len(b) = l
  BY <1>1, PartType
<1>3. SubSeq(b, 1, n) = SubSeq(s, p, p + n - 1)
  <2>1. 1 \in Nat \ {0} /\ n \in Int /\ 1 <= n + 1 /\ n <= l /\ p + 1 - 1 = p
    BY <1>1
  <2>2. SubSeq(b, 1, n) = SubSeq(s, p + 1 - 1, p + n - 1)
    BY <1>1, <2>1, PartOfPart
  <2> QED BY <2>1, <2>2
<1>4. SubSeq(b, n + 1, l) = SubSeq(s, p + n, q)
  <2> DEFINE m == n + 1
  <2>1. /\ m \in Nat \ {0} /\ l \in Int /\ m <= l + 1 /\ l <= q - p + 1
        /\ p + m - 1 = p + n /\ p + l - 1 = q
    BY <1>1
  <2>2. SubSeq(SubSeq(s, p, q), m, l) = SubSeq(s, p + m - 1, p + l - 1)
    <3> HIDE DEF m, l
    <3> QED BY <1>1, <2>1, PartOfPart
  <2> HIDE DEF m
  <2>3. SubSeq(b, m, l) = SubSeq(s, p + n, q)
    BY <2>1, <2>2
  <2> QED BY <2>3 DEF m
<1> QED BY <1>2, <1>3, <1>4

HasParts(s, p, q, b, n) ==
  /\ SubSeq(b, 1, n) = SubSeq(s, p, p + n - 1)
  /\ SubSeq(b, n + 1, Len(b)) = SubSeq(s, p + n, q)

LEMMA BufferHasParts ==
  ASSUME NEW s \in Seq(STRING), NEW p \in 1..Len(s) + 1, NEW q \in 0..Len(s), p <= q + 1,
         NEW b, b = SubSeq(s, p, q), NEW n \in 0..q - p + 1
  PROVE  HasParts(s, p, q, b, n)
BY BufferParts DEF HasParts

(* n letters go, and a tag.                                                *)
TagCut(s, p, q, b, t, tags, c, n) ==
  /\ n \in 0..q - p + 1 /\ p + n + 2 <= q /\ TagAt(s, t, p + n)
  /\ c.piece = SubSeq(b, 1, n) /\ c.buffer = SubSeq(b, (n + 3) + 1, Len(b))
  /\ \A j \in 0..n - 1, u \in tags : ~TagAt(s, u, p + j)

LEMMA FirstTagCut ==
  ASSUME NEW s \in Seq(STRING), NEW p \in 1..Len(s) + 1, NEW q \in 0..Len(s), p <= q + 1,
         NEW b, b = SubSeq(s, p, q), NEW t \in Tag, NEW tags \in SUBSET Tag,
         Parsers!Find(t, b) # 0,
         \A u \in tags : Parsers!Find(u, b) = 0 \/ Parsers!Find(t, b) <= Parsers!Find(u, b),
         NEW h, h.buffer = b, NEW inside
  PROVE  LET c == Parsers!CutAt(h, Parsers!Find(t, b), t, inside)
         IN  c.inside = inside /\ \E n : TagCut(s, p, q, b, t, tags, c, n)
<1> DEFINE l == q - p + 1
<1> DEFINE i == Parsers!Find(t, b)
<1> DEFINE n == i - 1
<1> DEFINE c == Parsers!CutAt(h, i, t, inside)
<1>1. b \in Seq(STRING) /\ Len(b) = l /\ l \in Nat
  <2>1. 0 \in 0..q - p + 1 /\ l \in Nat
    OBVIOUS
  <2> QED BY <2>1, BufferParts
<1>2. i \in 0..l /\ i # 0
  BY <1>1, FindType
<1>3. TagAt(b, t, i)
  BY <1>1, FindMeans
<1>4. Len(t) = 3
  BY TagFields DEF IsTag
<1>5. /\ c.inside = inside /\ c.piece = SubSeq(b, 1, n)
      /\ c.buffer = SubSeq(b, i + 3, Len(b))
  <2> HIDE DEF i
  <2> QED BY <1>4 DEF Parsers!CutAt, Parsers!Before, Parsers!From
<1>6. \A u \in tags : Parsers!Find(u, b) = 0 \/ i <= Parsers!Find(u, b)
  OBVIOUS
<1> HIDE DEF i, c
<1>7. i \in 1..l /\ n \in 0..l /\ i \in Nat /\ i + 3 = (n + 3) + 1
  BY <1>1, <1>2
<1>8. i + 2 <= l /\ TagAt(s, t, p + i - 1)
  BY <1>3, <1>7, TagInBuffer
<1>9. p + n + 2 <= q /\ p + n = p + i - 1
  BY <1>7, <1>8
<1>10. \A j \in 0..n - 1, u \in tags : ~TagAt(s, u, p + j)
  <2> SUFFICES ASSUME NEW j \in 0..n - 1, NEW u \in tags PROVE ~TagAt(s, u, p + j)
    OBVIOUS
  <2> DEFINE k == j + 1
  <2>1. k \in 1..l /\ k \in 1..i - 1 /\ k + 2 <= l /\ p + k - 1 = p + j /\ u \in Tag
    BY <1>1, <1>7, <1>8
  <2> HIDE DEF k, l
  <2>2. ~TagAt(b, u, k)
    <3>1. CASE Parsers!Find(u, b) = 0
      BY <1>1, <2>1, <3>1, FindMeans
    <3>2. CASE Parsers!Find(u, b) # 0
      <4> DEFINE f == Parsers!Find(u, b)
      <4>1. f \in 0..l /\ f # 0
        BY <1>1, <3>2, FindType
      <4>2. i <= f
        BY <1>6, <3>2
      <4>3. \A m \in 1..f - 1 : ~TagAt(b, u, m)
        BY <1>1, <3>2, FindMeans
      <4> HIDE DEF f
      <4>4. k \in 1..f - 1
        BY <1>1, <1>7, <2>1, <4>1, <4>2
      <4> QED BY <4>3, <4>4
    <3> QED BY <3>1, <3>2
  <2>3. k \in 1..q - p + 1 /\ k + 2 <= q - p + 1
    BY <2>1 DEF l
  <2> QED BY <2>1, <2>2, <2>3, TagInBuffer
<1> HIDE DEF n
<1>11. TagCut(s, p, q, b, t, tags, c, n)
  BY <1>5, <1>7, <1>8, <1>9, <1>10 DEF TagCut
<1> QED BY <1>5, <1>11 DEF c, i

(* What is cut off is what a reader of the whole text reads.               *)
CutsRight(s, p, q, inside, c, n) ==
  /\ n \in 0..q - p + 1
  /\ c.piece = SubSeq(s, p, p + n - 1)
  /\ \A j \in 0..n - 1 : ~StopsAt(s, inside, p + j)
  /\ \/ c.inside = inside /\ c.buffer = SubSeq(s, p + n, q) /\ q - p + 1 <= n + 2
     \/ /\ p + n + 2 <= q /\ c.buffer = SubSeq(s, p + (n + 3), q)
        /\ \/ c.inside = FALSE /\ TagAt(s, Parsers!CloseTag, p + n)
           \/ c.inside = TRUE /\ ~inside /\ TagAt(s, Parsers!OpenTag, p + n)

LEMMA LettersCutRight ==
  ASSUME NEW s \in Seq(STRING), NEW p \in 1..Len(s) + 1, NEW q \in 0..Len(s), p <= q + 1,
         NEW b, b = SubSeq(s, p, q), NEW inside \in BOOLEAN, NEW tags, NEW c, NEW n,
         LettersCut(s, p, q, b, tags, c, n), c.inside = inside,
         \A j : StopsAt(s, inside, j) => \E t \in tags : TagAt(s, t, j)
  PROVE  CutsRight(s, p, q, inside, c, n)
<1>1. n \in 0..q - p + 1 /\ q - p + 1 <= n + 2 /\ \A j \in 0..n - 1 : ~StopsAt(s, inside, p + j)
  BY DEF LettersCut
<1>2. c.piece = SubSeq(s, p, p + n - 1) /\ c.buffer = SubSeq(s, p + n, q)
  <2>1. c.piece = SubSeq(b, 1, n) /\ c.buffer = SubSeq(b, n + 1, Len(b))
    BY DEF LettersCut
  <2>2. SubSeq(b, 1, n) = SubSeq(s, p, p + n - 1) /\ SubSeq(b, n + 1, Len(b)) = SubSeq(s, p + n, q)
    BY <1>1, BufferParts
  <2> QED BY <2>1, <2>2
<1> QED BY <1>1, <1>2 DEF CutsRight

LEMMA TagCutRight ==
  ASSUME NEW s \in Seq(STRING), NEW p \in 1..Len(s) + 1, NEW q \in 0..Len(s), p <= q + 1,
         NEW b, b = SubSeq(s, p, q), NEW inside \in BOOLEAN, NEW t, NEW tags, NEW c, NEW n,
         TagCut(s, p, q, b, t, tags, c, n),
         \/ t = Parsers!CloseTag /\ c.inside = FALSE
         \/ t = Parsers!OpenTag /\ c.inside = TRUE /\ ~inside,
         \A j : StopsAt(s, inside, j) => \E u \in tags : TagAt(s, u, j)
  PROVE  CutsRight(s, p, q, inside, c, n)
<1>1. /\ n \in 0..q - p + 1 /\ p + n + 2 <= q /\ TagAt(s, t, p + n)
      /\ \A j \in 0..n - 1 : ~StopsAt(s, inside, p + j)
  BY DEF TagCut
<1>2. c.piece = SubSeq(s, p, p + n - 1) /\ c.buffer = SubSeq(s, p + (n + 3), q)
  <2>1. c.piece = SubSeq(b, 1, n) /\ c.buffer = SubSeq(b, (n + 3) + 1, Len(b))
    BY DEF TagCut
  <2>2. SubSeq(b, 1, n) = SubSeq(s, p, p + n - 1)
    BY <1>1, BufferParts
  <2> DEFINE m == n + 3
  <2>3. m \in 0..q - p + 1
    BY <1>1
  <2> HIDE DEF m
  <2>4. SubSeq(b, m + 1, Len(b)) = SubSeq(s, p + m, q)
    BY <2>3, BufferParts
  <2> QED BY <2>1, <2>2, <2>4 DEF m
<1> QED BY <1>1, <1>2 DEF CutsRight

LEMMA ParsersCutRight ==
  ASSUME NEW s \in Seq(STRING), NEW p \in 1..Len(s) + 1, NEW q \in 0..Len(s), p <= q + 1,
         NEW h \in [buffer : Seq(STRING), inside : BOOLEAN, piece : Seq(STRING)],
         h.buffer = SubSeq(s, p, q)
  PROVE  /\ h.inside => \E n : CutsRight(s, p, q, h.inside, Parsers!ParseInsideThink(h), n)
         /\ ~h.inside => \E n : CutsRight(s, p, q, h.inside, Parsers!ParseOutsideThink(h), n)
<1> DEFINE b == h.buffer
<1> DEFINE C == Parsers!CloseTag
<1> DEFINE O == Parsers!OpenTag
<1>1. b = SubSeq(s, p, q) /\ h.inside \in BOOLEAN
  OBVIOUS
<1>2. C \in Tag /\ O \in Tag
  BY DEF Tag
<1>3. Parsers!Find(C, b) \in Nat /\ Parsers!Find(O, b) \in Nat
  <2>1. b \in Seq(STRING) /\ Len(b) \in Nat
    OBVIOUS
  <2>2. Parsers!Find(C, b) \in 0..Len(b) /\ Parsers!Find(O, b) \in 0..Len(b)
    BY <2>1, FindType
  <2> QED BY <2>1, <2>2
<1>4. ASSUME h.inside PROVE \E n : CutsRight(s, p, q, h.inside, Parsers!ParseInsideThink(h), n)
  <2> DEFINE tags == {C}
  <2>1. \A j : StopsAt(s, h.inside, j) => \E t \in tags : TagAt(s, t, j)
    BY <1>4 DEF StopsAt
  <2>2. tags \in SUBSET Tag
    BY <1>2
  <2>3. CASE Parsers!Find(C, b) = 0
    <3> DEFINE c == Parsers!KeepPartialTag(h, tags)
    <3>1. Parsers!ParseInsideThink(h) = c
      BY <2>3 DEF Parsers!ParseInsideThink
    <3>2. \A t \in tags : Parsers!Find(t, b) = 0
      BY <2>3
    <3> HIDE DEF b, C, tags
    <3>3. c.inside = h.inside /\ \E n : LettersCut(s, p, q, b, tags, c, n)
      BY <1>1, <2>2, <3>2, PartialTagKept DEF b
    <3> HIDE DEF c
    <3>4. \E n : CutsRight(s, p, q, h.inside, c, n)
      BY <1>1, <2>1, <3>3, LettersCutRight
    <3> QED BY <3>1, <3>4
  <2>4. CASE Parsers!Find(C, b) # 0
    <3> DEFINE c == Parsers!CutAt(h, Parsers!Find(C, b), C, FALSE)
    <3>1. Parsers!ParseInsideThink(h) = c
      BY <2>4 DEF Parsers!ParseInsideThink
    <3>2. \A u \in tags : Parsers!Find(u, b) = 0 \/ Parsers!Find(C, b) <= Parsers!Find(u, b)
      BY <1>3
    <3> HIDE DEF b, C, tags
    <3>3. c.inside = FALSE /\ \E n : TagCut(s, p, q, b, C, tags, c, n)
      BY <1>1, <1>2, <2>2, <2>4, <3>2, FirstTagCut DEF b
    <3> HIDE DEF c
    <3>4. \E n : CutsRight(s, p, q, h.inside, c, n)
      BY <1>1, <2>1, <3>3, TagCutRight DEF C
    <3> QED BY <3>1, <3>4
  <2> QED BY <2>3, <2>4
<1>5. ASSUME ~h.inside PROVE \E n : CutsRight(s, p, q, h.inside, Parsers!ParseOutsideThink(h), n)
  <2> DEFINE tags == {O, C}
  <2> DEFINE start == Parsers!Find(O, b)
  <2> DEFINE orphan == Parsers!Find(C, b)
  <2>1. \A j : StopsAt(s, h.inside, j) => \E t \in tags : TagAt(s, t, j)
    BY DEF StopsAt
  <2>2. tags \in SUBSET Tag
    BY <1>2
  <2>3. Parsers!ParseOutsideThink(h) =
          IF orphan > 0 /\ (start = 0 \/ orphan < start) THEN Parsers!CutAt(h, orphan, C, FALSE)
          ELSE IF start = 0 THEN Parsers!KeepPartialTag(h, tags)
          ELSE Parsers!CutAt(h, start, O, TRUE)
    BY DEF Parsers!ParseOutsideThink
  <2>4. CASE orphan > 0 /\ (start = 0 \/ orphan < start)
    <3> DEFINE c == Parsers!CutAt(h, orphan, C, FALSE)
    <3>1. Parsers!ParseOutsideThink(h) = c
      BY <2>3, <2>4
    <3>2. orphan # 0 /\ \A u \in tags : Parsers!Find(u, b) = 0 \/ orphan <= Parsers!Find(u, b)
      BY <1>3, <2>4
    <3> HIDE DEF b, C, O, tags
    <3>3. c.inside = FALSE /\ \E n : TagCut(s, p, q, b, C, tags, c, n)
      BY <1>1, <1>2, <2>2, <3>2, FirstTagCut DEF b
    <3> HIDE DEF c
    <3>4. \E n : CutsRight(s, p, q, h.inside, c, n)
      BY <1>1, <2>1, <3>3, TagCutRight DEF C
    <3> QED BY <3>1, <3>4
  <2>5. CASE ~(orphan > 0 /\ (start = 0 \/ orphan < start)) /\ start = 0
    <3> DEFINE c == Parsers!KeepPartialTag(h, tags)
    <3>1. Parsers!ParseOutsideThink(h) = c
      BY <2>3, <2>5
    <3>2. \A t \in tags : Parsers!Find(t, b) = 0
      BY <1>3, <2>5
    <3> HIDE DEF b, C, O, tags
    <3>3. c.inside = h.inside /\ \E n : LettersCut(s, p, q, b, tags, c, n)
      BY <1>1, <2>2, <3>2, PartialTagKept DEF b
    <3> HIDE DEF c
    <3>4. \E n : CutsRight(s, p, q, h.inside, c, n)
      BY <1>1, <2>1, <3>3, LettersCutRight
    <3> QED BY <3>1, <3>4
  <2>6. CASE ~(orphan > 0 /\ (start = 0 \/ orphan < start)) /\ start # 0
    <3> DEFINE c == Parsers!CutAt(h, start, O, TRUE)
    <3>1. Parsers!ParseOutsideThink(h) = c
      BY <2>3, <2>6
    <3>2. start # 0 /\ \A u \in tags : Parsers!Find(u, b) = 0 \/ start <= Parsers!Find(u, b)
      BY <1>3, <2>6
    <3> HIDE DEF b, C, O, tags
    <3>3. c.inside = TRUE /\ \E n : TagCut(s, p, q, b, O, tags, c, n)
      BY <1>1, <1>2, <2>2, <3>2, FirstTagCut DEF b
    <3> HIDE DEF c
    <3>4. \E n : CutsRight(s, p, q, h.inside, c, n)
      BY <1>1, <1>5, <2>1, <3>3, TagCutRight DEF O
    <3> QED BY <3>1, <3>4
  <2> QED BY <2>4, <2>5, <2>6
<1> QED BY <1>4, <1>5

-----------------------------------------------------------------------------
(* What is said of the parsers between two steps, and how it is kept.      *)

Plain(x) == \A i \in 1..Len(x) : x[i] # Parsers!Bullet /\ x[i] # "|"

ThinkType == [buffer : Seq(STRING), inside : BOOLEAN]
ToolType  == [state : {"text", "function", "parameters"}, buffer : Seq(STRING),
              params : Seq(Seq(STRING))]

(* The think parser, to which the first q letters have come, stands where  *)
(* the reader r does.                                                      *)
Stands(s, r, q, left, th) ==
  /\ Reached(s, r) /\ q \in 0..Len(s) /\ r.at <= q + 1
  /\ left = Parsers!From(s, q + 1)
  /\ th.buffer = SubSeq(s, r.at, q) /\ th.inside = r.inside

(* What was sent is what the reader has read: its thinking always, and all *)
(* of it, but for what the tool parser holds, if nothing looks like a call *)
(* or a control token.                                                     *)
Agrees(s, r, tl, o) ==
  /\ Thought(o) = Thought(r.letters)
  /\ Plain(s) => /\ tl.state = "text" /\ Plain(tl.buffer)
                 /\ o \o Parsers!Kind("text", tl.buffer) = r.letters

LEMMA StandsType ==
  ASSUME NEW s \in Seq(STRING), NEW r, NEW q, NEW left, NEW th, Stands(s, r, q, left, th)
  PROVE  /\ r \in Reader /\ r.at \in 1..Len(s) + 1 /\ r.at \in Nat /\ r.inside \in BOOLEAN
         /\ r.letters \in Seq(Word) /\ q \in 0..Len(s) /\ r.at <= q + 1 /\ Reached(s, r)
BY ReachedType DEF Stands, Reader

LEMMA PlainPart ==
  ASSUME NEW s \in Seq(STRING), NEW p \in 1..Len(s) + 1, NEW n \in Int, n <= Len(s), Plain(s)
  PROVE  Plain(SubSeq(s, p, n))
<1> DEFINE x == SubSeq(s, p, n)
<1>1. p \in Nat \ {0} /\ Len(s) \in Nat
  OBVIOUS
<1>2. Len(x) = (IF p <= n THEN n - p + 1 ELSE 0) /\ \A i \in 1..Len(x) : x[i] = s[p + i - 1]
  BY <1>1, PartType
<1> HIDE DEF x
<1>3. \A i \in 1..Len(x) : p + i - 1 \in 1..Len(s)
  BY <1>1, <1>2
<1>4. Plain(x)
  BY <1>2, <1>3 DEF Plain
<1> QED BY <1>4 DEF x

LEMMA ChunkArrives ==
  ASSUME NEW s \in Seq(STRING), NEW p \in 1..Len(s) + 1, NEW q \in 0..Len(s), p <= q + 1,
         NEW left, left = Parsers!From(s, q + 1), NEW n \in 1..Len(left)
  PROVE  /\ q + n \in 0..Len(s) /\ p <= q + n + 1
         /\ SubSeq(s, p, q) \o SubSeq(left, 1, n) = SubSeq(s, p, q + n)
         /\ Parsers!From(left, n + 1) = Parsers!From(s, q + n + 1)
<1> DEFINE l == Len(s)
<1> DEFINE f == q + 1
<1>1. /\ l \in Nat /\ l \in 0..l /\ q \in Nat /\ q <= l /\ f \in 1..l + 1 /\ f <= l + 1
      /\ p \in Nat \ {0}
  OBVIOUS
<1>2. left = SubSeq(s, f, l)
  BY DEF Parsers!From
<1>3. Len(left) = l - f + 1
  <2>1. Len(left) = l + 1 - f
    <3> HIDE DEF f
    <3> QED BY <1>1, <1>2, FromFields DEF Parsers!From
  <2> HIDE DEF f, l
  <2>2. l \in Int /\ f \in Int
    BY <1>1
  <2> QED BY <2>1, <2>2
<1>4. n \in 0..l - f + 1 /\ f + n - 1 = q + n /\ f + n = q + n + 1 /\ n \in Nat
  BY <1>1, <1>3
<1>5. SubSeq(left, 1, n) = SubSeq(s, f, q + n) /\ Parsers!From(left, n + 1) = SubSeq(s, q + n + 1, l)
  <2>1. SubSeq(left, 1, n) = SubSeq(s, f, f + n - 1) /\ SubSeq(left, n + 1, Len(left)) = SubSeq(s, f + n, l)
    <3>1. f \in 1..Len(s) + 1 /\ l \in 0..Len(s) /\ f <= l + 1
      BY <1>1
    <3> HIDE DEF f, l
    <3>2. n \in 0..l - f + 1
      BY <1>4
    <3>3. HasParts(s, f, l, left, n)
      BY <1>2, <3>1, <3>2, BufferHasParts
    <3> QED BY <3>3 DEF HasParts
  <2> QED BY <1>4, <2>1 DEF Parsers!From
<1>6. q + n \in 0..l /\ p <= q + n + 1
  BY <1>1, <1>3, <1>4
<1>7. SubSeq(s, p, q) \o SubSeq(s, q + 1, q + n) = SubSeq(s, p, q + n)
  <2> DEFINE m == q + n
  <2>1. m \in 0..l /\ p \in 1..l + 1 /\ q \in p - 1..l /\ m \in q..l
    BY <1>1, <1>4, <1>6
  <2> HIDE DEF m
  <2> QED BY <2>1, ConcatAdjacentSubSeq DEF m
<1> QED BY <1>5, <1>6, <1>7 DEF Parsers!From

(* The reader reads what was cut off.                                      *)
ReadsPiece(s, r, q, c) ==
  \E v : /\ Reached(s, v) /\ v.at <= q + 1 /\ v.inside = c.inside
         /\ c.buffer = SubSeq(s, v.at, q)
         /\ v.letters = r.letters \o Parsers!Kind(Parsers!Mode(r.inside), c.piece)

LEMMA PieceRead ==
  ASSUME NEW s \in Seq(STRING), NEW r, NEW q \in 0..Len(s), Reached(s, r), r.at <= q + 1,
         NEW c, NEW n, CutsRight(s, r.at, q, r.inside, c, n)
  PROVE  ReadsPiece(s, r, q, c)
<1> DEFINE p == r.at
<1>1. /\ r \in Reader /\ p \in 1..Len(s) + 1 /\ p \in Nat /\ r.inside \in BOOLEAN
      /\ r.letters \in Seq(Word) /\ Len(s) \in Nat /\ q \in Nat /\ p <= q + 1 /\ q <= Len(s)
  BY ReachedType DEF Reader
<1>10. CutsRight(s, p, q, r.inside, c, n)
  OBVIOUS
<1> HIDE DEF p
<1> DEFINE m == r.letters \o Parsers!Kind(Parsers!Mode(r.inside), c.piece)
<1>2. /\ n \in 0..q - p + 1 /\ c.piece = SubSeq(s, p, p + n - 1)
      /\ \A j \in 0..n - 1 : ~StopsAt(s, r.inside, p + j)
  BY <1>1, <1>10 DEF CutsRight
<1>3. n \in Nat /\ p + n <= Len(s) + 1 /\ p + n \in Nat /\ p + n <= q + 1 /\ p + n - 1 \in Int /\ p + n - 1 <= Len(s)
  BY <1>1, <1>2
<1>4. c.piece \in Seq(STRING)
  BY <1>1, <1>2, <1>3, PartType
<1>5. m \in Seq(Word)
  <2> DEFINE k == Parsers!Kind(Parsers!Mode(r.inside), c.piece)
  <2>1. k \in Seq(Word)
    BY <1>4, KindFields DEF Parsers!Mode
  <2> HIDE DEF k
  <2> QED BY <1>1, <2>1 DEF k
<1> DEFINE v == Reads(p + n, r.inside, m)
<1>6. Reached(s, v)
  <2>1. OnByLetters(s, r, n) = v
    BY <1>2 DEF OnByLetters, p
  <2>2. Reached(s, OnByLetters(s, r, n))
    BY <1>2, <1>3, LettersRead DEF p
  <2> QED BY <2>1, <2>2
<1> HIDE DEF m
<1>7. CASE c.inside = r.inside /\ c.buffer = SubSeq(s, p + n, q)
  <2>1. v.at = p + n /\ v.inside = r.inside /\ v.letters = m
    BY <1>1, <1>3, <1>5, ReadsFields
  <2> HIDE DEF v
  <2> QED BY <1>3, <1>6, <1>7, <2>1 DEF m, ReadsPiece
<1>8. ASSUME p + n + 2 <= q, c.buffer = SubSeq(s, p + (n + 3), q),
             \/ c.inside = FALSE /\ TagAt(s, Parsers!CloseTag, p + n)
             \/ c.inside = TRUE /\ ~r.inside /\ TagAt(s, Parsers!OpenTag, p + n)
      PROVE  \E w : /\ Reached(s, w) /\ w.at <= q + 1 /\ w.inside = c.inside
                    /\ c.buffer = SubSeq(s, w.at, q) /\ w.letters = m
  <2> DEFINE at == p + n
  <2>1. at \in 1..Len(s) /\ at + 3 \in Nat /\ at + 3 = p + (n + 3) /\ at + 3 <= q + 1
    BY <1>1, <1>2, <1>3, <1>8
  <2> DEFINE w == Reads(at + 3, c.inside, m)
  <2>2. c.inside \in BOOLEAN
    BY <1>8
  <2> HIDE DEF at
  <2>3. Reached(s, w)
    <3>1. Reached(s, Reads(at, r.inside, m))
      BY <1>6 DEF at
    <3> QED BY <1>1, <1>5, <1>8, <2>1, <3>1, TagRead DEF at
  <2>4. w.at = at + 3 /\ w.inside = c.inside /\ w.letters = m
    BY <1>5, <2>1, <2>2, ReadsFields
  <2> HIDE DEF w
  <2> QED BY <1>8, <2>1, <2>3, <2>4
<1> HIDE DEF v
<1>9. \/ c.inside = r.inside /\ c.buffer = SubSeq(s, p + n, q)
      \/ /\ p + n + 2 <= q /\ c.buffer = SubSeq(s, p + (n + 3), q)
         /\ \/ c.inside = FALSE /\ TagAt(s, Parsers!CloseTag, p + n)
            \/ c.inside = TRUE /\ ~r.inside /\ TagAt(s, Parsers!OpenTag, p + n)
  BY <1>10 DEF CutsRight
<1> QED BY <1>7, <1>8, <1>9 DEF m, ReadsPiece

LEMMA NothingCut ==
  ASSUME NEW s \in Seq(STRING), NEW p \in 1..Len(s) + 1, NEW q \in 0..Len(s), p <= q + 1,
         NEW inside, NEW c, NEW n, CutsRight(s, p, q, inside, c, n), c.buffer = SubSeq(s, p, q)
  PROVE  Len(c.buffer) <= 2
<1>1. p \in Nat \ {0} /\ q \in Nat /\ q \in Int /\ q <= Len(s)
  OBVIOUS
<1>2. Len(c.buffer) = q - p + 1
  BY <1>1, PartType
<1>3. n \in 0..q - p + 1
  BY DEF CutsRight
<1>4. CASE q - p + 1 <= n + 2 /\ c.buffer = SubSeq(s, p + n, q)
  <2> DEFINE m == p + n
  <2>1. m \in Nat \ {0}
    BY <1>1, <1>3
  <2> HIDE DEF m
  <2>2. Len(SubSeq(s, m, q)) = IF m <= q THEN q - m + 1 ELSE 0
    BY <1>1, <2>1, PartType
  <2>3. Len(c.buffer) = IF m <= q THEN q - m + 1 ELSE 0
    BY <1>4, <2>2 DEF m
  <2> QED BY <1>1, <1>2, <1>3, <1>4, <2>3 DEF m
<1>5. CASE p + n + 2 <= q /\ c.buffer = SubSeq(s, p + (n + 3), q)
  <2> DEFINE m == p + (n + 3)
  <2>1. m \in Nat \ {0}
    BY <1>1, <1>3
  <2> HIDE DEF m
  <2>2. Len(SubSeq(s, m, q)) = IF m <= q THEN q - m + 1 ELSE 0
    BY <1>1, <2>1, PartType
  <2>3. Len(c.buffer) = IF m <= q THEN q - m + 1 ELSE 0
    BY <1>5, <2>2 DEF m
  <2> QED BY <1>1, <1>2, <1>3, <1>5, <2>3 DEF m
<1> QED BY <1>4, <1>5 DEF CutsRight

(* What is too short for a tag is read as it is.                           *)
LEMMA LastPiece ==
  ASSUME NEW s \in Seq(STRING), NEW r, Reached(s, r), NEW b, b = SubSeq(s, r.at, Len(s)), Len(b) <= 2
  PROVE  Parsers!ReadText(s) = r.letters \o Parsers!Kind(Parsers!Mode(r.inside), b)
<1> DEFINE p == r.at
<1> DEFINE n == Len(s) + 1 - p
<1>1. /\ r \in Reader /\ p \in 1..Len(s) + 1 /\ p \in Nat \ {0} /\ r.inside \in BOOLEAN
      /\ r.letters \in Seq(Word) /\ Len(s) \in Nat /\ Len(s) \in Int
  BY ReachedType DEF Reader
<1> HIDE DEF p
<1>2. n \in Nat /\ p + n = Len(s) + 1 /\ p + n - 1 = Len(s) /\ p + n <= Len(s) + 1 /\ p + n \in Nat
  BY <1>1
<1>3. b \in Seq(STRING) /\ Len(b) = n
  <2>1. /\ SubSeq(s, p, Len(s)) \in Seq(STRING)
        /\ Len(SubSeq(s, p, Len(s))) = IF p <= Len(s) THEN Len(s) - p + 1 ELSE 0
    BY <1>1, PartType
  <2>2. b = SubSeq(s, p, Len(s))
    BY DEF p
  <2> QED BY <1>1, <2>1, <2>2
<1> HIDE DEF n
<1>4. \A j \in 0..n - 1 : ~StopsAt(s, r.inside, p + j)
  <2> SUFFICES ASSUME NEW j \in 0..n - 1, NEW t \in Tag, TagAt(s, t, p + j) PROVE FALSE
    BY DEF StopsAt, Tag
  <2>1. p + j \in 1..Len(s)
    BY <1>1, <1>2
  <2>2. p + j + 2 <= Len(s)
    BY <2>1, TagAtFields
  <2> QED BY <1>1, <1>2, <1>3, <2>2
<1> DEFINE m == r.letters \o Parsers!Kind(Parsers!Mode(r.inside), b)
<1>5. m \in Seq(Word)
  <2> DEFINE k == Parsers!Kind(Parsers!Mode(r.inside), b)
  <2>1. k \in Seq(Word)
    BY <1>3, KindFields DEF Parsers!Mode
  <2> HIDE DEF k
  <2> QED BY <1>1, <2>1 DEF k
<1> DEFINE v == Reads(p + n, r.inside, m)
<1>6. Reached(s, v)
  <2>1. Reached(s, OnByLetters(s, r, n))
    BY <1>2, <1>4, LettersRead DEF p
  <2>2. OnByLetters(s, r, n) = v
    BY <1>2 DEF OnByLetters, p
  <2> QED BY <2>1, <2>2
<1> HIDE DEF m
<1>7. v.at = Len(s) + 1 /\ v.letters = m
  BY <1>1, <1>2, <1>5, ReadsFields
<1> HIDE DEF v
<1>8. Parsers!ReadText(s) = m
  BY <1>6, <1>7, EndReached
<1> QED BY <1>8 DEF m

-----------------------------------------------------------------------------
(* The tool parser sends nothing but text.                                 *)

LEMMA SliceTypes ==
  ASSUME NEW b \in Seq(STRING), NEW i \in Nat
  PROVE  /\ i <= Len(b) + 1 => Parsers!Before(b, i) \in Seq(STRING)
         /\ i # 0 => Parsers!From(b, i) \in Seq(STRING)
<1>1. Len(b) \in Nat /\ Len(b) \in Int /\ Len(b) <= Len(b) /\ 1 \in Nat \ {0} /\ i - 1 \in Int
  OBVIOUS
<1>2. ASSUME i <= Len(b) + 1 PROVE Parsers!Before(b, i) \in Seq(STRING)
  <2>1. i - 1 <= Len(b)
    BY <1>1, <1>2
  <2>2. SubSeq(b, 1, i - 1) \in Seq(STRING)
    BY <1>1, <2>1, PartType
  <2> QED BY <2>2 DEF Parsers!Before
<1>3. ASSUME i # 0 PROVE Parsers!From(b, i) \in Seq(STRING)
  <2>1. i \in Nat \ {0}
    BY <1>3
  <2>2. SubSeq(b, i, Len(b)) \in Seq(STRING)
    BY <1>1, <2>1, PartType
  <2> QED BY <2>2 DEF Parsers!From
<1> QED BY <1>2, <1>3

LEMMA TailType ==
  ASSUME NEW b \in Seq(STRING)
  PROVE  /\ Parsers!IncompleteTokenTail(b) \in 0..Len(b)
         /\ Plain(b) => Parsers!IncompleteTokenTail(b) = 0
<1> DEFINE starts == {i \in 1..Len(b) - 1 : b[i] = "<" /\ b[i + 1] = "|"}
<1> DEFINE k == Parsers!Max(starts)
<1>1. \/ Parsers!IncompleteTokenTail(b) = 0
      \/ starts # {} /\ Parsers!IncompleteTokenTail(b) = k
  BY DEF Parsers!IncompleteTokenTail
<1>2. starts \in SUBSET (0..Len(b)) /\ Len(b) \in Nat
  OBVIOUS
<1>3. starts # {} => k \in 0..Len(b)
  <2> SUFFICES ASSUME starts # {} PROVE k \in 0..Len(b)
    OBVIOUS
  <2> HIDE DEF starts
  <2>1. k \in starts
    BY <1>2, MaxIn
  <2> QED BY <1>2, <2>1
<1>4. Plain(b) => starts = {}
  <2> SUFFICES ASSUME Plain(b), NEW i \in 1..Len(b) - 1, b[i + 1] = "|" PROVE FALSE
    OBVIOUS
  <2>1. i + 1 \in 1..Len(b)
    OBVIOUS
  <2> QED BY <2>1 DEF Plain
<1> HIDE DEF starts, k
<1>5. CASE starts = {}
  <2>1. Parsers!IncompleteTokenTail(b) = 0
    BY <1>1, <1>5
  <2> QED BY <1>2, <2>1
<1>6. CASE starts # {}
  <2>1. k \in 0..Len(b) /\ ~Plain(b)
    BY <1>3, <1>4, <1>6
  <2> QED BY <1>1, <1>2, <2>1
<1> QED BY <1>5, <1>6

LEMMA FunctionEndType ==
  ASSUME NEW b \in Seq(STRING)
  PROVE  Parsers!FunctionEnd(b) \in Nat
<1> DEFINE match(i, j) == /\ b[i] = Parsers!Bullet
                          /\ \A k \in i+1 .. j-1 : b[k] = Parsers!Space
                          /\ Parsers!IsPrefix(Parsers!Function, Parsers!From(b, j))
<1> DEFINE ends == {j \in DOMAIN b : \E i \in 1 .. j-1 : match(i, j)}
<1>1. Parsers!FunctionEnd(b) = IF ends = {} THEN 0 ELSE Parsers!Min(ends) + Len(Parsers!Function) - 1
  BY DEF Parsers!FunctionEnd
<1>2. ends \in SUBSET Nat /\ ends \in SUBSET (1..Len(b))
  OBVIOUS
<1> HIDE DEF ends
<1>3. Len(Parsers!Function) = 3
  BY DEF Parsers!Function
<1>4. CASE ends = {}
  BY <1>1, <1>4
<1>5. CASE ends # {}
  <2>1. Parsers!Min(ends) \in ends
    BY <1>2, <1>5, MinIn
  <2>2. Parsers!Min(ends) \in Nat
    BY <1>2, <2>1
  <2>3. Parsers!FunctionEnd(b) = Parsers!Min(ends) + 3 - 1
    BY <1>1, <1>3, <1>5
  <2> QED BY <2>2, <2>3
<1> QED BY <1>4, <1>5

ParamType(p) ==
  /\ p.before \in Seq(STRING) /\ p.value \in Seq(STRING)
  /\ p.found => p.after \in Nat \ {0}

LEMMA ParamTypes ==
  ASSUME NEW b \in Seq(STRING)
  PROVE  ParamType(Parsers!Param(b))
<1> DEFINE start == Parsers!Find(Parsers!OpenParam, b)
<1> DEFINE close == IF start = 0 THEN 0 ELSE Parsers!Find(Parsers!CloseParam, Parsers!From(b, start))
<1> DEFINE p == Parsers!Param(b)
<1>1. /\ p.found = (close > 0) /\ p.before = Parsers!Before(b, start)
      /\ p.value = SubSeq(b, start + Len(Parsers!OpenParam), start + close - 2)
      /\ p.after = start + close - 1 + Len(Parsers!CloseParam)
  BY DEF Parsers!Param
<1>2. Len(Parsers!OpenParam) = 3 /\ Len(Parsers!CloseParam) = 3
  BY DEF Parsers!OpenParam, Parsers!CloseParam
<1>3. start \in 0..Len(b) /\ Len(b) \in Nat
  BY FindType
<1>4. close \in 0..Len(b) + 1 - start /\ (start = 0 => close = 0)
  <2>1. CASE start = 0
    BY <1>3, <2>1
  <2>2. CASE start # 0
    <3> DEFINE u == Parsers!From(b, start)
    <3>1. u \in Seq(STRING) /\ Len(u) = Len(b) + 1 - start
      <4>1. start \in 1..Len(b) + 1
        BY <1>3, <2>2
      <4> HIDE DEF start
      <4> QED BY <4>1, FromFields
    <3>2. Parsers!Find(Parsers!CloseParam, u) \in 0..Len(u)
      BY <3>1, FindType
    <3>3. close = Parsers!Find(Parsers!CloseParam, u)
      BY <2>2
    <3> HIDE DEF u, close
    <3> QED BY <2>2, <3>1, <3>2, <3>3
  <2> QED BY <2>1, <2>2
<1> HIDE DEF start, close, p
<1>5. p.before \in Seq(STRING)
  BY <1>1, <1>3, SliceTypes
<1>6. p.value \in Seq(STRING)
  <2> DEFINE m == start + 3
  <2> DEFINE n == start + close - 2
  <2>1. m \in Nat \ {0} /\ n \in Int /\ n <= Len(b)
    BY <1>3, <1>4
  <2> HIDE DEF m, n
  <2>2. SubSeq(b, m, n) \in Seq(STRING)
    BY <2>1, PartType
  <2> QED BY <1>1, <1>2, <2>2 DEF m, n
<1>7. p.found => p.after \in Nat \ {0}
  BY <1>1, <1>2, <1>3, <1>4
<1> QED BY <1>5, <1>6, <1>7 DEF ParamType, p

LEMMA EndOfCallType ==
  ASSUME NEW b \in Seq(STRING)
  PROVE  Parsers!EndOfCall(b) \in 0..Len(b) + 1
<1> DEFINE bullet == Parsers!Find(<<Parsers!Bullet>>, b)
<1>1. bullet \in 0..Len(b) /\ Len(b) \in Nat
  BY FindType
<1>2. Parsers!EndOfCall(b) = bullet \/ Parsers!EndOfCall(b) = Len(b) + 1 \/ Parsers!EndOfCall(b) = 0
  BY DEF Parsers!EndOfCall
<1> HIDE DEF bullet
<1> QED BY <1>1, <1>2

LEMMA NoBullet ==
  ASSUME NEW b \in Seq(STRING), Plain(b)
  PROVE  Parsers!Find(<<Parsers!Bullet>>, b) = 0
<1> DEFINE w == <<Parsers!Bullet>>
<1> DEFINE i == Parsers!Find(w, b)
<1> SUFFICES ASSUME i # 0 PROVE FALSE
  OBVIOUS
<1>1. i \in 1..Len(b)
  <2>1. i \in 0..Len(b) /\ Len(b) \in Nat
    BY FindType
  <2> HIDE DEF i
  <2> QED BY <2>1
<1> DEFINE u == Parsers!From(b, i)
<1>2. Parsers!IsPrefix(w, u)
  BY FindMeans DEF TagAt
<1> HIDE DEF i
<1>3. u \in Seq(STRING) /\ u[1] = b[i]
  <2>1. i \in 1..Len(b) + 1 /\ 1 \in 1..Len(b) + 1 - i /\ i + 1 - 1 = i
    BY <1>1
  <2>2. u \in Seq(STRING) /\ u[1] = b[i + 1 - 1]
    BY <2>1, FromFields
  <2> QED BY <2>1, <2>2
<1> HIDE DEF u
<1>4. w \in Seq({Parsers!Bullet}) /\ Len(w) = 1 /\ w[1] = Parsers!Bullet
  OBVIOUS
<1> HIDE DEF w
<1>5. w[1] = u[1]
  <2>1. 1 \in 1..Len(w)
    BY <1>4
  <2>2. \A k \in 1..Len(w) : w[k] = u[k]
    <3>1. BeginsWith(u, w)
      BY <1>3, <1>4, PrefixMeans
    <3> QED BY <1>2, <3>1 DEF BeginsWith
  <2> QED BY <2>1, <2>2
<1> QED BY <1>1, <1>3, <1>4, <1>5 DEF Plain

TextTypes ==
  /\ text \in Seq(STRING)
  /\ turn \in {"upstream", "think", "tool", "nobody"}
  /\ think \in ThinkType /\ tool \in ToolType /\ out \in Seq(Word)

(* What the tool parser does in a step.                                    *)
Says(x) ==
  /\ x \in Seq(STRING) /\ out' = out \o Parsers!Kind("text", x)
  /\ tool' \in ToolType /\ turn' \in {"think", "tool"}
  /\ tool.state = "text" /\ Plain(tool.buffer) =>
       x = tool.buffer /\ tool'.state = "text" /\ tool'.buffer = <<>>

LEMMA GoesType ==
  ASSUME TextTypes, NEW state \in {"text", "function", "parameters"}, NEW x, NEW b \in Seq(STRING),
         Parsers!Goes(state, x, b)
  PROVE  /\ tool' \in ToolType /\ tool'.state = state /\ tool'.buffer = b
         /\ out' = out \o Parsers!Kind("text", x)
BY DEF TextTypes, ToolType, Parsers!Goes

LEMMA ToolSpeaks ==
  ASSUME TextTypes, MaxHeld \in Nat, Parsers!FeedTool
  PROVE  \E x : Says(x)
<1> DEFINE b == tool.buffer
<1>1. /\ turn = "tool" /\ b \in Seq(STRING) /\ tool.params \in Seq(Seq(STRING))
      /\ tool \in ToolType /\ out \in Seq(Word) /\ Len(b) \in Nat
  BY DEF TextTypes, ToolType, Parsers!FeedTool
<1>2. out = out \o Parsers!Kind("text", <<>>) /\ <<>> \in Seq(STRING)
  <2>3. <<>> \in Seq(STRING)
    BY EmptySeq
  <2>1. Parsers!Kind("text", <<>>) = <<>>
    BY KindOfNothing
  <2>2. out \o <<>> = out
    BY <1>1, ConcatEmptySeq
  <2> QED BY <2>1, <2>2, <2>3
<1>3. CASE Parsers!ScanText
  <2> DEFINE first == Parsers!FirstBullet
  <2> DEFINE tail == Parsers!IncompleteTokenTail(b)
  <2>1. /\ first \in 0..Len(b) /\ tail \in 0..Len(b)
        /\ Plain(b) => first = 0 /\ tail = 0
    <3>1. first = Parsers!Find(<<Parsers!Bullet>>, b)
      BY DEF Parsers!FirstBullet
    <3> QED BY <1>1, <3>1, FindType, TailType, NoBullet
  <2>2. /\ first > 0 => /\ Parsers!Goes("function", Parsers!Before(b, first), Parsers!From(b, first))
                        /\ turn' = turn
        /\ ~(first > 0) /\ tail > 0 =>
             Parsers!Goes("text", Parsers!Before(b, tail), Parsers!From(b, tail)) /\ turn' = "think"
        /\ ~(first > 0) /\ ~(tail > 0) => Parsers!Goes("text", b, <<>>) /\ turn' = "think"
    BY <1>3 DEF Parsers!ScanText
  <2> HIDE DEF b, first, tail
  <2>3. CASE first > 0
    <3>1. Parsers!Before(b, first) \in Seq(STRING) /\ Parsers!From(b, first) \in Seq(STRING)
      BY <1>1, <2>1, <2>3, SliceTypes
    <3>2. ~Plain(b)
      BY <2>1, <2>3
    <3>3. /\ tool' \in ToolType /\ out' = out \o Parsers!Kind("text", Parsers!Before(b, first))
          /\ turn' \in {"think", "tool"}
      BY <1>1, <2>2, <2>3, <3>1, GoesType
    <3>4. Says(Parsers!Before(b, first))
      BY <3>1, <3>2, <3>3 DEF Says, b
    <3> QED BY <3>4
  <2>4. CASE ~(first > 0) /\ tail > 0
    <3>1. Parsers!Before(b, tail) \in Seq(STRING) /\ Parsers!From(b, tail) \in Seq(STRING)
      BY <1>1, <2>1, <2>4, SliceTypes
    <3>2. ~Plain(b)
      BY <2>1, <2>4
    <3>3. /\ tool' \in ToolType /\ out' = out \o Parsers!Kind("text", Parsers!Before(b, tail))
          /\ turn' \in {"think", "tool"}
      BY <1>1, <2>2, <2>4, <3>1, GoesType
    <3>4. Says(Parsers!Before(b, tail))
      BY <3>1, <3>2, <3>3 DEF Says, b
    <3> QED BY <3>4
  <2>5. CASE ~(first > 0) /\ ~(tail > 0)
    <3>1. /\ tool' \in ToolType /\ tool'.state = "text" /\ tool'.buffer = <<>>
          /\ out' = out \o Parsers!Kind("text", b) /\ turn' \in {"think", "tool"}
      BY <1>1, <1>2, <2>2, <2>5, GoesType
    <3>2. Says(b)
      BY <1>1, <3>1 DEF Says, b
    <3> QED BY <3>2
  <2> QED BY <2>3, <2>4, <2>5
<1>4. CASE Parsers!MatchFunction
  <2> DEFINE end == Parsers!FunctionEnd(b)
  <2>1. end \in Nat
    BY <1>1, FunctionEndType
  <2>2. /\ tool.state # "text"
        /\ \/ /\ end > 0 /\ turn' = turn /\ out' = out
              /\ tool' = [state |-> "parameters", params |-> <<>>, buffer |-> Parsers!From(b, end + 1)]
           \/ /\ Len(b) > MaxHeld /\ Parsers!Goes("text", <<Head(b)>>, Tail(b)) /\ turn' = turn
           \/ turn' = "think" /\ tool' = tool /\ out' = out
    BY <1>4 DEF Parsers!MatchFunction
  <2> HIDE DEF b, end
  <2>3. CASE /\ end > 0 /\ turn' = turn /\ out' = out
             /\ tool' = [state |-> "parameters", params |-> <<>>, buffer |-> Parsers!From(b, end + 1)]
    <3>1. Parsers!From(b, end + 1) \in Seq(STRING)
      BY <1>1, <2>1, SliceTypes
    <3>2. tool' \in ToolType
      BY <2>3, <3>1 DEF ToolType
    <3>3. Says(<<>>)
      BY <1>1, <1>2, <2>2, <2>3, <3>2 DEF Says
    <3> QED BY <3>3
  <2>4. CASE Len(b) > MaxHeld /\ Parsers!Goes("text", <<Head(b)>>, Tail(b)) /\ turn' = turn
    <3>1. b # <<>>
      BY <1>1, <2>4
    <3>2. Head(b) \in STRING /\ Tail(b) \in Seq(STRING)
      BY <1>1, <3>1, HeadTailProperties
    <3>3. <<Head(b)>> \in Seq(STRING)
      BY <3>2
    <3>4. tool' \in ToolType /\ out' = out \o Parsers!Kind("text", <<Head(b)>>) /\ turn' \in {"think", "tool"}
      BY <1>1, <2>4, <3>2, GoesType
    <3>5. Says(<<Head(b)>>)
      BY <2>2, <3>3, <3>4 DEF Says
    <3> QED BY <3>5
  <2>5. CASE turn' = "think" /\ tool' = tool /\ out' = out
    <3>1. Says(<<>>)
      BY <1>1, <1>2, <2>2, <2>5 DEF Says
    <3> QED BY <3>1
  <2> QED BY <2>2, <2>3, <2>4, <2>5
<1>5. CASE Parsers!TakeParam
  <2> DEFINE p == Parsers!Param(b)
  <2>1. ParamType(p)
    BY <1>1, ParamTypes
  <2>2. /\ tool.state # "text" /\ p.found /\ turn' = turn
        /\ tool' = [tool EXCEPT !.buffer = Parsers!From(b, p.after), !.params = Append(tool.params, p.value)]
        /\ out' = out \o Parsers!Kind("text", p.before)
    BY <1>5 DEF Parsers!TakeParam
  <2> HIDE DEF b, p
  <2>3. Parsers!From(b, p.after) \in Seq(STRING) /\ p.before \in Seq(STRING)
        /\ Append(tool.params, p.value) \in Seq(Seq(STRING))
    BY <1>1, <2>1, <2>2, SliceTypes DEF ParamType
  <2>4. tool' \in ToolType
    BY <1>1, <2>2, <2>3 DEF ToolType
  <2>5. Says(p.before)
    BY <1>1, <2>2, <2>3, <2>4 DEF Says
  <2> QED BY <2>5
<1>6. CASE Parsers!EndCall
  <2> DEFINE end == Parsers!EndOfCall(b)
  <2>1. end \in 0..Len(b) + 1
    BY <1>1, EndOfCallType
  <2>2. /\ tool.state # "text"
        /\ \/ /\ end > 0 /\ turn' = turn
              /\ Parsers!Goes("text", Parsers!Before(b, end), Parsers!From(b, end))
           \/ turn' = "think" /\ tool' = tool /\ out' = out
    BY <1>6 DEF Parsers!EndCall
  <2> HIDE DEF b, end
  <2>3. CASE /\ end > 0 /\ turn' = turn
             /\ Parsers!Goes("text", Parsers!Before(b, end), Parsers!From(b, end))
    <3>1. Parsers!Before(b, end) \in Seq(STRING) /\ Parsers!From(b, end) \in Seq(STRING)
      BY <1>1, <2>1, <2>3, SliceTypes
    <3>2. tool' \in ToolType /\ out' = out \o Parsers!Kind("text", Parsers!Before(b, end)) /\ turn' \in {"think", "tool"}
      BY <1>1, <2>3, <3>1, GoesType
    <3>3. Says(Parsers!Before(b, end))
      BY <2>2, <3>1, <3>2 DEF Says
    <3> QED BY <3>3
  <2>4. CASE turn' = "think" /\ tool' = tool /\ out' = out
    <3>1. Says(<<>>)
      BY <1>1, <1>2, <2>2, <2>4 DEF Says
    <3> QED BY <3>1
  <2> QED BY <2>2, <2>3, <2>4
<1> QED BY <1>3, <1>4, <1>5, <1>6 DEF Parsers!FeedTool

-----------------------------------------------------------------------------
(* What was sent and what is read grow together.                           *)

LEMMA AgreesThinking ==
  ASSUME NEW s, NEW r, NEW v, NEW tl, NEW o \in Seq(Word), NEW x \in Seq(STRING),
         r.letters \in Seq(Word), Agrees(s, r, tl, o), Plain(s) => tl.buffer = <<>>,
         v.letters = r.letters \o Parsers!Kind("thinking", x)
  PROVE  Agrees(s, v, tl, o \o Parsers!Kind("thinking", x))
<1> DEFINE k == Parsers!Kind("thinking", x)
<1>1. k \in Seq(Word)
  BY KindFields
<1>2. Thought(o \o k) = Thought(o) \o k /\ Thought(r.letters \o k) = Thought(r.letters) \o k
  BY ThoughtWords DEF ThoughtOn
<1> HIDE DEF k
<1>3. Thought(o \o k) = Thought(v.letters)
  BY <1>2 DEF Agrees, k
<1>4. ASSUME Plain(s)
      PROVE  tl.state = "text" /\ Plain(tl.buffer) /\ (o \o k) \o Parsers!Kind("text", tl.buffer) = v.letters
  <2>1. tl.state = "text" /\ Plain(tl.buffer) /\ tl.buffer = <<>>
        /\ o \o Parsers!Kind("text", tl.buffer) = r.letters
    BY <1>4 DEF Agrees
  <2>2. Parsers!Kind("text", tl.buffer) = <<>>
    BY <2>1, KindOfNothing
  <2>3. o \o <<>> = o
    BY ConcatEmptySeq
  <2>4. o \o k \in Seq(Word)
    BY <1>1
  <2>5. (o \o k) \o <<>> = o \o k
    BY <2>4, ConcatEmptySeq
  <2>6. o = r.letters
    BY <2>1, <2>2, <2>3
  <2>7. (o \o k) \o Parsers!Kind("text", tl.buffer) = v.letters
    BY <2>2, <2>5, <2>6 DEF k
  <2> QED BY <2>1, <2>7
<1> QED BY <1>3, <1>4 DEF Agrees, k

LEMMA AgreesText ==
  ASSUME NEW s, NEW r, NEW v, NEW tl, NEW tl2, NEW o \in Seq(Word), NEW x \in Seq(STRING),
         r.letters \in Seq(Word), tl.buffer \in Seq(STRING),
         Agrees(s, r, tl, o), Plain(s) => tl.buffer = <<>> /\ Plain(x),
         v.letters = r.letters \o Parsers!Kind("text", x),
         tl2.state = tl.state, tl2.buffer = Parsers!StripControlTokens(tl.buffer \o x)
  PROVE  Agrees(s, v, tl2, o)
<1>1. Thought(o) = Thought(v.letters)
  <2>1. Thought(r.letters \o Parsers!Kind("text", x)) = Thought(r.letters)
    BY ThoughtWords DEF ThoughtStays
  <2> QED BY <2>1 DEF Agrees
<1>2. ASSUME Plain(s)
      PROVE  tl2.state = "text" /\ Plain(tl2.buffer) /\ o \o Parsers!Kind("text", tl2.buffer) = v.letters
  <2>1. /\ tl.state = "text" /\ tl.buffer = <<>> /\ Plain(x)
        /\ o \o Parsers!Kind("text", tl.buffer) = r.letters
    BY <1>2 DEF Agrees
  <2>2. tl.buffer \o x = x
    BY <2>1, ConcatEmptySeq
  <2>3. Parsers!StripControlTokens(x) = x
    BY <2>1, NothingToStrip DEF Plain
  <2>4. tl2.buffer = x
    BY <2>2, <2>3
  <2>5. o = r.letters
    <3>1. Parsers!Kind("text", tl.buffer) = <<>>
      BY <2>1, KindOfNothing
    <3>2. o \o <<>> = o
      BY ConcatEmptySeq
    <3> QED BY <2>1, <3>1, <3>2
  <2> QED BY <2>1, <2>4, <2>5
<1> QED BY <1>1, <1>2 DEF Agrees

LEMMA AgreesSaid ==
  ASSUME NEW s, NEW r, NEW tl, NEW tl2, NEW o \in Seq(Word), NEW x \in Seq(STRING),
         Agrees(s, r, tl, o),
         tl.state = "text" /\ Plain(tl.buffer) =>
           x = tl.buffer /\ tl2.state = "text" /\ tl2.buffer = <<>>
  PROVE  Agrees(s, r, tl2, o \o Parsers!Kind("text", x))
<1> DEFINE k == Parsers!Kind("text", x)
<1>1. k \in Seq(Word)
  BY KindFields
<1>2. Thought(o \o k) = Thought(o)
  BY ThoughtWords DEF ThoughtStays
<1> HIDE DEF k
<1>3. ASSUME Plain(s)
      PROVE  tl2.state = "text" /\ Plain(tl2.buffer) /\ (o \o k) \o Parsers!Kind("text", tl2.buffer) = r.letters
  <2>1. tl.state = "text" /\ Plain(tl.buffer) /\ o \o Parsers!Kind("text", tl.buffer) = r.letters
    BY <1>3 DEF Agrees
  <2>2. x = tl.buffer /\ tl2.state = "text" /\ tl2.buffer = <<>>
    BY <2>1
  <2>3. Parsers!Kind("text", tl2.buffer) = <<>>
    BY <2>2, KindOfNothing
  <2>4. o \o k \in Seq(Word)
    BY <1>1
  <2>5. (o \o k) \o <<>> = o \o k
    BY <2>4, ConcatEmptySeq
  <2>6. Plain(tl2.buffer)
    <3>1. Len(tl2.buffer) = 0
      BY <2>2
    <3> QED BY <3>1 DEF Plain
  <2> QED BY <2>1, <2>2, <2>3, <2>5, <2>6 DEF k
<1> QED BY <1>2, <1>3 DEF Agrees, k

-----------------------------------------------------------------------------
(* The invariant: the parsers stand where a reader of the whole text may   *)
(* stand.                                                                  *)

TextInv ==
  /\ TextTypes
  /\ turn # "nobody" =>
       \E r, q : Stands(text, r, q, rest, think) /\ Agrees(text, r, tool, out)
  /\ turn = "upstream" => Len(think.buffer) <= 2
  /\ turn \in {"upstream", "think"} /\ Plain(text) => tool.buffer = <<>>
  /\ Parsers!ThinkingApart

LEMMA TextInit ==
  ASSUME Text \subseteq Seq(STRING), Parsers!Init
  PROVE  TextInv
<1>1. /\ text \in Seq(STRING) /\ rest = text /\ turn = "upstream" /\ out = <<>>
      /\ think = [buffer |-> <<>>, inside |-> FALSE]
      /\ tool = [state |-> "text", buffer |-> <<>>, params |-> <<>>]
  BY DEF Parsers!Init
<1>2. <<>> \in Seq(STRING) /\ <<>> \in Seq(Word) /\ <<>> \in Seq(Seq(STRING)) /\ Len(<<>>) = 0
  BY EmptySeq
<1>3. TextTypes
  BY <1>1, <1>2 DEF TextTypes, ThinkType, ToolType
<1>4. Start.at = 1 /\ Start.inside = FALSE /\ Start.letters = <<>>
  BY DEF Start
<1>5. Stands(text, Start, 0, rest, think)
  <2>1. Reached(text, Start)
    BY <1>1, StartReached
  <2>2. rest = Parsers!From(text, 0 + 1)
    BY <1>1, SubSeqFull DEF Parsers!From
  <2>3. SubSeq(text, 1, 0) = <<>>
    BY SubSeqEmpty
  <2>4. 0 \in 0..Len(text) /\ 1 <= 0 + 1
    BY <1>1
  <2> QED BY <1>1, <1>4, <2>1, <2>2, <2>3, <2>4 DEF Stands
<1>6. Agrees(text, Start, tool, out)
  <2>1. Parsers!Kind("text", <<>>) = <<>>
    BY KindOfNothing
  <2>2. <<>> \o <<>> = <<>>
    BY <1>2, ConcatEmptySeq
  <2>3. Plain(<<>>)
    BY <1>2 DEF Plain
  <2> QED BY <1>1, <1>4, <2>1, <2>2, <2>3 DEF Agrees
<1>7. Len(think.buffer) <= 2 /\ tool.buffer = <<>>
  BY <1>1, <1>2
<1>8. Parsers!ThinkingApart
  BY <1>1 DEF Parsers!ThinkingApart
<1> QED BY <1>1, <1>3, <1>5, <1>6, <1>7, <1>8 DEF TextInv

Arrives(s, p, q, left, n) ==
  /\ q + n \in 0..Len(s) /\ p <= q + n + 1
  /\ SubSeq(s, p, q) \o SubSeq(left, 1, n) = SubSeq(s, p, q + n)
  /\ Parsers!From(left, n + 1) = Parsers!From(s, q + n + 1)

LEMMA ChunkHasArrived ==
  ASSUME NEW s \in Seq(STRING), NEW p \in 1..Len(s) + 1, NEW q \in 0..Len(s), p <= q + 1,
         NEW left, left = Parsers!From(s, q + 1), NEW n \in 1..Len(left)
  PROVE  Arrives(s, p, q, left, n)
BY ChunkArrives DEF Arrives

LEMMA ChunkStep ==
  ASSUME TextInv, Parsers!Chunk
  PROVE  TextInv'
<1>1. /\ turn = "upstream" /\ turn' = "think" /\ text' = text /\ tool' = tool /\ out' = out
      /\ \E n \in DOMAIN rest :
           /\ think' = [think EXCEPT !.buffer = think.buffer \o SubSeq(rest, 1, n)]
           /\ rest' = Parsers!From(rest, n + 1)
  BY DEF Parsers!Chunk
<1>2. TextTypes
  BY DEF TextInv
<1>3. text \in Seq(STRING) /\ think \in ThinkType
  BY <1>2 DEF TextTypes
<1>4. PICK n \in DOMAIN rest :
        /\ think' = [think EXCEPT !.buffer = think.buffer \o SubSeq(rest, 1, n)]
        /\ rest' = Parsers!From(rest, n + 1)
  BY <1>1
<1>5. PICK r, q : Stands(text, r, q, rest, think) /\ Agrees(text, r, tool, out)
  BY <1>1 DEF TextInv
<1>6. /\ r \in Reader /\ r.at \in 1..Len(text) + 1 /\ r.at \in Nat \ {0}
      /\ q \in 0..Len(text) /\ q \in Nat /\ r.at <= q + 1 /\ Reached(text, r)
  BY <1>3, <1>5, StandsType
<1>7. /\ rest = Parsers!From(text, q + 1) /\ think.buffer = SubSeq(text, r.at, q)
      /\ think.inside = r.inside
  BY <1>5 DEF Stands
<1> DEFINE p == r.at
<1> HIDE DEF p
<1>8. n \in 1..Len(rest)
  <2>1. rest \in Seq(STRING)
    <3>1. q + 1 \in Nat \ {0}
      BY <1>6
    <3> QED BY <1>3, <1>7, <3>1, SliceTypes
  <2> QED BY <2>1
<1>9. /\ q + n \in 0..Len(text) /\ p <= q + n + 1
      /\ SubSeq(text, p, q) \o SubSeq(rest, 1, n) = SubSeq(text, p, q + n)
      /\ Parsers!From(rest, n + 1) = Parsers!From(text, q + n + 1)
  <2>1. p \in 1..Len(text) + 1 /\ p <= q + 1
    BY <1>6 DEF p
  <2>2. Arrives(text, p, q, rest, n)
    BY <1>3, <1>6, <1>7, <1>8, <2>1, ChunkHasArrived
  <2> QED BY <2>2 DEF Arrives
<1> DEFINE m == q + n
<1>10. think'.buffer = SubSeq(text, p, m) /\ think'.inside = r.inside
  BY <1>3, <1>4, <1>7, <1>9 DEF ThinkType, p
<1>11. think' \in ThinkType
  <2>1. SubSeq(text, p, m) \in Seq(STRING)
    <3>1. m \in Int /\ m <= Len(text) /\ p \in Nat \ {0}
      BY <1>6, <1>9 DEF p
    <3> HIDE DEF m
    <3> QED BY <1>3, <3>1, PartType
  <2> HIDE DEF m
  <2>2. think' = [think EXCEPT !.buffer = SubSeq(text, p, m)]
    BY <1>4, <1>7, <1>9 DEF p, m
  <2> QED BY <1>3, <2>1, <2>2 DEF ThinkType
<1>12. Stands(text, r, m, rest', think')
  BY <1>4, <1>6, <1>9, <1>10 DEF Stands, p
<1>13. TextTypes'
  BY <1>1, <1>2, <1>11 DEF TextTypes
<1>14. (turn \in {"upstream", "think"} /\ Plain(text) => tool.buffer = <<>>)'
  BY <1>1 DEF TextInv
<1>15. (\E r1, q1 : Stands(text, r1, q1, rest, think) /\ Agrees(text, r1, tool, out))'
  BY <1>1, <1>5, <1>12
<1> QED BY <1>1, <1>13, <1>14, <1>15 DEF TextInv, Parsers!ThinkingApart

LEMMA ParsedRight ==
  ASSUME TextTypes, NEW r, NEW q, Stands(text, r, q, rest, think)
  PROVE  \E n : CutsRight(text, r.at, q, r.inside, Parsers!Parsed, n)
<1> DEFINE h == [buffer |-> think.buffer, inside |-> think.inside, piece |-> <<>>]
<1>1. /\ text \in Seq(STRING) /\ think.buffer \in Seq(STRING) /\ think.inside \in BOOLEAN
      /\ <<>> \in Seq(STRING)
  BY EmptySeq DEF TextTypes, ThinkType
<1>2. /\ r.at \in 1..Len(text) + 1 /\ q \in 0..Len(text) /\ r.at <= q + 1
  BY <1>1, StandsType
<1>3. think.buffer = SubSeq(text, r.at, q) /\ think.inside = r.inside
  BY DEF Stands
<1>4. h \in [buffer : Seq(STRING), inside : BOOLEAN, piece : Seq(STRING)]
  BY <1>1
<1>5. h.buffer = SubSeq(text, r.at, q) /\ h.inside = r.inside
  BY <1>3
<1>6. Parsers!Parsed = IF think.inside THEN Parsers!ParseInsideThink(h) ELSE Parsers!ParseOutsideThink(h)
  BY DEF Parsers!Parsed
<1> HIDE DEF h
<1>7. /\ h.inside => \E n : CutsRight(text, r.at, q, h.inside, Parsers!ParseInsideThink(h), n)
      /\ ~h.inside => \E n : CutsRight(text, r.at, q, h.inside, Parsers!ParseOutsideThink(h), n)
  BY <1>1, <1>2, <1>4, <1>5, ParsersCutRight
<1> QED BY <1>3, <1>5, <1>6, <1>7

LEMMA CutPieceStep ==
  ASSUME TextInv, Parsers!CutPiece
  PROVE  TextInv'
<1> DEFINE c == Parsers!Parsed
<1>1. /\ turn = "think" /\ text' = text /\ rest' = rest
      /\ think' = [buffer |-> c.buffer, inside |-> c.inside]
      /\ IF think.inside \/ c.piece = <<>>
           THEN out' = out \o Parsers!Kind("thinking", c.piece) /\ turn' = turn /\ tool' = tool
           ELSE /\ turn' = "tool" /\ out' = out
                /\ tool' = [tool EXCEPT !.buffer = Parsers!StripControlTokens(tool.buffer \o c.piece)]
  BY DEF Parsers!CutPiece
<1>2. TextTypes /\ (Plain(text) => tool.buffer = <<>>)
  BY <1>1 DEF TextInv
<1>3. /\ text \in Seq(STRING) /\ think \in ThinkType /\ tool \in ToolType /\ out \in Seq(Word)
      /\ tool.buffer \in Seq(STRING)
  BY <1>2 DEF TextTypes, ToolType
<1>4. PICK r, q : Stands(text, r, q, rest, think) /\ Agrees(text, r, tool, out)
  BY <1>1 DEF TextInv
<1>5. /\ r.at \in 1..Len(text) + 1 /\ r.at \in Nat /\ r.inside \in BOOLEAN /\ r.letters \in Seq(Word)
      /\ q \in 0..Len(text) /\ r.at <= q + 1 /\ Reached(text, r)
  BY <1>3, <1>4, StandsType
<1>6. think.inside = r.inside /\ rest = Parsers!From(text, q + 1)
  BY <1>4 DEF Stands
<1>7. PICK n : CutsRight(text, r.at, q, r.inside, c, n)
  BY <1>2, <1>4, ParsedRight
<1> HIDE DEF c
<1>8. PICK v : /\ Reached(text, v) /\ v.at <= q + 1 /\ v.inside = c.inside
               /\ c.buffer = SubSeq(text, v.at, q)
               /\ v.letters = r.letters \o Parsers!Kind(Parsers!Mode(r.inside), c.piece)
  <2>1. ReadsPiece(text, r, q, c)
    BY <1>3, <1>5, <1>7, PieceRead
  <2> QED BY <2>1 DEF ReadsPiece
<1>9. v \in Reader /\ v.at \in 1..Len(text) + 1 /\ v.inside \in BOOLEAN
  BY <1>3, <1>8, ReachedType DEF Reader
<1>10. think'.buffer = c.buffer /\ think'.inside = c.inside /\ think' \in ThinkType
  <2>1. c.buffer \in Seq(STRING)
    <3>1. v.at \in Nat \ {0} /\ q \in Int /\ q <= Len(text)
      BY <1>5, <1>9
    <3> QED BY <1>3, <1>8, <3>1, PartType
  <2> QED BY <1>1, <1>8, <1>9, <2>1 DEF ThinkType
<1>11. Stands(text, v, q, rest', think')
  BY <1>1, <1>5, <1>6, <1>8, <1>10 DEF Stands
<1>12. c.piece \in Seq(STRING) /\ (Plain(text) => Plain(c.piece))
  <2> DEFINE p == r.at
  <2>1. n \in 0..q - p + 1 /\ c.piece = SubSeq(text, p, p + n - 1)
    BY <1>7 DEF CutsRight
  <2>2. p \in 1..Len(text) + 1 /\ p <= q + 1 /\ p \in Nat \ {0}
    BY <1>5
  <2> HIDE DEF p
  <2> DEFINE m == p + n - 1
  <2>3. m \in Int /\ m <= Len(text)
    BY <1>3, <1>5, <2>1, <2>2
  <2> HIDE DEF m
  <2>4. SubSeq(text, p, m) \in Seq(STRING)
    BY <1>3, <2>2, <2>3, PartType
  <2>5. Plain(text) => Plain(SubSeq(text, p, m))
    BY <1>3, <2>2, <2>3, PlainPart
  <2> QED BY <2>1, <2>4, <2>5 DEF m
<1>13. CASE think.inside
  <2>1. out' = out \o Parsers!Kind("thinking", c.piece) /\ turn' = turn /\ tool' = tool
    BY <1>1, <1>13
  <2>2. Parsers!Mode(r.inside) = "thinking"
    BY <1>6, <1>13 DEF Parsers!Mode
  <2>3. Agrees(text, v, tool, out')
    BY <1>2, <1>3, <1>4, <1>5, <1>8, <1>12, <2>1, <2>2, AgreesThinking
  <2>4. out' \in Seq(Word)
    BY <1>3, <1>12, <2>1, KindBehind
  <2>5. TextTypes'
    BY <1>1, <1>2, <1>10, <2>1, <2>4 DEF TextTypes
  <2>6. (\E r1, q1 : Stands(text, r1, q1, rest, think) /\ Agrees(text, r1, tool, out))'
    BY <1>1, <1>11, <2>1, <2>3
  <2> QED BY <1>1, <1>2, <2>1, <2>5, <2>6 DEF TextInv, Parsers!ThinkingApart
<1>14. CASE ~think.inside /\ c.piece = <<>>
  <2>1. out' = out \o Parsers!Kind("thinking", <<>>) /\ turn' = turn /\ tool' = tool
    BY <1>1, <1>14
  <2>2. Parsers!Mode(r.inside) = "text"
    BY <1>6, <1>14 DEF Parsers!Mode
  <2>3. out' = out /\ v.letters = r.letters
    BY <1>3, <1>5, <1>8, <1>14, <2>1, <2>2, KindOfNothing, ConcatEmptySeq
  <2>4. Agrees(text, v, tool, out)
    BY <1>4, <2>3 DEF Agrees
  <2>5. TextTypes'
    BY <1>1, <1>2, <1>10, <2>1, <2>3 DEF TextTypes
  <2>6. (\E r1, q1 : Stands(text, r1, q1, rest, think) /\ Agrees(text, r1, tool, out))'
    BY <1>1, <1>11, <2>1, <2>3, <2>4
  <2> QED BY <1>1, <1>2, <2>1, <2>5, <2>6 DEF TextInv, Parsers!ThinkingApart
<1>15. CASE ~think.inside /\ c.piece # <<>>
  <2>1. /\ turn' = "tool" /\ out' = out
        /\ tool' = [tool EXCEPT !.buffer = Parsers!StripControlTokens(tool.buffer \o c.piece)]
    BY <1>1, <1>15
  <2>2. Parsers!Mode(r.inside) = "text"
    BY <1>6, <1>15 DEF Parsers!Mode
  <2> DEFINE b == Parsers!StripControlTokens(tool.buffer \o c.piece)
  <2>3. b \in Seq(STRING)
    <3>1. tool.buffer \o c.piece \in Seq(STRING)
      BY <1>3, <1>12
    <3> QED BY <3>1, StripType
  <2> HIDE DEF b
  <2>4. tool'.state = tool.state /\ tool'.buffer = b /\ tool' \in ToolType
    BY <1>3, <2>1, <2>3 DEF ToolType, b
  <2>5. Agrees(text, v, tool', out)
    BY <1>2, <1>3, <1>4, <1>5, <1>8, <1>12, <2>2, <2>4, AgreesText DEF b
  <2>6. TextTypes'
    BY <1>1, <1>2, <1>10, <2>1, <2>4 DEF TextTypes
  <2>7. (\E r1, q1 : Stands(text, r1, q1, rest, think) /\ Agrees(text, r1, tool, out))'
    BY <1>1, <1>11, <2>1, <2>5
  <2> QED BY <1>1, <2>1, <2>6, <2>7 DEF TextInv, Parsers!ThinkingApart
<1> QED BY <1>13, <1>14, <1>15

LEMMA AwaitChunkStep ==
  ASSUME TextInv, Parsers!AwaitChunk
  PROVE  TextInv'
<1>1. /\ turn = "think" /\ turn' = "upstream" /\ Parsers!Parsed.buffer = think.buffer
      /\ text' = text /\ rest' = rest /\ think' = think /\ tool' = tool /\ out' = out
  BY DEF Parsers!AwaitChunk
<1>2. TextTypes /\ text \in Seq(STRING) /\ (Plain(text) => tool.buffer = <<>>)
  BY <1>1 DEF TextInv, TextTypes
<1>3. PICK r, q : Stands(text, r, q, rest, think) /\ Agrees(text, r, tool, out)
  BY <1>1 DEF TextInv
<1>4. r.at \in 1..Len(text) + 1 /\ q \in 0..Len(text) /\ r.at <= q + 1
  BY <1>2, <1>3, StandsType
<1>5. PICK n : CutsRight(text, r.at, q, r.inside, Parsers!Parsed, n)
  BY <1>2, <1>3, ParsedRight
<1>6. Parsers!Parsed.buffer = SubSeq(text, r.at, q)
  BY <1>1, <1>3 DEF Stands
<1>7. Len(think.buffer) <= 2
  BY <1>1, <1>2, <1>4, <1>5, <1>6, NothingCut
<1>8. TextTypes'
  BY <1>1, <1>2 DEF TextTypes
<1>9. (\E r1, q1 : Stands(text, r1, q1, rest, think) /\ Agrees(text, r1, tool, out))'
  BY <1>1, <1>3
<1> QED BY <1>1, <1>2, <1>7, <1>8, <1>9 DEF TextInv, Parsers!ThinkingApart

LEMMA FeedToolStep ==
  ASSUME TextInv, MaxHeld \in Nat, Parsers!FeedTool
  PROVE  TextInv'
<1>1. turn = "tool" /\ text' = text /\ rest' = rest /\ think' = think
  BY DEF Parsers!FeedTool
<1>2. TextTypes /\ out \in Seq(Word)
  BY DEF TextInv, TextTypes
<1>3. PICK r, q : Stands(text, r, q, rest, think) /\ Agrees(text, r, tool, out)
  BY <1>1 DEF TextInv
<1>4. PICK x : Says(x)
  BY <1>2, ToolSpeaks
<1>5. /\ x \in Seq(STRING) /\ out' = out \o Parsers!Kind("text", x)
      /\ tool' \in ToolType /\ turn' \in {"think", "tool"}
      /\ tool.state = "text" /\ Plain(tool.buffer) =>
           x = tool.buffer /\ tool'.state = "text" /\ tool'.buffer = <<>>
  BY <1>4 DEF Says
<1>6. Agrees(text, r, tool', out')
  BY <1>2, <1>3, <1>5, AgreesSaid
<1>7. out' \in Seq(Word)
  BY <1>2, <1>5, KindBehind
<1>8. TextTypes'
  BY <1>1, <1>2, <1>5, <1>7 DEF TextTypes
<1>9. Plain(text) => tool'.buffer = <<>>
  BY <1>3, <1>5 DEF Agrees
<1>10. (\E r1, q1 : Stands(text, r1, q1, rest, think) /\ Agrees(text, r1, tool, out))'
  BY <1>1, <1>3, <1>6
<1> QED BY <1>1, <1>5, <1>8, <1>9, <1>10 DEF TextInv, Parsers!ThinkingApart

LEMMA FlushStep ==
  ASSUME TextInv, Parsers!Flush
  PROVE  TextInv'
<1> DEFINE b == think.buffer
<1> DEFINE kind == Parsers!Mode(think.inside)
<1>1. /\ turn = "upstream" /\ rest = <<>> /\ turn' = "nobody" /\ text' = text
      /\ out' = out \o Parsers!Kind(kind, b)
      /\ think' = [think EXCEPT !.buffer = <<>>]
      /\ tool' = IF tool.state = "parameters" THEN [tool EXCEPT !.state = "text", !.buffer = <<>>] ELSE tool
  BY DEF Parsers!Flush
<1>2. TextTypes /\ Len(b) <= 2 /\ (Plain(text) => tool.buffer = <<>>)
  BY <1>1 DEF TextInv
<1>3. /\ text \in Seq(STRING) /\ think \in ThinkType /\ tool \in ToolType /\ out \in Seq(Word)
      /\ b \in Seq(STRING) /\ kind \in {"thinking", "text"}
  BY <1>2 DEF TextTypes, ThinkType, Parsers!Mode
<1>4. PICK r, q : Stands(text, r, q, rest, think) /\ Agrees(text, r, tool, out)
  BY <1>1 DEF TextInv
<1>5. /\ r.letters \in Seq(Word) /\ q \in 0..Len(text) /\ Reached(text, r)
  BY <1>3, <1>4, StandsType
<1>6. b = SubSeq(text, r.at, q) /\ think.inside = r.inside /\ rest = Parsers!From(text, q + 1)
  BY <1>4 DEF Stands
<1>7. q = Len(text)
  <2>1. q + 1 \in 1..Len(text) + 1
    BY <1>5
  <2>2. Len(rest) = Len(text) + 1 - (q + 1)
    BY <1>3, <1>6, <2>1, FromFields
  <2>3. Len(rest) = 0
    BY <1>1
  <2>4. Len(text) \in Nat /\ q \in Nat
    BY <1>3, <1>5
  <2> HIDE DEF b, kind
  <2> QED BY <2>2, <2>3, <2>4
<1> DEFINE k == Parsers!Kind(kind, b)
<1>8. Parsers!ReadText(text) = r.letters \o k
  <2> HIDE DEF b, kind
  <2>1. b = SubSeq(text, r.at, Len(text)) /\ Len(b) <= 2
    BY <1>2, <1>6, <1>7
  <2>2. Parsers!ReadText(text) = r.letters \o Parsers!Kind(Parsers!Mode(r.inside), b)
    BY <1>3, <1>5, <2>1, LastPiece
  <2>3. Parsers!Mode(r.inside) = kind
    BY <1>6 DEF kind
  <2> QED BY <2>2, <2>3
<1> HIDE DEF b
<1>9. Thought(out') = Thought(Parsers!ReadText(text))
  <2>1. Thought(out) = Thought(r.letters)
    BY <1>4 DEF Agrees
  <2>2. CASE kind = "thinking"
    <3> HIDE DEF kind
    <3>1. Thought(out \o k) = Thought(out) \o k /\ Thought(r.letters \o k) = Thought(r.letters) \o k
      BY <1>3, <1>5, <2>2, ThoughtWords DEF ThoughtOn
    <3> QED BY <1>1, <1>8, <2>1, <3>1
  <2>3. CASE kind = "text"
    <3> HIDE DEF kind
    <3>1. Thought(out \o k) = Thought(out) /\ Thought(r.letters \o k) = Thought(r.letters)
      BY <1>3, <1>5, <2>3, ThoughtWords DEF ThoughtStays
    <3> QED BY <1>1, <1>8, <2>1, <3>1
  <2> QED BY <1>3, <2>2, <2>3
<1>10. Plain(text) => out' = Parsers!ReadText(text)
  <2> SUFFICES ASSUME Plain(text) PROVE out' = Parsers!ReadText(text)
    OBVIOUS
  <2>1. tool.buffer = <<>> /\ out \o Parsers!Kind("text", tool.buffer) = r.letters
    BY <1>2, <1>4 DEF Agrees
  <2>2. Parsers!Kind("text", tool.buffer) = <<>>
    BY <2>1, KindOfNothing
  <2>3. out \o <<>> = out
    BY <1>3, ConcatEmptySeq
  <2>4. out = r.letters
    BY <2>1, <2>2, <2>3
  <2> QED BY <1>1, <1>8, <2>4
<1>11. Parsers!OfKind("thinking", out') = Parsers!OfKind("thinking", Parsers!ReadText(text))
  BY <1>9, ThoughtIsOfKind
<1>12. ~Parsers!Contains(text, Parsers!Bullet) /\ ~Parsers!Contains(text, "|") => Plain(text)
  BY DEF Plain, Parsers!Contains
<1>13. Parsers!ThinkingApart'
  BY <1>1, <1>10, <1>11, <1>12 DEF Parsers!ThinkingApart
<1>14. TextTypes'
  <2>1. out' \in Seq(Word)
    <3> HIDE DEF kind
    <3> QED BY <1>1, <1>3, KindBehind
  <2>2. <<>> \in Seq(STRING)
    BY EmptySeq
  <2>3. think' \in ThinkType
    BY <1>1, <1>3, <2>2 DEF ThinkType
  <2>4. tool' \in ToolType
    BY <1>1, <1>3, <2>2 DEF ToolType
  <2> QED BY <1>1, <1>3, <2>1, <2>3, <2>4 DEF TextTypes
<1> QED BY <1>1, <1>13, <1>14 DEF TextInv

-----------------------------------------------------------------------------
(* TextReading and the copy of it in Parsers say the same.                 *)

LEMMA SamePicked ==
  ASSUME NEW s, NEW positions
  PROVE  Parsers!Picked(s, positions) = Picked(s, positions)
BY DEF Parsers!Picked, Picked

LEMMA SameOfKind ==
  ASSUME NEW kind, NEW s
  PROVE  Parsers!OfKind(kind, s) = OfKind(kind, s)
BY SamePicked DEF Parsers!OfKind, OfKind

LEMMA SameReadOn ==
  ASSUME NEW s, NEW r
  PROVE  Parsers!ReadOn(s, r) = ReadOn(s, r)
BY DEF Parsers!ReadOn, ReadOn, Parsers!From, From, Parsers!IsPrefix, IsPrefix,
       Parsers!OpenTag, OpenTag, Parsers!CloseTag, CloseTag, Parsers!Mode, Mode

LEMMA SameReadText ==
  ASSUME NEW s
  PROVE  Parsers!ReadText(s) = ReadText(s)
BY SameReadOn DEF Parsers!ReadText, ReadText

LEMMA SameThinkingApart == Parsers!ThinkingApart => ThinkingApart
BY SameOfKind, SameReadText
   DEF Parsers!ThinkingApart, ThinkingApart, Parsers!Contains, Contains, Parsers!Bullet, Bullet

(* ThinkingApart of StreamText: for every text and every way to cut it     *)
(* into chunks, all the thinking and nothing else is sent as thinking, and *)
(* an answer without bullets and control tokens in full and in its order   *)
(* (ThinkTagParser with HeuristicToolParser behind it).                    *)
THEOREM ThinkingIsKeptApart ==
  ASSUME Text \subseteq Seq(STRING), MaxHeld \in Nat
  PROVE  Parsers!Spec => []ThinkingApart
<1>1. Parsers!Init => TextInv
  BY TextInit
<1>2. TextInv /\ [Parsers!Next]_Parsers!vars => TextInv'
  <2> SUFFICES ASSUME TextInv, [Parsers!Next]_Parsers!vars PROVE TextInv'
    OBVIOUS
  <2>1. CASE Parsers!Chunk
    BY <2>1, ChunkStep
  <2>2. CASE Parsers!CutPiece
    BY <2>2, CutPieceStep
  <2>3. CASE Parsers!AwaitChunk
    BY <2>3, AwaitChunkStep
  <2>4. CASE Parsers!FeedTool
    BY <2>4, FeedToolStep
  <2>5. CASE Parsers!Flush
    BY <2>5, FlushStep
  <2>6. CASE UNCHANGED Parsers!vars
    <3>1. /\ text' = text /\ rest' = rest /\ turn' = turn /\ think' = think /\ tool' = tool
          /\ out' = out
      BY <2>6 DEF Parsers!vars
    <3>2. TextTypes'
      BY <3>1 DEF TextInv, TextTypes
    <3>3. Parsers!ThinkingApart'
      BY <3>1 DEF TextInv, Parsers!ThinkingApart
    <3> QED BY <3>1, <3>2, <3>3 DEF TextInv
  <2> QED BY <2>1, <2>2, <2>3, <2>4, <2>5, <2>6 DEF Parsers!Next
<1>3. TextInv => ThinkingApart
  BY SameThinkingApart DEF TextInv
<1> QED BY <1>1, <1>2, <1>3, PTL DEF Parsers!Spec

=============================================================================
