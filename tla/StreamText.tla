----------------------------- MODULE StreamText -----------------------------
(***************************************************************************)
(* The two parsers that cut the text of an upstream answer into thinking,  *)
(* text and textual tool calls: ThinkTagParser, which feeds what is not    *)
(* thinking to HeuristicToolParser, as _stream_response_impl composes them *)
(* for a stream that shows thinking.  The upstream cuts its text into      *)
(* chunks wherever it likes.                                               *)
(*                                                                         *)
(* A chunk that ends within a word is kept back as one that ends before    *)
(* the word is.                                                            *)
(*                                                                         *)
(* A step is one round of the loop of a parser's feed().  A piece of text  *)
(* that ThinkTagParser yields is fed to the other one, and what that one   *)
(* finds is sent, before the first goes on.                                *)
(***************************************************************************)
EXTENDS TextReading

CONSTANTS Text,        \* the texts an upstream may send
          MaxHeld      \* 100: how much follows a bullet before it is given up

ASSUME TextAssumption == Text \subseteq Seq(STRING) /\ MaxHeld \in Nat

VARIABLES
  rest,    \* what the upstream has not yet said
  think,   \* the ThinkTagParser
  tool,    \* the HeuristicToolParser
  calls,   \* the tool calls sent to the client: the values of their parameters
  merged   \* history: a parameter was found behind the bullet of a later call

vars == <<text, rest, turn, think, tool, out, calls, merged>>

Function == <<"<", "function=N", ">">>
OpenParam  == <<"<", "parameter=k", ">">>
CloseParam == <<"<", "/parameter", ">">>
Space  == "space"

(* The first letter of the first w in s, or 0. *)
Find(w, s) ==
  LET at == {i \in DOMAIN s : IsPrefix(w, SubSeq(s, i, Len(s)))}
  IN IF at = {} THEN 0 ELSE Min(at)

Before(s, i) == SubSeq(s, 1, i - 1)
Kind(kind, s) == [i \in DOMAIN s |-> <<kind, s[i]>>]

Init ==
  /\ text \in Text
  /\ rest = text /\ turn = "upstream"
  /\ think = [buffer |-> <<>>, inside |-> FALSE]
  /\ tool = [state |-> "text", buffer |-> <<>>, params |-> <<>>]
  /\ out = <<>> /\ calls = <<>> /\ merged = FALSE

(* A chunk of the upstream's answer. *)
Chunk ==
  /\ turn = "upstream" /\ turn' = "think"
  /\ \E n \in DOMAIN rest :
       /\ think' = [think EXCEPT !.buffer = @ \o SubSeq(rest, 1, n)]
       /\ rest' = From(rest, n + 1)
  /\ UNCHANGED <<text, tool, out, calls, merged>>

-----------------------------------------------------------------------------
(* ThinkTagParser.  p is the parser, its buffer before it, and the piece   *)
(* it has cut off.                                                         *)

(* Up to a tag that may have begun at the last "<". *)

(* A wrong variant: only a "<" alone is kept. *)
KeepLastBracket(p, tags) ==
  LET b == p.buffer
  IN IF b # <<>> /\ Last(b) = "<" THEN [p EXCEPT !.buffer = <<"<">>, !.piece = Front(b)]
                                  ELSE [p EXCEPT !.buffer = <<>>, !.piece = b]

KeepPartialTag(p, tags) ==
  LET b == p.buffer
      start == SelectLastInSeq(b, LAMBDA c : c = "<")
      held == start > 0 /\ \E t \in tags : IsStrictPrefix(From(b, start), t)
  IN IF held THEN [p EXCEPT !.buffer = From(b, start), !.piece = Before(b, start)]
             ELSE [p EXCEPT !.buffer = <<>>, !.piece = b]

CutAt(p, i, tag, inside) ==
  [buffer |-> From(p.buffer, i + Len(tag)), piece |-> Before(p.buffer, i), inside |-> inside]

ParseOutsideThink(p) ==
  LET start  == Find(OpenTag, p.buffer)
      orphan == Find(CloseTag, p.buffer)
  IN IF orphan > 0 /\ (start = 0 \/ orphan < start) THEN CutAt(p, orphan, CloseTag, FALSE)
     ELSE IF start = 0 THEN KeepPartialTag(p, {OpenTag, CloseTag})
     ELSE CutAt(p, start, OpenTag, TRUE)

ParseInsideThink(p) ==
  LET end == Find(CloseTag, p.buffer)
  IN IF end = 0 THEN KeepPartialTag(p, {CloseTag}) ELSE CutAt(p, end, CloseTag, FALSE)

Parsed ==
  LET p == [buffer |-> think.buffer, inside |-> think.inside, piece |-> <<>>]
  IN IF think.inside THEN ParseInsideThink(p) ELSE ParseOutsideThink(p)

(* Complete control tokens, "<|...|>", are removed. *)
StripControlTokens(s) ==
  LET token(i, j) == /\ i + 3 < j /\ s[i] = "<" /\ s[i+1] = "|" /\ s[j-1] = "|" /\ s[j] = ">"
                     /\ \A k \in i+2 .. j-2 : s[k] \notin {"|", ">"}
  IN Picked(s, {k \in DOMAIN s : ~\E i \in 1..k, j \in k..Len(s) : token(i, j)})

(* One round of ThinkTagParser.feed that cuts off a piece, and what is     *)
(* done with it: thinking is sent, text goes to the other parser.          *)
CutPiece ==
  /\ turn = "think" /\ Parsed.buffer # think.buffer
  /\ think' = [buffer |-> Parsed.buffer, inside |-> Parsed.inside]
  /\ IF think.inside \/ Parsed.piece = <<>>
       THEN out' = out \o Kind("thinking", Parsed.piece) /\ UNCHANGED <<turn, tool>>
       ELSE /\ turn' = "tool"
            /\ tool' = [tool EXCEPT !.buffer = StripControlTokens(@ \o Parsed.piece)]
            /\ UNCHANGED out
  /\ UNCHANGED <<text, rest, calls, merged>>

(* The buffer is empty, or what is in it may become a tag. *)
AwaitChunk ==
  /\ turn = "think" /\ Parsed.buffer = think.buffer
  /\ turn' = "upstream"
  /\ UNCHANGED <<text, rest, think, tool, out, calls, merged>>

-----------------------------------------------------------------------------
(* HeuristicToolParser.                                                    *)

(* Where the buffer ends in the middle of a control token.  One that       *)
(* starts the buffer is not kept back.                                     *)
IncompleteTokenTail(s) ==
  LET starts == {i \in 1 .. Len(s) - 1 : s[i] = "<" /\ s[i+1] = "|"}
  IN IF starts = {} \/ Find(<<"|", ">">>, From(s, Max(starts))) > 0 THEN 0
     ELSE IF Max(starts) = 1 THEN 0 ELSE Max(starts)

(* A bullet, spaces, and a function tag: where it ends, or 0. *)
FunctionEnd(s) ==
  LET match(i, j) == /\ s[i] = Bullet
                     /\ \A k \in i+1 .. j-1 : s[k] = Space
                     /\ IsPrefix(Function, From(s, j))
      ends == {j \in DOMAIN s : \E i \in 1 .. j-1 : match(i, j)}
  IN IF ends = {} THEN 0 ELSE Min(ends) + Len(Function) - 1

(* The first parameter, if it is complete. *)
Param(s) ==
  LET start == Find(OpenParam, s)
      close == IF start = 0 THEN 0 ELSE Find(CloseParam, From(s, start))
  IN [found |-> close > 0,
      before |-> Before(s, start),
      value |-> SubSeq(s, start + Len(OpenParam), start + close - 2),
      after |-> start + close - 1 + Len(CloseParam)]

(* The loop leaves this state, or stays: s is shown, and b kept.           *)
Goes(state, s, b) ==
  /\ tool' = [tool EXCEPT !.state = state, !.buffer = b]
  /\ out' = out \o Kind("text", s)

FirstBullet == Find(<<Bullet>>, tool.buffer)

ScanText ==
  /\ tool.state = "text"
  /\ IF FirstBullet > 0
       THEN /\ Goes("function", Before(tool.buffer, FirstBullet), From(tool.buffer, FirstBullet))
            /\ UNCHANGED turn
       ELSE /\ LET tail == IncompleteTokenTail(tool.buffer)
               IN IF tail > 0
                    THEN Goes("text", Before(tool.buffer, tail), From(tool.buffer, tail))
                    ELSE Goes("text", tool.buffer, <<>>)
            /\ turn' = "think"
  /\ UNCHANGED <<calls, merged>>

MatchFunction ==
  /\ tool.state = "function"
  /\ LET end == FunctionEnd(tool.buffer)
     IN IF end > 0
          THEN /\ tool' = [state |-> "parameters", params |-> <<>>,
                           buffer |-> From(tool.buffer, end + 1)]
               /\ UNCHANGED <<turn, out>>
        ELSE IF Len(tool.buffer) > MaxHeld
          THEN Goes("text", <<Head(tool.buffer)>>, Tail(tool.buffer)) /\ UNCHANGED turn
        ELSE turn' = "think" /\ UNCHANGED <<tool, out>>
  /\ UNCHANGED <<calls, merged>>

TakeParam ==
  LET p == Param(tool.buffer)
  IN /\ tool.state = "parameters" /\ p.found
     /\ tool' = [tool EXCEPT !.buffer = From(@, p.after), !.params = Append(@, p.value)]
     /\ out' = out \o Kind("text", p.before)
     /\ merged' = (merged \/ Contains(p.before, Bullet))
     /\ UNCHANGED <<turn, calls>>

(* Up to where the buffer is text and the call over, or 0. *)
EndOfCall(b) ==
  LET bullet == Find(<<Bullet>>, b)
      solid == SelectInSeq(b, LAMBDA c : c # Space)
  IN IF bullet > 0 THEN bullet
     ELSE IF /\ b # <<>> /\ (solid > 0 => b[solid] # "<")
             /\ Find(<<"<", "parameter=k">>, b) = 0
       THEN Len(b) + 1
     ELSE 0

EndCall ==
  LET end == EndOfCall(tool.buffer)
  IN /\ tool.state = "parameters" /\ ~Param(tool.buffer).found
     /\ IF end > 0
          THEN /\ Goes("text", Before(tool.buffer, end), From(tool.buffer, end))
               /\ calls' = Append(calls, tool.params)
               /\ UNCHANGED turn
          ELSE turn' = "think" /\ UNCHANGED <<tool, out, calls>>
     /\ UNCHANGED merged

(* One round of HeuristicToolParser.feed. *)
FeedTool ==
  /\ turn = "tool"
  /\ ScanText \/ MatchFunction \/ TakeParam \/ EndCall
  /\ UNCHANGED <<text, rest, think>>

-----------------------------------------------------------------------------
(* flush(): a call whose last parameter is not closed is sent; what else   *)
(* is in the buffer is dropped.                                            *)

FlushToolSilent(h, sent) == sent     \* a wrong variant: the call is dropped

FlushTool(h, sent) ==
  LET b == StripControlTokens(h.buffer)
      start == Find(OpenParam, b)
      last == IF start = 0 THEN <<>> ELSE <<From(b, start + Len(OpenParam))>>
  IN IF h.state = "parameters" THEN Append(sent, h.params \o last) ELSE sent

(* The end of the stream.  What the think parser has kept goes out as it   *)
(* is, past the other parser.                                              *)
Flush ==
  /\ turn = "upstream" /\ rest = <<>> /\ turn' = "nobody"
  /\ out' = out \o Kind(Mode(think.inside), think.buffer)
  /\ think' = [think EXCEPT !.buffer = <<>>]
  /\ calls' = FlushTool(tool, calls)
  /\ tool' = IF tool.state = "parameters" THEN [tool EXCEPT !.state = "text", !.buffer = <<>>] ELSE tool
  /\ UNCHANGED <<text, rest, merged>>

Next == Chunk \/ CutPiece \/ AwaitChunk \/ FeedTool \/ Flush

Spec == Init /\ [][Next]_vars

-----------------------------------------------------------------------------
(* The calls in a text that is read once, from left to right.              *)

(* The text as the tool parser should see it. *)
Visible == StripControlTokens(OfKind("text", ReadText(text)))

(* The parameters that s begins with, and where they end. *)
Params(s) ==
  LET f[n \in 0..Len(s)] ==
        IF n = 0 THEN [values |-> <<>>, at |-> 1]
        ELSE LET r == f[n - 1]
                 p == Param(From(s, r.at))
             IN IF p.found /\ p.before = <<>>
                  THEN [values |-> Append(r.values, p.value), at |-> r.at + p.after - 1]
                  ELSE r
  IN f[Len(s)]

(* For each function tag the parameters that directly follow it. *)
ReadCalls(s) ==
  LET f[n \in 0..Len(s)] ==
        IF n = 0 THEN [calls |-> <<>>, left |-> s]
        ELSE LET r == f[n - 1]
                 end == FunctionEnd(r.left)
                 params == Params(From(r.left, end + 1))
             IN IF end = 0 THEN r
                ELSE [calls |-> Append(r.calls, params.values),
                      left |-> From(r.left, end + params.at)]
  IN f[Len(s)].calls

(* Every textual call is sent once, with the parameters that follow it,    *)
(* whatever the chunks (test_parsers.py:171, for one call in two chunks),  *)
(* unless the bullet of the next call was in the buffer before the first   *)
(* call's parameters had been taken.                                       *)
CallsFound == turn = "nobody" /\ ~merged => calls = ReadCalls(Visible)
=============================================================================
