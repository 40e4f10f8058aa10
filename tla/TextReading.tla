----------------------------- MODULE TextReading -----------------------------
(***************************************************************************)
(* What the text of an upstream answer means, and what the client of a     *)
(* stream that shows thinking is promised of it: the text is read once,    *)
(* from left to right, and what lies between think tags is thinking.       *)
(* StreamText says how the parsers get there when the text comes in        *)
(* chunks.                                                                 *)
(*                                                                         *)
(* A text is a sequence of letters.  A letter is a sign the parsers look   *)
(* for or a whole word, so that each tag has several: "<think>" is         *)
(* <<"<", "think", ">">>.                                                  *)
(***************************************************************************)
EXTENDS Naturals, FiniteSetsExt, SequencesExt

VARIABLES
  text,    \* what the upstream is going to say
  turn,    \* who goes on: the upstream, a parser ("think", "tool"), or nobody
  out      \* the letters sent to the client, each with its kind

OpenTag  == <<"<", "think", ">">>
CloseTag == <<"<", "/think", ">">>
Bullet == "bullet"

From(s, i)   == SubSeq(s, i, Len(s))

(* The letters of s at some positions, in their order. *)
Picked(s, positions) ==
  LET f[n \in 0..Len(s)] ==
        IF n = 0 THEN <<>>
        ELSE IF n \in positions THEN Append(f[n - 1], s[n]) ELSE f[n - 1]
  IN f[Len(s)]

Mode(inside) == IF inside THEN "thinking" ELSE "text"

(* A reader before the letter at `at`, with the letters it has read. *)
ReadOn(s, r) ==
  LET left == From(s, r.at)
  IN IF left = <<>> THEN r
     ELSE IF ~r.inside /\ IsPrefix(OpenTag, left)
       THEN [r EXCEPT !.at = @ + Len(OpenTag), !.inside = TRUE]
     ELSE IF IsPrefix(CloseTag, left)
       THEN [r EXCEPT !.at = @ + Len(CloseTag), !.inside = FALSE]
     ELSE [r EXCEPT !.at = @ + 1, !.letters = Append(@, <<Mode(r.inside), Head(left)>>)]

(* After as many steps as there are letters it is at the end. *)
ReadText(s) ==
  LET f[n \in 0..Len(s)] ==
        IF n = 0 THEN [at |-> 1, inside |-> FALSE, letters |-> <<>>] ELSE ReadOn(s, f[n - 1])
  IN f[Len(s)].letters

OfKind(kind, marked) ==
  LET some == Picked(marked, {i \in DOMAIN marked : marked[i][1] = kind})
  IN [i \in DOMAIN some |-> some[i][2]]

(* Thinking and text are told apart whatever the chunks: all the thinking, *)
(* nothing else, reaches the client as thinking, and an answer without     *)
(* bullets and control tokens in full, in its order                        *)
(* (think_parser.py:27, "Handles partial tags at chunk boundaries").       *)
ThinkingApart ==
  turn = "nobody" =>
    /\ OfKind("thinking", out) = OfKind("thinking", ReadText(text))
    /\ ~Contains(text, Bullet) /\ ~Contains(text, "|") => out = ReadText(text)
=============================================================================
