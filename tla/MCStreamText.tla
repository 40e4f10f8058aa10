---------------------------- MODULE MCStreamText ----------------------------
(* TLC instances of StreamText: texts of up to three phrases, which are    *)
(* thinking, a call with a parameter, one with a space before its tag and  *)
(* none, a control token, a bullet that is none, a "<" that begins no tag, *)
(* and two words.                                                          *)
EXTENDS StreamText

CONSTANT MaxPhrases    \* bound on the length of a text

MCCall == <<Bullet>> \o Function \o OpenParam \o <<"x">> \o CloseParam

MCPhrase == {OpenTag, CloseTag, MCCall, <<Bullet, Space>> \o Function,
             <<"<", "|", "x", "|", ">">>, <<Bullet>>, <<"<">>, <<"x", "x">>}

MCText == UNION {{FlattenSeq(p) : p \in [1..n -> MCPhrase]} : n \in 1..MaxPhrases}
=============================================================================
