---------------------------- MODULE MCTranscript ----------------------------
(* TLC instances of Transcript: the result of t1 carries a longer id than  *)
(* its call; t2 has an id of its own, or none and a result that looks like *)
(* a Task's; another tool has an id that t1's id is a prefix of.           *)
EXTENDS Transcript, TLC

CONSTANTS t1, t2, call1, call1x, call10, call2, functionsTask0

MCIdPairs == t1 :> {[call |-> call1, result |-> call1x]}
          @@ t2 :> {[call |-> call2, result |-> call2],
                    [call |-> NoId, result |-> functionsTask0]}
MCRough   == {<<call1, call1x>>, <<call1, call10>>}
=============================================================================
