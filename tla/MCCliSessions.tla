--------------------------- MODULE MCCliSessions ---------------------------
(* TLC instances of CliSessions. *)
EXTENDS CliSessions

=============================================================================
