-------------------------- MODULE MCMessagingLimiter --------------------------
(* MessagingLimiter for TLC: the configurations give every constant its value. *)
EXTENDS MessagingLimiter
=============================================================================
