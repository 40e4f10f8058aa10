---------------------------- MODULE MCSessionStore ----------------------------
(* SessionStore for TLC: the configurations give every constant its value.   *)
EXTENDS SessionStore
=============================================================================
