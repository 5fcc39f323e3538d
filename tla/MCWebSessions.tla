----------------------------- MODULE MCWebSessions -----------------------------
(* Two processes, one of which may be the restart of the other; the pairing and one more request. *)
EXTENDS WebSessions
=============================================================================
