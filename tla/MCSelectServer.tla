---------------------------- MODULE MCSelectServer ----------------------------
(* Small instances of SelectServer. *)
EXTENDS SelectServer
=============================================================================
