--------------------------- MODULE MCConsumerThread ---------------------------
(* Small instances of ConsumerThread. *)
EXTENDS ConsumerThread
=============================================================================
