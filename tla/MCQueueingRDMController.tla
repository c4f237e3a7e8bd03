---------------------- MODULE MCQueueingRDMController ----------------------
(***************************************************************************)
(* QueueingRDMController for TLC; each .cfg file gives the constants.      *)
(***************************************************************************)
EXTENDS QueueingRDMController
=============================================================================
