--------------------------------- MODULE MCRpc ---------------------------------
(* Small instances of Rpc: the second session makes no calls of its own.       *)
EXTENDS Rpc

CONSTANTS s1, s2

MCSession == {s1, s2}
MCCallers == {s1} \X End
=============================================================================
