--------------------------- MODULE MCUniverseMerge ---------------------------
(* Small instances of UniverseMerge: frames of different lengths, so that    *)
(* neither of two is above the other in every slot.                          *)
EXTENDS UniverseMerge

OneClient == <<"c1">>
FullFrames == {<<2>>, <<1, 1>>}
=============================================================================
