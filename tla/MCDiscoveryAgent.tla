--------------------------- MODULE MCDiscoveryAgent ---------------------------
(* DiscoveryAgent on a space of four UIDs.  The UIDs at its ends are those    *)
(* of responders that follow the standard, or nobody's.                      *)
EXTENDS DiscoveryAgent

\* The line whose four UIDs are what kinds says.
LineOf(kinds) == [u \in UID |-> kinds[u + 1]]

SomeLines ==
  {LineOf(kinds) : kinds \in
     {<<"good", "good", "good", "good">>,
      <<"absent", "good", "good", "absent">>,
      <<"good", "silent", "good", "absent">>,
      <<"good", "good", "obnoxious", "absent">>,
      <<"absent", "silent", "obnoxious", "good">>}}

CrowdedLine == {LineOf(<<"good", "good", "obnoxious", "good">>)}
=============================================================================
