------------------------- MODULE MCClientFileSystem -------------------------
(* Small instances of ClientFileSystem for TLC. *)
EXTENDS ClientFileSystem

CONSTANTS pA, pB

MCPaths == {pA, pB}

L(p, i) == [path |-> p, id |-> i]

\* One official file.
OfficialListed == {L(pA, 0)}
OnlyA == {pA}
=============================================================================
