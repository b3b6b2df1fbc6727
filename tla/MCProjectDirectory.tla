------------------------- MODULE MCProjectDirectory -------------------------
(* Small instances of ProjectDirectory for TLC. *)
EXTENDS ProjectDirectory

CONSTANTS pA, pB

MCPaths == {pA, pB}

\* A disk on which one path may be spelled in two ways.
MCNames == {"a", "A", "b"}
MCCanon == [n \in MCNames |-> IF n = "b" THEN pB ELSE pA]

MCNative == [p \in MCPaths |-> IF p = pA THEN "a" ELSE "b"]
\* Two blocks, one block, no block.
MCContents    == {<<1, 2>>, <<3>>, <<>>}
=============================================================================
