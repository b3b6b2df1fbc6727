--------------------------- MODULE MCCsvListfile ---------------------------
(* Small instances of CsvListfile for TLC. *)
EXTENDS CsvListfile

CONSTANTS pA, pAB

MCPaths == {pA, pAB}

\* "a/b" and the shorter "a" it can be cut to, other spellings, and "/".
MCSpellings == {"a", "a/b", "A\\B", "/"}
MCNorm ==
  [s \in MCSpellings |->
     CASE s = "a" -> pA [] s \in {"a/b", "A\\B"} -> pAB [] s = "/" -> EmptyPath]
MCCut == [p \in MCPaths |-> IF p = pAB THEN {pA} ELSE {}]

L(i, p, n) == [id |-> i, path |-> p, nl |-> n]

\* Nothing; an official id and an empty line; an unterminated custom id; an id
\* just past the custom range; an official and a custom id on two lines; a path on
\* two lines, the greater id last and first.
CleanSources ==
  {<<>>,
   <<L(0, pA, TRUE), L(NoId, Blank, TRUE)>>,
   <<L(2, pA, FALSE)>>,
   <<L(5, pAB, TRUE)>>,
   <<L(0, pA, TRUE), L(0, pAB, TRUE)>>,
   <<L(2, pA, TRUE), L(2, pAB, TRUE)>>,
   <<L(0, pA, TRUE), L(1, pA, TRUE)>>,
   <<L(2, pAB, TRUE), L(0, pAB, TRUE)>>}
=============================================================================
