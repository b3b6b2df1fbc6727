-------------------------- MODULE ClientEras --------------------------
(***************************************************************************)
(* Clients are the releases the entities are instantiated for, in order    *)
(* (core/client_version.hpp).  What some build in between introduces first *)
(* exists in the next release.                                             *)
(***************************************************************************)
EXTENDS Naturals

Vanilla == 1
TBC     == 2
WotLK   == 3
Cata    == 4
MoP     == 5
WoD     == 6
Legion  == 7
BfA     == 8
SL      == 9
DF      == 10
TWW     == 11
=============================================================================
