---------------------------- MODULE FdidRegistry ----------------------------
(***************************************************************************)
(* What a listfile promises to its users, whatever happens to the program: *)
(* an acknowledged registration binds a path to an id for good, no path is *)
(* bound twice and no id is handed out twice, across restarts.  Bindings   *)
(* can be lost only together, while the database is exposed: an in-memory  *)
(* database, or a working file whose rewrite is not complete.              *)
(***************************************************************************)
CONSTANTS Paths, CustomIds

VARIABLES
  bound,    \* the set of bindings acknowledged so far
  exposed   \* is the only complete copy of the bindings in memory?

Binding == [path : Paths, id : CustomIds]

Init == bound = {} /\ exposed \in BOOLEAN

Register(p, i) ==
  /\ \A b \in bound : b.path # p /\ b.id # i
  /\ bound' = bound \cup {[path |-> p, id |-> i]}
  /\ UNCHANGED exposed

\* A rewrite of the working file starts or is completed.
Rewrite == exposed' \in BOOLEAN /\ UNCHANGED bound

Lose == exposed /\ bound' = {} /\ exposed' \in BOOLEAN

Next == (\E p \in Paths, i \in CustomIds : Register(p, i)) \/ Rewrite \/ Lose

Spec == Init /\ [][Next]_<<bound, exposed>>
=============================================================================
