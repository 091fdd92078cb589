--------------------------- MODULE MCSchemaUpgrade ---------------------------
(* Two builds: the older one has the three tables, the newer one everything. *)
EXTENDS SchemaUpgrade

CONSTANTS p1, p2, p3

MCBuildOf == [p \in Procs |-> IF p = p1 THEN 1 ELSE 2]

MCSince == [o \in Objects |-> IF o \in {"ideas", "links", "discussion_log"} THEN 1 ELSE 2]
================================================================================
