-------------------------- MODULE MCSchedPlanTree ---------------------------
(***************************************************************************)
(* Instances of SchedPlanTree for TLC: queries with three edges over five  *)
(* shards, and ALL scheduling trees over two shards per edge.              *)
(***************************************************************************)
EXTENDS SchedPlanTree

FiveShards == 1 .. 5
Sizes == <<5, 7, 6, 8, 9>>

(* The shards of an edge level; two edges have one in common. *)
EdgeShards == <<{1, 2}, {3, 4}, {1, 5}>>

AllTrees ==
  SUBSET {l \in [1 .. 3 -> FiveShards] : \A e \in 1 .. 3 : l[e] \in EdgeShards[e]} \ {{}}

(* The vertex level of the edges, the vertices, those without own edges: a *)
(* triangle (two edges of the first vertex, one of the second), a path of  *)
(* four vertices, a star with three arms, an edge with two optional ones.  *)
Triangle == [vlevel |-> <<1, 1, 2>>, vertices |-> 3, optional |-> 0, postfix |-> 1,
             optionalPostfix |-> 0, tableJoin |-> FALSE]
FourPath == [Triangle EXCEPT !.vlevel = <<1, 2, 3>>, !.vertices = 4]
Star == [Triangle EXCEPT !.vlevel = <<1, 1, 1>>, !.vertices = 4, !.postfix = 3]

(* The triangle as a join of three tables: a level for every edge. *)
Table == [Triangle EXCEPT !.vlevel = <<1, 2, 3>>, !.postfix = 0, !.tableJoin = TRUE]

(* One edge, and an optional path of two edges from its second vertex: the *)
(* second and the fourth vertex have no edges of their own.                *)
Optional == [Triangle EXCEPT !.vlevel = <<1, 3, 3>>, !.vertices = 4, !.optional = 2,
                             !.optionalPostfix = 1]

ConfigsOf(choices) ==
  {[leaves |-> t, vlevel |-> c[1].vlevel, vertices |-> c[1].vertices,
    optional |-> c[1].optional, postfix |-> c[1].postfix,
    optionalPostfix |-> c[1].optionalPostfix, tableJoin |-> c[1].tableJoin,
    capacity |-> c[2], maxShards |-> c[3]] : t \in AllTrees, c \in choices}

(* The largest subtask takes 24 bytes, all shards together 35: device      *)
(* memory for no subtask, for some, for each alone, and for all at once.   *)
(* With a limit of five shards a task ends at the next first vertex, and   *)
(* the group there waits for the task after it. A query with optional      *)
(* vertices is meant to end its tasks nowhere else.                        *)
AllConfigs ==
  ConfigsOf({<<Triangle, 8, 10>>, <<Triangle, 20, 10>>, <<Triangle, 25, 10>>,
             <<Triangle, 200, 10>>, <<Triangle, 200, 5>>, <<FourPath, 20, 10>>,
             <<FourPath, 200, 10>>, <<Star, 25, 10>>, <<Star, 200, 10>>,
             <<Table, 20, 10>>, <<Table, 200, 10>>, <<Optional, 200, 10>>,
             <<Optional, 200, 5>>})

(* Some subtasks are larger than the device memory. *)
TightTriangles == ConfigsOf({<<Triangle, 18, 10>>})

(* Optional vertices, and memory for each subtask, but not for all of them *)
(* together: with these BreaksAtFirstVertex fails, and EveryPathIsAMatch.  *)
TightOptional == ConfigsOf({<<Optional, 25, 10>>})
=============================================================================
