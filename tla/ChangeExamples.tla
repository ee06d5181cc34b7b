----------------------------- MODULE ChangeExamples -----------------------------
(* Changes to small repositories: trees that fit the bounds of the walk and     *)
(* trees that do not, and one changed module reached in two ways.               *)
EXTENDS Integers

File(path, module, kind, lines) ==
  [path |-> path, area |-> "core", module |-> module, kind |-> kind, sensitive |-> FALSE,
   added |-> lines, deleted |-> lines]
Snapshot(files, edges, author, failed) ==
  [files |-> files, modules |-> 1 .. 8, edges |-> edges, author |-> author, failed |-> failed]
Diamond == {<<2, 1>>, <<3, 1>>, <<4, 2>>, <<4, 3>>, <<3, 4>>}
Chain   == {<<2, 1>>, <<3, 2>>, <<4, 3>>}
Fan     == {<<m, 2>> : m \in 4 .. 8} \cup {<<2, 1>>, <<3, 1>>}
Wide    == {<<m, 2>> : m \in 3 .. 7} \cup {<<2, 1>>}
Three(none) ==
  {Snapshot({File("a", 1, "source", 120)}, Wide, "dev", TRUE),
   Snapshot({File("a", 1, "migration", 5), File("t", 5, "test", 5)}, Chain, "dev", FALSE),
   Snapshot({File("a", 1, "source", 5)}, Fan, none, none)}
Four(none) == Three(none) \cup {Snapshot({File("b", 1, "test", 5)}, Diamond, "dev", none)}
================================================================================
