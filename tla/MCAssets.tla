---- MODULE MCAssets ----
(* Instances of AssetSystem: a triangle (a source that two paths reach)     *)
(* below a demand root, and a graph with a cycle, which no commit accepts.  *)
EXTENDS AssetSystem

CONSTANTS source, program, renderable, demand

Triangle == [k \in Keys |->
    CASE k = program -> {source}
      [] k = renderable -> {source, program}
      [] k = demand -> {source, program}
      [] OTHER -> {}]
Cycle == [k \in Keys |->
    CASE k = program -> {source}
      [] k = source -> {program}
      [] k = renderable -> {program}
      [] OTHER -> {}]
MCGraphs == {Triangle, Cycle}
====
