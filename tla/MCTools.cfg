SPECIFICATION Spec
CONSTANTS
  Graph <- Graphs
  Node <- Nodes
  Read <- Reads
  Locked = {"gen.h"}
  Root = "build.ninja"
INVARIANTS
  MissingDepsFound OrderedByDependency
PROPERTY SourcesKept
