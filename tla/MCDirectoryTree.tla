--------------------------- MODULE MCDirectoryTree --------------------------
(* Instances of DirectoryTree: paths over two names, up to three elements.  *)
EXTENDS DirectoryTree

CONSTANTS c, d

MCNames == {c, d, Dot}
MCRoutes == {<<c>>, <<c, Dot>>, <<c, d>>, <<c, d, Dot>>}
MCPaths == MCRoutes \cup {<<d>>, <<c, d, d>>, <<c, c>>}
=============================================================================
