--------------------------- MODULE MCWatchedDirs ---------------------------
(***************************************************************************)
(* Instances of WatchedDirs for TLC.                                       *)
(***************************************************************************)
EXTENDS WatchedDirs

Src   == <<"src">>
Outer == <<"src", "outer">>
Inner == <<"src", "outer", "inner">>
Lib   == <<"src", "vendor">>

\* The second root lies below what the walk of the first may find.
NestedRoots == {Src, Inner}
Tree        == {Src, Outer, Inner, Lib}
Vendor      == {"vendor"}
=============================================================================
