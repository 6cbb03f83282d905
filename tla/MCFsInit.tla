----------------------------- MODULE MCFsInit -----------------------------
(* Room for two mounts; a length of 4 blocks is past the positive ints.    *)
EXTENDS FsInit
CONSTANTS p1, p2

MCPaths == {p1, p2}
===========================================================================
