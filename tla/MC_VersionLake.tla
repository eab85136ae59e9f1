--------------------------- MODULE MC_VersionLake ---------------------------
(***************************************************************************)
(* Versions of a document over two chunks.                                 *)
(***************************************************************************)
EXTENDS VersionLake

CONSTANTS c1, c2

AllVersions      == SUBSET Chunks
NonEmptyVersions == SUBSET Chunks \ {{}}
=============================================================================
