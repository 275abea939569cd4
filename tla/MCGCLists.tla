---------------------------- MODULE MCGCLists ------------------------------
(***************************************************************************)
(* GCLists with five objects: enough to unlink a head, an inner and a last *)
(* element while a second list is not empty.                               *)
(***************************************************************************)
EXTENDS GCLists
=============================================================================
