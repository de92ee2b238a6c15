------------------------- MODULE MCManagedObjStorage -------------------------
(* ManagedObjStorage with small pages for TLC.                             *)
EXTENDS ManagedObjStorage

CONSTANTS Image, VideoStream
=============================================================================
