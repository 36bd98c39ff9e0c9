--------------------------- MODULE MCStudioUploads ---------------------------
(***************************************************************************)
(* Small instances of StudioUploads.                                       *)
(***************************************************************************)
EXTENDS StudioUploads
=============================================================================
