--------------------------- MODULE MCAssetStorage ---------------------------
(***************************************************************************)
(* Small instances of AssetStorage with one execution of the upload and    *)
(* failing calls; MCServices has the one with two executions.              *)
(***************************************************************************)
EXTENDS AssetStorage
=============================================================================
