------------------------- MODULE MCMultipartBodies --------------------------
(* Instances of MultipartBodies for TLC; their bounds are in the .cfg files. *)
EXTENDS MultipartBodies, TLC
=============================================================================
