-------------------------- MODULE MCProfileMarker --------------------------
(***************************************************************************)
(* ProfileMarker on three builds, with a migration of each stage.          *)
(***************************************************************************)
EXTENDS ProfileMarker

=============================================================================
