---------------------------- MODULE MCDoiRelease ----------------------------
(***************************************************************************)
(* Instances of DoiRelease for TLC.                                        *)
(***************************************************************************)
EXTENDS DoiRelease

MCPrefixes == {"10.5281", "10.1234"}
=============================================================================
