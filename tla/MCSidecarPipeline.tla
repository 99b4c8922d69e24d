------------------------- MODULE MCSidecarPipeline -------------------------
(* Small instances of SidecarPipeline for TLC. *)
EXTENDS SidecarPipeline

CONSTANTS u1, u2, g1

MCUploads == {u1, u2}
MCRecognized == {u1}
MCGroups == {g1}
MCGroupOf == [u \in MCUploads |-> g1]
=============================================================================
