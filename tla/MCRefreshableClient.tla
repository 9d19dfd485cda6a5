------------------------ MODULE MCRefreshableClient ------------------------
(* Instances of RefreshableClient for TLC. *)
EXTENDS RefreshableClient

=============================================================================
