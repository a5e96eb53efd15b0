------------------------ MODULE MCConnectorInstall -------------------------
(* ConnectorInstall with two sessions and bundles of two files. *)
EXTENDS ConnectorInstall, TLC

Interchangeable == Permutations(Sessions)
=============================================================================
