------------------------- MODULE MCRemoteConnection -------------------------
(* A management connection, whose failure is fatal, and that of an         *)
(* extension host.                                                         *)
EXTENDS RemoteConnection

CONSTANTS mgmt, exthost

Both == {mgmt, exthost}
OnlyManagement == {mgmt}
=============================================================================
