---------------------------- MODULE MCPrimaryStream ----------------------------
(* The states in which a client writes.                                        *)
EXTENDS PrimaryStream

\* A client that starts a stream before it writes, as libaudiohal does.
MCAfterStart == {"IDLE", "ACTIVE", "PAUSED"}

===============================================================================
