--------------------------- MODULE MCOffloadStream ---------------------------
(* One frame per burst, two frames per clip; each run picks the commands that *)
(* its question needs.                                                        *)
EXTENDS OffloadStream

MCAll == CommandSet
MCNoFlush == CommandSet \ {"flush", "exit"}
MCConnected == {TRUE}
===============================================================================
