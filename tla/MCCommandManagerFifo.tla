------------------------ MODULE MCCommandManagerFifo ------------------------
(* Instances of CommandManagerFifo for TLC.                                 *)
EXTENDS CommandManagerFifo, MCCommandManager
=============================================================================
