---------------------------- MODULE MCBleServer ----------------------------
(***************************************************************************)
(* Model values for checking BleServer: every kind of filter write *)
(* from every connection.                                                  *)
(***************************************************************************)
EXTENDS BleServer

MCItem == FilterWrites(1 .. MaxConns)
=============================================================================
