-------------------------- MODULE MCMonitorGateway --------------------------
(* The instance of MonitorGateway that TLC checks: the names of the sockets *)
(* are those of two of the checkers, which recheck their link.              *)
EXTENDS MonitorGateway, TLC
=============================================================================
