-------------------------- MODULE MCMonitoringAlerts -------------------------
(* MonitoringAlerts for TLC: the constants are given in the configuration.  *)
EXTENDS MonitoringAlerts, TLC
=============================================================================
