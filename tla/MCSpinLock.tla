---------------------------- MODULE MCSpinLock ----------------------------
(* SpinLock with three clients, see SpinLock.cfg.  Symmetry would not be   *)
(* sound for the liveness property.                                        *)
EXTENDS SpinLock
=============================================================================
