-------------------------- MODULE MCCaptureBroker --------------------------
(* A small instance of CaptureBroker for TLC.                               *)
EXTENDS CaptureBroker, TLC
=============================================================================
