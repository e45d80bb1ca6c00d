-------------------------- MODULE MCBookingEngine --------------------------
(* A small instance of the booking engine for TLC.                         *)
EXTENDS BookingEngine, TLC
=============================================================================
