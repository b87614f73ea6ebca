-------------------------- MODULE MCAddressGuards --------------------------
(* A small instance of AddressGuards. *)
EXTENDS AddressGuards

CONSTANTS router, host, a1, a2
=============================================================================
