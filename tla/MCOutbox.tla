------------------------------ MODULE MCOutbox ------------------------------
(***************************************************************************)
(* A small instance of Outbox for TLC: one requester with the devices of   *)
(* the cfg, and an invite.                                                 *)
(***************************************************************************)
EXTENDS Outbox

CONSTANTS MCDevices

MCDevice == [u \in Users |-> MCDevices]
=============================================================================
