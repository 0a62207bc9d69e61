------------------------------ MODULE MCEtimer ------------------------------
(* Two timers of one process and one of another. *)
EXTENDS Etimer

CONSTANTS tcpip, rfid, periodic, ds6, find

MCUses == {<<tcpip, periodic>>, <<tcpip, ds6>>, <<rfid, find>>}
=============================================================================
