---------------------------- MODULE MCSessionChannel ----------------------------
(* SessionChannel with two changes and two openings of the socket: enough for a  *)
(* pulse that overtakes a fetch, one lost with the socket, and one repeated.     *)
EXTENDS SessionChannel
===============================================================================
