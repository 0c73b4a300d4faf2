-------------------------- MODULE MC_WebTransport --------------------------
(* A browser that connects up to three times, with one failure anywhere.   *)
EXTENDS WebTransport
=============================================================================
