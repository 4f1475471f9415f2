-------------------------- MODULE MCServerShutdown --------------------------
(* Two triggers, one probe and the stop of one periodic job, one browser     *)
(* upgrade, one request, one MCP exchange and one audited action.  The job   *)
(* and the traffic meet only in the sequence, so a behaviour has one or the  *)
(* other race it.                                                            *)
EXTENDS ServerShutdown
=============================================================================
