---------------------------- MODULE MCShmTransfer ----------------------------
(* The channel with at most one record of its own kind in the stream.  No   *)
(* step looks at the contents of a record, so that one such record, at every *)
(* place of the stream, shows what happens to each of them; the others are  *)
(* alike.                                                                   *)
EXTENDS ShmTransfer

CONSTANT Marked

AtMostOneMarked ==
  cpc = "guest" /\ cpc' # "guest" /\ rec' = Marked => \A k \in DOMAIN sent : sent[k] # Marked

MCSpec ==
  /\ Init /\ [][Next /\ AtMostOneMarked]_vars
  /\ WF_vars(Setup) /\ WF_vars(ServerLoop) /\ WF_vars(HelperStep)
  /\ WF_vars(\E r \in Records : HelperCall(r))
=============================================================================
