------------------------- MODULE MCGatewayDispatch -------------------------
(***************************************************************************)
(* The dispatch of a few messages.  UserIds are the message ids that the   *)
(* channels use; the handoff copies bring their own.                       *)
(***************************************************************************)
EXTENDS GatewayDispatch, TLC

CONSTANT UserIds

MCKeys == UserIds \cup {CopyKey(kind, e) : kind \in Handoffs, e \in Ids}
=============================================================================
