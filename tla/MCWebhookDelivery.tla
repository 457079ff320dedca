------------------------- MODULE MCWebhookDelivery -------------------------
(***************************************************************************)
(* The instance of WebhookDelivery for TLC: two events of one application. *)
(***************************************************************************)
EXTENDS WebhookDelivery, TLC

CONSTANTS e1, e2, a1

MCEvents == {e1, e2}
MCApps == {a1}
=============================================================================
