-------------------------- MODULE MCWebhookDelivery --------------------------
(* Finite instance of WebhookDelivery: the values an operator may give the  *)
(* --webhook-retries flag, the default and both sides of it.                *)
EXTENDS WebhookDelivery

MCSettings == {-1, 0, 1, 2, 3}
===============================================================================
