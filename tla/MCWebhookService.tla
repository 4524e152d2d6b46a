-------------------------- MODULE MCWebhookService --------------------------
(* Instances of WebhookService for TLC. *)
EXTENDS WebhookService

\* An admin rotates url and secret together, once.
MCConfigs == {[url |-> "url1", secret |-> "secret1"], [url |-> "url2", secret |-> "secret2"]}

\* The configuration plays no part in when attempts end.
OneConfig == {[url |-> "url1", secret |-> "secret1"]}

=============================================================================
