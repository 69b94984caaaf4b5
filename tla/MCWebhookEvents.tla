---------------------------- MODULE MCWebhookEvents ----------------------------
\* The instance TLC checks: WebhookEvents over the model values of the cfg.
EXTENDS WebhookEvents
===============================================================================
