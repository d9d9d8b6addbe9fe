----------------------- MODULE MCWebhookConfiguration -----------------------
EXTENDS WebhookConfiguration, TLC

CONSTANTS s1, s2, s3, d1, d2
=============================================================================
