-------------------------- MODULE MCPasskeySession --------------------------
EXTENDS PasskeySession, TLC

CONSTANTS c1, c2
=============================================================================
