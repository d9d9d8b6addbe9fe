---------------------------- MODULE MCMentionAll ----------------------------
EXTENDS MentionAll, TLC

CONSTANTS p1, w1, w2
=============================================================================
