---------------------------- MODULE MCLegacyGate ----------------------------
EXTENDS LegacyGate
=============================================================================
