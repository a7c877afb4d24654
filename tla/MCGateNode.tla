----------------------------- MODULE MCGateNode -----------------------------
EXTENDS GateNode
=============================================================================
