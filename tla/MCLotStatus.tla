---------------------------- MODULE MCLotStatus -----------------------------
EXTENDS LotStatus
=============================================================================
