----------------------------- MODULE MCExchange -----------------------------
EXTENDS Exchange
=============================================================================
