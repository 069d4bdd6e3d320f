-------------------------- MODULE MCAudioExchange --------------------------
EXTENDS AudioExchange
=============================================================================
