---------------------------- MODULE MCAuroraMesh ----------------------------
EXTENDS AuroraMesh

MCBlocks == (0 .. R-1) \X (0 .. S-1)
=============================================================================
