------------------------------ MODULE MCSaMesh ------------------------------
EXTENDS SaMesh

MCBlocks == (0 .. R-1) \X (0 .. S-1)
=============================================================================
