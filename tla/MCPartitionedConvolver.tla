----------------------- MODULE MCPartitionedConvolver -----------------------
\* Small instances of PartitionedConvolver for TLC.
EXTENDS PartitionedConvolver
=============================================================================
