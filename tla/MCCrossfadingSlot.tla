------------------------- MODULE MCCrossfadingSlot -------------------------
\* Small instances of CrossfadingSlot for TLC.
EXTENDS CrossfadingSlot
=============================================================================
