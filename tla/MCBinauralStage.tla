--------------------------- MODULE MCBinauralStage ---------------------------
(* BinauralStage with two clients and a fade that ends in mid-block.       *)
EXTENDS BinauralStage
=============================================================================
