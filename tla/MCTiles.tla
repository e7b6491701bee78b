------------------------------ MODULE MCTiles ------------------------------
(***************************************************************************)
(* Small instances of Tiles with the monitor's reads: all constants are    *)
(* numbers and come from the configurations.  Tiles of 3 hashes reach      *)
(* level two at 9 leaves, and a pool of 2 is, like MAX_POOL_SIZE and       *)
(* sunlight.TileWidth, one less than the width of a tile.                  *)
(***************************************************************************)
EXTENDS Monitor
=============================================================================
