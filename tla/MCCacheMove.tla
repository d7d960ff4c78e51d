----------------------------- MODULE MCCacheMove -----------------------------
(* Three directories, so that a moved cache can be moved again, and two        *)
(* blocks, so that a move can fail half way and a block can be stored after    *)
(* another has been moved.                                                     *)
EXTENDS CacheMove

MCDirs == {"default", "a", "b"}
MCDefault == "default"
MCBlocks == {"x", "y"}
=============================================================================
