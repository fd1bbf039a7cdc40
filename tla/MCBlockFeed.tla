----------------------------- MODULE MCBlockFeed -----------------------------
(* Two nodes; two consumers, the first of which is stuck; room for one     *)
(* block in every channel.                                                 *)
EXTENDS BlockFeed

CONSTANTS x, y

Both == <<x, y>>
=============================================================================
