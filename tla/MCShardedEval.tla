--------------------------- MODULE MCShardedEval ---------------------------
(* As many symbols as threads, and more, with every remainder.             *)
EXTENDS ShardedEval
=============================================================================
