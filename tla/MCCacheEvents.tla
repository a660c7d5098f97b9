-------------------------- MODULE MCCacheEvents --------------------------
(* Two prompts with a common first block; one is longer than the HBM tier. *)
EXTENDS CacheEvents

CONSTANTS a1, a2, a3, b2

MCPaths == {<<a1, a2, a3>>, <<a1, b2>>}
=========================================================================
