-------------------------- MODULE RequestBlocks --------------------------
(***************************************************************************)
(* The blocks of a prompt (request/block_hasher.py): the key of a block is *)
(* a hash of the key before it, the model, the tenant if the cache is not  *)
(* shared by tenants, and the tokens of the block.  The hash stands for    *)
(* what it is computed from: fields are encoded with their length, and     *)
(* SHA-256 does not collide.                                               *)
(***************************************************************************)
EXTENDS CachedTokens

\* cache_scope
Isolated == "tenant_isolated"
Shared   == "model_shared"

Content(tokens, i) == SubSeq(tokens, (i - 1) * BlockSize + 1, MinOf(i * BlockSize, Len(tokens)))

\* Mutation: a block is known by its own tokens.
BlockKeysUnchained(request, scope) ==
    [i \in 1..BlockCount(Len(request.tokens)) |->
        <<request.model, IF scope = Isolated THEN request.tenant ELSE "",
          Content(request.tokens, i)>>]

BlockKeys(request, scope) ==
    LET tenant == IF scope = Isolated THEN request.tenant ELSE ""
        chain[i \in 0..BlockCount(Len(request.tokens))] ==
            IF i = 0 THEN <<>>
            ELSE <<chain[i - 1], request.model, tenant, Content(request.tokens, i)>>
    IN  [i \in 1..BlockCount(Len(request.tokens)) |-> chain[i]]
=========================================================================
