----------------------------- MODULE MCPipeline -----------------------------
(* Instances of Pipeline for TLC, over the program's GF(2^4). *)
EXTENDS Pipeline, MCCodec

MCPipelineConfigs == {MCConfig("EvictOldest", "Vandermonde", 1, 2),
                      MCConfig("Reject", "Cauchy", 1, 2)}
=============================================================================
