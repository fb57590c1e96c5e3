----------------------------- MODULE MCPipeline -----------------------------
(* Small instances of Pipeline for TLC.                                    *)
EXTENDS Pipeline

AllLayers == {"logger", "recoverer", "timeout", "adapt", "compress",
              "bodylimit", "gate"}
=============================================================================
