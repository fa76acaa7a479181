--------------------------- MODULE MCMcpRecording ---------------------------
\* McpRecording with tools that are alike.
EXTENDS McpRecording, TLC

Symmetry == Permutations(Tools)
=============================================================================
