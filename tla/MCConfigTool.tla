----------------------------- MODULE MCConfigTool -----------------------------
\* Small instances of ConfigTool.
EXTENDS ConfigTool

CONSTANTS v1, v2
Typed == {v1, v2}
==============================================================================
