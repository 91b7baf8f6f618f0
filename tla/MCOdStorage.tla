----------------------------- MODULE MCOdStorage ------------------------------
\* Small instances of OdStorage.
EXTENDS OdStorage

CONSTANTS d, v
Contents == {d, v}
==============================================================================
