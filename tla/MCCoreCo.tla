------------------------------ MODULE MCCoreCo --------------------------------
\* Small instances of CoreCo.
EXTENDS CoreCo

CONSTANTS r1, r2, r3, r4
Tickets == {r1, r2, r3, r4}
==============================================================================
