--------------------------- MODULE MCStreamChain ---------------------------
EXTENDS StreamChain

\* Message lengths.  One-byte and two-byte messages against a one- or
\* two-byte kernel buffer give every split of a write: whole, partial, none.
\* The liveness run keeps two messages, its fair cycles being costly.
Msgs2 == <<1, 2>>
Msgs3 == <<1, 2, 1>>
=============================================================================
