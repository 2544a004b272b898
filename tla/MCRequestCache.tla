--------------------------- MODULE MCRequestCache ---------------------------
\* Instances of RequestCache for TLC.
EXTENDS RequestCache
=============================================================================
