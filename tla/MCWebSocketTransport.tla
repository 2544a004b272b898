------------------------ MODULE MCWebSocketTransport ------------------------
\* Instances of WebSocketTransport for TLC.
EXTENDS WebSocketTransport, TLC

Symmetry == Permutations(Sessions)
=============================================================================
