-------------------------- MODULE MCServerLifecycle --------------------------
\* Instances of ServerLifecycle, with the registrar client, for TLC.
EXTENDS ServerLifecycle
=============================================================================
