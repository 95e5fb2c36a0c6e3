---------------------------- MODULE MCRtspServer ----------------------------
EXTENDS RtspServer, TLC

\* Connections are interchangeable.
Symmetry == Permutations(Clients)
=============================================================================
