---------------------------- MODULE MCNodeAddon ----------------------------
\* Two sessions or keypairs, two steps, a pool of one thread.
EXTENDS NodeAddon
=============================================================================
