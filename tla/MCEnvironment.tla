---------------------------- MODULE MCEnvironment -----------------------------
EXTENDS Environment
=============================================================================
