----------------------------- MODULE MCMetaPosts -----------------------------
EXTENDS MetaPosts

CONSTANTS alice, bob
===============================================================================
