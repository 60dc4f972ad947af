--------------------------- MODULE MCBundleServers ----------------------------
EXTENDS BundleServers, TLC

\* Servers and posts are interchangeable.
Symmetry == Permutations(Server) \cup Permutations(Post)
=============================================================================
