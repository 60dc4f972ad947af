-------------------------- MODULE MCFeedbackServers ---------------------------
EXTENDS FeedbackServers, TLC

\* Servers and posts are interchangeable.
Symmetry == Permutations(Server) \cup Permutations(Post)

\* One walk with two faults, or two walks, whose heals overtake each other, with none.
Budget == 2 * fetches + faults <= 4

MCSpec == Init /\ [][Next /\ Budget']_vars
=============================================================================
