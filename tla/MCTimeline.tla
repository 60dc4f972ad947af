----------------------------- MODULE MCTimeline -----------------------------
EXTENDS Timeline

CONSTANTS user, hashtag

\* Two posts in one feed, or one post in two.
MCLinks == {<< <<user>>, <<user>> >>, << <<user, hashtag>>, <<>> >>}

MCDurations == <<4, 2, 1>>
=============================================================================
