----------------------------- MODULE MCBookFeed -----------------------------
\* Two bids, of which a snapshot of depth 1 shows only the best, and one ask.
EXTENDS BookFeed

MCBids == {1, 2}
MCAsks == {3}
=============================================================================
