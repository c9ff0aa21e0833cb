---------------------------- MODULE MCKrakenFeed ----------------------------
\* Bids at 9.9, 10.0 and 10.1, of which Kraken shows the best two, an ask at 10.2.
EXTENDS KrakenFeed

MCBids == {<<9, Point, 9>>, <<1, 0, Point, 0>>, <<1, 0, Point, 1>>}
MCAsks == {<<1, 0, Point, 2>>}

\* No book yet, or one that the best bid will push a level out of.
MCStarts == {Empty, [bids |-> MCBids \ {<<1, 0, Point, 1>>}, asks |-> MCAsks]}
=============================================================================
