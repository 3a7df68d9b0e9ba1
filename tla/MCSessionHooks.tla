---------------------------- MODULE MCSessionHooks ----------------------------
EXTENDS SessionHooks

CONSTANTS h1, h2, h3, clean, d1, d2, c1, c2

MCHooks    == {h1, h2, h3}
MCTwoHooks == {h1, h2}
MCDiffs    == {clean, d1, d2}
MCTwoDiffs == {clean, d1}
MCBlocking == {d1, d2}
MCTwoBlocking == {d1}
MCCommits  == {c1, c2}
=============================================================================
