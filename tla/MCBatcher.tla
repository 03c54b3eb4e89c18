------------------------------ MODULE MCBatcher ------------------------------
\* Batcher with small sets of requests, for TLC.
EXTENDS BatcherRefinement, TLC

CONSTANTS r1, r2

NoRequests    == {}
OneRequest    == {r1}
TwoRequests   == {r1, r2}

=============================================================================
