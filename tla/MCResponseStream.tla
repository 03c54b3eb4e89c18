--------------------------- MODULE MCResponseStream ---------------------------
\* ResponseStream with a few tokens, for TLC.
EXTENDS ResponseStream

\* A character in two tokens, the second of which also closes a thought; the
\* second alone; the beginning of a character alone; and the marker of a call.
SomePieces == {<<"l">>, <<"c", "k">>, <<"m">>}
TextPieces == {<<"a">>, <<"l">>, <<"c", "a">>}
OnePiece   == {<<"a">>}
=============================================================================
