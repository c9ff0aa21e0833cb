----------------------------- MODULE MCAsyncSink -----------------------------
\* Two callers of Emit and two of Close.
EXTENDS AsyncSink
CONSTANTS e1, e2, k1, k2

MCEmitters == {e1, e2}
MCClosers == {k1, k2}
=============================================================================
