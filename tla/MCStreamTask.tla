---------------------------- MODULE MCStreamTask ----------------------------
\* Small inputs for StreamTask: two inputs of different lengths, of which one may
\* be empty.
EXTENDS StreamTask

OneLonger    == {<<1, 2>>, <<0, 2>>}
FirstIsEmpty == {<<0, 2>>}
=============================================================================
