----------------------------- MODULE MCFpmLink ------------------------------
EXTENDS FpmLink

CONSTANTS main, deletion

MCThreads == {main, deletion}

\* The confirmation code NOFINGER, and the reply to a search: page 5, score 60.
MCReplies == {<<2>>, <<0, 0, 5, 0, 60>>}
=============================================================================
