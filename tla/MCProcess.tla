----------------------------- MODULE MCProcess -----------------------------
EXTENDS Process

MCOtherPins == {9}
=============================================================================
