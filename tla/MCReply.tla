------------------------------ MODULE MCReply ------------------------------
EXTENDS ReplyDraft, TLC
=============================================================================
