---------------------------- MODULE MCContentReview ----------------------------
EXTENDS ContentReview
CONSTANTS letter, invoice, ai, edited, blank, none, asked
MCClass == {letter, invoice}
=============================================================================
