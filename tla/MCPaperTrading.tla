----------------------------- MODULE MCPaperTrading -----------------------------
\* The instance of PaperTrading.cfg needs no definitions of its own.
EXTENDS PaperTrading
=============================================================================
