------------------------------ MODULE MCHistory ------------------------------
EXTENDS HistoryProperties
=============================================================================
