------------------------------ MODULE MCBreaker ------------------------------
EXTENDS BreakerProperties
=============================================================================
