------------------------------- MODULE MCCalls -------------------------------
EXTENDS CallsProperties

CONSTANTS a, b

\* A single provider, and two of them in either order of preference.
MCOrders == {<<a>>, <<b, a>>}

=============================================================================
