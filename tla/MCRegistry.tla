------------------------------ MODULE MCRegistry ------------------------------
EXTENDS RegistryProperties

\* Lists of one provider and of none, installed over one of two; 0 slots asked
\* for means the default.
MCConfigs == {<<3>>, <<>>}
MCInitConfig == <<1, 0>>
=============================================================================
