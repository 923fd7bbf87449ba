--------------------------- MODULE MCEventStream ---------------------------
EXTENDS EventStream

FirstSecret == {<<1, 1>>}
=============================================================================
