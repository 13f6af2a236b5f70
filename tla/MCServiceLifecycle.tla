------------------------- MODULE MCServiceLifecycle -------------------------
EXTENDS ServiceLifecycle

CONSTANTS c1, c2

TwoCalls == {c1, c2}
=============================================================================
