------------------------- MODULE MCServiceLifecycle -------------------------
\* One or two descendants and one stranger on each platform.
EXTENDS ServiceLifecycle
=============================================================================
