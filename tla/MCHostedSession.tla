-------------------------- MODULE MCHostedSession --------------------------
\* Two scenarios of the catalogue on each adapter.
EXTENDS HostedSession
=============================================================================
