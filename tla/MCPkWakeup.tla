------------------------------- MODULE MCPkWakeup -------------------------------
EXTENDS PkWakeup
MCAsyncs == <<"quit", "tick", "interrupt">>
=============================================================================
