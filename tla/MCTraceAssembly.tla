-------------------------- MODULE MCTraceAssembly --------------------------
EXTENDS TraceAssembly, MCTraceRecords
=============================================================================
