---------------------------- MODULE MCAgentServe ----------------------------
EXTENDS AgentServe

MCSurfaces == <<"public", "internal">>
=============================================================================
