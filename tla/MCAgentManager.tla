--------------------------- MODULE MCAgentManager ---------------------------
EXTENDS AgentManager
=============================================================================
