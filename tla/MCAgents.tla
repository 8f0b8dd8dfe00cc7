------------------------------ MODULE MCAgents ------------------------------
EXTENDS Agents
=============================================================================
