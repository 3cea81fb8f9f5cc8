---- MODULE MCAgentSession ----
EXTENDS AgentSession
====
