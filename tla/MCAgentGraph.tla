---------------------------- MODULE MCAgentGraph ----------------------------
EXTENDS AgentGraph

(* The five agents of graph.py.                                            *)
MCAgents == {"research", "news", "litigation", "leadership", "financial"}

(* Premium with the default environment: PREMIUM_MODEL_ID falls back to    *)
(* Nova Pro, which is therefore listed twice.                              *)
MCPremiumCascade == <<"nova-pro", "nova-pro", "nova-lite">>

=============================================================================
