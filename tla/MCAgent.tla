-------------------------------- MODULE MCAgent --------------------------------
(* Small instances of AgentRun for TLC.                                        *)
EXTENDS AgentProperties

\* Two steps of one agent may run together.
MCAgentOf == [s \in Steps |-> "developer"]

=============================================================================
