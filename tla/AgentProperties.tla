--------------------------- MODULE AgentProperties ---------------------------
\* What the agents of one run and the records kept of them must satisfy.
EXTENDS AgentRun

\* RuntimeSessionStore: whatever steps end together, the file holds one record
\* for every run, agent, step and attempt recorded, the newest.  A resume reads
\* the session to continue from it.
SessionsKept ==
  /\ ToSet(sessions) = recorded
  /\ \A i, j \in DOMAIN sessions : SameKey(sessions[i], sessions[j]) => i = j

\* Every step that runs comes to an outcome, whatever its agent does, unless
\* something the agent has started holds the pipes of an ended process.
StepsSettle == \A s \in Steps : Active(s) ~> (~Active(s) \/ exec[s].held)

=============================================================================
