SPECIFICATION AgentSpec
CONSTANTS
    Steps = {1, 2}
    Agents = {"developer"}
    AgentOf <- MCAgentOf
    Modes = {"claude", "claude-sdk", "codex", "codex-sdk"}
    HomeFallback = TRUE
    None = None
    MaxTries = 2
    MaxStarts = 2
    Width = 2
CHECK_DEADLOCK FALSE
INVARIANTS
    SessionsKept
PROPERTIES
    StepsSettle
