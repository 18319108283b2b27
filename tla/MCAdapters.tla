---------------------------- MODULE MCAdapters ----------------------------
(***************************************************************************)
(* Every adapter with a manager and an agent it delegates to.  Three calls *)
(* where one can be made within another or take over another's slot, a     *)
(* fourth node where hooks and hand-offs delegate more than once, and for  *)
(* google_adk, whose turns replace nodes all the way up, a third agent.    *)
(***************************************************************************)
EXTENDS Adapters, TLC

CONSTANTS boss, clerk, aide

MCAgent    == {boss, clerk, aide}
MCAct      == {"use", "hand"}
MCNode     == 0 .. 3
MCDispatch == 1 .. 3
MCDeclared == [a \in MCAgent |-> MCAct]

MCNested  == {"ag2", "crewai", "langchain", "langgraph", "llama_index"}
MCHandoff == {"agent_framework", "agno", "astrbot", "claude_sdk", "haystack", "openai_agents"}
MCBound   == {"autogen", "camel", "commerce", "langflow", "omnigent", "openhands", "pydantic_ai",
              "semantic_kernel", "smolagents", "strands"}
MCAdapters == MCNested \cup MCHandoff \cup MCBound \cup {"google_adk"}

MCBounds ==
  [x \in MCNested  |-> [calls |-> 3, nodes |-> 3, staff |-> {boss, clerk}]] @@
  [x \in MCHandoff |-> [calls |-> 2, nodes |-> 4, staff |-> {boss, clerk}]] @@
  [x \in MCBound   |-> [calls |-> 2, nodes |-> 3, staff |-> {boss, clerk}]] @@
  "google_adk" :> [calls |-> 1, nodes |-> 4, staff |-> {boss, clerk, aide}]
=============================================================================
