------------------------------ MODULE Adapters ------------------------------
(***************************************************************************)
(* The framework adapters, one at a time over the same guards, and what    *)
(* holds of all of them.                                                   *)
(***************************************************************************)
EXTENDS HandoffAdapters, ContextAdapters, BoundToolAdapters, HookAdapters, ExampleAdapters

NoMem == mem = <<>>

AdaptersInit ==
  /\ FrameworkInit
  /\ adapter \in Adapters
  /\ \/ adapter = "ag2"             /\ Ag2Registry /\ NoMem
     \/ adapter = "agent_framework" /\ AgentFrameworkRegistry /\ NoMem
     \/ adapter = "agno"            /\ AgnoRegistry
     \/ adapter = "astrbot"         /\ AstrbotInit
     \/ adapter = "autogen"         /\ AutogenRegistry /\ NoMem
     \/ adapter = "camel"           /\ CamelRefs
     \/ adapter = "claude_sdk"      /\ ClaudeRegistry
     \/ adapter = "commerce"        /\ CommerceExecutors
     \/ adapter = "crewai"          /\ CrewaiBridge
     \/ adapter = "google_adk"      /\ AdkPlugin
     \/ adapter = "haystack"        /\ HaystackContext /\ NoMem
     \/ adapter = "langchain"       /\ LangchainChildren /\ NoMem
     \/ adapter = "langflow"        /\ LangflowGuards /\ NoMem
     \/ adapter = "langgraph"       /\ LanggraphNodes /\ NoMem
     \/ adapter = "llama_index"     /\ LlamaGuards
     \/ adapter = "omnigent"        /\ OmnigentChain /\ NoMem
     \/ adapter = "openai_agents"   /\ OpenaiRegistry
     \/ adapter = "openhands"       /\ OpenhandsInit
     \/ adapter = "pydantic_ai"     /\ PydanticDeps /\ NoMem
     \/ adapter = "semantic_kernel" /\ SkChain /\ NoMem
     \/ adapter = "smolagents"      /\ SmolagentsRefs /\ NoMem
     \/ adapter = "strands"         /\ StrandsBindings

AdaptersNext ==
  /\ UNCHANGED adapter
  /\ \/ adapter = "ag2"             /\ Ag2Next /\ KeepsMem
     \/ adapter = "agent_framework" /\ AgentFrameworkNext /\ KeepsMem
     \/ adapter = "agno"            /\ AgnoNext
     \/ adapter = "astrbot"         /\ AstrbotNext
     \/ adapter = "autogen"         /\ AutogenNext /\ KeepsMem
     \/ adapter = "camel"           /\ CamelNext
     \/ adapter = "claude_sdk"      /\ ClaudeNext
     \/ adapter = "commerce"        /\ CommerceNext
     \/ adapter = "crewai"          /\ CrewaiNext
     \/ adapter = "google_adk"      /\ AdkNext
     \/ adapter = "haystack"        /\ HaystackNext /\ KeepsMem
     \/ adapter = "langchain"       /\ LangchainNext /\ KeepsMem
     \/ adapter = "langflow"        /\ LangflowNext /\ KeepsMem
     \/ adapter = "langgraph"       /\ LanggraphNext /\ KeepsMem
     \/ adapter = "llama_index"     /\ LlamaNext
     \/ adapter = "omnigent"        /\ OmnigentNext /\ KeepsMem
     \/ adapter = "openai_agents"   /\ OpenaiNext
     \/ adapter = "openhands"       /\ OpenhandsNext
     \/ adapter = "pydantic_ai"     /\ PydanticNext /\ KeepsMem
     \/ adapter = "semantic_kernel" /\ SemanticKernelNext /\ KeepsMem
     \/ adapter = "smolagents"      /\ SmolagentsNext /\ KeepsMem
     \/ adapter = "strands"         /\ StrandsNext

AdaptersSpec == AdaptersInit /\ [][AdaptersNext]_vars

-----------------------------------------------------------------------------
BodyRan(d) == IsRunning(d) \/ call[d].body \in {"returned", "raised", "deferred"}

(* Calls that reach no gate: astrbot's, of a tool registered after its last *)
(* lookup of the tools; commerce's, of an executor nothing guards, and those *)
(* a body makes that is marked as authorized.                               *)
Ungated(d) == adapter \in {"astrbot", "commerce"} /\ call[d].node = None

(* No body of a guarded tool runs without an allow, and the allow is one of *)
(* the Guard its caller was given: nobody acts on the root's authority, or  *)
(* another agent's, because its own is missing, refused or out of date.     *)
BodiesAreAuthorized ==
  \A d \in Dispatch : BodyRan(d) /\ call[d].tool \in {"use", "broken"} /\ ~Ungated(d) =>
    /\ <<d, call[d].node, "use">> \in allowed
    /\ who[call[d].node] = call[d].by

(* The child a delegation mints hangs below a node of the agent that asked, *)
(* whatever was delegated to it, or by it, in between.  Not so of three:    *)
(* openai_agents and omnigent return the Guard an agent has, and claude_sdk, *)
(* not told who asked, may take another request for the same type of agent. *)
DelegatedByCaller ==
  adapter \notin {"openai_agents", "omnigent", "claude_sdk"} =>
    \A d \in Dispatch : call[d].child # None =>
      \E p \in granted :
        who[p] = call[d].by /\ line[call[d].child] = line[p] \cup {call[d].child}

SeenOf(d) ==
  CASE call[d].body = "skipped"             -> "receipt"
    [] call[d].body \in {"none", "cancelled"} -> "abandoned"
    [] OTHER                                -> call[d].body

(* A call that was given an arguments' object after a refused one had it.   *)
SharesWithRefused(d) ==
  adapter = "crewai" /\ \E e \in mem.denied : e < d /\ mem.key[e] = mem.key[d]

(* What the ledger says of a body is what became of it.  Not so of the      *)
(* calls of crewai that may be taken for a refused one whose hook is late.  *)
OutcomesAreTrue ==
  \A d \in Dispatch :
    call[d].outcome # "none" /\ ~SharesWithRefused(d) => call[d].outcome = SeenOf(d)

RefusedAfterAllow(d) == Hands(call[d]) /\ call[d].entry # "none" /\ call[d].body = "none"

(* A delegation that is refused after its tool was allowed is over, and is  *)
(* not left open on the node that asked.                                    *)
RefusalsAreClosed ==
  \A d \in Dispatch : call[d].stage = "over" /\ RefusedAfterAllow(d) => ~Promised(d)

(* What the adapters say, or RefusalsAreClosed shows, is never reported.    *)
LeftOpen(d) ==
  \/ RefusedAfterAllow(d) /\ adapter \in {"ag2", "agent_framework", "autogen", "haystack"}
  \/ call[d].body = "cancelled" /\ adapter \in {"astrbot", "google_adk"}
  \/ call[d].body = "none" /\ adapter \in {"langgraph", "claude_sdk"}
  \/ adapter = "crewai" /\ d \in mem.collided
  \/ adapter = "strands" /\ mem.intervention

(* A call that promised an outcome has one when it is over: whatever the    *)
(* body does, and whichever hook or wrapper sees it, nothing is left that   *)
(* keeps complete from closing the node.                                    *)
ClosedOnceOver ==
  \A d \in Dispatch : call[d].stage = "over" /\ ~LeftOpen(d) => ~Promised(d)

(* Where the sub-agent runs inside the delegation, its node is finished     *)
(* when that returns, raises or is cancelled, but for calls still open.     *)
ChildrenAreClosed ==
  adapter \in {"langchain", "astrbot", "openhands"} =>
    \A d \in Dispatch : call[d].stage = "over" /\ call[d].child # None =>
      call[d].child \in finished \/ OpenOn(call[d].child) # {}

Revoked(a) ==
  IF adapter \in {"openai_agents", "strands"} THEN a \in mem.revoked
  ELSE adapter = "google_adk" /\ registry[a] \in killed

(* An agent revoked by name stays so: no later delegation, hand-off or turn *)
(* gives it a Guard that allows anything.                                   *)
RevokedStaysRevoked ==
  [][\A a \in Agent : Revoked(a) =>
       Revoked(a)' /\ \A t \in allowed' \ allowed : who[t[2]] # a]_vars
=============================================================================
