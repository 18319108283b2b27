-------------------------- MODULE RegistryAdapters --------------------------
(***************************************************************************)
(* ag2, agent_framework and autogen: agents live long and are known by     *)
(* name, and a registry holds the Guard of each.  One wrapper around the   *)
(* tool asks, delegates if the tool is a delegation, runs the body and     *)
(* reports.  The three share their gate and their registry, line by line.  *)
(***************************************************************************)
EXTENDS Framework

(* No Guard for the name, no policy for the tool, a context callable that   *)
(* raises, and only then the Guard.                                         *)
NamedGate(d, c) ==
  LET n == registry[c.by] IN
  /\ \/ n = None /\ Rejects(d, c)
     \/ n # None /\ c.tool \in {"unlisted", "broken"} /\ Denies(d, c, n)
     \/ n # None /\ c.tool \in Agent /\ Checks(d, c, n, Strict, "cleared")
     \/ n # None /\ c.tool = "use" /\ Checks(d, c, n, Strict, "running")
  /\ UNCHANGED registry

(* A mutant: the child hangs below the root, whoever asked. *)
SpawnUnderRoot(d) ==
  LET c == call[d] IN
  /\ c.stage = "cleared"
  /\ \/ /\ Register(Root, c.tool)
        /\ Becomes(d, [c EXCEPT !.stage = "running", !.child = Fresh])
     \/ Rejects(d, c) /\ UNCHANGED registry

(* The tool was allowed first; when the chain refuses the child, the call   *)
(* is refused too and nobody reports it.                                    *)
SpawnAllowed(d) ==
  LET c == call[d] IN
  /\ c.stage = "cleared"
  /\ \/ /\ Register(registry[c.by], c.tool)
        /\ Becomes(d, [c EXCEPT !.stage = "running", !.child = Fresh])
     \/ Rejects(d, c) /\ UNCHANGED registry

-----------------------------------------------------------------------------
Ag2Registry == registry = OnlyRoot
Ag2Authorize(d, c) == NamedGate(d, c)
Ag2Delegate(d) == SpawnAllowed(d)
Ag2Run(d) == Wrapped(d, {"returned", "raised", "cancelled", "deferred"})
Ag2Revoke(a) == RevokesNamed(a)

Ag2Next ==
  \/ \E d \in NextCall, c \in ByName : Ag2Authorize(d, c)
  \/ \E d \in Dispatch : Ag2Delegate(d) \/ Ag2Run(d)
  \/ \E a \in Staff : Ag2Revoke(a)

-----------------------------------------------------------------------------
AgentFrameworkRegistry == registry = OnlyRoot
AgentFrameworkAuthorize(d, c) == NamedGate(d, c)
AgentFrameworkDelegate(d) == SpawnAllowed(d)
AgentFrameworkProcess(d) == Wrapped(d, {"returned", "raised", "cancelled", "deferred"})
AgentFrameworkRevoke(a) == RevokesNamed(a)

AgentFrameworkNext ==
  \/ \E d \in NextCall, c \in ByName : AgentFrameworkAuthorize(d, c)
  \/ \E d \in Dispatch : AgentFrameworkDelegate(d) \/ AgentFrameworkProcess(d)
  \/ \E a \in Staff : AgentFrameworkRevoke(a)

-----------------------------------------------------------------------------
AutogenRegistry == registry = OnlyRoot
AutogenAuthorize(d, c) == NamedGate(d, c)
AutogenDelegate(d) == SpawnAllowed(d)
AutogenCallTool(d) == Wrapped(d, {"returned", "raised", "cancelled"})
(* A stream that is closed early was cancelled too. *)
AutogenCallToolStream(d) == Wrapped(d, {"returned", "raised", "cancelled"})
(* Swarm's hand-off is no tool of the workbench: it delegates unasked.      *)
AutogenHandoff(s, a) == s # a /\ Register(registry[s], a) /\ UNCHANGED call
AutogenRevoke(a) == RevokesNamed(a)

AutogenNext ==
  \/ \E d \in NextCall, c \in ByName : AutogenAuthorize(d, c)
  \/ \E d \in Dispatch : AutogenDelegate(d) \/ AutogenCallTool(d) \/ AutogenCallToolStream(d)
  \/ \E s, a \in Staff : AutogenHandoff(s, a)
  \/ \E a \in Staff : AutogenRevoke(a)
=============================================================================
