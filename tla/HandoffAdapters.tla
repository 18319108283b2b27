-------------------------- MODULE HandoffAdapters --------------------------
(***************************************************************************)
(* openai_agents, agno, semantic_kernel and llama_index: a hand-off or a   *)
(* delegation tool is guarded by a hook of its own, apart from the wrapper *)
(* of the other tools.                                                     *)
(***************************************************************************)
EXTENDS RegistryAdapters

KeepsMem == UNCHANGED mem

-----------------------------------------------------------------------------
(* openai_agents: an agent that has a Guard keeps it, whoever delegates to  *)
(* it next, and an agent revoked by name is never delegated to again.       *)
OpenaiRegistry == registry = OnlyRoot /\ mem = [revoked |-> {}]

(* Arguments that do not parse are refused before the Guard is asked.       *)
OpenaiInvoke(d, c) ==
  LET n == registry[c.by] IN
  /\ c.tool \in {"use", "broken"}
  /\ \/ Rejects(d, c)
     \/ n # None /\ c.tool = "broken" /\ Denies(d, c, n)
     \/ n # None /\ c.tool = "use" /\ Checks(d, c, n, Strict, "running")
  /\ UNCHANGED registry /\ KeepsMem

(* The same of a tool guarded with no registry, or on a v1 chain: an input  *)
(* guardrail asks and promises nothing.  Another guardrail after it may     *)
(* still refuse the call.                                                   *)
OpenaiAuthorizeV1(d, c) ==
  LET n == registry[c.by] IN
  /\ c.tool \in {"use", "broken"}
  /\ \/ Rejects(d, c)
     \/ n # None /\ c.tool = "broken" /\ Denies(d, c, n)
     \/ n # None /\ c.tool = "use" /\ Checks(d, c, n, FALSE, "running")
  /\ UNCHANGED registry /\ KeepsMem

OpenaiGuardrailRefuses(d) ==
  /\ ~Promised(d) /\ Ends(d, "none", "none")
  /\ UNCHANGED registry /\ KeepsMem

(* An agent tool may have a scope of its own to check first. *)
OpenaiAgentTool(d, c) ==
  LET n == registry[c.by] IN
  /\ Hands(c)
  /\ \/ /\ Becomes(d, [c EXCEPT !.stage = "cleared", !.node = n])
        /\ UNCHANGED serviceVars
     \/ n = None /\ Rejects(d, c)
     \/ n # None /\ Checks(d, c, n, FALSE, "cleared")
  /\ UNCHANGED registry /\ KeepsMem

OpenaiMayReuse(a) == a \notin mem.revoked /\ registry[a] # None /\ a # RootAgent

OpenaiDelegate(p, a) ==
  /\ a \notin mem.revoked
  /\ ~OpenaiMayReuse(a)
  /\ Register(registry[p], a)
  /\ KeepsMem

OpenaiStartAgent(d) ==
  LET c == call[d]
      Runs(n) == Becomes(d, [c EXCEPT !.stage = "running", !.child = n])
  IN
  /\ c.stage = "cleared"
  /\ \/ OpenaiDelegate(c.by, c.tool) /\ Runs(Fresh)
     \/ /\ OpenaiMayReuse(c.tool)
        /\ Runs(registry[c.tool])
        /\ UNCHANGED <<serviceVars, registry, mem>>
     \/ /\ ~OpenaiMayReuse(c.tool)
        /\ Rejects(d, c)
        /\ UNCHANGED <<registry, mem>>

OpenaiBody(d) == Wrapped(d, {"returned", "raised", "cancelled", "deferred"}) /\ KeepsMem

(* A hand-off cannot be vetoed: refused, the child is left as it is. *)
OpenaiHandoff(p, a) == p # a /\ OpenaiDelegate(p, a) /\ UNCHANGED call

OpenaiRevoke(a) ==
  /\ mem' = [mem EXCEPT !.revoked = @ \cup {a}]
  /\ IF registry[a] = None THEN UNCHANGED serviceVars ELSE Revokes(registry[a])
  /\ UNCHANGED <<call, registry>>

OpenaiNext ==
  \/ \E d \in NextCall, c \in ByName :
       OpenaiInvoke(d, c) \/ OpenaiAuthorizeV1(d, c) \/ OpenaiAgentTool(d, c)
  \/ \E d \in Dispatch : OpenaiStartAgent(d) \/ OpenaiBody(d) \/ OpenaiGuardrailRefuses(d)
  \/ \E p, a \in Staff : OpenaiHandoff(p, a)
  \/ \E a \in Staff : OpenaiRevoke(a)

-----------------------------------------------------------------------------
(* agno: the delegation hook mints a Guard for every member a task goes to, *)
(* one after the other.                                                     *)
AgnoRegistry == registry = OnlyRoot /\ mem = [targets |-> [d \in Dispatch |-> {}]]

AgnoAuthorize(d, c) == Uses(c) /\ NamedGate(d, c) /\ KeepsMem

AgnoHook(d)  == Wrapped(d, {"returned", "raised", "deferred"}) /\ KeepsMem
AgnoAsync(d) == Wrapped(d, {"returned", "raised", "cancelled", "deferred"}) /\ KeepsMem

(* To one member, or to all of them. *)
AgnoDelegation(d, c) ==
  LET n == registry[c.by] IN
  /\ Hands(c)
  /\ \/ n = None /\ Rejects(d, c) /\ KeepsMem
     \/ /\ n # None
        /\ Becomes(d, [c EXCEPT !.stage = "cleared", !.node = n])
        /\ \E T \in {{c.tool}, Staff \ {c.by}} : mem' = [mem EXCEPT !.targets[d] = T]
        /\ UNCHANGED serviceVars
  /\ UNCHANGED registry

(* A member without a Grant, or one the chain refuses, ends the call; the   *)
(* members before it keep their Guards.                                     *)
AgnoMint(d) ==
  LET c == call[d] IN
  /\ c.stage = "cleared"
  /\ \/ \E a \in mem.targets[d] :
          /\ Register(c.node, a)
          /\ Becomes(d, [c EXCEPT !.child = Fresh])
          /\ mem' = [mem EXCEPT !.targets[d] = @ \ {a}]
     \/ mem.targets[d] # {} /\ Rejects(d, c) /\ UNCHANGED <<registry, mem>>
     \/ /\ mem.targets[d] = {}
        /\ Becomes(d, [c EXCEPT !.stage = "running"])
        /\ UNCHANGED <<serviceVars, registry, mem>>

AgnoRevoke(n) == RevokesNode(n) /\ KeepsMem

AgnoNext ==
  \/ \E d \in NextCall, c \in ByName : AgnoAuthorize(d, c) \/ AgnoDelegation(d, c)
  \/ \E d \in Dispatch : AgnoMint(d) \/ AgnoHook(d) \/ AgnoAsync(d)
  \/ \E n \in Node : AgnoRevoke(n)

-----------------------------------------------------------------------------
(* semantic_kernel: what no Guard of the agent can record is recorded on    *)
(* the root.                                                                *)
SkChain == registry = OnlyRoot
SkRecordRefusal(d, c) == Denies(d, c, Root)
SkDelegate(s, a) == Register(registry[s], a)

SkToolGate(d, c) ==
  LET n == registry[c.by] IN
  /\ \/ c.tool = "unlisted" /\ (SkRecordRefusal(d, c) \/ Exempts(d, c, None, "none"))
     \/ c.tool \in {"use", "broken"} /\ n = None /\ SkRecordRefusal(d, c)
     \/ c.tool = "broken" /\ n # None /\ Denies(d, c, n)
     \/ c.tool = "use" /\ n # None /\ Checks(d, c, n, Strict, "running")
  /\ UNCHANGED registry

SkDelegationGate(d, c) ==
  /\ Hands(c)
  /\ \/ SkRecordRefusal(d, c) /\ UNCHANGED registry
     \/ Rejects(d, c) /\ UNCHANGED registry
     \/ /\ SkDelegate(c.by, c.tool)
        /\ Becomes(d, [c EXCEPT !.stage = "running", !.node = registry[c.by], !.child = Fresh])

SkNext(d) == Wrapped(d, {"returned", "raised", "cancelled", "deferred"})
SkRevoke(a) == RevokesNamed(a)

SemanticKernelNext ==
  \/ \E d \in NextCall, c \in ByName : SkToolGate(d, c) \/ SkDelegationGate(d, c)
  \/ \E d \in Dispatch : SkNext(d)
  \/ \E a \in Staff : SkRevoke(a)

-----------------------------------------------------------------------------
(* llama_index: one agent at a time has the run.  A hand-off is the         *)
(* framework's first, and delegates only if the route is still its own.     *)
LlamaGuards == registry = OnlyRoot /\ mem = [current |-> RootAgent, next |-> None]

LlamaGuarded(d, c) ==
  /\ c.by = mem.current /\ c.tool \in {"use", "broken"}
  /\ NamedGate(d, c) /\ KeepsMem

LlamaBody(d) ==
  /\ Uses(call[d])
  /\ Wrapped(d, {"returned", "raised", "cancelled", "deferred"}) /\ KeepsMem

(* Sender and parent are read before the framework's hand-off, which may    *)
(* refuse the route, and other hand-offs of the turn may follow it.         *)
LlamaHandoff(d, c) ==
  /\ Hands(c) /\ c.by = mem.current
  /\ Becomes(d, [c EXCEPT !.stage = "cleared", !.node = registry[c.by]])
  /\ mem' \in {mem, [mem EXCEPT !.next = c.tool]}
  /\ UNCHANGED <<serviceVars, registry>>

LlamaHandedOff(d) ==
  LET c == call[d] IN
  /\ c.stage = "cleared"
  /\ IF mem.next # c.tool
     THEN Rejects(d, c) /\ UNCHANGED <<registry, mem>>
     ELSE \/ /\ Register(c.node, c.tool)
             /\ Becomes(d, [c EXCEPT !.stage = "over", !.child = Fresh])
             /\ KeepsMem
          \/ /\ Rejects(d, c)
             /\ mem' = [mem EXCEPT !.next = None]
             /\ UNCHANGED registry

(* The framework's own: the next agent's turn begins when the tools of this *)
(* one are done.                                                            *)
LlamaTurn ==
  /\ mem.next # None
  /\ \A d \in Dispatch : call[d].stage \in {"idle", "over"}
  /\ mem' = [current |-> mem.next, next |-> None]
  /\ UNCHANGED <<serviceVars, call, registry>>

LlamaRevoke(n) == RevokesNode(n) /\ KeepsMem

LlamaNext ==
  \/ \E d \in NextCall, c \in ByName : LlamaGuarded(d, c) \/ LlamaHandoff(d, c)
  \/ \E d \in Dispatch : LlamaHandedOff(d) \/ LlamaBody(d)
  \/ LlamaTurn
  \/ \E n \in Node : LlamaRevoke(n)
=============================================================================
