-------------------------- MODULE ContextAdapters --------------------------
(***************************************************************************)
(* langchain, langgraph, haystack, astrbot and openhands: the Guard in     *)
(* force is the root's, or the child's inside the run a delegation started *)
(* (a context variable), or the one a graph node or a conversation was     *)
(* given.                                                                  *)
(***************************************************************************)
EXTENDS Framework

(* A mutant: the node of a run that raised is left as it is. *)
EndsRunIfReturned(d, how) ==
  /\ Closes(d, how, "none")
  /\ IF how = "returned" THEN Completes(call[d].child) ELSE UNCHANGED serviceVars
  /\ UNCHANGED registry

(* The sub-agent's run is over, however it ended, and its node with it.     *)
EndsRun(d, how) ==
  /\ Closes(d, how, "none")
  /\ Completes(call[d].child)
  /\ UNCHANGED registry

-----------------------------------------------------------------------------
LangchainChildren == registry = OnlyRoot

(* A tool without a policy is refused, or let through if the deployment     *)
(* says so; either is on the ledger.                                        *)
LangchainGate(d, c) ==
  LET n == InForce(c) IN
  /\ Uses(c)
  /\ CASE c.tool = "unlisted" -> Exempts(d, c, n, "pass") \/ Denies(d, c, n)
       [] c.tool = "broken"   -> Denies(d, c, n)
       [] OTHER               -> Checks(d, c, n, Strict, "running")
  /\ UNCHANGED registry

(* An agent without a declared authority; one the chain refuses.            *)
LangchainGateDelegation(d, c) ==
  LET n == InForce(c) IN
  /\ Hands(c)
  /\ \/ Denies(d, c, n) /\ UNCHANGED registry
     \/ Rejects(d, c) /\ UNCHANGED registry
     \/ /\ c.tool # RootAgent
        /\ Register(n, c.tool)
        /\ Becomes(d, [c EXCEPT !.stage = "running", !.node = n, !.child = Fresh])

LangchainRunSync(d)  == Uses(call[d]) /\ Wrapped(d, {"returned", "raised", "deferred"})
LangchainRunAsync(d) == Uses(call[d]) /\ Wrapped(d, {"returned", "raised", "cancelled", "deferred"})

LangchainWrapToolCall(d)  == Hands(call[d]) /\ \E how \in {"returned", "raised"} : EndsRun(d, how)
LangchainAwrapToolCall(d) ==
  Hands(call[d]) /\ \E how \in {"returned", "raised", "cancelled"} : EndsRun(d, how)

LangchainRevoke(a) == RevokesNamed(a)

LangchainNext ==
  \/ \E d \in NextCall, c \in Nested : LangchainGate(d, c) \/ LangchainGateDelegation(d, c)
  \/ \E d \in Dispatch : \/ LangchainRunSync(d) \/ LangchainRunAsync(d)
                         \/ LangchainWrapToolCall(d) \/ LangchainAwrapToolCall(d)
  \/ \E a \in Staff : LangchainRevoke(a)

-----------------------------------------------------------------------------
LanggraphNodes == registry = OnlyRoot

(* The program delegates as it builds the graph.                            *)
LanggraphAddNode(p, a) == registry[a] = None /\ Register(registry[p], a) /\ UNCHANGED call

(* Asked when the node is called.  The body of a coroutine waits for its    *)
(* await, which may not come.                                               *)
LanggraphAuthorize(d, c) ==
  LET n == registry[c.by] IN
  /\ n # None /\ c.tool \in {"use", "broken"}
  /\ CASE c.tool = "broken" -> Denies(d, c, n)
       [] OTHER             -> \E stage \in {"cleared", "running"} : Checks(d, c, n, Strict, stage)
  /\ UNCHANGED registry

LanggraphAwait(d) ==
  /\ call[d].stage = "cleared"
  /\ \E stage \in {"running", "over"} : Becomes(d, [call[d] EXCEPT !.stage = stage])
  /\ UNCHANGED <<serviceVars, registry>>

LanggraphRun(d)     == Wrapped(d, {"returned", "raised", "cancelled", "deferred"})
LanggraphWrapped(d) == Wrapped(d, {"returned", "raised", "deferred"})
LanggraphRevoke(a)  == RevokesNamed(a)

LanggraphNext ==
  \/ \E p, a \in Staff : LanggraphAddNode(p, a)
  \/ \E d \in NextCall, c \in ByName : LanggraphAuthorize(d, c)
  \/ \E d \in Dispatch : LanggraphAwait(d) \/ LanggraphRun(d) \/ LanggraphWrapped(d)
  \/ \E a \in Staff : LanggraphRevoke(a)

-----------------------------------------------------------------------------
HaystackContext == registry = OnlyRoot

(* Outside every `with authority(...)` there is no Guard to ask.            *)
HaystackAuthorizeV2(d, c) ==
  LET n == InForce(c) IN
  /\ CASE c.tool \in {"unlisted", "broken"} -> Denies(d, c, n)
       [] c.tool \in Agent                  -> Checks(d, c, n, TRUE, "cleared")
       [] OTHER                             -> Checks(d, c, n, TRUE, "running")
  /\ UNCHANGED registry

(* UNGUARDED: a tool of no authority, or a delegation that needs none.      *)
HaystackUnguarded(d, c) ==
  /\ \/ c.within = None /\ Rejects(d, c)
     \/ c.tool = "unlisted" /\ Exempts(d, c, None, "none")
     \/ /\ Hands(c)
        /\ Becomes(d, [c EXCEPT !.stage = "cleared", !.node = InForce(c)])
        /\ UNCHANGED serviceVars
  /\ UNCHANGED registry

(* The refused delegation drops what was pending of an allowed call.        *)
HaystackScope(d) ==
  LET c == call[d] IN
  /\ c.stage = "cleared"
  /\ \/ /\ Register(c.node, c.tool)
        /\ Becomes(d, [c EXCEPT !.stage = "running", !.child = Fresh])
     \/ /\ Becomes(d, [c EXCEPT !.stage = "over", !.entry = "deny"])
        /\ UNCHANGED <<serviceVars, registry>>

HaystackInvoke(d)      == Wrapped(d, {"returned", "raised", "deferred"})
HaystackInvokeAsync(d) == Wrapped(d, {"returned", "raised", "cancelled", "deferred"})

(* The confirmation hook asks, and sees nothing of the body.                *)
HaystackDecide(d, c) ==
  LET n == InForce(c) IN
  /\ CASE Hands(c)                          -> Rejects(d, c)
       [] c.tool \in {"unlisted", "broken"} -> Denies(d, c, n)
       [] OTHER                             -> Checks(d, c, n, FALSE, "running")
  /\ UNCHANGED registry

HaystackRevoke(n) == RevokesNode(n)

HaystackNext ==
  \/ \E d \in NextCall, c \in Nested :
       HaystackAuthorizeV2(d, c) \/ HaystackUnguarded(d, c) \/ HaystackDecide(d, c)
  \/ \E d \in Dispatch : HaystackScope(d) \/ HaystackInvoke(d) \/ HaystackInvokeAsync(d)
  \/ \E n \in Node : HaystackRevoke(n)

-----------------------------------------------------------------------------
(* astrbot: installed over a tool manager that goes on registering tools;   *)
(* the tools it looks up are swept under the guard first.                   *)
AstrbotInit == registry = OnlyRoot /\ mem = [armed |-> FALSE, swept |-> FALSE]

AstrbotInstall   == mem' = [armed |-> TRUE, swept |-> TRUE]
AstrbotUninstall == mem.armed /\ mem' = [armed |-> FALSE, swept |-> FALSE]
AstrbotNewTool   == mem' = [mem EXCEPT !.swept = FALSE]
AstrbotManager ==
  /\ AstrbotInstall \/ AstrbotUninstall \/ AstrbotNewTool
  /\ UNCHANGED <<serviceVars, call, registry>>
AstrbotLookup == mem' = IF mem.armed THEN [mem EXCEPT !.swept = TRUE] ELSE mem

AstrbotGate(d, c) ==
  LET n == InForce(c) IN
  /\ Uses(c) /\ AstrbotLookup
  /\ IF ~mem'.swept THEN Exempts(d, c, None, "none")
     ELSE CASE c.tool = "unlisted" -> Exempts(d, c, n, "pass") \/ Denies(d, c, n)
            [] c.tool = "broken"   -> Denies(d, c, n)
            [] OTHER               -> Checks(d, c, n, Strict, "running")
  /\ UNCHANGED registry

AstrbotGateDelegation(d, c) ==
  LET n == InForce(c) IN
  /\ Hands(c)
  /\ \/ Denies(d, c, n) /\ UNCHANGED registry
     \/ Rejects(d, c) /\ UNCHANGED registry
     \/ /\ c.tool # RootAgent
        /\ Register(n, c.tool)
        /\ Becomes(d, [c EXCEPT !.stage = "running", !.node = n, !.child = Fresh])
  /\ UNCHANGED mem

(* A cancelled body is reported by nobody; one the framework's own check    *)
(* kept from running is reported with a receipt of that refusal.            *)
AstrbotRun(d) ==
  /\ Uses(call[d])
  /\ \E how \in {"returned", "raised", "cancelled"} :
       Ends(d, how, IF how = "cancelled" THEN "none" ELSE how)
  /\ UNCHANGED <<registry, mem>>

AstrbotInnerRefusal(d) ==
  /\ Uses(call[d]) /\ call[d].node # None
  /\ Closes(d, "skipped", "receipt")
  /\ Report(d)
  /\ UNCHANGED <<registry, mem>>

AstrbotExecuteHandoff(d) ==
  /\ Hands(call[d])
  /\ \E how \in {"returned", "raised", "cancelled"} : EndsRun(d, how)
  /\ UNCHANGED mem

AstrbotRevoke(a) == RevokesNamed(a) /\ UNCHANGED mem

AstrbotNext ==
  \/ AstrbotManager
  \/ \E d \in NextCall, c \in Nested : AstrbotGate(d, c) \/ AstrbotGateDelegation(d, c)
  \/ \E d \in Dispatch : AstrbotRun(d) \/ AstrbotInnerRefusal(d) \/ AstrbotExecuteHandoff(d)
  \/ \E a \in Staff : AstrbotRevoke(a)
-----------------------------------------------------------------------------
(* openhands: a sub-agent is started by the task tool, within the call, or  *)
(* spawned by the delegate tool and bound to a conversation of its own.     *)
OpenhandsInit ==
  /\ registry = OnlyRoot
  /\ mem = [made |-> {}, unbound |-> {}, bound |-> [a \in Agent |-> None], refused |-> {},
            spawner |-> None]

OpenhandsConversations ==
  Nested \cup UNION {Asks(a, None) : a \in mem.made \ mem.unbound}

OpenhandsActiveGuard(c) ==
  IF c.within = None /\ mem.bound[c.by] # None THEN mem.bound[c.by] ELSE InForce(c)

(* A mutant: the refused conversation is not remembered as one. *)
OpenhandsRefusedForgotten(c) == c.within # None /\ c.by \in mem.refused

(* A conversation the chain refused a child holds nothing; without this it  *)
(* would fall back on the root's Guard.                                     *)
OpenhandsRefused(c) == c.within = None /\ c.by \in mem.refused

OpenhandsGate(d, c) ==
  LET n == OpenhandsActiveGuard(c) IN
  /\ Uses(c)
  /\ IF OpenhandsRefused(c) THEN Denies(d, c, n)
     ELSE CASE c.tool = "unlisted" -> Exempts(d, c, n, "pass") \/ Denies(d, c, n)
            [] c.tool = "broken"   -> Denies(d, c, n)
            [] OTHER               -> Checks(d, c, n, Strict, "running")
  /\ UNCHANGED <<registry, mem>>

OpenhandsGateDelegation(d, c) ==
  LET n == OpenhandsActiveGuard(c) IN
  /\ Hands(c) /\ UNCHANGED mem
  /\ \/ Denies(d, c, n) /\ UNCHANGED registry
     \/ ~OpenhandsRefused(c) /\ Rejects(d, c) /\ UNCHANGED registry
     \/ /\ ~OpenhandsRefused(c)
        /\ Register(n, c.tool)
        /\ Becomes(d, [c EXCEPT !.stage = "running", !.node = n, !.child = Fresh])

OpenhandsRun(d) ==
  Uses(call[d]) /\ Wrapped(d, {"returned", "raised"}) /\ UNCHANGED mem

(* The child is completed however the sub-agent's run ended. *)
OpenhandsCall(d) ==
  /\ Hands(call[d])
  /\ \E how \in {"returned", "raised"} : EndsRun(d, how)
  /\ UNCHANGED mem

(* The framework makes all the sub-agents first, then each is bound to a    *)
(* child of the spawner's Guard, or marked as refused.  The delegate tool   *)
(* of a refused one is refused like its other tools.                        *)
OpenhandsSpawn(p, S) ==
  /\ p = RootAgent \/ p \in mem.made \ (mem.unbound \cup mem.refused)
  /\ mem.unbound = {} /\ S # {} /\ S \subseteq Staff \ ({RootAgent, p} \cup mem.made)
  /\ mem' = [mem EXCEPT !.made = @ \cup S, !.unbound = S,
                        !.spawner = IF mem.bound[p] # None THEN mem.bound[p] ELSE Root]
  /\ UNCHANGED <<serviceVars, call, registry>>

OpenhandsBind(a) ==
  /\ a \in mem.unbound
  /\ \/ /\ Register(mem.spawner, a)
        /\ mem' = [mem EXCEPT !.unbound = @ \ {a}, !.bound[a] = Fresh]
     \/ /\ mem' = [mem EXCEPT !.unbound = @ \ {a}, !.refused = @ \cup {a}]
        /\ UNCHANGED <<serviceVars, registry>>
  /\ UNCHANGED call

(* Closing the executor completes the children and ends their sub-agents.   *)
OpenhandsClose(a) ==
  /\ a \in mem.made \ mem.unbound
  /\ IF mem.bound[a] # None THEN Completes(mem.bound[a]) ELSE UNCHANGED serviceVars
  /\ mem' = [mem EXCEPT !.made = @ \ {a}, !.bound[a] = None, !.refused = @ \ {a}]
  /\ UNCHANGED <<call, registry>>

OpenhandsRevoke(a) == RevokesNamed(a) /\ UNCHANGED mem

OpenhandsNext ==
  \/ \E d \in NextCall, c \in OpenhandsConversations :
       OpenhandsGate(d, c) \/ OpenhandsGateDelegation(d, c)
  \/ \E d \in Dispatch : OpenhandsRun(d) \/ OpenhandsCall(d)
  \/ \E p \in Staff, S \in SUBSET Staff : OpenhandsSpawn(p, S)
  \/ \E a \in Staff : OpenhandsBind(a) \/ OpenhandsClose(a) \/ OpenhandsRevoke(a)
=============================================================================
