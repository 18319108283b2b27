------------------------- MODULE BoundToolAdapters -------------------------
(***************************************************************************)
(* camel, smolagents and pydantic_ai: a tool is built around a reference   *)
(* to a Guard, which a delegation sets before the sub-agent runs, or finds *)
(* the Guard in what the run carries along.                                *)
(***************************************************************************)
EXTENDS Framework

(* A manager hands on for itself: its sub-agents do not have the toolkit.   *)
FromRoot(c) == c.within = None /\ c.by = RootAgent

-----------------------------------------------------------------------------
(* camel: every sub-agent session has a GuardRef of its own, named by the   *)
(* delegation that made it; its tools read it at each call.                 *)
CamelRefs ==
  /\ registry = OnlyRoot
  /\ mem = [pending |-> [a \in Agent |-> None], ref |-> [d \in Dispatch |-> None],
            session |-> [d \in Dispatch |-> None], background |-> {}]

CamelResolve(c) == IF c.within = None THEN Root ELSE mem.ref[mem.session[c.within]]

CamelAuthorize(d, c) ==
  LET n == CamelResolve(c) IN
  /\ c.tool \in {"use", "broken"}
  /\ \/ c.within = None /\ Rejects(d, c)
     \/ c.tool = "broken" /\ Denies(d, c, n)
     \/ c.tool = "use" /\ Checks(d, c, n, Strict, "running")
  /\ UNCHANGED <<registry, mem>>

CamelCall(d)      == Uses(call[d]) /\ Wrapped(d, {"returned", "raised", "deferred"}) /\ UNCHANGED mem
CamelAsyncCall(d) ==
  /\ Uses(call[d])
  /\ Wrapped(d, {"returned", "raised", "cancelled", "deferred"}) /\ UNCHANGED mem

(* A toolkit may have a scope of its own to check first. *)
CamelEnforce(d, c) ==
  /\ Hands(c) /\ FromRoot(c)
  /\ \/ Checks(d, c, Root, FALSE, "cleared")
     \/ Becomes(d, [c EXCEPT !.stage = "cleared", !.node = Root]) /\ UNCHANGED serviceVars
  /\ UNCHANGED <<registry, mem>>

(* For a new session the child waits in the toolkit's one pending           *)
(* reference; for one that is resumed its own reference moves on.           *)
CamelMint(d) ==
  LET c == call[d] IN
  /\ c.stage = "cleared" /\ c.child = None
  /\ UNCHANGED registry
  /\ \/ Rejects(d, c) /\ UNCHANGED mem
     \/ /\ Mints(Root, c.tool)
        /\ Becomes(d, [c EXCEPT !.child = Fresh])
        /\ \/ mem' = [mem EXCEPT !.pending[c.tool] = d, !.ref[d] = Fresh]
           \/ \E e \in Dispatch :
                /\ mem.session[e] # None /\ call[e].tool = c.tool
                /\ mem' = [mem EXCEPT !.ref[mem.session[e]] = Fresh,
                                      !.session[d] = mem.session[e]]

(* CAMEL builds the sub-agent around whatever is pending by then.           *)
CamelCreateSubagent(d) ==
  LET c == call[d]
      s == IF mem.session[d] # None THEN mem.session[d] ELSE mem.pending[c.tool]
  IN
  /\ c.stage = "cleared" /\ c.child # None
  /\ IF s = None
     THEN Rejects(d, c) /\ UNCHANGED mem
     ELSE /\ Becomes(d, [c EXCEPT !.stage = "running"])
          /\ mem' = [mem EXCEPT !.session[d] = s]
          /\ UNCHANGED serviceVars
  /\ UNCHANGED registry

(* agent_run_subagent returns, with the sub-agent or, not waiting, before;  *)
(* either way nothing is pending any more.                                  *)
CamelRunSubagent(d) ==
  LET dropped == [mem EXCEPT !.pending[call[d].tool] = None] IN
  /\ IsRunning(d) /\ Hands(call[d]) /\ d \notin mem.background
  /\ \/ /\ mem' = [dropped EXCEPT !.background = @ \cup {d}]
        /\ UNCHANGED <<serviceVars, call>>
     \/ /\ mem' = dropped
        /\ \E how \in {"returned", "raised"} : Ends(d, how, "none")
  /\ UNCHANGED registry

CamelBackgroundEnds(d) ==
  /\ d \in mem.background
  /\ Ends(d, "returned", "none") /\ UNCHANGED <<registry, mem>>

CamelRevoke(n) == RevokesNode(n) /\ UNCHANGED mem

CamelNext ==
  \/ \E d \in NextCall, c \in Nested : CamelAuthorize(d, c) \/ CamelEnforce(d, c)
  \/ \E d \in Dispatch : \/ CamelCall(d) \/ CamelAsyncCall(d)
                         \/ CamelMint(d) \/ CamelCreateSubagent(d)
                         \/ CamelRunSubagent(d) \/ CamelBackgroundEnds(d)
  \/ \E n \in Node : CamelRevoke(n)

-----------------------------------------------------------------------------
(* smolagents: one GuardRef for a managed agent, moved on by every call to  *)
(* it; unlisted tools are recorded, or left as they are.                    *)
SmolagentsRefs == registry = OnlyRoot

SmolagentsForward(d, c) ==
  LET n == registry[c.by] IN
  /\ Uses(c)
  /\ \/ n = None /\ Rejects(d, c)
     \/ n # None /\ c.tool = "unlisted" /\ Exempts(d, c, n, "pass")
     \/ c.tool = "unlisted" /\ Exempts(d, c, None, "none")
     \/ n # None /\ c.tool = "broken" /\ Denies(d, c, n)
     \/ n # None /\ c.tool = "use" /\ Checks(d, c, n, Strict, "running")
  /\ UNCHANGED registry

SmolagentsEnforce(d, c) ==
  /\ Hands(c) /\ FromRoot(c)
  /\ \/ Checks(d, c, Root, FALSE, "cleared")
     \/ Becomes(d, [c EXCEPT !.stage = "cleared", !.node = Root]) /\ UNCHANGED serviceVars
  /\ UNCHANGED registry

SmolagentsMint(d) ==
  LET c == call[d] IN
  /\ c.stage = "cleared"
  /\ \/ /\ Register(Root, c.tool)
        /\ Becomes(d, [c EXCEPT !.stage = "running", !.child = Fresh])
     \/ Rejects(d, c) /\ UNCHANGED registry

SmolagentsBody(d) == Wrapped(d, {"returned", "raised", "deferred"})
SmolagentsRevoke(n) == RevokesNode(n)

SmolagentsNext ==
  \/ \E d \in NextCall, c \in Nested : SmolagentsForward(d, c) \/ SmolagentsEnforce(d, c)
  \/ \E d \in Dispatch : SmolagentsMint(d) \/ SmolagentsBody(d)
  \/ \E n \in Node : SmolagentsRevoke(n)

-----------------------------------------------------------------------------
(* pydantic_ai: the Guard is part of the run's deps.                        *)
PydanticDeps == registry = OnlyRoot

(* No policy for the tool; no Guard on the deps.                            *)
PydanticResolve(d, c) ==
  /\ \/ c.tool = "unlisted" /\ (Denies(d, c, InForce(c)) \/ Exempts(d, c, None, "none"))
     \/ Rejects(d, c)
  /\ UNCHANGED registry

PydanticAuthorize(d, c) ==
  LET n == InForce(c) IN
  /\ CASE c.tool = "unlisted" -> Exempts(d, c, None, "none")
       [] c.tool = "broken"   -> Denies(d, c, n)
       [] OTHER               -> Checks(d, c, n, Strict, "running")
  /\ UNCHANGED registry

(* A tool delegates in its body; refused, that body raises, or goes on.     *)
PydanticDelegate(d) ==
  LET c == call[d] IN
  /\ IsRunning(d) /\ Hands(c) /\ c.child = None
  /\ Register(c.node, c.tool)
  /\ Becomes(d, [c EXCEPT !.child = Fresh])

PydanticRun(d) == Wrapped(d, {"returned", "raised", "cancelled", "deferred"})
PydanticRevoke(n) == RevokesNode(n)

PydanticNext ==
  \/ \E d \in NextCall, c \in Nested : PydanticResolve(d, c) \/ PydanticAuthorize(d, c)
  \/ \E d \in Dispatch : PydanticDelegate(d) \/ PydanticRun(d)
  \/ \E n \in Node : PydanticRevoke(n)
=============================================================================
