-------------------------- MODULE ExampleAdapters --------------------------
(***************************************************************************)
(* The three integrations that live with the examples: omnigent, a policy  *)
(* that only answers allow or deny; commerce-agents, where one dispatch    *)
(* point is guarded from outside; and langflow, whose components build     *)
(* their Guards from one another.  None of them reports an outcome.        *)
(***************************************************************************)
EXTENDS Framework

-----------------------------------------------------------------------------
(* omnigent: every policy instance of a process shares one chain, and an    *)
(* agent that is on it keeps its Guard, whoever dispatches to it next.      *)
OmnigentChain == registry = OnlyRoot

(* An agent that is not on the chain is denied on the root's ledger line.   *)
OmnigentEvaluate(d, c) ==
  LET n == registry[c.by] IN
  /\ c.tool \in {"use", "unlisted"}
  /\ \/ n = None /\ Denies(d, c, Root)
     \/ n # None /\ c.tool = "unlisted" /\ Denies(d, c, n)
     \/ n # None /\ c.tool = "use" /\ Checks(d, c, n, FALSE, "running")
  /\ UNCHANGED registry

(* No name, or a name the agent does not declare, is denied; a name that is *)
(* on the chain continues its session; the chain may refuse a new one.      *)
OmnigentDispatch(d, c) ==
  LET n == registry[c.by]
      Runs(m) == Becomes(d, [c EXCEPT !.stage = "running", !.node = n, !.child = m])
  IN
  /\ Hands(c)
  /\ \/ n = None /\ Denies(d, c, Root) /\ UNCHANGED registry
     \/ n # None /\ Denies(d, c, n) /\ UNCHANGED registry
     \/ /\ n # None /\ registry[c.tool] # None
        /\ Runs(registry[c.tool])
        /\ UNCHANGED <<serviceVars, registry>>
     \/ n # None /\ registry[c.tool] = None /\ Register(n, c.tool) /\ Runs(Fresh)
     \/ n # None /\ registry[c.tool] = None /\ Rejects(d, c) /\ UNCHANGED registry

OmnigentBody(d)   == Wrapped(d, {"returned", "raised"})
OmnigentRevoke(n) == RevokesNode(n)

OmnigentNext ==
  \/ \E d \in NextCall, c \in ByName : OmnigentEvaluate(d, c) \/ OmnigentDispatch(d, c)
  \/ \E d \in Dispatch : OmnigentBody(d)
  \/ \E n \in Node : OmnigentRevoke(n)

-----------------------------------------------------------------------------
(* commerce: a call goes to an executor of a guarded class, or to a plain   *)
(* one, which asks while the patch is installed.  flagged are the calls     *)
(* whose body is marked as authorized.                                      *)
CommerceExecutors == registry = OnlyRoot /\ mem = [installed |-> FALSE, flagged |-> {}]

CommerceInstall   == ~mem.installed /\ mem' = [mem EXCEPT !.installed = TRUE]
CommerceUninstall == mem.installed /\ mem' = [mem EXCEPT !.installed = FALSE]
CommercePatch ==
  /\ CommerceInstall \/ CommerceUninstall
  /\ UNCHANGED <<serviceVars, call, registry>>

CommerceFlagged(c) == c.within # None /\ c.within \in mem.flagged

(* A body that dispatches again does it in the context it was given: a      *)
(* delegate's has a Guard of its own, another tool's is marked.             *)
CommerceCalls ==
  Nested \cup UNION {Asks(IF Hands(call[w]) THEN call[w].tool ELSE call[w].by, w) :
                       w \in {e \in mem.flagged : IsRunning(e)}}

(* On a plain executor; or the mark says the call is authorized already.    *)
CommerceUnasked(d, c) ==
  /\ mem.installed => CommerceFlagged(c)
  /\ Exempts(d, c, None, "none")
  /\ mem' = IF CommerceFlagged(c) THEN [mem EXCEPT !.flagged = @ \cup {d}] ELSE mem
  /\ UNCHANGED registry

(* The delegate's Guard, else the turn's or the executor's; with neither,   *)
(* and no root installed, nothing runs and no ledger says so.               *)
CommerceResolve(c) == InForce(c)

CommerceDispatch(d, c) ==
  LET n == CommerceResolve(c) IN
  /\ ~CommerceFlagged(c)
  /\ \/ c.within = None /\ Rejects(d, c)
     \/ c.tool = "unlisted" /\ (Denies(d, c, n) \/ Exempts(d, c, n, "none"))
     \/ c.tool = "broken" /\ Denies(d, c, n)
     \/ c.tool = "use" /\ Checks(d, c, n, FALSE, "running")
     \/ Hands(c) /\ Checks(d, c, n, FALSE, "cleared")
     \/ Hands(c) /\ Becomes(d, [c EXCEPT !.stage = "cleared", !.node = n]) /\ UNCHANGED serviceVars
  /\ mem' = IF call'[d].stage = "running" THEN [mem EXCEPT !.flagged = @ \cup {d}] ELSE mem
  /\ UNCHANGED registry

(* A delegate without a grant; one the chain refuses; one that runs as the  *)
(* child, and whose own calls are asked about.                              *)
CommerceDelegate(d) ==
  LET c == call[d] IN
  /\ c.stage = "cleared"
  /\ \/ Denies(d, c, c.node)
     \/ Rejects(d, c)
     \/ Mints(c.node, c.tool) /\ Becomes(d, [c EXCEPT !.stage = "running", !.child = Fresh])
  /\ UNCHANGED <<registry, mem>>

CommerceBody(d)   == Wrapped(d, {"returned", "raised", "cancelled"}) /\ UNCHANGED mem
CommerceRevoke(n) == RevokesNode(n) /\ UNCHANGED mem

CommerceNext ==
  \/ CommercePatch
  \/ \E d \in NextCall, c \in CommerceCalls : CommerceUnasked(d, c) \/ CommerceDispatch(d, c)
  \/ \E d \in Dispatch : CommerceDelegate(d) \/ CommerceBody(d)
  \/ \E n \in Node : CommerceRevoke(n)

-----------------------------------------------------------------------------
(* langflow: a component's Guard is built once, from the component before   *)
(* it, whichever of its outputs is read first.                              *)
LangflowGuards == registry = OnlyRoot

LangflowBuildGuard(p, a) == registry[a] = None /\ Register(registry[p], a) /\ UNCHANGED call

(* A tool without a scope keeps the component from being built, or is       *)
(* passed on as it is.                                                      *)
LangflowUnmapped(d, c) ==
  /\ registry[c.by] # None /\ c.tool = "unlisted"
  /\ Rejects(d, c) \/ Exempts(d, c, None, "none")
  /\ UNCHANGED registry

(* The Guard is asked for at every call; a context callable that raises     *)
(* ends the call with nothing on the ledger.                                *)
LangflowAuthorize(d, c) ==
  LET n == registry[c.by] IN
  /\ n # None /\ c.tool \in {"use", "broken"}
  /\ IF c.tool = "broken" THEN Rejects(d, c) ELSE Checks(d, c, n, FALSE, "running")
  /\ UNCHANGED registry

LangflowRun(d)    == Wrapped(d, {"returned", "raised", "cancelled"})
LangflowRevoke(n) == RevokesNode(n)

LangflowNext ==
  \/ \E p, a \in Staff : LangflowBuildGuard(p, a)
  \/ \E d \in NextCall, c \in ByName : LangflowUnmapped(d, c) \/ LangflowAuthorize(d, c)
  \/ \E d \in Dispatch : LangflowRun(d)
  \/ \E n \in Node : LangflowRevoke(n)
=============================================================================
