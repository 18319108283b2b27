---------------------------- MODULE HookAdapters ----------------------------
(***************************************************************************)
(* strands, claude_sdk, crewai and google_adk: nothing of the adapter is   *)
(* around the body.  The framework calls one hook before it and another    *)
(* after it, and the adapter finds again which call it allowed.            *)
(***************************************************************************)
EXTENDS Framework, Sequences

(* The framework runs the body, or skips it; the hook after it is still to  *)
(* come, or never comes.                                                    *)
BodyEnds(d, ways) ==
  /\ IsRunning(d)
  /\ \A e \in Dispatch : call[e].within = d => call[e].stage = "over"
  /\ \E how \in ways : Becomes(d, [call[d] EXCEPT !.stage = "ended", !.body = how])
  /\ UNCHANGED <<serviceVars, registry, mem>>

Forgets(d) ==
  /\ Becomes(d, [call[d] EXCEPT !.stage = "over"])
  /\ UNCHANGED serviceVars

(* The hook after a body says what became of call e. *)
Hears(d, e, says) ==
  IF Promised(e)
  THEN /\ Report(e)
       /\ call' = [x \in Dispatch |->
            IF x = e THEN [call[e] EXCEPT !.outcome = says, !.stage = IF e = d THEN "over" ELSE @]
            ELSE IF x = d THEN [call[d] EXCEPT !.stage = "over"] ELSE call[x]]
  ELSE Forgets(d)

-----------------------------------------------------------------------------
(* strands: an agent revoked by name gets no Guard again.  As an            *)
(* intervention the guard is asked before a tool and hears nothing after.   *)
StrandsBindings ==
  /\ registry = OnlyRoot
  /\ \E alone \in BOOLEAN : mem = [revoked |-> {}, intervention |-> alone]

StrandsEvaluate(d, c) ==
  LET n == registry[c.by] IN
  /\ IF n = None THEN Rejects(d, c)
     ELSE CASE c.tool = "unlisted" -> Exempts(d, c, n, "none")
            [] c.tool = "broken"   -> Rejects(d, c)
            [] c.tool \in Agent    -> \/ Checks(d, c, n, Strict, "cleared")
                                      \/ /\ Becomes(d, [c EXCEPT !.stage = "cleared", !.node = n])
                                         /\ UNCHANGED serviceVars
            [] OTHER               -> Checks(d, c, n, Strict, "running")
  /\ UNCHANGED <<registry, mem>>

StrandsMayMint(a) == a \notin mem.revoked

(* Refused, the tool is cancelled, and the hook after it hears of that.     *)
StrandsMint(d) ==
  LET c == call[d] IN
  /\ c.stage = "cleared"
  /\ \/ /\ StrandsMayMint(c.tool)
        /\ Register(c.node, c.tool)
        /\ Becomes(d, [c EXCEPT !.stage = "running", !.child = Fresh])
     \/ /\ Becomes(d, [c EXCEPT !.stage = "ended"])
        /\ UNCHANGED <<serviceVars, registry>>
  /\ UNCHANGED mem

StrandsBody(d) == BodyEnds(d, {"returned", "raised", "cancelled"})

(* A mutant: a tool that was cancelled before it ran is not reported. *)
StrandsAfterToolThatRan(d) ==
  /\ call[d].stage = "ended" /\ ~mem.intervention
  /\ IF call[d].body = "none" THEN Forgets(d)
     ELSE Hears(d, d, IF call[d].body = "cancelled" THEN "abandoned" ELSE call[d].body)
  /\ UNCHANGED <<registry, mem>>

(* A tool another hook cancelled, one that raised, one that returned.       *)
StrandsAfterToolCall(d) ==
  /\ call[d].stage = "ended" /\ ~mem.intervention
  /\ Hears(d, d, IF call[d].body \in {"none", "cancelled"} THEN "abandoned" ELSE call[d].body)
  /\ UNCHANGED <<registry, mem>>

StrandsAsIntervention(d) ==
  /\ call[d].stage = "ended" /\ mem.intervention
  /\ Forgets(d)
  /\ UNCHANGED <<registry, mem>>

(* In a swarm or a graph the node before hands on to the next.              *)
StrandsBeforeNodeCall(p, a) ==
  /\ p # a /\ registry[p] # None /\ StrandsMayMint(a)
  /\ Register(registry[p], a)
  /\ UNCHANGED <<call, mem>>

StrandsRevoke(a) ==
  /\ registry[a] # None
  /\ mem' = [mem EXCEPT !.revoked = @ \cup {a}]
  /\ Revokes(registry[a])
  /\ UNCHANGED <<call, registry>>

StrandsNext ==
  \/ \E d \in NextCall, c \in ByName : StrandsEvaluate(d, c)
  \/ \E d \in Dispatch : \/ StrandsMint(d) \/ StrandsBody(d)
                         \/ StrandsAfterToolCall(d) \/ StrandsAsIntervention(d)
  \/ \E p, a \in Staff : StrandsBeforeNodeCall(p, a)
  \/ \E a \in Staff : StrandsRevoke(a)

-----------------------------------------------------------------------------
(* claude_sdk: a sub-agent is known by the id of its run.  Its start names  *)
(* neither its parent nor the call that asked for it, which is inferred.    *)
CONSTANT MaxRecentVerdicts

ClaudeRegistry == registry = OnlyRoot /\ mem = [pending |-> <<>>, verdicts |-> <<>>]

ClaudeGuardFor(w) == IF w = None THEN Root ELSE call[w].child

ClaudeCalls ==
  Asks(RootAgent, None)
    \cup UNION {Asks(call[w].tool, w) : w \in {e \in Dispatch : IsRunning(e) /\ Hands(call[e])}}

(* The verdict is kept for can_use_tool, the oldest one dropped when there  *)
(* are too many.                                                            *)
ClaudeCacheVerdict(m, d) ==
  [m EXCEPT !.verdicts =
     LET all == Append(@, d) IN
     IF Len(all) > MaxRecentVerdicts THEN Tail(all) ELSE all]

ClaudePreToolUse(d, c) ==
  LET n == ClaudeGuardFor(c.within)
      asked == [mem EXCEPT !.pending = Append(@, [type |-> c.tool, parent |-> c.within])]
  IN
  /\ \/ (n = None \/ Hands(c)) /\ Rejects(d, c) /\ UNCHANGED mem
     \/ n # None /\ Denies(d, c, n) /\ UNCHANGED mem
     \/ /\ n # None /\ c.tool \notin {"unlisted", "broken"}
        /\ \E promised \in {FALSE, Strict} : Clears(d, c, n, promised, "cleared")
        /\ mem' = ClaudeCacheVerdict(IF Hands(c) THEN asked ELSE mem, d)
  /\ UNCHANGED registry

(* Where can_use_tool is wired it answers what PreToolUse said, once.       *)
ClaudeCanUseTool(d) ==
  LET known == \E i \in 1 .. Len(mem.verdicts) : mem.verdicts[i] = d IN
  /\ call[d].stage = "cleared"
  /\ \/ Becomes(d, [call[d] EXCEPT !.stage = "running"])
     \/ ~known /\ Becomes(d, [call[d] EXCEPT !.stage = "over"])
  /\ mem' \in {mem, [mem EXCEPT !.verdicts = SelectSeq(@, LAMBDA e : e # d)]}
  /\ UNCHANGED <<serviceVars, registry>>

(* First come, first served among the requests for this type of agent; one  *)
(* nobody is known to have asked for hangs below the root.                  *)
ClaudeRequests(a) == {i \in 1 .. Len(mem.pending) : mem.pending[i].type = a}
ClaudeClaimed(a)  == CHOOSE i \in ClaudeRequests(a) : \A j \in ClaudeRequests(a) : i <= j
ClaudeParent(a) ==
  IF ClaudeRequests(a) = {} THEN Root
  ELSE LET n == ClaudeGuardFor(mem.pending[ClaudeClaimed(a)].parent) IN
       IF n = None THEN Root ELSE n

ClaudeMint(d) ==
  LET a == call[d].tool IN
  /\ IsRunning(d) /\ Hands(call[d]) /\ call[d].child = None
  /\ \/ Register(ClaudeParent(a), a) /\ Becomes(d, [call[d] EXCEPT !.child = Fresh])
     \/ UNCHANGED <<serviceVars, call, registry>>
  /\ mem' = IF ClaudeRequests(a) = {} THEN mem
            ELSE LET k == ClaudeClaimed(a) IN
                 [mem EXCEPT !.pending = SubSeq(@, 1, k - 1) \o SubSeq(@, k + 1, Len(@))]

(* Completed, and then revoked unless the registry says otherwise.          *)
ClaudeSubagentStop(d) ==
  LET n == call[d].child IN
  /\ IsRunning(d) /\ n # None
  /\ \/ n \notin finished /\ Completes(n)
     \/ (n \in finished \/ ~MayFinish(n)) /\ Revokes(n)
  /\ UNCHANGED <<call, registry, mem>>

ClaudeBody(d) == BodyEnds(d, {"returned", "raised", "cancelled"})

ClaudePostToolUse(d) ==
  /\ call[d].stage = "ended" /\ call[d].body = "returned"
  /\ Hears(d, d, "returned")
  /\ mem' = [mem EXCEPT !.verdicts = SelectSeq(@, LAMBDA e : e # d)]
  /\ UNCHANGED registry

(* An interrupt abandons the call; any other failure was raised.            *)
ClaudePostToolUseFailure(d) ==
  /\ call[d].stage = "ended" /\ call[d].body # "returned"
  /\ Hears(d, d, Says(call[d].body))
  /\ mem' = [mem EXCEPT !.verdicts = SelectSeq(@, LAMBDA e : e # d)]
  /\ UNCHANGED registry

ClaudeRevokeAgent(n) == RevokesNode(n) /\ UNCHANGED mem

ClaudeNext ==
  \/ \E d \in NextCall, c \in ClaudeCalls : ClaudePreToolUse(d, c)
  \/ \E d \in Dispatch : \/ ClaudeCanUseTool(d) \/ ClaudeMint(d) \/ ClaudeBody(d)
                         \/ ClaudePostToolUse(d) \/ ClaudePostToolUseFailure(d)
                         \/ ClaudeSubagentStop(d)
  \/ \E n \in Node : ClaudeRevokeAgent(n)

-----------------------------------------------------------------------------
(* crewai: the two hooks know a call only by its arguments' object, which   *)
(* two calls may share.  slot: the call an object's entry was made for.     *)
CrewaiBridge ==
  /\ registry = OnlyRoot
  /\ mem = [slot |-> [k \in Dispatch |-> None], key |-> [d \in Dispatch |-> None],
            collided |-> {}, denied |-> {}]

CrewaiTakes(m, d, k) == [m EXCEPT !.key[d] = k, !.slot[k] = d]

(* A refusal on the bridge's list; it may revoke the agent that asked.      *)
CrewaiDeny(d, c, n, entry) ==
  /\ Becomes(d, [c EXCEPT !.stage = "ended", !.node = n, !.entry = entry])
  /\ UNCHANGED serviceVars \/ (registry[c.by] # None /\ Revokes(registry[c.by]))
CrewaiRefuses(d, c, n, entry, m) ==
  CrewaiDeny(d, c, n, entry) /\ mem' = [m EXCEPT !.denied = @ \cup {d}]

(* A mutant: the first call of the object is not marked. *)
CrewaiCollidesUnmarked(d, c, k) ==
  /\ mem.slot[k] # None
  /\ CrewaiRefuses(d, c, None, "none", [mem EXCEPT !.key[d] = k])
  /\ UNCHANGED registry

(* The second call of an object in use is refused, whatever it asks for.    *)
CrewaiCollides(d, c, k) ==
  /\ mem.slot[k] # None
  /\ CrewaiRefuses(d, c, None, "none",
       [mem EXCEPT !.key[d] = k, !.collided = @ \cup {mem.slot[k]}])
  /\ UNCHANGED registry

CrewaiAuthorize(d, c, k) ==
  LET n == registry[c.by]
      m == CrewaiTakes(mem, d, k)
  IN
  /\ mem.slot[k] = None /\ Uses(c)
  /\ \/ n = None /\ CrewaiRefuses(d, c, n, "none", m)
     \/ n # None /\ CrewaiRefuses(d, c, n, "deny", m)
     \/ n # None /\ c.tool = "use" /\ Clears(d, c, n, Strict, "running") /\ mem' = m
  /\ UNCHANGED registry

CrewaiAuthorizeDelegation(d, c, k) ==
  LET n == registry[c.by]
      m == CrewaiTakes(mem, d, k)
  IN
  /\ mem.slot[k] = None /\ Hands(c)
  /\ \/ CrewaiRefuses(d, c, n, "none", m) /\ UNCHANGED registry
     \/ /\ Register(n, c.tool)
        /\ Becomes(d, [c EXCEPT !.stage = "running", !.node = n, !.child = Fresh])
        /\ mem' = m

(* Identical arguments may be one cached object.                            *)
CrewaiBeforeToolCall(d, c) ==
  /\ \E k \in {d} \cup {e \in Dispatch : call[e].stage # "idle" /\ call[e].tool = c.tool} :
       CrewaiCollides(d, c, k) \/ CrewaiAuthorize(d, c, k) \/ CrewaiAuthorizeDelegation(d, c, k)

(* CrewAI turns an exception into a result; another hook may veto the call. *)
CrewaiBody(d) == BodyEnds(d, {"returned", "deferred", "cancelled"})

(* What looks blocked, on an object two calls shared, is nobody's outcome.  *)
CrewaiAfterToolCall(d) ==
  LET e == mem.slot[mem.key[d]]
      blocked == d \in mem.denied \/ call[d].body = "cancelled"
  IN
  /\ call[d].stage = "ended"
  /\ IF e = None \/ (blocked /\ e \in mem.collided)
     THEN Forgets(d) /\ UNCHANGED mem
     ELSE /\ mem' = [mem EXCEPT !.slot[mem.key[d]] = None]
          /\ IF Hands(call[d]) /\ e \notin mem.denied /\ registry[call[d].tool] # None
             THEN /\ Becomes(d, [call[d] EXCEPT !.stage = "over"])
                  /\ Completes(registry[call[d].tool])
             ELSE Hears(d, e, IF blocked THEN "abandoned" ELSE call[d].body)
  /\ UNCHANGED registry

CrewaiRevoke(a) == RevokesNamed(a) /\ UNCHANGED mem

CrewaiNext ==
  \/ \E d \in NextCall, c \in ByName : CrewaiBeforeToolCall(d, c)
  \/ \E d \in Dispatch : CrewaiBody(d) \/ CrewaiAfterToolCall(d)
  \/ \E a \in Staff : CrewaiRevoke(a)
-----------------------------------------------------------------------------
(* google_adk: an agent gets its Guard when its turn begins, below whoever  *)
(* asked for it or spoke last; a finished Guard is replaced.                *)
AdkPlugin ==
  /\ registry = OnlyRoot
  /\ mem = [current |-> RootAgent, parent |-> [a \in Agent |-> None],
            lineage |-> [a \in Agent |-> None]]

(* A mutant: a revoked Guard that is finished gives way too. *)
AdkIsFinished(a) == registry[a] \in finished

(* A finished Guard, not revoked, gives way to a new one.                   *)
AdkIsStale(a) == registry[a] \in finished /\ registry[a] \notin killed
AdkParentOf(a) == IF mem.lineage[a] = None THEN Root ELSE registry[mem.lineage[a]]
(* Nothing to hang a new node under; its own parent is replaced first.      *)
AdkStays(a) ==
  ~AdkIsStale(a) \/ AdkParentOf(a) \in killed
    \/ (AdkParentOf(a) \in finished /\ (mem.lineage[a] = None \/ ~AdkIsStale(mem.lineage[a])))
AdkIsReady(a) == registry[a] # None /\ AdkStays(a)

AdkRespawn(a) ==
  /\ registry[a] # None /\ AdkIsStale(a)
  /\ AdkParentOf(a) \notin finished \cup killed
  /\ Register(AdkParentOf(a), a)
  /\ UNCHANGED <<call, mem>>

(* Refused, the child is not there, and who asked for it is forgotten.      *)
AdkEnsureGuard(a) ==
  LET p == IF mem.parent[a] # None THEN mem.parent[a] ELSE mem.current IN
  /\ registry[a] = None
  /\ \/ /\ Register(IF registry[p] = None THEN Root ELSE registry[p], a)
        /\ mem' = [mem EXCEPT !.parent[a] = None, !.lineage[a] = p]
     \/ /\ mem' = [mem EXCEPT !.parent[a] = None]
        /\ UNCHANGED <<serviceVars, registry>>
  /\ UNCHANGED call

AdkBeforeAgent(a) ==
  /\ AdkIsReady(a)
  /\ mem' = [mem EXCEPT !.current = a]
  /\ UNCHANGED <<serviceVars, call, registry>>

AdkAfterAgent(a) ==
  /\ registry[a] \notin {None, Root}
  /\ Completes(registry[a])
  /\ UNCHANGED <<call, registry, mem>>

AdkReturnsTo(c) ==
  registry[c.tool] # None /\ registry[c.tool] \in line[registry[c.by]] \ {registry[c.by]}

(* Control goes back to an agent above: the one that hands back is done.    *)
AdkHandsBack(d, c) ==
  /\ Becomes(d, [c EXCEPT !.stage = "over", !.node = registry[c.by]])
  /\ Completes(registry[c.by])
  /\ mem' = [mem EXCEPT !.current = c.tool]

AdkDelegates(d, c) ==
  LET n == registry[c.by] IN
  /\ Exempts(d, c, n, "none") \/ Checks(d, c, n, Strict, "running")
  /\ mem' = [mem EXCEPT !.current = c.by, !.parent[c.tool] = c.by]

AdkBeforeTool(d, c) ==
  LET n == registry[c.by] IN
  /\ AdkIsReady(c.by)
  /\ IF Hands(c)
     THEN IF AdkReturnsTo(c) THEN AdkHandsBack(d, c) ELSE AdkDelegates(d, c)
     ELSE /\ CASE c.tool = "unlisted" -> Exempts(d, c, n, "pass") \/ Denies(d, c, n)
                [] c.tool = "broken"   -> Denies(d, c, n)
                [] OTHER               -> Checks(d, c, n, Strict, "running")
          /\ mem' = [mem EXCEPT !.current = c.by]
  /\ UNCHANGED registry

AdkBody(d) == BodyEnds(d, {"returned", "raised", "deferred", "cancelled"})

AdkAfterTool(d) ==
  /\ call[d].stage = "ended" /\ call[d].body \in {"returned", "deferred"}
  /\ Hears(d, d, call[d].body) /\ UNCHANGED <<registry, mem>>

AdkOnToolError(d) ==
  /\ call[d].stage = "ended" /\ call[d].body = "raised"
  /\ Hears(d, d, "raised") /\ UNCHANGED <<registry, mem>>

(* No callback of ADK's hears of a cancelled call.                          *)
AdkCancelled(d) ==
  /\ call[d].stage = "ended" /\ call[d].body = "cancelled"
  /\ Forgets(d) /\ UNCHANGED <<registry, mem>>

AdkRevoke(a) == RevokesNamed(a) /\ UNCHANGED mem

AdkNext ==
  \/ \E d \in NextCall, c \in ByName : AdkBeforeTool(d, c)
  \/ \E d \in Dispatch : \/ AdkBody(d) \/ AdkAfterTool(d) \/ AdkOnToolError(d)
                         \/ AdkCancelled(d)
  \/ \E a \in Staff : \/ AdkEnsureGuard(a) \/ AdkRespawn(a)
                      \/ AdkBeforeAgent(a) \/ AdkAfterAgent(a) \/ AdkRevoke(a)
=============================================================================
