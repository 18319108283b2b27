--------------------------- MODULE AdapterProofs ---------------------------
(***************************************************************************)
(* What every framework adapter owes its deployment, for every value of    *)
(* the constants.  FrameInv is what the adapters have in common; a step of *)
(* an adapter is made of a few moves (a call refused, cleared, delegated,  *)
(* ended, heard of), and each move is shown once to keep it.               *)
(***************************************************************************)
EXTENDS Adapters, FiniteSetTheorems, TLAPS

-----------------------------------------------------------------------------
(* The invariant *)

Stages   == {"idle", "cleared", "running", "ended", "over"}
Entries  == {"none", "pass", "allow", "deny"}
Bodies   == {"none", "returned", "raised", "deferred", "cancelled", "skipped"}
Outcomes == {"none", "returned", "raised", "deferred", "abandoned", "receipt"}
Tools    == {"use", "unlisted", "broken"} \cup Agent

Calls ==
  [stage : Stages, by : Agent, within : Dispatch \cup {None}, tool : Tools,
   node : Node \cup {None}, entry : Entries, child : Node \cup {None},
   body : Bodies, outcome : Outcomes]

ServiceOK ==
  /\ granted \subseteq Node /\ IsFiniteSet(granted) /\ Root \in granted
  /\ line \in [Node -> SUBSET Node]
  /\ \A n \in granted : n \in line[n]
  /\ who \in [Node -> Agent] /\ who[Root] = RootAgent
  /\ killed \subseteq granted
  /\ open \subseteq Dispatch \X Node

(* A name stands for a node of its own agent. *)
RegistryOK ==
  /\ registry \in [Agent -> Node \cup {None}]
  /\ \A a \in Agent : registry[a] # None => registry[a] \in granted /\ who[registry[a]] = a

Works(d) == call[d].stage \in {"cleared", "running"}
Ran(d)   == call[d].body \in {"returned", "raised", "deferred"}

(* A call works on the Guard of the agent that made it. *)
OnOwnNode(d) ==
  LET c == call[d] IN
  /\ c.node # None => c.node \in granted
  /\ Works(d) /\ c.node # None => who[c.node] = c.by

Authorized(d) ==
  LET c == call[d] IN
  (Works(d) \/ Ran(d)) /\ c.tool \in {"use", "broken"} /\ ~Ungated(d) =>
    /\ c.node \in granted /\ who[c.node] = c.by
    /\ <<d, c.node, "use">> \in allowed

(* agno gives one call children of several agents. *)
ChildIsDelegate(d) ==
  LET c == call[d] IN
  c.child # None =>
    /\ c.child \in granted /\ c.tool \in Agent
    /\ adapter # "agno" => who[c.child] = c.tool

ChildBelowCaller(d) ==
  call[d].child # None /\ adapter \notin {"openai_agents", "omnigent", "claude_sdk"} =>
    \E p \in granted :
      who[p] = call[d].by /\ line[call[d].child] = line[p] \cup {call[d].child}

(* The adapters that promise an outcome of a delegation. *)
PromisesHands ==
  {"ag2", "agent_framework", "autogen", "haystack", "pydantic_ai", "strands", "claude_sdk",
   "google_adk"}

PromiseKnown(d) ==
  LET c == call[d] IN
  \A n \in Node : <<d, n>> \in open =>
    /\ c.stage # "idle" /\ c.entry # "none" /\ c.node = n
    /\ c.tool \in Agent => adapter \in PromisesHands

(* But for two adapters, what waits after its allow is a delegation. *)
HandsWait(d) ==
  call[d].stage = "cleared" /\ adapter \notin {"langgraph", "claude_sdk"} =>
    call[d].tool \in Agent

BodyToCome(d) ==
  /\ call[d].stage \in {"idle", "cleared", "running"} => call[d].body = "none"
  /\ call[d].stage = "ended" => call[d].body # "skipped"

OutcomeKnown(d) ==
  call[d].outcome # "none" /\ ~SharesWithRefused(d) =>
    call[d].stage = "over" /\ call[d].outcome = SeenOf(d)

Settled(d) == call[d].stage = "over" /\ ~LeftOpen(d) => ~Promised(d)

CallOK(d) ==
  /\ OnOwnNode(d) /\ Authorized(d)
  /\ ChildIsDelegate(d) /\ ChildBelowCaller(d)
  /\ PromiseKnown(d) /\ HandsWait(d) /\ BodyToCome(d) /\ OutcomeKnown(d) /\ Settled(d)

FrameInv ==
  /\ adapter \in Adapters
  /\ ServiceOK /\ RegistryOK
  /\ call \in [Dispatch -> Calls]
  /\ \A d \in Dispatch : CallOK(d)

-----------------------------------------------------------------------------
(* The service *)

(* What no step takes back. *)
Grows ==
  /\ granted \subseteq granted' /\ allowed \subseteq allowed'
  /\ killed \subseteq killed' /\ finished \subseteq finished'
  /\ \A n \in granted : who'[n] = who[n] /\ line'[n] = line[n]

(* Neither an answer nor a grant nor a report. *)
Calm == UNCHANGED <<granted, line, who, rights, allowed, open>>

LEMMA CalmSteps ==
  ASSUME ServiceOK, NEW n,
         UNCHANGED serviceVars \/ Completes(n) \/ Revokes(n)
  PROVE  Calm /\ Grows /\ ServiceOK'
<1>1. CASE UNCHANGED serviceVars
  BY <1>1 DEF serviceVars, Calm, Grows, ServiceOK
<1>2. CASE Finish(n)
  BY <1>2 DEF Finish, Calm, Grows, ServiceOK
<1>3. CASE Kill(Below(n) \ killed)
  BY <1>3 DEF Kill, Below, Calm, Grows, ServiceOK
<1> QED BY <1>1, <1>2, <1>3 DEF Completes, Revokes

LEMMA AllowSteps ==
  ASSUME ServiceOK, NEW d \in Dispatch, NEW n, NEW x, NEW promised \in BOOLEAN,
         Allow(d, n, x, promised)
  PROVE  /\ Grows /\ ServiceOK' /\ n \in granted
         /\ <<d, n, x>> \in allowed'
         /\ UNCHANGED <<granted, line, who, killed>>
         /\ open' = IF promised THEN open \cup {<<d, n>>} ELSE open
<1>1. n \in granted /\ allowed' = allowed \cup {<<d, n, x>>}
      /\ UNCHANGED <<granted, line, who, killed, finished>>
  BY DEF Allow, MayAct
<1>2. open' = IF promised THEN open \cup {<<d, n>>} ELSE open
  BY Zenon DEF Allow
<1>3. open' = open \/ open' = open \cup {<<d, n>>}
  BY <1>2, Zenon
<1> QED BY <1>1, <1>2, <1>3 DEF Grows, ServiceOK

LEMMA ReportSteps ==
  ASSUME ServiceOK, NEW d \in Dispatch, Report(d)
  PROVE  /\ Grows /\ ServiceOK' /\ UNCHANGED <<granted, line, who, allowed, killed>>
         /\ open' = {o \in open : o[1] # d}
BY DEF Report, Grows, ServiceOK

(* A delegation adds a node, which has the agent's name. *)
LEMMA MintSteps ==
  ASSUME ServiceOK, adapter \in Adapters, NEW p, NEW a, Mints(p, a)
  PROVE  /\ Grows /\ ServiceOK' /\ UNCHANGED <<allowed, open, killed>>
         /\ p \in granted /\ a \in Agent
         /\ Fresh \in Node /\ Fresh \notin granted /\ Fresh # None
         /\ granted' = granted \cup {Fresh}
         /\ who'[Fresh] = a /\ line'[Fresh] = line[p] \cup {Fresh}
<1>1. /\ p \in granted /\ Fresh \notin granted
      /\ granted' = granted \cup {Fresh}
      /\ line' = [line EXCEPT ![Fresh] = line[p] \cup {Fresh}]
      /\ who' = [who EXCEPT ![Fresh] = a]
      /\ UNCHANGED <<killed, finished, allowed, open>>
  BY DEF Mints, Grant, MayGrant
<1>2. a \in Agent
  BY FrameworkAssumption DEF Mints, Staff
<1>3. Fresh \in Node
  <2>1. Fresh \in Nat /\ Fresh < Bounds[adapter].nodes
    BY FS_CardinalityType DEF Mints, Fresh, ServiceOK
  <2>2. /\ Bounds[adapter].nodes \in Nat
        /\ 0 .. Bounds[adapter].nodes - 1 \subseteq Node
    BY FrameworkAssumption
  <2> QED BY <2>1, <2>2
<1>4. Fresh # None
  BY <1>3, NameAssumption
<1> DEFINE f == Fresh
<1> HIDE DEF f
<1>5. /\ line' \in [Node -> SUBSET Node] /\ who' \in [Node -> Agent]
      /\ who'[f] = a /\ line'[f] = line[p] \cup {f}
      /\ \A n \in granted : who'[n] = who[n] /\ line'[n] = line[n]
  <2>1. /\ p \in granted /\ f \notin granted /\ f \in Node
        /\ line' = [line EXCEPT ![f] = line[p] \cup {f}]
        /\ who' = [who EXCEPT ![f] = a]
    BY <1>1, <1>3 DEF f
  <2> QED BY <1>2, <2>1 DEF ServiceOK
<1>6. IsFiniteSet(granted')
  BY <1>1, FS_AddElement DEF ServiceOK
<1>7. Grows
  BY <1>1, <1>5 DEF Grows
<1>8. ServiceOK'
  <2>1. granted' = granted \cup {f} /\ f \in Node /\ f \notin granted /\ UNCHANGED <<killed, open>>
    BY <1>1, <1>3 DEF f
  <2> QED BY <1>5, <1>6, <2>1 DEF ServiceOK
<1> QED BY <1>1, <1>2, <1>3, <1>4, <1>5, <1>7, <1>8 DEF f

-----------------------------------------------------------------------------
(* A step, call by call *)

(* What excuses a call is not forgotten. *)
MemKeeps ==
  /\ adapter = "crewai" => mem.collided \subseteq mem'.collided
  /\ adapter = "strands" => mem'.intervention = mem.intervention
  /\ \A d \in Dispatch : SharesWithRefused(d) => SharesWithRefused(d)'

LEMMA PlainMem ==
  ASSUME adapter \notin {"crewai", "strands"}, UNCHANGED adapter
  PROVE  MemKeeps
BY DEF MemKeeps, SharesWithRefused

LEMMA SameMem ==
  ASSUME UNCHANGED <<mem, adapter>>
  PROVE  MemKeeps
BY DEF MemKeeps, SharesWithRefused

LEMMA OtherCalls ==
  ASSUME FrameInv, UNCHANGED adapter, Grows, MemKeeps, NEW e \in Dispatch,
         call'[e] = call[e], \A n \in Node : <<e, n>> \in open' => <<e, n>> \in open,
         Promised(e)' => Promised(e)
  PROVE  CallOK(e)'
<1>0. CallOK(e) /\ ServiceOK /\ call[e] \in Calls
  BY DEF FrameInv
<1>1. OnOwnNode(e)' /\ ChildIsDelegate(e)' /\ ChildBelowCaller(e)'
  BY <1>0 DEF CallOK, OnOwnNode, ChildIsDelegate, ChildBelowCaller, Works, Grows
<1>2. Authorized(e)'
  BY <1>0 DEF CallOK, Authorized, Works, Ran, Ungated, Grows
<1>3. PromiseKnown(e)' /\ HandsWait(e)' /\ BodyToCome(e)'
  BY <1>0 DEF CallOK, PromiseKnown, HandsWait, BodyToCome
<1>4. OutcomeKnown(e)'
  BY <1>0 DEF CallOK, OutcomeKnown, SeenOf, MemKeeps
<1>5. LeftOpen(e) => LeftOpen(e)'
  BY DEF LeftOpen, RefusedAfterAllow, Hands, MemKeeps
<1>6. Settled(e)'
  BY <1>0, <1>5 DEF CallOK, Settled
<1> QED BY <1>1, <1>2, <1>3, <1>4, <1>6 DEF CallOK

LEMMA SameOpen ==
  ASSUME UNCHANGED open
  PROVE  \A e : Promised(e)' <=> Promised(e)
BY DEF Promised

(* No call changes. *)
LEMMA NoCall ==
  ASSUME FrameInv, UNCHANGED <<adapter, call, open>>, Grows, ServiceOK', RegistryOK', MemKeeps
  PROVE  FrameInv'
<1>1. \A e \in Dispatch : CallOK(e)'
  <2>1. \A e : Promised(e)' <=> Promised(e)
    BY SameOpen
  <2> QED BY <2>1, OtherCalls
<1> QED BY <1>1 DEF FrameInv

LEMMA OtherPromises ==
  ASSUME NEW d, \A o \in open' : o \in open \/ o[1] = d
  PROVE  \A e : e # d => /\ Promised(e)' => Promised(e)
                         /\ \A n \in Node : <<e, n>> \in open' => <<e, n>> \in open
BY DEF Promised

(* One call changes. *)
LEMMA OneCall ==
  ASSUME FrameInv, UNCHANGED adapter, NEW d \in Dispatch, NEW x \in Calls, Becomes(d, x),
         Grows, ServiceOK', RegistryOK', MemKeeps,
         \A o \in open' : o \in open \/ o[1] = d, CallOK(d)'
  PROVE  FrameInv'
<1>1. ASSUME NEW e \in Dispatch PROVE CallOK(e)'
  <2>1. CASE e = d
    BY <2>1
  <2>2. CASE e # d
    <3>1. call'[e] = call[e]
      BY <2>2 DEF FrameInv, Becomes
    <3> QED BY <2>2, <3>1, OtherPromises, OtherCalls
  <2> QED BY <2>1, <2>2
<1>2. call' \in [Dispatch -> Calls]
  BY DEF FrameInv, Becomes
<1> QED BY <1>1, <1>2 DEF FrameInv

LEMMA RegistryKept ==
  ASSUME RegistryOK, Grows, UNCHANGED registry
  PROVE  RegistryOK'
BY DEF RegistryOK, Grows

LEMMA RegistrySet ==
  ASSUME RegistryOK, ServiceOK, adapter \in Adapters, NEW p, NEW a, Register(p, a)
  PROVE  /\ RegistryOK' /\ Mints(p, a)
<1>1. Mints(p, a) /\ registry' = [registry EXCEPT ![a] = Fresh]
  BY DEF Register
<1>2. /\ Grows /\ a \in Agent /\ Fresh \in Node
      /\ granted' = granted \cup {Fresh} /\ who'[Fresh] = a
  BY <1>1, MintSteps
<1> DEFINE f == Fresh
<1>3. /\ registry' = [registry EXCEPT ![a] = f]
      /\ Grows /\ a \in Agent /\ f \in Node /\ granted' = granted \cup {f} /\ who'[f] = a
  BY <1>1, <1>2
<1> HIDE DEF f
<1>4. RegistryOK'
  BY <1>3 DEF RegistryOK, Grows
<1> QED BY <1>1, <1>4

-----------------------------------------------------------------------------
(* The moves that start a call *)

IsNew(d, c) ==
  /\ d \in Dispatch /\ call[d].stage = "idle"
  /\ c \in Calls
  /\ c.stage = "idle" /\ c.node = None /\ c.entry = "none" /\ c.child = None
  /\ c.body = "none" /\ c.outcome = "none"

LEMMA NewOnes ==
  ASSUME FrameInv, NEW d \in NextCall, NEW a \in Agent, NEW w \in Dispatch \cup {None},
         NEW c \in Asks(a, w)
  PROVE  IsNew(d, c) /\ c.by = a /\ c.within = w
<1>1. d \in Dispatch /\ call[d].stage = "idle"
  <2>1. d \in Dispatch /\ d \in Nat
    BY FrameworkAssumption DEF NextCall
  <2> QED BY <2>1 DEF NextCall
<1>2. PICK t \in Tool \ {a} : c = [Idle EXCEPT !.by = a, !.within = w, !.tool = t]
  BY DEF Asks
<1>3. t \in Tools
  BY FrameworkAssumption DEF Tool, Tools, Staff, FrameInv
<1>4. /\ c = [stage |-> "idle", by |-> a, within |-> w, tool |-> t, node |-> None,
              entry |-> "none", child |-> None, body |-> "none", outcome |-> "none"]
  BY <1>2 DEF Idle
<1> QED BY <1>1, <1>3, <1>4 DEF IsNew, Calls, Stages, Entries, Bodies, Outcomes

LEMMA ByNameNew ==
  ASSUME FrameInv, NEW d \in NextCall, NEW c \in ByName
  PROVE  IsNew(d, c) /\ c.by \in Staff /\ c.within = None
<1>1. PICK a \in Staff : c \in Asks(a, None)
  BY DEF ByName
<1>2. a \in Agent
  BY FrameworkAssumption DEF Staff, FrameInv
<1> QED BY <1>1, <1>2, NewOnes

(* Where a sub-run carries its Guard with it, the one in force is its own.  *)
LEMMA NestedNew ==
  ASSUME FrameInv, adapter # "agno", NEW d \in NextCall, NEW c \in Nested
  PROVE  /\ IsNew(d, c)
         /\ InForce(c) \in granted /\ who[InForce(c)] = c.by /\ InForce(c) # None
         /\ \/ c.within = None /\ c.by = RootAgent
            \/ /\ c.within \in Dispatch /\ c.by = call[c.within].tool
               /\ IsRunning(c.within) /\ call[c.within].child # None
<1>0. None \notin Dispatch /\ None \notin Node /\ granted \subseteq Node
      /\ Root \in granted /\ who[Root] = RootAgent
  BY NameAssumption DEF FrameInv, ServiceOK
<1>1. CASE c \in Asks(RootAgent, None)
  <2>1. RootAgent \in Agent
    BY AbstractAssumption
  <2>2. IsNew(d, c) /\ c.by = RootAgent /\ c.within = None
    BY <1>1, <2>1, NewOnes
  <2> QED BY <1>0, <2>2 DEF InForce
<1>2. CASE \E w \in Delegations : c \in Asks(call[w].tool, w)
  <2>1. PICK w \in Delegations : c \in Asks(call[w].tool, w)
    BY <1>2
  <2>2. w \in Dispatch /\ IsRunning(w) /\ call[w].child # None
    BY <2>1 DEF Delegations
  <2>3. /\ call[w].child \in granted /\ call[w].tool \in Agent
        /\ who[call[w].child] = call[w].tool
    BY <2>2 DEF FrameInv, CallOK, ChildIsDelegate
  <2>4. IsNew(d, c) /\ c.by = call[w].tool /\ c.within = w
    BY <2>1, <2>2, <2>3, NewOnes
  <2> QED BY <1>0, <2>2, <2>3, <2>4 DEF InForce
<1> QED BY <1>1, <1>2 DEF Nested

LEMMA NewIsUnpromised ==
  ASSUME FrameInv, NEW d \in Dispatch, call[d].stage = "idle"
  PROVE  ~Promised(d) /\ \A n \in Node : <<d, n>> \notin open
<1>1. PromiseKnown(d) /\ open \subseteq Dispatch \X Node
  BY DEF FrameInv, CallOK, ServiceOK
<1>2. \A n \in Node : <<d, n>> \notin open
  BY <1>1 DEF PromiseKnown
<1> QED BY <1>1, <1>2 DEF Promised

(* Refused, or over at once: nothing of it was allowed. *)
LEMMA Refused ==
  ASSUME FrameInv, UNCHANGED <<adapter, registry>>, Calm, Grows, ServiceOK', MemKeeps,
         NEW d, NEW c, IsNew(d, c), NEW x \in Calls, Becomes(d, x),
         x.stage \in {"over", "ended"}, x.node # None => x.node \in granted,
         x.child = None, x.body = "none", x.outcome = "none"
  PROVE  FrameInv'
<1>1. call'[d] = x /\ d \in Dispatch /\ call[d].stage = "idle"
  BY DEF FrameInv, Becomes, IsNew
<1>2. ~Promised(d) /\ \A n \in Node : <<d, n>> \notin open
  BY <1>1, NewIsUnpromised
<1>3. ~Promised(d)' /\ UNCHANGED open
  BY <1>2 DEF Promised, Calm
<1>4. CallOK(d)'
  BY <1>1, <1>2, <1>3 DEF CallOK, OnOwnNode, Works, Ran, Authorized, ChildIsDelegate,
     ChildBelowCaller, PromiseKnown, HandsWait, BodyToCome, OutcomeKnown, Settled, Grows
<1> QED BY <1>1, <1>3, <1>4, OneCall, RegistryKept DEF FrameInv

LEMMA DeniesKeeps ==
  ASSUME FrameInv, UNCHANGED <<adapter, registry>>, MemKeeps,
         NEW d, NEW c, IsNew(d, c), NEW n, n = None \/ n \in granted, Denies(d, c, n)
  PROVE  FrameInv'
<1> DEFINE x == [c EXCEPT !.stage = "over", !.node = n, !.entry = "deny"]
<1>1. /\ x \in Calls /\ x.stage = "over" /\ x.node = n
      /\ x.child = None /\ x.body = "none" /\ x.outcome = "none"
  <2>1. n \in Node \cup {None}
    BY DEF FrameInv, ServiceOK
  <2> QED BY <2>1 DEF IsNew, Calls, Stages, Entries
<1>2. Becomes(d, x) /\ UNCHANGED serviceVars
  BY DEF Denies
<1>3. Calm /\ Grows /\ ServiceOK'
  BY <1>2, CalmSteps DEF FrameInv
<1> HIDE DEF x
<1> QED BY <1>1, <1>2, <1>3, Refused

LEMMA RejectsKeeps ==
  ASSUME FrameInv, UNCHANGED <<adapter, registry>>, MemKeeps,
         NEW d, NEW c, IsNew(d, c), Rejects(d, c)
  PROVE  FrameInv'
<1> DEFINE x == [c EXCEPT !.stage = "over"]
<1>1. /\ x \in Calls /\ x.stage = "over" /\ x.node = None
      /\ x.child = None /\ x.body = "none" /\ x.outcome = "none"
  BY DEF IsNew, Calls, Stages
<1>2. Becomes(d, x) /\ UNCHANGED serviceVars
  BY DEF Rejects
<1>3. Calm /\ Grows /\ ServiceOK'
  BY <1>2, CalmSteps DEF FrameInv
<1> HIDE DEF x
<1> QED BY <1>1, <1>2, <1>3, Refused

(* Let through, or waiting, unasked: not a call of a guarded tool. *)
LEMMA LetThrough ==
  ASSUME FrameInv, UNCHANGED <<adapter, registry>>, UNCHANGED serviceVars, MemKeeps,
         NEW d, NEW c, IsNew(d, c), NEW x \in Calls, Becomes(d, x),
         x.stage \in {"cleared", "running"}, x.stage = "cleared" => x.tool \in Agent,
         x.node # None => x.node \in granted /\ who[x.node] = x.by,
         \/ x.tool \notin {"use", "broken"}
         \/ adapter \in {"astrbot", "commerce"} /\ x.node = None,
         x.child = None, x.body = "none", x.outcome = "none"
  PROVE  FrameInv'
<1>1. call'[d] = x /\ d \in Dispatch /\ call[d].stage = "idle"
  BY DEF FrameInv, Becomes, IsNew
<1>2. ~Promised(d) /\ \A n \in Node : <<d, n>> \notin open
  BY <1>1, NewIsUnpromised
<1>3. Calm /\ Grows /\ ServiceOK'
  BY CalmSteps DEF FrameInv
<1>4. ~Promised(d)' /\ UNCHANGED <<open, who, granted>>
  BY <1>2, <1>3 DEF Promised, Calm
<1>5. CallOK(d)'
  BY <1>1, <1>2, <1>4 DEF CallOK, OnOwnNode, Works, Ran, Authorized, Ungated, ChildIsDelegate,
     ChildBelowCaller, PromiseKnown, HandsWait, BodyToCome, OutcomeKnown, Settled
<1> QED BY <1>1, <1>3, <1>4, <1>5, OneCall, RegistryKept DEF FrameInv

LEMMA ExemptsKeeps ==
  ASSUME FrameInv, UNCHANGED <<adapter, registry>>, MemKeeps,
         NEW d, NEW c, IsNew(d, c), NEW n, NEW entry \in Entries, Exempts(d, c, n, entry),
         n = None \/ (n \in granted /\ who[n] = c.by),
         c.tool \notin {"use", "broken"} \/ (adapter \in {"astrbot", "commerce"} /\ n = None)
  PROVE  FrameInv'
<1> DEFINE x == [c EXCEPT !.stage = "running", !.node = n, !.entry = entry]
<1>1. /\ x \in Calls /\ x.stage = "running" /\ x.node = n /\ x.by = c.by /\ x.tool = c.tool
      /\ x.child = None /\ x.body = "none" /\ x.outcome = "none"
  <2>1. n \in Node \cup {None}
    BY DEF FrameInv, ServiceOK
  <2> QED BY <2>1 DEF IsNew, Calls, Stages
<1>2. Becomes(d, x) /\ UNCHANGED serviceVars
  BY DEF Exempts
<1> HIDE DEF x
<1> QED BY <1>1, <1>2, LetThrough

LEMMA WaitsKeeps ==
  ASSUME FrameInv, UNCHANGED <<adapter, registry>>, UNCHANGED serviceVars, MemKeeps,
         NEW d, NEW c, IsNew(d, c), c.tool \in Agent, NEW n,
         n = None \/ (n \in granted /\ who[n] = c.by),
         Becomes(d, [c EXCEPT !.stage = "cleared", !.node = n])
  PROVE  FrameInv'
<1> DEFINE x == [c EXCEPT !.stage = "cleared", !.node = n]
<1>1. /\ x \in Calls /\ x.stage = "cleared" /\ x.node = n /\ x.by = c.by /\ x.tool = c.tool
      /\ x.child = None /\ x.body = "none" /\ x.outcome = "none"
  <2>1. n \in Node \cup {None}
    BY DEF FrameInv, ServiceOK
  <2> QED BY <2>1 DEF IsNew, Calls, Stages
<1>2. x.tool \notin {"use", "broken"} /\ x.tool \in Agent
  BY <1>1, NameAssumption
<1> HIDE DEF x
<1> QED BY <1>1, <1>2, LetThrough DEF x

(* Allowed: the Guard that was asked is the one of the agent that calls. *)
LEMMA ClearsKeeps ==
  ASSUME FrameInv, UNCHANGED <<adapter, registry>>, MemKeeps,
         NEW d, NEW c, IsNew(d, c), NEW n, NEW promised \in BOOLEAN,
         NEW stage \in {"cleared", "running"},
         Clears(d, c, n, promised, stage), n \in granted => who[n] = c.by,
         stage = "cleared" => c.tool \in Agent \/ adapter \in {"langgraph", "claude_sdk"},
         c.tool \in Agent => adapter \in PromisesHands \/ ~promised
  PROVE  FrameInv'
<1> DEFINE x == [c EXCEPT !.stage = stage, !.node = n, !.entry = "allow"]
<1>1. Allow(d, n, Scope(c.tool), promised) /\ Becomes(d, x)
  BY DEF Clears
<1>2. /\ Grows /\ ServiceOK' /\ n \in granted /\ n \in Node
      /\ <<d, n, Scope(c.tool)>> \in allowed'
      /\ UNCHANGED <<granted, line, who, killed>>
      /\ open' = IF promised THEN open \cup {<<d, n>>} ELSE open
  <2>1. d \in Dispatch
    BY DEF IsNew
  <2> QED BY <1>1, <2>1, AllowSteps DEF FrameInv, ServiceOK
<1>3. /\ x \in Calls /\ x.stage = stage /\ x.node = n /\ x.by = c.by /\ x.tool = c.tool
      /\ x.entry = "allow" /\ x.child = None /\ x.body = "none" /\ x.outcome = "none"
  BY <1>2 DEF IsNew, Calls, Stages, Entries
<1> HIDE DEF x
<1>4. call'[d] = x /\ d \in Dispatch /\ call[d].stage = "idle"
  BY <1>1, <1>3 DEF FrameInv, Becomes, IsNew
<1>5. \A m \in Node : <<d, m>> \notin open
  BY <1>4, NewIsUnpromised
<1>6. PromiseKnown(d)'
  <2>1. CASE promised
    <3>1. \A m \in Node : <<d, m>> \in open' => m = n
      <4>1. open' = open \cup {<<d, n>>}
        BY <1>2, <2>1, Zenon
      <4> QED BY <1>5, <4>1
    <3>2. c.tool \in Agent => adapter \in PromisesHands
      BY <2>1, Zenon
    <3> QED BY <1>3, <1>4, <3>1, <3>2 DEF PromiseKnown
  <2>2. CASE ~promised
    <3>1. open' = open
      BY <1>2, <2>2, Zenon
    <3> QED BY <1>5, <3>1 DEF PromiseKnown
  <2> QED BY <2>1, <2>2, Zenon
<1>7. \A o \in open' : o \in open \/ o[1] = d
  <2>1. open' = open \/ open' = open \cup {<<d, n>>}
    BY <1>2, Zenon
  <2> QED BY <2>1
<1>8. c.tool \in {"use", "broken"} => Scope(c.tool) = "use"
  BY NameAssumption DEF Scope
<1>9. CallOK(d)'
  <2>1. OnOwnNode(d)'
    BY <1>2, <1>3, <1>4 DEF OnOwnNode, Works
  <2>2. Authorized(d)'
    BY <1>2, <1>3, <1>4, <1>8 DEF Authorized, Works, Ran
  <2>3. /\ ChildIsDelegate(d)' /\ ChildBelowCaller(d)' /\ HandsWait(d)'
        /\ BodyToCome(d)' /\ OutcomeKnown(d)' /\ Settled(d)'
    BY <1>3, <1>4 DEF ChildIsDelegate, ChildBelowCaller, HandsWait, BodyToCome, OutcomeKnown, Settled
  <2> QED BY <1>6, <2>1, <2>2, <2>3 DEF CallOK
<1> QED BY <1>1, <1>2, <1>3, <1>4, <1>7, <1>9, OneCall, RegistryKept DEF FrameInv

LEMMA ChecksKeeps ==
  ASSUME FrameInv, UNCHANGED <<adapter, registry>>, MemKeeps,
         NEW d, NEW c, IsNew(d, c), NEW n, NEW promised \in BOOLEAN,
         NEW stage \in {"cleared", "running"},
         Checks(d, c, n, promised, stage), n \in granted /\ who[n] = c.by,
         stage = "cleared" => c.tool \in Agent \/ adapter \in {"langgraph", "claude_sdk"},
         c.tool \in Agent => adapter \in PromisesHands \/ ~promised
  PROVE  FrameInv'
<1>1. CASE Denies(d, c, n)
  BY <1>1, DeniesKeeps
<1>2. CASE Clears(d, c, n, promised, stage)
  BY <1>2, ClearsKeeps
<1> QED BY <1>1, <1>2 DEF Checks

-----------------------------------------------------------------------------
(* Delegations                                                             *)

(* A call that works, or a new one, gets a node that was just granted below *)
(* one of its agent's.                                                      *)
LEMMA GetsChild ==
  ASSUME FrameInv, UNCHANGED adapter, MemKeeps, RegistryOK',
         NEW p, NEW a, Mints(p, a), NEW d \in Dispatch, NEW x \in Calls, Becomes(d, x),
         x.tool \in Agent, x.child = Fresh, adapter # "agno" => a = x.tool,
         adapter \notin {"openai_agents", "omnigent", "claude_sdk"} => who[p] = x.by,
         x.node # None => x.node \in granted /\ who[x.node] = x.by,
         x.body = "none", x.outcome = "none",
         \/ call[d].stage = "idle"
         \/ x.stage # "idle" /\ x.entry = call[d].entry /\ x.node = call[d].node /\ x.tool = call[d].tool,
         x.stage = "over" => ~Promised(d)
  PROVE  FrameInv'
<1>1. /\ Grows /\ ServiceOK' /\ UNCHANGED <<allowed, open, killed>>
      /\ p \in granted /\ a \in Agent
      /\ Fresh \in Node /\ Fresh \notin granted /\ Fresh # None
      /\ granted' = granted \cup {Fresh}
      /\ who'[Fresh] = a /\ line'[Fresh] = line[p] \cup {Fresh}
  BY MintSteps DEF FrameInv
<1> DEFINE f == Fresh
<1>2. /\ x.child = f /\ p \in granted /\ f \in granted' /\ f # None
      /\ who'[f] = a /\ line'[f] = line[p] \cup {f}
  BY <1>1
<1> HIDE DEF f
<1>3. call'[d] = x /\ x.tool \notin {"use", "broken"}
  BY NameAssumption DEF FrameInv, Becomes
<1>4. UNCHANGED open /\ (Promised(d)' <=> Promised(d))
  BY <1>1, SameOpen
<1>5. OnOwnNode(d)'
  BY <1>1, <1>3 DEF OnOwnNode, Grows
<1>6. Authorized(d)'
  BY <1>3 DEF Authorized
<1>7. ChildIsDelegate(d)'
  BY <1>2, <1>3 DEF ChildIsDelegate
<1>8. ChildBelowCaller(d)'
  <2>1. /\ p \in granted' /\ line'[p] = line[p]
        /\ adapter \notin {"openai_agents", "omnigent", "claude_sdk"} => who'[p] = x.by
    BY <1>1 DEF Grows
  <2> QED BY <1>2, <1>3, <2>1 DEF ChildBelowCaller
<1>9. PromiseKnown(d)'
  <2>1. PromiseKnown(d)
    BY DEF FrameInv, CallOK
  <2>2. CASE call[d].stage = "idle"
    BY <1>4, <2>2, NewIsUnpromised DEF PromiseKnown
  <2>3. CASE call[d].stage # "idle"
    BY <1>3, <1>4, <2>1, <2>3 DEF PromiseKnown
  <2> QED BY <2>2, <2>3
<1>10. HandsWait(d)' /\ BodyToCome(d)' /\ OutcomeKnown(d)' /\ Settled(d)'
  BY <1>3, <1>4 DEF HandsWait, BodyToCome, OutcomeKnown, Settled
<1>11. CallOK(d)'
  BY <1>5, <1>6, <1>7, <1>8, <1>9, <1>10 DEF CallOK
<1> QED BY <1>1, <1>4, <1>11, OneCall

LEMMA NewDelegation ==
  ASSUME FrameInv, UNCHANGED adapter, MemKeeps, NEW d, NEW c, IsNew(d, c), c.tool \in Agent,
         NEW n, Register(n, c.tool), who[n] = c.by,
         Becomes(d, [c EXCEPT !.stage = "running", !.node = n, !.child = Fresh])
  PROVE  FrameInv'
<1> DEFINE x == [c EXCEPT !.stage = "running", !.node = n, !.child = Fresh]
<1>1. Mints(n, c.tool) /\ RegistryOK'
  BY RegistrySet DEF FrameInv
<1>2. n \in granted /\ n \in Node /\ Fresh \in Node
  BY <1>1, MintSteps DEF FrameInv, ServiceOK
<1>3. /\ x \in Calls /\ x.stage = "running" /\ x.node = n /\ x.by = c.by /\ x.tool = c.tool
      /\ x.child = Fresh /\ x.body = "none" /\ x.outcome = "none"
  BY <1>2 DEF IsNew, Calls, Stages
<1>4. d \in Dispatch /\ call[d].stage = "idle" /\ Becomes(d, x)
  BY DEF IsNew
<1> HIDE DEF x
<1>5. /\ who[n] = x.by /\ x.tool \in Agent /\ c.tool = x.tool
      /\ x.node # None => x.node \in granted /\ who[x.node] = x.by
      /\ x.stage # "over"
  BY <1>2, <1>3
<1> QED BY <1>1, <1>3, <1>4, <1>5, GetsChild

(* The calls that have been cleared to delegate. *)
LEMMA ClearedCall ==
  ASSUME FrameInv, NEW d, call[d].stage \in {"cleared", "running"}, d \in Dispatch
  PROVE  /\ call[d] \in Calls /\ call[d].body = "none"
         /\ call[d].outcome # "none" => SharesWithRefused(d)
         /\ call[d].node # None => call[d].node \in granted /\ who[call[d].node] = call[d].by
<1>1. CallOK(d) /\ call[d] \in Calls
  BY DEF FrameInv
<1> QED BY <1>1 DEF CallOK, BodyToCome, OutcomeKnown, OnOwnNode, Works

LEMMA LaterDelegation ==
  ASSUME FrameInv, UNCHANGED adapter, MemKeeps, RegistryOK', adapter # "crewai",
         NEW d \in Dispatch, call[d].stage \in {"cleared", "running"}, call[d].tool \in Agent,
         NEW p, NEW a, Mints(p, a), adapter # "agno" => a = call[d].tool,
         adapter \notin {"openai_agents", "omnigent", "claude_sdk"} => who[p] = call[d].by,
         NEW stage \in {"cleared", "running", "over"}, stage = "over" => ~Promised(d),
         Becomes(d, [call[d] EXCEPT !.stage = stage, !.child = Fresh])
  PROVE  FrameInv'
<1> DEFINE c == call[d]
           x == [c EXCEPT !.stage = stage, !.child = Fresh]
<1>1. /\ c \in Calls /\ c.body = "none" /\ c.outcome = "none"
      /\ c.node # None => c.node \in granted /\ who[c.node] = c.by
  BY ClearedCall DEF SharesWithRefused
<1>2. Fresh \in Node
  BY MintSteps DEF FrameInv
<1>3. /\ x \in Calls /\ x.stage = stage /\ x.node = c.node /\ x.by = c.by /\ x.tool = c.tool
      /\ x.child = Fresh /\ x.body = "none" /\ x.outcome = "none" /\ x.entry = c.entry
  BY <1>1, <1>2 DEF Calls, Stages
<1>4. Becomes(d, x)
  OBVIOUS
<1> HIDE DEF x
<1>5. /\ x.tool \in Agent /\ (adapter # "agno" => a = x.tool)
      /\ adapter \notin {"openai_agents", "omnigent", "claude_sdk"} => who[p] = x.by
      /\ x.node # None => x.node \in granted /\ who[x.node] = x.by
      /\ x.stage # "idle" /\ x.entry = call[d].entry /\ x.node = call[d].node /\ x.tool = call[d].tool
      /\ x.stage = "over" => ~Promised(d)
  BY <1>1, <1>3
<1> QED BY <1>3, <1>4, <1>5, GetsChild

-----------------------------------------------------------------------------
(* The moves of a call that is under way                                   *)

(* Nothing is reported of it: it had promised nothing, or is left open. *)
LEMMA MovesOn ==
  ASSUME FrameInv, UNCHANGED <<adapter, registry>>, Calm, Grows, ServiceOK', MemKeeps,
         NEW d \in Dispatch, NEW x \in Calls, Becomes(d, x),
         call[d].stage \notin {"idle", "over"},
         x.by = call[d].by, x.tool = call[d].tool, x.node = call[d].node,
         x.child = call[d].child, x.outcome = call[d].outcome,
         x.stage # "idle", call[d].entry # "none" => x.entry # "none",
         x.stage \in {"cleared", "running"} => x.body = "none" /\ Works(d),
         x.stage = "cleared" => call[d].stage = "cleared",
         x.stage = "ended" => x.body # "skipped",
         x.body \in {"returned", "raised", "deferred"} => Works(d) \/ Ran(d),
         x.stage = "over" => ~Promised(d) \/ LeftOpen(d)'
  PROVE  FrameInv'
<1>1. call'[d] = x /\ CallOK(d) /\ call[d] \in Calls
  BY DEF FrameInv, Becomes
<1>2. UNCHANGED <<open, who, granted, line>> /\ (Promised(d)' <=> Promised(d))
  BY SameOpen DEF Calm
<1>3. OnOwnNode(d)'
  BY <1>1, <1>2 DEF CallOK, OnOwnNode, Works
<1>4. Authorized(d)'
  <2>1. Authorized(d)
    BY <1>1 DEF CallOK
  <2>2. (Works(d) \/ Ran(d))' => Works(d) \/ Ran(d)
    BY <1>1 DEF Works, Ran
  <2>3. Ungated(d)' <=> Ungated(d)
    BY <1>1 DEF Ungated
  <2> QED BY <1>1, <1>2, <2>1, <2>2, <2>3 DEF Authorized, Grows
<1>5. ChildIsDelegate(d)' /\ ChildBelowCaller(d)'
  BY <1>1, <1>2 DEF CallOK, ChildIsDelegate, ChildBelowCaller
<1>6. PromiseKnown(d)'
  BY <1>1, <1>2 DEF CallOK, PromiseKnown
<1>7. BodyToCome(d)' /\ HandsWait(d)'
  BY <1>1 DEF CallOK, BodyToCome, HandsWait
<1>8. OutcomeKnown(d)'
  <2>1. SharesWithRefused(d) => SharesWithRefused(d)'
    BY DEF MemKeeps
  <2> QED BY <1>1, <2>1 DEF CallOK, OutcomeKnown
<1>9. Settled(d)'
  BY <1>1, <1>2 DEF Settled
<1>10. CallOK(d)'
  BY <1>3, <1>4, <1>5, <1>6, <1>7, <1>8, <1>9 DEF CallOK
<1> QED BY <1>2, <1>10, OneCall, RegistryKept DEF FrameInv

(* Its outcome is reported as it is over. *)
LEMMA ReportedOver ==
  ASSUME FrameInv, UNCHANGED <<adapter, registry>>, MemKeeps,
         NEW d \in Dispatch, Report(d), NEW x \in Calls, Becomes(d, x),
         call[d].stage \notin {"idle", "over"}, x.stage = "over",
         x.by = call[d].by, x.tool = call[d].tool, x.node = call[d].node,
         x.child = call[d].child,
         x.body \in {"returned", "raised", "deferred"} => Works(d) \/ Ran(d),
         ~SharesWithRefused(d)' /\ x.outcome # "none" => x.outcome = SeenOf(d)'
  PROVE  FrameInv'
<1>1. call'[d] = x /\ CallOK(d) /\ call[d] \in Calls
  BY DEF FrameInv, Becomes
<1>2. /\ Grows /\ ServiceOK' /\ UNCHANGED <<granted, line, who, allowed, killed>>
      /\ open' = {o \in open : o[1] # d}
  BY ReportSteps DEF FrameInv
<1>3. ~Promised(d)' /\ \A n \in Node : <<d, n>> \notin open'
  BY <1>2 DEF Promised
<1>4. OnOwnNode(d)' /\ ChildIsDelegate(d)' /\ ChildBelowCaller(d)'
  BY <1>1, <1>2 DEF CallOK, OnOwnNode, Works, ChildIsDelegate, ChildBelowCaller
<1>5. Authorized(d)'
  <2>1. Authorized(d)
    BY <1>1 DEF CallOK
  <2>2. (Works(d) \/ Ran(d))' => Works(d) \/ Ran(d)
    BY <1>1 DEF Works, Ran
  <2>3. Ungated(d)' <=> Ungated(d)
    BY <1>1 DEF Ungated
  <2> QED BY <1>1, <1>2, <2>1, <2>2, <2>3 DEF Authorized, Grows
<1>6. PromiseKnown(d)' /\ HandsWait(d)' /\ BodyToCome(d)' /\ OutcomeKnown(d)' /\ Settled(d)'
  BY <1>1, <1>3 DEF PromiseKnown, HandsWait, BodyToCome, OutcomeKnown, Settled
<1>7. CallOK(d)'
  BY <1>4, <1>5, <1>6 DEF CallOK
<1>8. \A o \in open' : o \in open
  BY <1>2
<1> QED BY <1>2, <1>7, <1>8, OneCall, RegistryKept DEF FrameInv

(* The delegation that was cleared is refused. *)
LEMMA RefusedLater ==
  ASSUME FrameInv, UNCHANGED <<adapter, registry>>, MemKeeps,
         NEW d \in Dispatch, call[d].stage = "cleared", Rejects(d, call[d]),
         \/ call[d].tool \in Agent /\ adapter \in {"ag2", "agent_framework", "autogen", "haystack"}
         \/ ~Promised(d)
  PROVE  FrameInv'
<1> DEFINE c == call[d]
           x == [c EXCEPT !.stage = "over"]
<1>1. c \in Calls /\ PromiseKnown(d) /\ BodyToCome(d) /\ open \subseteq Dispatch \X Node
  BY DEF FrameInv, CallOK, ServiceOK
<1>2. /\ x \in Calls /\ x.stage = "over" /\ x.by = c.by /\ x.tool = c.tool /\ x.node = c.node
      /\ x.child = c.child /\ x.body = c.body /\ x.outcome = c.outcome /\ x.entry = c.entry
  BY <1>1 DEF Calls, Stages
<1>3. Becomes(d, x) /\ UNCHANGED serviceVars
  BY DEF Rejects
<1>4. Calm /\ Grows /\ ServiceOK'
  BY <1>3, CalmSteps DEF FrameInv
<1> HIDE DEF x
<1>5. Promised(d) => c.entry # "none"
  BY <1>1 DEF Promised, PromiseKnown
<1>6. call'[d] = x /\ c.body = "none"
  BY <1>1, <1>3 DEF FrameInv, Becomes, BodyToCome
<1>7. ~Promised(d) \/ LeftOpen(d)'
  BY <1>2, <1>5, <1>6 DEF LeftOpen, RefusedAfterAllow, Hands
<1> QED BY <1>2, <1>3, <1>4, <1>6, <1>7, MovesOn

(* It goes on to its body, or to the end of it. *)
LEMMA StageMoves ==
  ASSUME FrameInv, UNCHANGED <<adapter, registry>>, UNCHANGED serviceVars, MemKeeps,
         NEW d \in Dispatch, Works(d), NEW stage \in {"running", "ended"},
         Becomes(d, [call[d] EXCEPT !.stage = stage])
  PROVE  FrameInv'
<1> DEFINE c == call[d]
           x == [c EXCEPT !.stage = stage]
<1>1. c \in Calls /\ BodyToCome(d)
  BY DEF FrameInv, CallOK
<1>2. /\ x \in Calls /\ x.stage = stage /\ x.by = c.by /\ x.tool = c.tool /\ x.node = c.node
      /\ x.child = c.child /\ x.body = c.body /\ x.outcome = c.outcome /\ x.entry = c.entry
  BY <1>1 DEF Calls, Stages
<1>3. Becomes(d, x)
  OBVIOUS
<1>4. Calm /\ Grows /\ ServiceOK'
  BY CalmSteps DEF FrameInv
<1>5. c.body = "none" /\ c.stage \notin {"idle", "over"}
  BY <1>1 DEF BodyToCome, Works
<1> HIDE DEF x
<1> QED BY <1>2, <1>3, <1>4, <1>5, MovesOn

(* Its body is over, and nothing is said of it. *)
LEMMA ClosesKeeps ==
  ASSUME FrameInv, UNCHANGED <<adapter, registry>>, Calm, Grows, ServiceOK', MemKeeps,
         NEW d \in Dispatch, NEW how \in Bodies, Closes(d, how, "none"),
         ~Promised(d) \/ (how = "cancelled" /\ adapter \in {"astrbot", "google_adk"}),
         adapter # "crewai"
  PROVE  FrameInv'
<1> DEFINE c == call[d]
           x == [c EXCEPT !.stage = "over", !.body = how, !.outcome = "none"]
<1>1. c \in Calls /\ c.stage = "running" /\ c.outcome = "none"
  BY ClearedCall DEF FrameInv, Closes, IsRunning, SharesWithRefused
<1>2. /\ x \in Calls /\ x.stage = "over" /\ x.by = c.by /\ x.tool = c.tool /\ x.node = c.node
      /\ x.child = c.child /\ x.body = how /\ x.outcome = c.outcome /\ x.entry = c.entry
  BY <1>1 DEF Calls, Stages, Outcomes
<1>3. Becomes(d, x)
  BY DEF Closes
<1> HIDE DEF x
<1>4. call'[d] = x /\ Works(d)
  BY <1>1, <1>3 DEF FrameInv, Becomes, Works
<1>5. ~Promised(d) \/ LeftOpen(d)'
  BY <1>2, <1>4 DEF LeftOpen
<1> QED BY <1>1, <1>2, <1>3, <1>4, <1>5, MovesOn

(* The wrapper around a body reports what it saw. *)
LEMMA EndsKeeps ==
  ASSUME FrameInv, UNCHANGED <<adapter, registry>>, MemKeeps, adapter # "crewai",
         NEW d \in Dispatch, NEW how \in Bodies, NEW says \in Outcomes, Ends(d, how, says),
         \/ says = Says(how) /\ how \in {"returned", "raised", "deferred", "cancelled"}
         \/ says = "none" /\ (~Promised(d) \/ (how = "cancelled" /\ adapter = "astrbot"))
  PROVE  FrameInv'
<1>1. CASE Promised(d) /\ says # "none"
  <2> DEFINE c == call[d]
             x == [c EXCEPT !.stage = "over", !.body = how, !.outcome = says]
  <2>1. Closes(d, how, says) /\ Report(d)
    BY <1>1 DEF Ends
  <2>2. c \in Calls /\ c.stage = "running"
    BY <2>1 DEF FrameInv, Closes, IsRunning
  <2>3. /\ x \in Calls /\ x.stage = "over" /\ x.by = c.by /\ x.tool = c.tool /\ x.node = c.node
        /\ x.child = c.child /\ x.body = how /\ x.outcome = says
    BY <2>2 DEF Calls, Stages
  <2>4. Becomes(d, x)
    BY <2>1 DEF Closes
  <2> HIDE DEF x
  <2>5. call'[d] = x /\ Works(d)
    BY <2>2, <2>4 DEF FrameInv, Becomes, Works
  <2>6. x.outcome = SeenOf(d)'
    BY <1>1, <2>3, <2>5 DEF SeenOf, Says
  <2> QED BY <2>1, <2>2, <2>3, <2>4, <2>5, <2>6, ReportedOver
<1>2. CASE ~(Promised(d) /\ says # "none")
  <2>1. Closes(d, how, "none") /\ UNCHANGED serviceVars
    BY <1>2 DEF Ends
  <2>2. Calm /\ Grows /\ ServiceOK'
    BY <2>1, CalmSteps DEF FrameInv
  <2>3. ~Promised(d) \/ (how = "cancelled" /\ adapter \in {"astrbot", "google_adk"})
    BY <1>2 DEF Says
  <2> QED BY <2>1, <2>2, <2>3, ClosesKeeps
<1> QED BY <1>1, <1>2

LEMMA WrappedKeeps ==
  ASSUME FrameInv, UNCHANGED adapter, MemKeeps, adapter # "crewai", NEW d \in Dispatch,
         NEW ways, ways \subseteq {"returned", "raised", "deferred", "cancelled"}, Wrapped(d, ways)
  PROVE  FrameInv'
<1>1. PICK how \in ways : Ends(d, how, Says(how))
  BY DEF Wrapped
<1>2. how \in Bodies /\ Says(how) \in Outcomes /\ UNCHANGED registry
  BY DEF Bodies, Outcomes, Says, Wrapped
<1> QED BY <1>1, <1>2, EndsKeeps

LEMMA RevokesKeeps ==
  ASSUME FrameInv, UNCHANGED <<adapter, registry, call>>, MemKeeps, NEW n, Revokes(n)
  PROVE  FrameInv'
<1>1. Calm /\ Grows /\ ServiceOK'
  BY CalmSteps DEF FrameInv
<1> QED BY <1>1, NoCall, RegistryKept DEF FrameInv, Calm

LEMMA RevokesNamedKeeps ==
  ASSUME FrameInv, UNCHANGED adapter, MemKeeps, NEW a, RevokesNamed(a)
  PROVE  FrameInv'
BY RevokesKeeps DEF RevokesNamed

LEMMA RevokesNodeKeeps ==
  ASSUME FrameInv, UNCHANGED adapter, MemKeeps, NEW n, RevokesNode(n)
  PROVE  FrameInv'
BY RevokesKeeps DEF RevokesNode

LEMMA RegisterKeeps ==
  ASSUME FrameInv, UNCHANGED <<adapter, call>>, MemKeeps, NEW p, NEW a, Register(p, a)
  PROVE  FrameInv'
<1>1. RegistryOK' /\ Mints(p, a)
  BY RegistrySet DEF FrameInv
<1>2. Grows /\ ServiceOK' /\ UNCHANGED open
  BY <1>1, MintSteps DEF FrameInv
<1> QED BY <1>1, <1>2, NoCall

-----------------------------------------------------------------------------
(* The adapters that hold a registry                                       *)

LEMMA RegisteredNode ==
  ASSUME FrameInv, NEW a \in Agent
  PROVE  registry[a] = None \/ (registry[a] \in granted /\ who[registry[a]] = a /\ registry[a] # None)
BY DEF FrameInv, RegistryOK

(* What a gate may do with a new call, the Guard in force being n: refuse   *)
(* it, let it through where there is no policy, ask, or wait to delegate.   *)
Answers(d, c, n) ==
  \/ Rejects(d, c)
  \/ Denies(d, c, n)
  \/ c.tool = "unlisted" /\ \E m \in {n, None}, e \in {"none", "pass"} : Exempts(d, c, m, e)
  \/ c.tool = "use" /\ \E promised \in BOOLEAN : Checks(d, c, n, promised, "running")
  \/ /\ c.tool \in Agent
     /\ \E promised \in BOOLEAN, stage \in {"cleared", "running"} :
          Checks(d, c, n, promised, stage) /\ (promised => adapter \in PromisesHands)
  \/ /\ c.tool \in Agent
     /\ Becomes(d, [c EXCEPT !.stage = "cleared", !.node = n]) /\ UNCHANGED serviceVars

LEMMA AnswersKeep ==
  ASSUME FrameInv, UNCHANGED <<adapter, registry>>, MemKeeps, NEW d, NEW c, IsNew(d, c),
         NEW n, n \in granted, who[n] = c.by, Answers(d, c, n)
  PROVE  FrameInv'
<1>1. CASE Rejects(d, c)
  BY <1>1, RejectsKeeps
<1>2. CASE Denies(d, c, n)
  BY <1>2, DeniesKeeps
<1>3. CASE c.tool = "unlisted" /\ \E m \in {n, None}, e \in {"none", "pass"} : Exempts(d, c, m, e)
  <2>1. PICK m \in {n, None}, e \in {"none", "pass"} : Exempts(d, c, m, e)
    BY <1>3
  <2>2. e \in Entries /\ (m = None \/ (m \in granted /\ who[m] = c.by)) /\ c.tool \notin {"use", "broken"}
    BY <1>3 DEF Entries
  <2> QED BY <2>1, <2>2, ExemptsKeeps
<1>4. CASE c.tool = "use" /\ \E promised \in BOOLEAN : Checks(d, c, n, promised, "running")
  <2>1. PICK promised \in BOOLEAN : Checks(d, c, n, promised, "running")
    BY <1>4
  <2>2. c.tool \notin Agent
    BY <1>4, NameAssumption
  <2> QED BY <2>1, <2>2, ChecksKeeps
<1>5. CASE /\ c.tool \in Agent
           /\ \E promised \in BOOLEAN, stage \in {"cleared", "running"} :
                Checks(d, c, n, promised, stage) /\ (promised => adapter \in PromisesHands)
  <2>1. PICK promised \in BOOLEAN, stage \in {"cleared", "running"} :
          Checks(d, c, n, promised, stage) /\ (promised => adapter \in PromisesHands)
    BY <1>5
  <2>2. adapter \in PromisesHands \/ ~promised
    BY <2>1, Zenon
  <2> QED BY <1>5, <2>1, <2>2, ChecksKeeps
<1>6. CASE /\ c.tool \in Agent
           /\ Becomes(d, [c EXCEPT !.stage = "cleared", !.node = n]) /\ UNCHANGED serviceVars
  BY <1>6, WaitsKeeps
<1> QED BY <1>1, <1>2, <1>3, <1>4, <1>5, <1>6 DEF Answers

(* The gate knows the Guard by the name of the agent that calls. *)
LEMMA NamedAnswersKeep ==
  ASSUME FrameInv, UNCHANGED <<adapter, registry>>, MemKeeps, NEW d, NEW c, IsNew(d, c),
         \/ Rejects(d, c)
         \/ Denies(d, c, Root)
         \/ registry[c.by] # None /\ Answers(d, c, registry[c.by])
         \/ c.tool \notin {"use", "broken"} /\ Exempts(d, c, None, "none")
  PROVE  FrameInv'
<1>1. CASE Rejects(d, c)
  BY <1>1, RejectsKeeps
<1>2. CASE Denies(d, c, Root)
  <2>1. Root \in granted
    BY DEF FrameInv, ServiceOK
  <2> QED BY <1>2, <2>1, DeniesKeeps
<1>3. CASE registry[c.by] # None /\ Answers(d, c, registry[c.by])
  <2> DEFINE n == registry[c.by]
  <2>1. c.by \in Agent
    BY DEF IsNew, Calls
  <2>2. n \in granted /\ who[n] = c.by
    BY <1>3, <2>1, RegisteredNode
  <2>3. Answers(d, c, n)
    BY <1>3
  <2> HIDE DEF n
  <2> QED BY <2>2, <2>3, AnswersKeep
<1>4. CASE c.tool \notin {"use", "broken"} /\ Exempts(d, c, None, "none")
  BY <1>4, ExemptsKeeps DEF Entries
<1> QED BY <1>1, <1>2, <1>3, <1>4

LEMMA NamedGateKeeps ==
  ASSUME FrameInv, UNCHANGED adapter, MemKeeps, NEW d, NEW c, IsNew(d, c), NamedGate(d, c),
         c.tool \in Agent => adapter \in PromisesHands
  PROVE  FrameInv'
<1>1. Strict \in BOOLEAN
  BY FrameworkAssumption
<1>2. \/ Rejects(d, c)
      \/ registry[c.by] # None /\ Answers(d, c, registry[c.by])
  BY <1>1, Zenon DEF NamedGate, Answers
<1> QED BY <1>2, NamedAnswersKeep DEF NamedGate

LEMMA SpawnAllowedKeeps ==
  ASSUME FrameInv, UNCHANGED adapter, MemKeeps, NEW d \in Dispatch, SpawnAllowed(d),
         adapter \in {"ag2", "agent_framework", "autogen"}
  PROVE  FrameInv'
<1> DEFINE c == call[d]
<1>1. c.stage = "cleared" /\ c.by \in Agent /\ c.tool \in Agent
  BY DEF SpawnAllowed, FrameInv, Calls, CallOK, HandsWait
<1>2. CASE Rejects(d, c) /\ UNCHANGED registry
  BY <1>1, <1>2, RefusedLater
<1>3. CASE Register(registry[c.by], c.tool) /\ Becomes(d, [c EXCEPT !.stage = "running", !.child = Fresh])
  <2> DEFINE p == registry[c.by]
  <2>1. Mints(p, c.tool) /\ RegistryOK'
    BY <1>3, RegistrySet DEF FrameInv
  <2>2. p # None
    BY <2>1 DEF Mints
  <2>3. who[p] = c.by
    BY <1>1, <2>2, RegisteredNode
  <2> HIDE DEF p
  <2> QED BY <1>1, <1>3, <2>1, <2>3, LaterDelegation
<1> QED BY <1>2, <1>3 DEF SpawnAllowed

LEMMA Ways ==
  /\ {"returned", "raised", "cancelled", "deferred"} \subseteq {"returned", "raised", "deferred", "cancelled"}
  /\ {"returned", "raised", "deferred"} \subseteq {"returned", "raised", "deferred", "cancelled"}
  /\ {"returned", "raised", "cancelled"} \subseteq {"returned", "raised", "deferred", "cancelled"}
  /\ {"returned", "raised"} \subseteq {"returned", "raised", "deferred", "cancelled"}
OBVIOUS

LEMMA Ag2Keeps ==
  ASSUME FrameInv, UNCHANGED adapter, adapter = "ag2", Ag2Next
  PROVE  FrameInv'
<1>0. MemKeeps /\ adapter # "crewai" /\ adapter \in PromisesHands
  BY PlainMem DEF PromisesHands
<1>1. CASE \E d \in NextCall, c \in ByName : Ag2Authorize(d, c)
  BY <1>0, <1>1, ByNameNew, NamedGateKeeps DEF Ag2Authorize
<1>2. CASE \E d \in Dispatch : Ag2Delegate(d)
  BY <1>0, <1>2, SpawnAllowedKeeps DEF Ag2Delegate
<1>3. CASE \E d \in Dispatch : Ag2Run(d)
  BY <1>0, <1>3, Ways, WrappedKeeps DEF Ag2Run
<1>4. CASE \E a \in Staff : Ag2Revoke(a)
  BY <1>0, <1>4, RevokesNamedKeeps DEF Ag2Revoke
<1> QED BY <1>1, <1>2, <1>3, <1>4 DEF Ag2Next

LEMMA AgentFrameworkKeeps ==
  ASSUME FrameInv, UNCHANGED adapter, adapter = "agent_framework", AgentFrameworkNext
  PROVE  FrameInv'
<1>0. MemKeeps /\ adapter # "crewai" /\ adapter \in PromisesHands
  BY PlainMem DEF PromisesHands
<1>1. CASE \E d \in NextCall, c \in ByName : AgentFrameworkAuthorize(d, c)
  BY <1>0, <1>1, ByNameNew, NamedGateKeeps DEF AgentFrameworkAuthorize
<1>2. CASE \E d \in Dispatch : AgentFrameworkDelegate(d)
  BY <1>0, <1>2, SpawnAllowedKeeps DEF AgentFrameworkDelegate
<1>3. CASE \E d \in Dispatch : AgentFrameworkProcess(d)
  BY <1>0, <1>3, Ways, WrappedKeeps DEF AgentFrameworkProcess
<1>4. CASE \E a \in Staff : AgentFrameworkRevoke(a)
  BY <1>0, <1>4, RevokesNamedKeeps DEF AgentFrameworkRevoke
<1> QED BY <1>1, <1>2, <1>3, <1>4 DEF AgentFrameworkNext

LEMMA AutogenKeeps ==
  ASSUME FrameInv, UNCHANGED adapter, adapter = "autogen", AutogenNext
  PROVE  FrameInv'
<1>0. MemKeeps /\ adapter # "crewai" /\ adapter \in PromisesHands
  BY PlainMem DEF PromisesHands
<1>1. CASE \E d \in NextCall, c \in ByName : AutogenAuthorize(d, c)
  BY <1>0, <1>1, ByNameNew, NamedGateKeeps DEF AutogenAuthorize
<1>2. CASE \E d \in Dispatch : AutogenDelegate(d)
  BY <1>0, <1>2, SpawnAllowedKeeps DEF AutogenDelegate
<1>3. CASE \E d \in Dispatch : AutogenCallTool(d) \/ AutogenCallToolStream(d)
  BY <1>0, <1>3, Ways, WrappedKeeps DEF AutogenCallTool, AutogenCallToolStream
<1>4. CASE \E s, a \in Staff : AutogenHandoff(s, a)
  BY <1>0, <1>4, RegisterKeeps DEF AutogenHandoff
<1>5. CASE \E a \in Staff : AutogenRevoke(a)
  BY <1>0, <1>5, RevokesNamedKeeps DEF AutogenRevoke
<1> QED BY <1>1, <1>2, <1>3, <1>4, <1>5 DEF AutogenNext

-----------------------------------------------------------------------------
(* The adapters that guard a hand-off by a hook of its own                 *)

LEMMA StillKeeps ==
  ASSUME FrameInv, UNCHANGED <<adapter, call, registry>>, UNCHANGED serviceVars, MemKeeps
  PROVE  FrameInv'
<1>1. Calm /\ Grows /\ ServiceOK'
  BY CalmSteps DEF FrameInv
<1> QED BY <1>1, NoCall, RegistryKept DEF FrameInv, Calm

LEMMA CompletesKeeps ==
  ASSUME FrameInv, UNCHANGED <<adapter, call, registry>>, MemKeeps, NEW n, Completes(n)
  PROVE  FrameInv'
<1>1. Calm /\ Grows /\ ServiceOK'
  BY CalmSteps DEF FrameInv
<1> QED BY <1>1, NoCall, RegistryKept DEF FrameInv, Calm

LEMMA HandsUnpromised ==
  ASSUME FrameInv, adapter \notin PromisesHands, NEW d \in Dispatch, call[d].tool \in Agent
  PROVE  ~Promised(d)
BY DEF FrameInv, ServiceOK, CallOK, PromiseKnown, Promised

(* A delegation to an agent that has its Guard already. *)
LEMMA TakesChild ==
  ASSUME FrameInv, UNCHANGED <<adapter, registry>>, UNCHANGED serviceVars, MemKeeps,
         adapter \in {"openai_agents", "omnigent"},
         NEW d \in Dispatch, NEW x \in Calls, Becomes(d, x), x.stage = "running",
         x.tool \in Agent, x.child = registry[x.tool], x.child # None,
         x.node # None => x.node \in granted /\ who[x.node] = x.by,
         x.body = "none", x.outcome = "none", ~Promised(d)
  PROVE  FrameInv'
<1>1. Calm /\ Grows /\ ServiceOK'
  BY CalmSteps DEF FrameInv
<1>2. call'[d] = x /\ x.tool \notin {"use", "broken"}
  BY NameAssumption DEF FrameInv, Becomes
<1>3. x.child \in granted /\ who[x.child] = x.tool
  BY RegisteredNode
<1>4. UNCHANGED <<open, who, granted>> /\ ~Promised(d)'
  BY <1>1, SameOpen DEF Calm
<1>5. CallOK(d)'
  BY <1>2, <1>3, <1>4 DEF CallOK, OnOwnNode, Authorized, ChildIsDelegate, ChildBelowCaller,
     PromiseKnown, Promised, HandsWait, BodyToCome, OutcomeKnown, Settled
<1> QED BY <1>1, <1>2, <1>4, <1>5, OneCall, RegistryKept DEF FrameInv

LEMMA OpenaiDelegateKeeps ==
  ASSUME FrameInv, UNCHANGED adapter, adapter = "openai_agents", MemKeeps,
         NEW d \in Dispatch, OpenaiStartAgent(d)
  PROVE  FrameInv'
<1> DEFINE c == call[d]
           Runs(n) == Becomes(d, [c EXCEPT !.stage = "running", !.child = n])
<1>1. c.stage = "cleared" /\ c.by \in Agent /\ c.tool \in Agent /\ c \in Calls
  BY DEF OpenaiStartAgent, FrameInv, Calls, CallOK, HandsWait
<1>2. ~Promised(d)
  BY <1>1, HandsUnpromised DEF PromisesHands
<1>3. CASE OpenaiDelegate(c.by, c.tool) /\ Runs(Fresh)
  <2> DEFINE p == registry[c.by]
  <2>1. Register(p, c.tool)
    BY <1>3 DEF OpenaiDelegate
  <2>2. Mints(p, c.tool) /\ RegistryOK'
    BY <2>1, RegistrySet DEF FrameInv
  <2> HIDE DEF p
  <2> QED BY <1>1, <1>3, <2>2, LaterDelegation
<1>4. CASE OpenaiMayReuse(c.tool) /\ Runs(registry[c.tool]) /\ UNCHANGED <<serviceVars, registry, mem>>
  <2> DEFINE x == [c EXCEPT !.stage = "running", !.child = registry[c.tool]]
  <2>1. c.body = "none" /\ c.outcome = "none" /\ (c.node # None => c.node \in granted /\ who[c.node] = c.by)
    BY <1>1, ClearedCall DEF SharesWithRefused
  <2>2. registry[c.tool] \in Node /\ registry[c.tool] # None
    BY <1>1, <1>4 DEF OpenaiMayReuse, FrameInv, RegistryOK
  <2>3. /\ x \in Calls /\ x.stage = "running" /\ x.tool = c.tool /\ x.child = registry[c.tool]
        /\ x.node = c.node /\ x.by = c.by /\ x.body = "none" /\ x.outcome = "none"
    BY <1>1, <2>1, <2>2 DEF Calls, Stages
  <2>4. Becomes(d, x)
    BY <1>4
  <2> HIDE DEF x
  <2>5. /\ x.tool \in Agent /\ x.child = registry[x.tool] /\ x.child # None
        /\ x.node # None => x.node \in granted /\ who[x.node] = x.by
    BY <1>1, <2>1, <2>2, <2>3
  <2> QED BY <1>2, <1>4, <2>3, <2>4, <2>5, TakesChild
<1>5. CASE Rejects(d, c) /\ UNCHANGED registry
  BY <1>1, <1>2, <1>5, RefusedLater
<1> QED BY <1>3, <1>4, <1>5 DEF OpenaiStartAgent

LEMMA OpenaiKeeps ==
  ASSUME FrameInv, UNCHANGED adapter, adapter = "openai_agents", OpenaiNext
  PROVE  FrameInv'
<1>0. MemKeeps /\ adapter # "crewai" /\ adapter \notin PromisesHands /\ Strict \in BOOLEAN
  BY PlainMem, FrameworkAssumption DEF PromisesHands
<1>1. ASSUME NEW d \in NextCall, NEW c \in ByName, OpenaiInvoke(d, c) \/ OpenaiAuthorizeV1(d, c)
      PROVE  FrameInv'
  <2>1. \/ Rejects(d, c)
        \/ registry[c.by] # None /\ Answers(d, c, registry[c.by])
    BY <1>0, <1>1, Zenon DEF OpenaiInvoke, OpenaiAuthorizeV1, Answers
  <2> QED BY <1>0, <1>1, <2>1, ByNameNew, NamedAnswersKeep DEF OpenaiInvoke, OpenaiAuthorizeV1
<1>2. ASSUME NEW d \in NextCall, NEW c \in ByName, OpenaiAgentTool(d, c)
      PROVE  FrameInv'
  <2> DEFINE n == registry[c.by]
  <2>1. IsNew(d, c) /\ c.by \in Agent /\ c.tool \in Agent /\ UNCHANGED registry
    BY <1>2, ByNameNew DEF IsNew, Calls, OpenaiAgentTool, Hands
  <2>2. CASE /\ Becomes(d, [c EXCEPT !.stage = "cleared", !.node = n])
             /\ UNCHANGED serviceVars
    <3>1. n = None \/ (n \in granted /\ who[n] = c.by)
      BY <2>1, RegisteredNode
    <3>2. Becomes(d, [c EXCEPT !.stage = "cleared", !.node = n]) /\ UNCHANGED serviceVars
      BY <2>2
    <3> HIDE DEF n
    <3> QED BY <1>0, <2>1, <3>1, <3>2, WaitsKeeps
  <2>3. CASE n = None /\ Rejects(d, c)
    BY <1>0, <2>1, <2>3, RejectsKeeps
  <2>4. CASE n # None /\ Checks(d, c, n, FALSE, "cleared")
    <3>1. Answers(d, c, n)
      BY <2>1, <2>4, Zenon DEF Answers
    <3> QED BY <1>0, <2>1, <2>4, <3>1, NamedAnswersKeep
  <2> QED BY <1>2, <2>2, <2>3, <2>4 DEF OpenaiAgentTool
<1>3. CASE \E d \in Dispatch : OpenaiStartAgent(d)
  BY <1>0, <1>3, OpenaiDelegateKeeps
<1>4. CASE \E d \in Dispatch : OpenaiBody(d)
  BY <1>0, <1>4, Ways, WrappedKeeps DEF OpenaiBody
<1>5. CASE \E d \in Dispatch : OpenaiGuardrailRefuses(d)
  BY <1>0, <1>5, EndsKeeps DEF OpenaiGuardrailRefuses, Bodies, Outcomes
<1>6. CASE \E p, a \in Staff : OpenaiHandoff(p, a)
  BY <1>0, <1>6, RegisterKeeps DEF OpenaiHandoff, OpenaiDelegate
<1>7. CASE \E a \in Staff : OpenaiRevoke(a)
  BY <1>0, <1>7, StillKeeps, RevokesKeeps DEF OpenaiRevoke
<1> QED BY <1>1, <1>2, <1>3, <1>4, <1>5, <1>6, <1>7 DEF OpenaiNext

LEMMA AgnoMintKeeps ==
  ASSUME FrameInv, UNCHANGED adapter, adapter = "agno", MemKeeps, NEW d \in Dispatch, AgnoMint(d)
  PROVE  FrameInv'
<1> DEFINE c == call[d]
<1>1. c.stage = "cleared" /\ c.by \in Agent /\ c.tool \in Agent /\ c \in Calls
  BY DEF AgnoMint, FrameInv, Calls, CallOK, HandsWait
<1>2. ~Promised(d)
  BY <1>1, HandsUnpromised DEF PromisesHands
<1>3. CASE \E a \in mem.targets[d] : Register(c.node, a) /\ Becomes(d, [c EXCEPT !.child = Fresh])
  <2>1. PICK a \in mem.targets[d] : Register(c.node, a) /\ Becomes(d, [c EXCEPT !.child = Fresh])
    BY <1>3
  <2>2. Mints(c.node, a) /\ RegistryOK' /\ c.node # None
    BY <2>1, RegistrySet DEF FrameInv, Mints
  <2>3. who[c.node] = c.by
    BY <1>1, <2>2, ClearedCall
  <2>4. [c EXCEPT !.child = Fresh] = [c EXCEPT !.stage = "cleared", !.child = Fresh]
    BY <1>1 DEF Calls
  <2>5. Becomes(d, [c EXCEPT !.stage = "cleared", !.child = Fresh])
    BY <2>1, <2>4
  <2> QED BY <1>1, <2>2, <2>3, <2>5, LaterDelegation
<1>4. CASE Rejects(d, c) /\ UNCHANGED registry
  BY <1>1, <1>2, <1>4, RefusedLater
<1>5. CASE Becomes(d, [c EXCEPT !.stage = "running"]) /\ UNCHANGED <<serviceVars, registry, mem>>
  BY <1>1, <1>5, StageMoves DEF Works
<1> QED BY <1>3, <1>4, <1>5 DEF AgnoMint

LEMMA AgnoKeeps ==
  ASSUME FrameInv, UNCHANGED adapter, adapter = "agno", AgnoNext
  PROVE  FrameInv'
<1>0. MemKeeps /\ adapter # "crewai"
  BY PlainMem
<1>1. CASE \E d \in NextCall, c \in ByName : AgnoAuthorize(d, c)
  BY <1>0, <1>1, ByNameNew, NamedGateKeeps DEF AgnoAuthorize, Uses
<1>2. ASSUME NEW d \in NextCall, NEW c \in ByName, AgnoDelegation(d, c)
      PROVE  FrameInv'
  <2>1. IsNew(d, c)
    BY ByNameNew
  <2>2. \/ Rejects(d, c)
        \/ registry[c.by] # None /\ Answers(d, c, registry[c.by])
    BY <1>2, Zenon DEF AgnoDelegation, Answers, Hands
  <2> QED BY <1>0, <1>2, <2>1, <2>2, NamedAnswersKeep DEF AgnoDelegation
<1>3. CASE \E d \in Dispatch : AgnoMint(d)
  BY <1>0, <1>3, AgnoMintKeeps
<1>4. CASE \E d \in Dispatch : AgnoHook(d) \/ AgnoAsync(d)
  BY <1>0, <1>4, Ways, WrappedKeeps DEF AgnoHook, AgnoAsync
<1>5. CASE \E n \in Node : AgnoRevoke(n)
  BY <1>0, <1>5, RevokesNodeKeeps DEF AgnoRevoke
<1> QED BY <1>1, <1>2, <1>3, <1>4, <1>5 DEF AgnoNext

LEMMA SemanticKernelKeeps ==
  ASSUME FrameInv, UNCHANGED adapter, adapter = "semantic_kernel", SemanticKernelNext, KeepsMem
  PROVE  FrameInv'
<1>0. MemKeeps /\ adapter # "crewai" /\ Strict \in BOOLEAN
  BY PlainMem, FrameworkAssumption
<1>1. ASSUME NEW d \in NextCall, NEW c \in ByName, SkToolGate(d, c)
      PROVE  FrameInv'
  <2>1. IsNew(d, c) /\ UNCHANGED registry
    BY <1>1, ByNameNew DEF SkToolGate
  <2>2. "unlisted" \notin {"use", "broken"}
    OBVIOUS
  <2>3. \/ Denies(d, c, Root)
        \/ registry[c.by] # None /\ Answers(d, c, registry[c.by])
        \/ c.tool \notin {"use", "broken"} /\ Exempts(d, c, None, "none")
    BY <1>0, <1>1, <2>2, Zenon DEF SkToolGate, SkRecordRefusal, Answers
  <2> QED BY <1>0, <2>1, <2>3, NamedAnswersKeep
<1>2. ASSUME NEW d \in NextCall, NEW c \in ByName, SkDelegationGate(d, c)
      PROVE  FrameInv'
  <2>1. IsNew(d, c) /\ c.by \in Agent /\ c.tool \in Agent
    BY <1>2, ByNameNew DEF SkDelegationGate, Hands, IsNew, Calls
  <2>2. CASE (Denies(d, c, Root) \/ Rejects(d, c)) /\ UNCHANGED registry
    BY <1>0, <2>1, <2>2, NamedAnswersKeep
  <2>3. CASE /\ Register(registry[c.by], c.tool)
             /\ Becomes(d, [c EXCEPT !.stage = "running", !.node = registry[c.by], !.child = Fresh])
    <3> DEFINE p == registry[c.by]
    <3>1. Register(p, c.tool) /\ Becomes(d, [c EXCEPT !.stage = "running", !.node = p, !.child = Fresh])
      BY <2>3
    <3>2. p # None
      BY <3>1 DEF Register, Mints
    <3>3. who[p] = c.by
      BY <2>1, <3>2, RegisteredNode
    <3> HIDE DEF p
    <3> QED BY <1>0, <2>1, <3>1, <3>3, NewDelegation
  <2> QED BY <1>2, <2>2, <2>3 DEF SkDelegationGate, SkRecordRefusal, SkDelegate
<1>3. CASE \E d \in Dispatch : SkNext(d)
  BY <1>0, <1>3, Ways, WrappedKeeps DEF SkNext
<1>4. CASE \E a \in Staff : SkRevoke(a)
  BY <1>0, <1>4, RevokesNamedKeeps DEF SkRevoke
<1> QED BY <1>1, <1>2, <1>3, <1>4 DEF SemanticKernelNext

LEMMA LlamaHandedOffKeeps ==
  ASSUME FrameInv, UNCHANGED adapter, adapter = "llama_index", MemKeeps,
         NEW d \in Dispatch, LlamaHandedOff(d)
  PROVE  FrameInv'
<1> DEFINE c == call[d]
<1>1. c.stage = "cleared" /\ c.tool \in Agent /\ c \in Calls
  BY DEF LlamaHandedOff, FrameInv, CallOK, HandsWait
<1>2. ~Promised(d)
  BY <1>1, HandsUnpromised DEF PromisesHands
<1>3. CASE Rejects(d, c) /\ UNCHANGED registry
  BY <1>1, <1>2, <1>3, RefusedLater
<1>4. CASE Register(c.node, c.tool) /\ Becomes(d, [c EXCEPT !.stage = "over", !.child = Fresh])
  <2>1. Mints(c.node, c.tool) /\ RegistryOK' /\ c.node # None
    BY <1>4, RegistrySet DEF FrameInv, Mints
  <2>2. who[c.node] = c.by
    BY <1>1, <2>1, ClearedCall
  <2> QED BY <1>1, <1>2, <1>4, <2>1, <2>2, LaterDelegation
<1> QED BY <1>3, <1>4 DEF LlamaHandedOff

LEMMA LlamaKeeps ==
  ASSUME FrameInv, UNCHANGED adapter, adapter = "llama_index", LlamaNext
  PROVE  FrameInv'
<1>0. MemKeeps /\ adapter # "crewai"
  BY PlainMem
<1>1. CASE \E d \in NextCall, c \in ByName : LlamaGuarded(d, c)
  <2>1. {"use", "broken"} \cap Agent = {}
    BY NameAssumption
  <2> QED BY <1>0, <1>1, <2>1, ByNameNew, NamedGateKeeps DEF LlamaGuarded
<1>2. ASSUME NEW d \in NextCall, NEW c \in ByName, LlamaHandoff(d, c)
      PROVE  FrameInv'
  <2> DEFINE n == registry[c.by]
  <2>1. IsNew(d, c) /\ c.by \in Agent
    BY ByNameNew DEF IsNew, Calls
  <2>2. n = None \/ (n \in granted /\ who[n] = c.by)
    BY <2>1, RegisteredNode
  <2>3. /\ Becomes(d, [c EXCEPT !.stage = "cleared", !.node = n]) /\ c.tool \in Agent
        /\ UNCHANGED serviceVars /\ UNCHANGED registry
    BY <1>2 DEF LlamaHandoff, Hands
  <2> HIDE DEF n
  <2> QED BY <1>0, <2>1, <2>2, <2>3, WaitsKeeps
<1>3. CASE \E d \in Dispatch : LlamaHandedOff(d)
  BY <1>0, <1>3, LlamaHandedOffKeeps
<1>4. CASE \E d \in Dispatch : LlamaBody(d)
  BY <1>0, <1>4, Ways, WrappedKeeps DEF LlamaBody
<1>5. CASE LlamaTurn
  BY <1>0, <1>5, StillKeeps DEF LlamaTurn
<1>6. CASE \E n \in Node : LlamaRevoke(n)
  BY <1>0, <1>6, RevokesNodeKeeps DEF LlamaRevoke
<1> QED BY <1>1, <1>2, <1>3, <1>4, <1>5, <1>6 DEF LlamaNext

-----------------------------------------------------------------------------
(* The adapters where the Guard in force goes with the run                 *)

LEMMA NestedAnswersKeep ==
  ASSUME FrameInv, adapter # "agno", UNCHANGED <<adapter, registry>>, MemKeeps,
         NEW d \in NextCall, NEW c \in Nested, Answers(d, c, InForce(c))
  PROVE  FrameInv'
<1> DEFINE n == InForce(c)
<1>1. IsNew(d, c) /\ n \in granted /\ who[n] = c.by
  BY NestedNew
<1>2. Answers(d, c, n)
  OBVIOUS
<1> HIDE DEF n
<1> QED BY <1>1, <1>2, AnswersKeep

LEMMA NestedDelegation ==
  ASSUME FrameInv, adapter # "agno", UNCHANGED adapter, MemKeeps,
         NEW d \in NextCall, NEW c \in Nested, c.tool \in Agent, Register(InForce(c), c.tool),
         Becomes(d, [c EXCEPT !.stage = "running", !.node = InForce(c), !.child = Fresh])
  PROVE  FrameInv'
<1> DEFINE n == InForce(c)
<1>1. IsNew(d, c) /\ n \in granted /\ who[n] = c.by
  BY NestedNew
<1>2. Register(n, c.tool) /\ Becomes(d, [c EXCEPT !.stage = "running", !.node = n, !.child = Fresh])
  OBVIOUS
<1> HIDE DEF n
<1> QED BY <1>1, <1>2, NewDelegation

LEMMA EndsRunKeeps ==
  ASSUME FrameInv, UNCHANGED adapter, MemKeeps, adapter \notin PromisesHands \cup {"crewai"},
         NEW d \in Dispatch, call[d].tool \in Agent, NEW how \in Bodies, EndsRun(d, how)
  PROVE  FrameInv'
<1>1. Closes(d, how, "none") /\ Completes(call[d].child) /\ UNCHANGED registry
  BY DEF EndsRun
<1>2. Calm /\ Grows /\ ServiceOK'
  BY <1>1, CalmSteps DEF FrameInv
<1>3. ~Promised(d)
  BY HandsUnpromised
<1> QED BY <1>1, <1>2, <1>3, ClosesKeeps

LEMMA LangchainKeeps ==
  ASSUME FrameInv, UNCHANGED adapter, adapter = "langchain", LangchainNext, KeepsMem
  PROVE  FrameInv'
<1>0. /\ MemKeeps /\ adapter # "agno" /\ adapter \notin PromisesHands \cup {"crewai"}
      /\ Strict \in BOOLEAN
  BY PlainMem, FrameworkAssumption DEF PromisesHands
<1>1. ASSUME NEW d \in NextCall, NEW c \in Nested, LangchainGate(d, c)
      PROVE  FrameInv'
  <2>1. c.tool \in {"use", "unlisted", "broken"}
    BY <1>0, <1>1, NestedNew DEF LangchainGate, Uses, IsNew, Calls, Tools
  <2>2. Answers(d, c, InForce(c))
    <3> DEFINE n == InForce(c)
    <3> HIDE DEF n
    <3>1. CASE c.tool = "unlisted"
      <4>1. Exempts(d, c, n, "pass") \/ Denies(d, c, n)
        BY <1>1, <3>1 DEF LangchainGate, n
      <4> QED BY <3>1, <4>1 DEF Answers, n
    <3>2. CASE c.tool = "broken"
      BY <1>1, <3>2 DEF LangchainGate, Answers, n
    <3>3. CASE c.tool = "use"
      <4>1. Checks(d, c, n, Strict, "running")
        BY <1>1, <3>3 DEF LangchainGate, n
      <4> QED BY <1>0, <3>3, <4>1, Zenon DEF Answers, n
    <3> QED BY <2>1, <3>1, <3>2, <3>3
  <2> QED BY <1>0, <1>1, <2>2, NestedAnswersKeep DEF LangchainGate
<1>2. ASSUME NEW d \in NextCall, NEW c \in Nested, LangchainGateDelegation(d, c)
      PROVE  FrameInv'
  <2>1. CASE (Denies(d, c, InForce(c)) \/ Rejects(d, c)) /\ UNCHANGED registry
    BY <1>0, <2>1, NestedAnswersKeep DEF Answers
  <2>2. CASE /\ Register(InForce(c), c.tool)
             /\ Becomes(d, [c EXCEPT !.stage = "running", !.node = InForce(c), !.child = Fresh])
    BY <1>0, <1>2, <2>2, NestedDelegation DEF LangchainGateDelegation, Hands
  <2> QED BY <1>2, <2>1, <2>2 DEF LangchainGateDelegation
<1>3. CASE \E d \in Dispatch : LangchainRunSync(d) \/ LangchainRunAsync(d)
  BY <1>0, <1>3, Ways, WrappedKeeps DEF LangchainRunSync, LangchainRunAsync
<1>4. CASE \E d \in Dispatch : LangchainWrapToolCall(d) \/ LangchainAwrapToolCall(d)
  BY <1>0, <1>4, EndsRunKeeps DEF LangchainWrapToolCall, LangchainAwrapToolCall, Hands, Bodies
<1>5. CASE \E a \in Staff : LangchainRevoke(a)
  BY <1>0, <1>5, RevokesNamedKeeps DEF LangchainRevoke
<1> QED BY <1>1, <1>2, <1>3, <1>4, <1>5 DEF LangchainNext

LEMMA LanggraphKeeps ==
  ASSUME FrameInv, UNCHANGED adapter, adapter = "langgraph", LanggraphNext, KeepsMem
  PROVE  FrameInv'
<1>0. MemKeeps /\ adapter # "crewai" /\ Strict \in BOOLEAN
  BY PlainMem, FrameworkAssumption
<1>1. CASE \E p, a \in Staff : LanggraphAddNode(p, a)
  BY <1>0, <1>1, RegisterKeeps DEF LanggraphAddNode
<1>2. ASSUME NEW d \in NextCall, NEW c \in ByName, LanggraphAuthorize(d, c)
      PROVE  FrameInv'
  <2> DEFINE n == registry[c.by]
  <2>1. /\ IsNew(d, c) /\ n # None /\ n \in granted /\ who[n] = c.by /\ UNCHANGED registry
        /\ c.tool \notin Agent
    BY <1>2, ByNameNew, RegisteredNode, NameAssumption DEF LanggraphAuthorize, IsNew, Calls
  <2>2. Denies(d, c, n) \/ \E stage \in {"cleared", "running"} : Checks(d, c, n, Strict, stage)
    BY <1>2 DEF LanggraphAuthorize
  <2> HIDE DEF n
  <2>3. CASE Denies(d, c, n)
    BY <1>0, <2>1, <2>3, DeniesKeeps
  <2>4. CASE \E stage \in {"cleared", "running"} : Checks(d, c, n, Strict, stage)
    BY <1>0, <2>1, <2>4, ChecksKeeps
  <2> QED BY <2>2, <2>3, <2>4
<1>3. ASSUME NEW d \in Dispatch, LanggraphAwait(d)
      PROVE  FrameInv'
  <2>1. CASE Becomes(d, [call[d] EXCEPT !.stage = "running"])
    BY <1>0, <1>3, <2>1, StageMoves DEF LanggraphAwait, Works
  <2>2. CASE Becomes(d, [call[d] EXCEPT !.stage = "over"])
    <3> DEFINE c == call[d]
               x == [c EXCEPT !.stage = "over"]
    <3>1. c \in Calls /\ c.stage = "cleared" /\ c.body = "none"
      BY <1>3, ClearedCall DEF LanggraphAwait
    <3>2. /\ x \in Calls /\ x.stage = "over" /\ x.by = c.by /\ x.tool = c.tool /\ x.node = c.node
          /\ x.child = c.child /\ x.body = c.body /\ x.outcome = c.outcome /\ x.entry = c.entry
      BY <3>1 DEF Calls, Stages
    <3>3. Becomes(d, x)
      BY <2>2
    <3> HIDE DEF x
    <3>4. Calm /\ Grows /\ ServiceOK' /\ UNCHANGED registry
      BY <1>3, CalmSteps DEF FrameInv, LanggraphAwait
    <3>5. LeftOpen(d)'
      BY <3>1, <3>2, <3>3 DEF FrameInv, Becomes, LeftOpen
    <3> QED BY <1>0, <3>1, <3>2, <3>3, <3>4, <3>5, MovesOn
  <2> QED BY <1>3, <2>1, <2>2 DEF LanggraphAwait
<1>4. CASE \E d \in Dispatch : LanggraphRun(d) \/ LanggraphWrapped(d)
  BY <1>0, <1>4, Ways, WrappedKeeps DEF LanggraphRun, LanggraphWrapped
<1>5. CASE \E a \in Staff : LanggraphRevoke(a)
  BY <1>0, <1>5, RevokesNamedKeeps DEF LanggraphRevoke
<1> QED BY <1>1, <1>2, <1>3, <1>4, <1>5 DEF LanggraphNext

LEMMA HaystackScopeKeeps ==
  ASSUME FrameInv, UNCHANGED adapter, adapter = "haystack", MemKeeps,
         NEW d \in Dispatch, HaystackScope(d)
  PROVE  FrameInv'
<1> DEFINE c == call[d]
<1>1. c.stage = "cleared" /\ c.tool \in Agent /\ c \in Calls /\ c.body = "none"
  BY DEF HaystackScope, FrameInv, CallOK, HandsWait, BodyToCome
<1>2. CASE Register(c.node, c.tool) /\ Becomes(d, [c EXCEPT !.stage = "running", !.child = Fresh])
  <2>1. Mints(c.node, c.tool) /\ RegistryOK' /\ c.node # None
    BY <1>2, RegistrySet DEF FrameInv, Mints
  <2>2. who[c.node] = c.by
    BY <1>1, <2>1, ClearedCall
  <2> QED BY <1>1, <1>2, <2>1, <2>2, LaterDelegation
<1>3. CASE Becomes(d, [c EXCEPT !.stage = "over", !.entry = "deny"]) /\ UNCHANGED <<serviceVars, registry>>
  <2> DEFINE x == [c EXCEPT !.stage = "over", !.entry = "deny"]
  <2>1. /\ x \in Calls /\ x.stage = "over" /\ x.by = c.by /\ x.tool = c.tool /\ x.node = c.node
        /\ x.child = c.child /\ x.body = "none" /\ x.outcome = c.outcome /\ x.entry = "deny"
    BY <1>1 DEF Calls, Stages, Entries
  <2>2. Becomes(d, x) /\ UNCHANGED registry
    BY <1>3
  <2> HIDE DEF x
  <2>3. Calm /\ Grows /\ ServiceOK'
    BY <1>3, CalmSteps DEF FrameInv
  <2>4. LeftOpen(d)'
    BY <1>1, <2>1, <2>2 DEF FrameInv, Becomes, LeftOpen, RefusedAfterAllow, Hands
  <2> QED BY <1>1, <2>1, <2>2, <2>3, <2>4, MovesOn
<1> QED BY <1>2, <1>3 DEF HaystackScope

LEMMA HaystackKeeps ==
  ASSUME FrameInv, UNCHANGED adapter, adapter = "haystack", HaystackNext, KeepsMem
  PROVE  FrameInv'
<1>0. /\ MemKeeps /\ adapter # "agno" /\ adapter # "crewai" /\ adapter \in PromisesHands
      /\ Agent \cap {"use", "unlisted", "broken"} = {}
  BY PlainMem, NameAssumption DEF PromisesHands
<1>1. ASSUME NEW d \in NextCall, NEW c \in Nested,
             HaystackAuthorizeV2(d, c) \/ HaystackUnguarded(d, c) \/ HaystackDecide(d, c)
      PROVE  FrameInv'
  <2> DEFINE n == InForce(c)
  <2> HIDE DEF n
  <2>1. c.tool \in Tools
    BY <1>0, NestedNew DEF IsNew, Calls
  <2>2. CASE HaystackAuthorizeV2(d, c)
    <3>1. Answers(d, c, n)
      <4>1. CASE c.tool \in {"unlisted", "broken"}
        BY <1>0, <2>2, <4>1 DEF HaystackAuthorizeV2, Answers, n
      <4>2. CASE c.tool \in Agent
        <5>1. Checks(d, c, n, TRUE, "cleared")
          BY <1>0, <2>2, <4>2 DEF HaystackAuthorizeV2, n
        <5> QED BY <1>0, <4>2, <5>1 DEF Answers
      <4>3. CASE c.tool = "use"
        <5>1. Checks(d, c, n, TRUE, "running")
          BY <1>0, <2>2, <4>3 DEF HaystackAuthorizeV2, n
        <5> QED BY <4>3, <5>1 DEF Answers
      <4> QED BY <2>1, <4>1, <4>2, <4>3 DEF Tools
    <3> QED BY <1>0, <2>2, <3>1, NestedAnswersKeep DEF HaystackAuthorizeV2, n
  <2>3. CASE HaystackUnguarded(d, c)
    <3>1. Answers(d, c, InForce(c))
      BY <2>3 DEF HaystackUnguarded, Answers, Hands
    <3> QED BY <1>0, <2>3, <3>1, NestedAnswersKeep DEF HaystackUnguarded
  <2>4. CASE HaystackDecide(d, c)
    <3>1. Answers(d, c, n)
      <4>1. CASE c.tool \in {"unlisted", "broken"}
        BY <1>0, <2>4, <4>1 DEF HaystackDecide, Answers, Hands, n
      <4>2. CASE c.tool \in Agent
        BY <1>0, <2>4, <4>2 DEF HaystackDecide, Answers, Hands, n
      <4>3. CASE c.tool = "use"
        <5>1. Checks(d, c, n, FALSE, "running")
          BY <1>0, <2>4, <4>3 DEF HaystackDecide, Hands, n
        <5> QED BY <4>3, <5>1 DEF Answers
      <4> QED BY <2>1, <4>1, <4>2, <4>3 DEF Tools
    <3> QED BY <1>0, <2>4, <3>1, NestedAnswersKeep DEF HaystackDecide, n
  <2> QED BY <1>1, <2>2, <2>3, <2>4
<1>2. CASE \E d \in Dispatch : HaystackScope(d)
  BY <1>0, <1>2, HaystackScopeKeeps
<1>3. CASE \E d \in Dispatch : HaystackInvoke(d) \/ HaystackInvokeAsync(d)
  BY <1>0, <1>3, Ways, WrappedKeeps DEF HaystackInvoke, HaystackInvokeAsync
<1>4. CASE \E n \in Node : HaystackRevoke(n)
  BY <1>0, <1>4, RevokesNodeKeeps DEF HaystackRevoke
<1> QED BY <1>1, <1>2, <1>3, <1>4 DEF HaystackNext

LEMMA AstrbotGateKeeps ==
  ASSUME FrameInv, UNCHANGED adapter, adapter = "astrbot", MemKeeps,
         NEW d \in NextCall, NEW c \in Nested, AstrbotGate(d, c)
  PROVE  FrameInv'
<1> DEFINE n == InForce(c)
<1> HIDE DEF n
<1>1. IsNew(d, c) /\ UNCHANGED registry /\ c.tool \in {"use", "unlisted", "broken"}
  BY NestedNew DEF AstrbotGate, Uses, IsNew, Calls, Tools
<1>2. CASE ~mem'.swept
  <2>1. Exempts(d, c, None, "none")
    BY <1>2 DEF AstrbotGate
  <2> QED BY <1>1, <2>1, ExemptsKeeps DEF Entries
<1>3. CASE mem'.swept
  <2>1. Answers(d, c, n)
    <3>1. CASE c.tool = "unlisted"
      <4>1. Exempts(d, c, n, "pass") \/ Denies(d, c, n)
        BY <1>3, <3>1 DEF AstrbotGate, n
      <4> QED BY <3>1, <4>1 DEF Answers
    <3>2. CASE c.tool = "broken"
      BY <1>3, <3>2 DEF AstrbotGate, Answers, n
    <3>3. CASE c.tool = "use"
      <4>1. Checks(d, c, n, Strict, "running") /\ Strict \in BOOLEAN
        BY <1>3, <3>3, FrameworkAssumption DEF AstrbotGate, n
      <4> QED BY <3>3, <4>1, Zenon DEF Answers
    <3> QED BY <1>1, <3>1, <3>2, <3>3
  <2> QED BY <1>1, <2>1, NestedAnswersKeep DEF n
<1> QED BY <1>2, <1>3

LEMMA AstrbotKeeps ==
  ASSUME FrameInv, UNCHANGED adapter, adapter = "astrbot", AstrbotNext
  PROVE  FrameInv'
<1>0. MemKeeps /\ adapter # "agno" /\ adapter \notin PromisesHands \cup {"crewai"}
  BY PlainMem DEF PromisesHands
<1>1. CASE AstrbotManager
  BY <1>0, <1>1, StillKeeps DEF AstrbotManager
<1>2. CASE \E d \in NextCall, c \in Nested : AstrbotGate(d, c)
  BY <1>0, <1>2, AstrbotGateKeeps
<1>3. ASSUME NEW d \in NextCall, NEW c \in Nested, AstrbotGateDelegation(d, c)
      PROVE  FrameInv'
  <2>1. CASE (Denies(d, c, InForce(c)) \/ Rejects(d, c)) /\ UNCHANGED registry
    BY <1>0, <2>1, NestedAnswersKeep DEF Answers
  <2>2. CASE /\ Register(InForce(c), c.tool)
             /\ Becomes(d, [c EXCEPT !.stage = "running", !.node = InForce(c), !.child = Fresh])
    BY <1>0, <1>3, <2>2, NestedDelegation DEF AstrbotGateDelegation, Hands
  <2> QED BY <1>3, <2>1, <2>2 DEF AstrbotGateDelegation
<1>4. ASSUME NEW d \in Dispatch, AstrbotRun(d)
      PROVE  FrameInv'
  <2>1. PICK how \in {"returned", "raised", "cancelled"} :
          Ends(d, how, IF how = "cancelled" THEN "none" ELSE how)
    BY <1>4 DEF AstrbotRun
  <2>2. CASE how = "cancelled"
    <3>1. Ends(d, how, "none") /\ how \in Bodies /\ "none" \in Outcomes
      BY <2>1, <2>2 DEF Bodies, Outcomes
    <3> QED BY <1>0, <1>4, <2>2, <3>1, EndsKeeps DEF AstrbotRun
  <2>3. CASE how # "cancelled"
    <3>1. Ends(d, how, Says(how)) /\ how \in Bodies /\ Says(how) \in Outcomes
      BY <2>1, <2>3 DEF Bodies, Outcomes, Says
    <3> QED BY <1>0, <1>4, <2>1, <3>1, EndsKeeps DEF AstrbotRun
  <2> QED BY <2>2, <2>3
<1>5. ASSUME NEW d \in Dispatch, AstrbotInnerRefusal(d)
      PROVE  FrameInv'
  <2> DEFINE c == call[d]
             x == [c EXCEPT !.stage = "over", !.body = "skipped", !.outcome = "receipt"]
  <2>1. c \in Calls /\ c.stage = "running" /\ Report(d) /\ UNCHANGED registry
    BY <1>5 DEF FrameInv, AstrbotInnerRefusal, Closes, IsRunning
  <2>2. /\ x \in Calls /\ x.stage = "over" /\ x.by = c.by /\ x.tool = c.tool /\ x.node = c.node
        /\ x.child = c.child /\ x.body = "skipped" /\ x.outcome = "receipt"
    BY <2>1 DEF Calls, Stages, Bodies, Outcomes
  <2>3. Becomes(d, x)
    BY <1>5 DEF AstrbotInnerRefusal, Closes
  <2> HIDE DEF x
  <2>4. x.outcome = SeenOf(d)'
    BY <2>2, <2>3 DEF FrameInv, Becomes, SeenOf
  <2> QED BY <1>0, <2>1, <2>2, <2>3, <2>4, ReportedOver
<1>6. CASE \E d \in Dispatch : AstrbotExecuteHandoff(d)
  BY <1>0, <1>6, EndsRunKeeps DEF AstrbotExecuteHandoff, Hands, Bodies
<1>7. CASE \E a \in Staff : AstrbotRevoke(a)
  BY <1>0, <1>7, RevokesNamedKeeps DEF AstrbotRevoke
<1> QED BY <1>1, <1>2, <1>3, <1>4, <1>5, <1>6, <1>7 DEF AstrbotNext

-----------------------------------------------------------------------------
(* The adapters that bind a tool to its Guard, and those of the examples   *)

(* Where one manager has the toolkit, nobody else waits to delegate. *)
ManagerHands == \A d \in Dispatch : call[d].stage = "cleared" => call[d].by = RootAgent

LEMMA Becoming ==
  ASSUME FrameInv, NEW d \in Dispatch, NEW x, Becomes(d, x)
  PROVE  call'[d] = x /\ \A e \in Dispatch : e # d => call'[e] = call[e]
BY DEF FrameInv, Becomes

(* A manager's new delegation, on the root's Guard. *)
LEMMA ManagerAsks ==
  ASSUME FrameInv, UNCHANGED <<adapter, registry>>, MemKeeps, NEW d, NEW c, IsNew(d, c),
         c.tool \in Agent, c.by = RootAgent,
         \/ Checks(d, c, Root, FALSE, "cleared")
         \/ Becomes(d, [c EXCEPT !.stage = "cleared", !.node = Root]) /\ UNCHANGED serviceVars
  PROVE  FrameInv'
<1>1. Root \in granted /\ who[Root] = c.by
  BY DEF FrameInv, ServiceOK
<1>2. CASE Checks(d, c, Root, FALSE, "cleared")
  BY <1>1, <1>2, ChecksKeeps
<1>3. CASE Becomes(d, [c EXCEPT !.stage = "cleared", !.node = Root]) /\ UNCHANGED serviceVars
  BY <1>1, <1>3, WaitsKeeps
<1> QED BY <1>2, <1>3

LEMMA SmolagentsKeeps ==
  ASSUME FrameInv, ManagerHands, UNCHANGED adapter, adapter = "smolagents", SmolagentsNext, KeepsMem
  PROVE  FrameInv'
<1>0. MemKeeps /\ adapter # "agno" /\ adapter \notin PromisesHands \cup {"crewai"} /\ Strict \in BOOLEAN
  BY PlainMem, FrameworkAssumption DEF PromisesHands
<1>1. ASSUME NEW d \in NextCall, NEW c \in Nested, SmolagentsForward(d, c)
      PROVE  FrameInv'
  <2>1. IsNew(d, c) /\ UNCHANGED registry
    BY <1>0, <1>1, NestedNew DEF SmolagentsForward
  <2>2. "unlisted" \notin {"use", "broken"}
    OBVIOUS
  <2>3. \/ Rejects(d, c)
        \/ registry[c.by] # None /\ Answers(d, c, registry[c.by])
        \/ c.tool \notin {"use", "broken"} /\ Exempts(d, c, None, "none")
    BY <1>0, <1>1, <2>2, Zenon DEF SmolagentsForward, Answers
  <2> QED BY <1>0, <2>1, <2>3, NamedAnswersKeep
<1>2. CASE \E d \in NextCall, c \in Nested : SmolagentsEnforce(d, c)
  BY <1>0, <1>2, NestedNew, ManagerAsks DEF SmolagentsEnforce, FromRoot, Hands
<1>3. ASSUME NEW d \in Dispatch, SmolagentsMint(d)
      PROVE  FrameInv'
  <2> DEFINE c == call[d]
  <2>1. c.stage = "cleared" /\ c.tool \in Agent /\ c.by = RootAgent
    BY <1>3 DEF SmolagentsMint, FrameInv, CallOK, HandsWait, ManagerHands
  <2>2. ~Promised(d)
    BY <1>0, <2>1, HandsUnpromised
  <2>3. CASE Register(Root, c.tool) /\ Becomes(d, [c EXCEPT !.stage = "running", !.child = Fresh])
    <3>1. Mints(Root, c.tool) /\ RegistryOK' /\ who[Root] = c.by
      BY <2>1, <2>3, RegistrySet DEF FrameInv, ServiceOK
    <3> QED BY <1>0, <2>1, <2>3, <3>1, LaterDelegation
  <2>4. CASE Rejects(d, c) /\ UNCHANGED registry
    BY <1>0, <2>1, <2>2, <2>4, RefusedLater
  <2> QED BY <1>3, <2>3, <2>4 DEF SmolagentsMint
<1>4. CASE \E d \in Dispatch : SmolagentsBody(d)
  BY <1>0, <1>4, Ways, WrappedKeeps DEF SmolagentsBody
<1>5. CASE \E n \in Node : SmolagentsRevoke(n)
  BY <1>0, <1>5, RevokesNodeKeeps DEF SmolagentsRevoke
<1> QED BY <1>1, <1>2, <1>3, <1>4, <1>5 DEF SmolagentsNext

LEMMA PydanticKeeps ==
  ASSUME FrameInv, UNCHANGED adapter, adapter = "pydantic_ai", PydanticNext, KeepsMem
  PROVE  FrameInv'
<1>0. /\ MemKeeps /\ adapter # "agno" /\ adapter \in PromisesHands /\ adapter # "crewai"
      /\ Strict \in BOOLEAN /\ Agent \cap {"use", "unlisted", "broken"} = {}
  BY PlainMem, FrameworkAssumption, NameAssumption DEF PromisesHands
<1>1. ASSUME NEW d \in NextCall, NEW c \in Nested, PydanticResolve(d, c)
      PROVE  FrameInv'
  <2>1. Answers(d, c, InForce(c))
    BY <1>1 DEF PydanticResolve, Answers
  <2> QED BY <1>0, <1>1, <2>1, NestedAnswersKeep DEF PydanticResolve
<1>2. ASSUME NEW d \in NextCall, NEW c \in Nested, PydanticAuthorize(d, c)
      PROVE  FrameInv'
  <2> DEFINE n == InForce(c)
  <2> HIDE DEF n
  <2>1. c.tool \in Tools
    BY <1>0, NestedNew DEF IsNew, Calls
  <2>2. Answers(d, c, n)
    <3>1. CASE c.tool = "unlisted"
      BY <1>2, <3>1 DEF PydanticAuthorize, Answers
    <3>2. CASE c.tool = "broken"
      BY <1>2, <3>2 DEF PydanticAuthorize, Answers, n
    <3>3. CASE c.tool = "use" \/ c.tool \in Agent
      <4>1. Checks(d, c, n, Strict, "running")
        BY <1>0, <1>2, <3>3 DEF PydanticAuthorize, n
      <4> QED BY <1>0, <3>3, <4>1 DEF Answers
    <3> QED BY <2>1, <3>1, <3>2, <3>3 DEF Tools
  <2> QED BY <1>0, <1>2, <2>2, NestedAnswersKeep DEF PydanticAuthorize, n
<1>3. ASSUME NEW d \in Dispatch, PydanticDelegate(d)
      PROVE  FrameInv'
  <2> DEFINE c == call[d]
  <2>1. c.stage = "running" /\ c.tool \in Agent /\ c \in Calls
    BY <1>3 DEF PydanticDelegate, IsRunning, Hands, FrameInv
  <2>2. Mints(c.node, c.tool) /\ RegistryOK' /\ c.node # None
    BY <1>3, RegistrySet DEF PydanticDelegate, FrameInv, Mints
  <2>3. who[c.node] = c.by
    BY <2>1, <2>2, ClearedCall
  <2>4. [c EXCEPT !.child = Fresh] = [c EXCEPT !.stage = "running", !.child = Fresh]
    BY <2>1 DEF Calls
  <2>5. Becomes(d, [c EXCEPT !.stage = "running", !.child = Fresh])
    BY <1>3, <2>4 DEF PydanticDelegate
  <2> QED BY <1>0, <2>1, <2>2, <2>3, <2>5, LaterDelegation
<1>4. CASE \E d \in Dispatch : PydanticRun(d)
  BY <1>0, <1>4, Ways, WrappedKeeps DEF PydanticRun
<1>5. CASE \E n \in Node : PydanticRevoke(n)
  BY <1>0, <1>5, RevokesNodeKeeps DEF PydanticRevoke
<1> QED BY <1>1, <1>2, <1>3, <1>4, <1>5 DEF PydanticNext

LEMMA OmnigentDispatchKeeps ==
  ASSUME FrameInv, UNCHANGED adapter, adapter = "omnigent", MemKeeps,
         NEW d \in NextCall, NEW c \in ByName, OmnigentDispatch(d, c)
  PROVE  FrameInv'
<1> DEFINE n == registry[c.by]
           Runs(m) == Becomes(d, [c EXCEPT !.stage = "running", !.node = n, !.child = m])
<1>1. IsNew(d, c) /\ c.by \in Agent /\ c.tool \in Agent
  BY ByNameNew DEF OmnigentDispatch, Hands, IsNew, Calls
<1>2. n # None => n \in granted /\ who[n] = c.by
  BY <1>1, RegisteredNode
<1>3. CASE Denies(d, c, Root) /\ UNCHANGED registry
  BY <1>1, <1>3, NamedAnswersKeep
<1>4. CASE n # None /\ Denies(d, c, n) /\ UNCHANGED registry
  BY <1>1, <1>4, NamedAnswersKeep DEF Answers
<1>5. CASE n # None /\ registry[c.tool] # None /\ Runs(registry[c.tool]) /\ UNCHANGED <<serviceVars, registry>>
  <2> DEFINE x == [c EXCEPT !.stage = "running", !.node = n, !.child = registry[c.tool]]
  <2>1. n \in Node /\ registry[c.tool] \in Node
    BY <1>1, <1>5 DEF FrameInv, RegistryOK
  <2>2. /\ x \in Calls /\ x.stage = "running" /\ x.tool = c.tool /\ x.child = registry[c.tool]
        /\ x.node = n /\ x.by = c.by /\ x.body = "none" /\ x.outcome = "none"
    BY <1>1, <2>1 DEF IsNew, Calls, Stages
  <2>3. Becomes(d, x)
    BY <1>5
  <2> HIDE DEF x
  <2>4. ~Promised(d) /\ d \in Dispatch
    BY <1>1, NewIsUnpromised DEF IsNew
  <2>5. /\ x.tool \in Agent /\ x.child = registry[x.tool] /\ x.child # None
        /\ x.node # None => x.node \in granted /\ who[x.node] = x.by
    BY <1>1, <1>2, <1>5, <2>2
  <2> QED BY <1>5, <2>2, <2>3, <2>4, <2>5, TakesChild
<1>6. CASE n # None /\ Register(n, c.tool) /\ Runs(Fresh)
  BY <1>1, <1>2, <1>6, NewDelegation
<1>7. CASE Rejects(d, c) /\ UNCHANGED registry
  BY <1>1, <1>7, RejectsKeeps
<1> QED BY <1>3, <1>4, <1>5, <1>6, <1>7 DEF OmnigentDispatch

LEMMA OmnigentKeeps ==
  ASSUME FrameInv, UNCHANGED adapter, adapter = "omnigent", OmnigentNext, KeepsMem
  PROVE  FrameInv'
<1>0. MemKeeps /\ adapter # "crewai"
  BY PlainMem
<1>1. ASSUME NEW d \in NextCall, NEW c \in ByName, OmnigentEvaluate(d, c)
      PROVE  FrameInv'
  <2>1. IsNew(d, c) /\ UNCHANGED registry
    BY <1>1, ByNameNew DEF OmnigentEvaluate
  <2>2. \/ Denies(d, c, Root)
        \/ registry[c.by] # None /\ Answers(d, c, registry[c.by])
    BY <1>1 DEF OmnigentEvaluate, Answers
  <2> QED BY <1>0, <2>1, <2>2, NamedAnswersKeep
<1>2. CASE \E d \in NextCall, c \in ByName : OmnigentDispatch(d, c)
  BY <1>0, <1>2, OmnigentDispatchKeeps
<1>3. CASE \E d \in Dispatch : OmnigentBody(d)
  BY <1>0, <1>3, Ways, WrappedKeeps DEF OmnigentBody
<1>4. CASE \E n \in Node : OmnigentRevoke(n)
  BY <1>0, <1>4, RevokesNodeKeeps DEF OmnigentRevoke
<1> QED BY <1>1, <1>2, <1>3, <1>4 DEF OmnigentNext

LEMMA LangflowKeeps ==
  ASSUME FrameInv, UNCHANGED adapter, adapter = "langflow", LangflowNext, KeepsMem
  PROVE  FrameInv'
<1>0. MemKeeps /\ adapter # "crewai"
  BY PlainMem
<1>1. CASE \E p, a \in Staff : LangflowBuildGuard(p, a)
  BY <1>0, <1>1, RegisterKeeps DEF LangflowBuildGuard
<1>2. ASSUME NEW d \in NextCall, NEW c \in ByName, LangflowUnmapped(d, c) \/ LangflowAuthorize(d, c)
      PROVE  FrameInv'
  <2>1. IsNew(d, c) /\ UNCHANGED registry
    BY <1>2, ByNameNew DEF LangflowUnmapped, LangflowAuthorize
  <2>2. \/ Rejects(d, c)
        \/ registry[c.by] # None /\ Answers(d, c, registry[c.by])
        \/ c.tool \notin {"use", "broken"} /\ Exempts(d, c, None, "none")
    BY <1>2 DEF LangflowUnmapped, LangflowAuthorize, Answers
  <2> QED BY <1>0, <2>1, <2>2, NamedAnswersKeep
<1>3. CASE \E d \in Dispatch : LangflowRun(d)
  BY <1>0, <1>3, Ways, WrappedKeeps DEF LangflowRun
<1>4. CASE \E n \in Node : LangflowRevoke(n)
  BY <1>0, <1>4, RevokesNodeKeeps DEF LangflowRevoke
<1> QED BY <1>1, <1>2, <1>3, <1>4 DEF LangflowNext

-----------------------------------------------------------------------------
(* The adapters the framework calls before a body and after it             *)

LEMMA BodyEndsKeeps ==
  ASSUME FrameInv, UNCHANGED adapter, NEW d \in Dispatch,
         NEW ways, ways \subseteq {"returned", "raised", "deferred", "cancelled"}, BodyEnds(d, ways)
  PROVE  FrameInv'
<1>1. PICK how \in ways : Becomes(d, [call[d] EXCEPT !.stage = "ended", !.body = how])
  BY DEF BodyEnds
<1> DEFINE c == call[d]
           x == [c EXCEPT !.stage = "ended", !.body = how]
<1>2. c \in Calls /\ c.stage = "running" /\ UNCHANGED <<serviceVars, registry, mem>>
  BY DEF FrameInv, BodyEnds, IsRunning
<1>3. /\ x \in Calls /\ x.stage = "ended" /\ x.by = c.by /\ x.tool = c.tool /\ x.node = c.node
      /\ x.child = c.child /\ x.body # "skipped" /\ x.outcome = c.outcome /\ x.entry = c.entry
  BY <1>2 DEF Calls, Stages, Bodies
<1>4. Becomes(d, x) /\ Works(d)
  BY <1>1, <1>2 DEF Works
<1>5. Calm /\ Grows /\ ServiceOK' /\ MemKeeps
  BY <1>2, CalmSteps, SameMem DEF FrameInv
<1> HIDE DEF x
<1> QED BY <1>2, <1>3, <1>4, <1>5, MovesOn

LEMMA ForgetsKeeps ==
  ASSUME FrameInv, UNCHANGED <<adapter, registry>>, MemKeeps, NEW d \in Dispatch,
         call[d].stage = "ended", Forgets(d), ~Promised(d) \/ LeftOpen(d)
  PROVE  FrameInv'
<1> DEFINE c == call[d]
           x == [c EXCEPT !.stage = "over"]
<1>1. c \in Calls
  BY DEF FrameInv
<1>2. /\ x \in Calls /\ x.stage = "over" /\ x.by = c.by /\ x.tool = c.tool /\ x.node = c.node
      /\ x.child = c.child /\ x.body = c.body /\ x.outcome = c.outcome /\ x.entry = c.entry
  BY <1>1 DEF Calls, Stages
<1>3. Becomes(d, x) /\ UNCHANGED serviceVars
  BY DEF Forgets
<1>4. Calm /\ Grows /\ ServiceOK'
  BY <1>3, CalmSteps DEF FrameInv
<1> HIDE DEF x
<1>5. call'[d] = x
  BY <1>3, Becoming
<1>6. LeftOpen(d) => LeftOpen(d)'
  BY <1>2, <1>5 DEF LeftOpen, RefusedAfterAllow, Hands, MemKeeps
<1> QED BY <1>2, <1>3, <1>4, <1>6, MovesOn DEF Ran

LEMMA HearsKeeps ==
  ASSUME FrameInv, UNCHANGED <<adapter, registry>>, MemKeeps, NEW d \in Dispatch,
         call[d].stage = "ended", NEW says \in Outcomes, Hears(d, d, says),
         says # "none" => says = SeenOf(d)
  PROVE  FrameInv'
<1> DEFINE c == call[d]
           x == [c EXCEPT !.outcome = says, !.stage = "over"]
<1>1. c \in Calls
  BY DEF FrameInv
<1>2. /\ x \in Calls /\ x.stage = "over" /\ x.by = c.by /\ x.tool = c.tool /\ x.node = c.node
      /\ x.child = c.child /\ x.body = c.body /\ x.outcome = says
  BY <1>1 DEF Calls, Stages
<1>3. CASE Promised(d)
  <2>1. Report(d) /\ Becomes(d, x)
    BY <1>3 DEF Hears, Becomes, FrameInv
  <2> HIDE DEF x
  <2>2. call'[d] = x
    BY <2>1, Becoming
  <2>3. SeenOf(d)' = SeenOf(d)
    BY <1>2, <2>2 DEF SeenOf
  <2> QED BY <1>2, <2>1, <2>3, ReportedOver DEF Ran
<1>4. CASE ~Promised(d)
  BY <1>4, ForgetsKeeps DEF Hears
<1> QED BY <1>3, <1>4

LEMMA StrandsEvaluateKeeps ==
  ASSUME FrameInv, UNCHANGED adapter, adapter = "strands",
         NEW d \in NextCall, NEW c \in ByName, StrandsEvaluate(d, c)
  PROVE  FrameInv'
<1> DEFINE n == registry[c.by]
<1>1. /\ IsNew(d, c) /\ c.tool \in Tools /\ c.by \in Agent /\ UNCHANGED registry /\ MemKeeps
      /\ adapter \in PromisesHands /\ Strict \in BOOLEAN
      /\ Agent \cap {"use", "unlisted", "broken"} = {}
  BY ByNameNew, SameMem, FrameworkAssumption, NameAssumption
     DEF StrandsEvaluate, IsNew, Calls, PromisesHands
<1>2. CASE n = None
  BY <1>1, <1>2, RejectsKeeps DEF StrandsEvaluate
<1>3. CASE n # None
  <2>1. n \in granted /\ who[n] = c.by
    BY <1>1, <1>3, RegisteredNode
  <2>2. CASE c.tool = "unlisted"
    <3>1. Exempts(d, c, n, "none")
      BY <1>1, <1>3, <2>2 DEF StrandsEvaluate
    <3>2. Answers(d, c, n)
      BY <2>2, <3>1 DEF Answers
    <3> QED BY <1>1, <1>3, <3>2, NamedAnswersKeep
  <2>3. CASE c.tool = "broken"
    BY <1>1, <1>3, <2>3, RejectsKeeps DEF StrandsEvaluate
  <2>4. CASE c.tool \in Agent
    <3>1. \/ Checks(d, c, n, Strict, "cleared")
          \/ Becomes(d, [c EXCEPT !.stage = "cleared", !.node = n]) /\ UNCHANGED serviceVars
      BY <1>1, <1>3, <2>4 DEF StrandsEvaluate
    <3> HIDE DEF n
    <3>2. Answers(d, c, n)
      BY <1>1, <2>4, <3>1, Zenon DEF Answers
    <3> QED BY <1>1, <2>1, <3>2, AnswersKeep
  <2>5. CASE c.tool = "use"
    <3>1. Checks(d, c, n, Strict, "running")
      BY <1>1, <1>3, <2>5 DEF StrandsEvaluate
    <3> HIDE DEF n
    <3>2. Answers(d, c, n)
      BY <1>1, <2>5, <3>1, Zenon DEF Answers
    <3> QED BY <1>1, <2>1, <3>2, AnswersKeep
  <2> QED BY <1>1, <2>2, <2>3, <2>4, <2>5 DEF Tools
<1> QED BY <1>2, <1>3

LEMMA StrandsMintKeeps ==
  ASSUME FrameInv, UNCHANGED adapter, adapter = "strands", MemKeeps,
         NEW d \in Dispatch, StrandsMint(d)
  PROVE  FrameInv'
<1> DEFINE c == call[d]
<1>1. c.stage = "cleared" /\ c.tool \in Agent /\ c \in Calls
  BY DEF StrandsMint, FrameInv, CallOK, HandsWait
<1>2. CASE Register(c.node, c.tool) /\ Becomes(d, [c EXCEPT !.stage = "running", !.child = Fresh])
  <2>1. Mints(c.node, c.tool) /\ RegistryOK' /\ c.node # None
    BY <1>2, RegistrySet DEF FrameInv, Mints
  <2>2. who[c.node] = c.by
    BY <1>1, <2>1, ClearedCall
  <2> QED BY <1>1, <1>2, <2>1, <2>2, LaterDelegation
<1>3. CASE Becomes(d, [c EXCEPT !.stage = "ended"]) /\ UNCHANGED <<serviceVars, registry>>
  BY <1>1, <1>3, StageMoves DEF Works
<1> QED BY <1>2, <1>3 DEF StrandsMint

LEMMA StrandsKeeps ==
  ASSUME FrameInv, "intervention" \in DOMAIN mem, UNCHANGED adapter, adapter = "strands", StrandsNext
  PROVE  FrameInv'
<1>1. CASE \E d \in NextCall, c \in ByName : StrandsEvaluate(d, c)
  BY <1>1, StrandsEvaluateKeeps
<1>2. CASE \E d \in Dispatch : StrandsMint(d)
  BY <1>2, StrandsMintKeeps, SameMem DEF StrandsMint
<1>3. CASE \E d \in Dispatch : StrandsBody(d)
  BY <1>3, Ways, BodyEndsKeeps DEF StrandsBody
<1>4. ASSUME NEW d \in Dispatch, StrandsAfterToolCall(d)
      PROVE  FrameInv'
  <2> DEFINE says == IF call[d].body \in {"none", "cancelled"} THEN "abandoned" ELSE call[d].body
  <2>1. call[d] \in Calls /\ BodyToCome(d) /\ call[d].stage = "ended" /\ Hears(d, d, says)
        /\ MemKeeps /\ UNCHANGED registry
    BY <1>4, SameMem DEF FrameInv, CallOK, StrandsAfterToolCall
  <2>2. says \in Outcomes /\ says = SeenOf(d)
    BY <2>1 DEF Calls, Bodies, Outcomes, BodyToCome, SeenOf
  <2> HIDE DEF says
  <2> QED BY <2>1, <2>2, HearsKeeps
<1>5. CASE \E d \in Dispatch : StrandsAsIntervention(d)
  BY <1>5, SameMem, ForgetsKeeps DEF StrandsAsIntervention, LeftOpen
<1>6. CASE \E p, a \in Staff : StrandsBeforeNodeCall(p, a)
  BY <1>6, SameMem, RegisterKeeps DEF StrandsBeforeNodeCall
<1>7. ASSUME NEW a \in Staff, StrandsRevoke(a)
      PROVE  FrameInv'
  <2>1. MemKeeps
    BY <1>7 DEF StrandsRevoke, MemKeeps, SharesWithRefused
  <2> QED BY <1>7, <2>1, RevokesKeeps DEF StrandsRevoke
<1> QED BY <1>1, <1>2, <1>3, <1>4, <1>5, <1>6, <1>7 DEF StrandsNext

LEMMA ClaudePreToolUseKeeps ==
  ASSUME FrameInv, UNCHANGED adapter, adapter = "claude_sdk", MemKeeps,
         NEW d \in NextCall, NEW c \in ClaudeCalls, ClaudePreToolUse(d, c)
  PROVE  FrameInv'
<1> DEFINE n == ClaudeGuardFor(c.within)
<1>1. IsNew(d, c) /\ (n = None \/ (n \in granted /\ who[n] = c.by))
  <2>1. CASE c \in Asks(RootAgent, None)
    <3>1. IsNew(d, c) /\ c.by = RootAgent /\ c.within = None
      BY <2>1, AbstractAssumption, NewOnes
    <3> QED BY <3>1 DEF ClaudeGuardFor, FrameInv, ServiceOK
  <2>2. CASE \E w \in {e \in Dispatch : IsRunning(e) /\ Hands(call[e])} : c \in Asks(call[w].tool, w)
    <3>1. PICK w \in Dispatch : Hands(call[w]) /\ c \in Asks(call[w].tool, w)
      BY <2>2
    <3>2. IsNew(d, c) /\ c.by = call[w].tool /\ c.within = w
      BY <3>1, NewOnes DEF Hands
    <3>3. call[w].child # None => call[w].child \in granted /\ who[call[w].child] = call[w].tool
      BY <3>1 DEF FrameInv, CallOK, ChildIsDelegate
    <3> QED BY <3>2, <3>3, NameAssumption DEF ClaudeGuardFor
  <2> QED BY <2>1, <2>2 DEF ClaudeCalls
<1>2. CASE Rejects(d, c) /\ UNCHANGED registry
  BY <1>1, <1>2, RejectsKeeps
<1>3. CASE n # None /\ Denies(d, c, n) /\ UNCHANGED registry
  BY <1>1, <1>3, DeniesKeeps
<1>4. CASE /\ n # None /\ UNCHANGED registry
           /\ \E promised \in {FALSE, Strict} : Clears(d, c, n, promised, "cleared")
  <2>1. PICK promised \in {FALSE, Strict} : Clears(d, c, n, promised, "cleared")
    BY <1>4
  <2>2. promised \in BOOLEAN /\ adapter \in PromisesHands
    BY FrameworkAssumption DEF PromisesHands
  <2> HIDE DEF n
  <2> QED BY <1>1, <1>4, <2>1, <2>2, ClearsKeeps
<1> QED BY <1>2, <1>3, <1>4 DEF ClaudePreToolUse

LEMMA ClaudeCanUseToolKeeps ==
  ASSUME FrameInv, UNCHANGED adapter, adapter = "claude_sdk", MemKeeps,
         NEW d \in Dispatch, ClaudeCanUseTool(d)
  PROVE  FrameInv'
<1> DEFINE c == call[d]
<1>1. /\ c.stage = "cleared" /\ c \in Calls /\ c.body = "none"
      /\ UNCHANGED <<registry, serviceVars>>
  BY ClearedCall DEF ClaudeCanUseTool
<1>2. CASE Becomes(d, [c EXCEPT !.stage = "running"])
  BY <1>1, <1>2, StageMoves DEF Works
<1>3. CASE Becomes(d, [c EXCEPT !.stage = "over"])
  <2> DEFINE x == [c EXCEPT !.stage = "over"]
  <2>1. /\ x \in Calls /\ x.stage = "over" /\ x.by = c.by /\ x.tool = c.tool /\ x.node = c.node
        /\ x.child = c.child /\ x.body = c.body /\ x.outcome = c.outcome /\ x.entry = c.entry
    BY <1>1 DEF Calls, Stages
  <2>2. Becomes(d, x)
    BY <1>3
  <2> HIDE DEF x
  <2>3. Calm /\ Grows /\ ServiceOK'
    BY <1>1, CalmSteps DEF FrameInv
  <2>4. LeftOpen(d)'
    BY <1>1, <2>1, <2>2, Becoming DEF LeftOpen
  <2> QED BY <1>1, <2>1, <2>2, <2>3, <2>4, MovesOn
<1> QED BY <1>2, <1>3 DEF ClaudeCanUseTool

LEMMA ClaudeKeeps ==
  ASSUME FrameInv, UNCHANGED adapter, adapter = "claude_sdk", ClaudeNext
  PROVE  FrameInv'
<1>0. MemKeeps
  BY PlainMem
<1>1. CASE \E d \in NextCall, c \in ClaudeCalls : ClaudePreToolUse(d, c)
  BY <1>0, <1>1, ClaudePreToolUseKeeps
<1>2. CASE \E d \in Dispatch : ClaudeCanUseTool(d)
  BY <1>0, <1>2, ClaudeCanUseToolKeeps
<1>3. ASSUME NEW d \in Dispatch, ClaudeMint(d)
      PROVE  FrameInv'
  <2> DEFINE c == call[d]
             p == ClaudeParent(c.tool)
  <2>1. c.stage = "running" /\ c.tool \in Agent /\ c \in Calls
    BY <1>3 DEF ClaudeMint, IsRunning, Hands, FrameInv
  <2>2. CASE Register(p, c.tool) /\ Becomes(d, [c EXCEPT !.child = Fresh])
    <3>1. Mints(p, c.tool) /\ RegistryOK'
      BY <2>2, RegistrySet DEF FrameInv
    <3>2. [c EXCEPT !.child = Fresh] = [c EXCEPT !.stage = "running", !.child = Fresh]
      BY <2>1 DEF Calls
    <3>3. Becomes(d, [c EXCEPT !.stage = "running", !.child = Fresh])
      BY <2>2, <3>2
    <3> HIDE DEF p
    <3> QED BY <1>0, <2>1, <3>1, <3>3, LaterDelegation
  <2>3. CASE UNCHANGED <<serviceVars, call, registry>>
    BY <1>0, <2>3, StillKeeps
  <2> QED BY <1>3, <2>2, <2>3 DEF ClaudeMint
<1>4. CASE \E d \in Dispatch : ClaudeBody(d)
  BY <1>4, Ways, BodyEndsKeeps DEF ClaudeBody
<1>5. CASE \E d \in Dispatch : ClaudePostToolUse(d)
  BY <1>0, <1>5, HearsKeeps DEF ClaudePostToolUse, Outcomes, SeenOf
<1>6. ASSUME NEW d \in Dispatch, ClaudePostToolUseFailure(d)
      PROVE  FrameInv'
  <2> DEFINE says == Says(call[d].body)
  <2>1. call[d] \in Calls /\ BodyToCome(d) /\ call[d].stage = "ended" /\ Hears(d, d, says)
        /\ UNCHANGED registry
    BY <1>6 DEF FrameInv, CallOK, ClaudePostToolUseFailure
  <2>2. says \in Outcomes /\ (says # "none" => says = SeenOf(d))
    BY <2>1 DEF Calls, Bodies, Outcomes, BodyToCome, SeenOf, Says
  <2> HIDE DEF says
  <2> QED BY <1>0, <2>1, <2>2, HearsKeeps
<1>7. CASE \E d \in Dispatch : ClaudeSubagentStop(d)
  BY <1>0, <1>7, CompletesKeeps, RevokesKeeps DEF ClaudeSubagentStop
<1>8. CASE \E n \in Node : ClaudeRevokeAgent(n)
  BY <1>0, <1>8, RevokesNodeKeeps DEF ClaudeRevokeAgent
<1> QED BY <1>1, <1>2, <1>3, <1>4, <1>5, <1>6, <1>7, <1>8 DEF ClaudeNext

LEMMA AdkBeforeToolKeeps ==
  ASSUME FrameInv, UNCHANGED adapter, adapter = "google_adk", MemKeeps,
         NEW d \in NextCall, NEW c \in ByName, AdkBeforeTool(d, c)
  PROVE  FrameInv'
<1> DEFINE n == registry[c.by]
<1>1. /\ IsNew(d, c) /\ c.tool \in Tools /\ UNCHANGED registry
      /\ n # None /\ n \in granted /\ n \in Node /\ who[n] = c.by
      /\ adapter \in PromisesHands /\ Strict \in BOOLEAN
      /\ Agent \cap {"use", "unlisted", "broken"} = {}
  BY ByNameNew, RegisteredNode, FrameworkAssumption, NameAssumption
     DEF AdkBeforeTool, AdkIsReady, IsNew, Calls, PromisesHands, FrameInv, ServiceOK
<1>2. CASE Hands(c) /\ AdkHandsBack(d, c)
  <2> DEFINE x == [c EXCEPT !.stage = "over", !.node = n]
  <2>1. /\ x \in Calls /\ x.stage = "over" /\ x.node = n
        /\ x.child = None /\ x.body = "none" /\ x.outcome = "none"
    BY <1>1 DEF IsNew, Calls, Stages
  <2>2. Becomes(d, x) /\ Completes(n)
    BY <1>2 DEF AdkHandsBack
  <2> HIDE DEF x, n
  <2>3. Calm /\ Grows /\ ServiceOK'
    BY <2>2, CalmSteps DEF FrameInv
  <2> QED BY <1>1, <2>1, <2>2, <2>3, Refused
<1>3. CASE Hands(c) /\ AdkDelegates(d, c)
  <2>1. Exempts(d, c, n, "none") \/ Checks(d, c, n, Strict, "running")
    BY <1>3 DEF AdkDelegates
  <2>2. c.tool \in Agent /\ c.tool \notin {"use", "broken"}
    BY <1>1, <1>3 DEF Hands
  <2> HIDE DEF n
  <2>3. CASE Exempts(d, c, n, "none")
    BY <1>1, <2>2, <2>3, ExemptsKeeps DEF Entries
  <2>4. CASE Checks(d, c, n, Strict, "running")
    BY <1>1, <2>2, <2>4, ChecksKeeps
  <2> QED BY <2>1, <2>3, <2>4
<1>4. CASE ~Hands(c)
  <2>1. Answers(d, c, n)
    <3>1. CASE c.tool = "unlisted"
      <4>1. Exempts(d, c, n, "pass") \/ Denies(d, c, n)
        BY <1>4, <3>1 DEF AdkBeforeTool
      <4> QED BY <3>1, <4>1 DEF Answers
    <3>2. CASE c.tool = "broken"
      BY <1>4, <3>2 DEF AdkBeforeTool, Answers
    <3>3. CASE c.tool = "use"
      <4>1. Checks(d, c, n, Strict, "running")
        BY <1>4, <3>3 DEF AdkBeforeTool
      <4> HIDE DEF n
      <4> QED BY <1>1, <3>3, <4>1, Zenon DEF Answers
    <3> QED BY <1>1, <1>4, <3>1, <3>2, <3>3 DEF Tools, Hands
  <2> HIDE DEF n
  <2> QED BY <1>1, <2>1, AnswersKeep
<1> QED BY <1>2, <1>3, <1>4 DEF AdkBeforeTool

LEMMA AdkKeeps ==
  ASSUME FrameInv, UNCHANGED adapter, adapter = "google_adk", AdkNext
  PROVE  FrameInv'
<1>0. MemKeeps
  BY PlainMem
<1>1. CASE \E d \in NextCall, c \in ByName : AdkBeforeTool(d, c)
  BY <1>0, <1>1, AdkBeforeToolKeeps
<1>2. CASE \E d \in Dispatch : AdkBody(d)
  BY <1>2, Ways, BodyEndsKeeps DEF AdkBody
<1>3. ASSUME NEW d \in Dispatch, AdkAfterTool(d)
      PROVE  FrameInv'
  BY <1>0, <1>3, HearsKeeps DEF AdkAfterTool, Outcomes, SeenOf
<1>4. CASE \E d \in Dispatch : AdkOnToolError(d)
  BY <1>0, <1>4, HearsKeeps DEF AdkOnToolError, Outcomes, SeenOf
<1>5. CASE \E d \in Dispatch : AdkCancelled(d)
  BY <1>0, <1>5, ForgetsKeeps DEF AdkCancelled, LeftOpen
<1>6. CASE \E a \in Staff : AdkEnsureGuard(a)
  BY <1>0, <1>6, RegisterKeeps, StillKeeps DEF AdkEnsureGuard
<1>7. CASE \E a \in Staff : AdkRespawn(a)
  BY <1>0, <1>7, RegisterKeeps DEF AdkRespawn
<1>8. CASE \E a \in Staff : AdkBeforeAgent(a)
  BY <1>0, <1>8, StillKeeps DEF AdkBeforeAgent
<1>9. CASE \E a \in Staff : AdkAfterAgent(a)
  BY <1>0, <1>9, CompletesKeeps DEF AdkAfterAgent
<1>10. CASE \E a \in Staff : AdkRevoke(a)
  BY <1>0, <1>10, RevokesNamedKeeps DEF AdkRevoke
<1> QED BY <1>1, <1>2, <1>3, <1>4, <1>5, <1>6, <1>7, <1>8, <1>9, <1>10 DEF AdkNext

LEMMA CommerceDelegateKeeps ==
  ASSUME FrameInv, UNCHANGED adapter, adapter = "commerce", MemKeeps,
         NEW d \in Dispatch, CommerceDelegate(d)
  PROVE  FrameInv'
<1> DEFINE c == call[d]
<1>1. c.stage = "cleared" /\ c.tool \in Agent /\ c \in Calls /\ c.body = "none" /\ UNCHANGED registry
  BY DEF CommerceDelegate, FrameInv, CallOK, HandsWait, BodyToCome
<1>2. ~Promised(d)
  BY <1>1, HandsUnpromised DEF PromisesHands
<1>3. CASE Denies(d, c, c.node)
  <2> DEFINE x == [c EXCEPT !.stage = "over", !.node = c.node, !.entry = "deny"]
  <2>1. /\ x \in Calls /\ x.stage = "over" /\ x.by = c.by /\ x.tool = c.tool /\ x.node = c.node
        /\ x.child = c.child /\ x.body = "none" /\ x.outcome = c.outcome /\ x.entry = "deny"
    BY <1>1 DEF Calls, Stages, Entries
  <2>2. Becomes(d, x) /\ UNCHANGED serviceVars
    BY <1>3 DEF Denies
  <2> HIDE DEF x
  <2>3. Calm /\ Grows /\ ServiceOK'
    BY <2>2, CalmSteps DEF FrameInv
  <2> QED BY <1>1, <1>2, <2>1, <2>2, <2>3, MovesOn
<1>4. CASE Rejects(d, c)
  BY <1>1, <1>2, <1>4, RefusedLater
<1>5. CASE Mints(c.node, c.tool) /\ Becomes(d, [c EXCEPT !.stage = "running", !.child = Fresh])
  <2>1. Grows /\ c.node # None
    BY <1>5, MintSteps DEF FrameInv, Mints
  <2>2. RegistryOK' /\ who[c.node] = c.by
    BY <1>1, <2>1, RegistryKept, ClearedCall DEF FrameInv
  <2> QED BY <1>1, <1>5, <2>2, LaterDelegation
<1> QED BY <1>3, <1>4, <1>5 DEF CommerceDelegate

(* The calls the mark is on are calls. *)
CommerceInv == mem \in [installed : BOOLEAN, flagged : SUBSET Dispatch]

LEMMA CommerceNew ==
  ASSUME FrameInv, CommerceInv, adapter = "commerce", NEW d \in NextCall, NEW c \in CommerceCalls
  PROVE  IsNew(d, c) /\ (~CommerceFlagged(c) => c \in Nested)
<1>1. CASE c \in Nested
  BY <1>1, NestedNew
<1>2. CASE \E w \in {e \in mem.flagged : IsRunning(e)} :
             c \in Asks(IF Hands(call[w]) THEN call[w].tool ELSE call[w].by, w)
  <2>1. PICK w \in mem.flagged : c \in Asks(IF Hands(call[w]) THEN call[w].tool ELSE call[w].by, w)
    BY <1>2
  <2> DEFINE a == IF Hands(call[w]) THEN call[w].tool ELSE call[w].by
  <2>2. w \in Dispatch /\ w # None /\ a \in Agent
    BY <2>1, NameAssumption DEF CommerceInv, Hands, FrameInv, Calls
  <2>3. c \in Asks(a, w)
    BY <2>1
  <2> HIDE DEF a
  <2>4. IsNew(d, c) /\ c.within = w
    BY <2>2, <2>3, NewOnes
  <2> QED BY <2>1, <2>2, <2>4 DEF CommerceFlagged
<1> QED BY <1>1, <1>2 DEF CommerceCalls

LEMMA CommerceKeeps ==
  ASSUME FrameInv, CommerceInv, UNCHANGED adapter, adapter = "commerce", CommerceNext
  PROVE  FrameInv' /\ CommerceInv'
<1>0. MemKeeps /\ adapter # "agno" /\ adapter # "crewai"
  BY PlainMem
<1>1. CASE CommercePatch
  BY <1>0, <1>1, StillKeeps DEF CommercePatch, CommerceInstall, CommerceUninstall, CommerceInv
<1>2. ASSUME NEW d \in NextCall, NEW c \in CommerceCalls, CommerceUnasked(d, c)
      PROVE  FrameInv' /\ CommerceInv'
  <2>1. IsNew(d, c) /\ d \in Dispatch
    BY CommerceNew DEF IsNew
  <2>2. FrameInv'
    BY <1>0, <1>2, <2>1, ExemptsKeeps DEF CommerceUnasked, Entries
  <2>3. CommerceInv'
    BY <1>2, <2>1 DEF CommerceUnasked, CommerceInv
  <2> QED BY <2>2, <2>3
<1>3. ASSUME NEW d \in NextCall, NEW c \in CommerceCalls, CommerceDispatch(d, c)
      PROVE  FrameInv' /\ CommerceInv'
  <2>1. IsNew(d, c) /\ d \in Dispatch /\ c \in Nested
    BY <1>3, CommerceNew DEF IsNew, CommerceDispatch
  <2>2. Answers(d, c, InForce(c))
    BY <1>3 DEF CommerceDispatch, CommerceResolve, Answers, Hands
  <2>3. FrameInv'
    BY <1>0, <1>3, <2>1, <2>2, NestedAnswersKeep DEF CommerceDispatch
  <2>4. CommerceInv'
    BY <1>3, <2>1 DEF CommerceDispatch, CommerceInv
  <2> QED BY <2>3, <2>4
<1>4. CASE \E d \in Dispatch : CommerceDelegate(d)
  BY <1>0, <1>4, CommerceDelegateKeeps DEF CommerceDelegate, CommerceInv
<1>5. CASE \E d \in Dispatch : CommerceBody(d)
  BY <1>0, <1>5, Ways, WrappedKeeps DEF CommerceBody, CommerceInv
<1>6. CASE \E n \in Node : CommerceRevoke(n)
  BY <1>0, <1>6, RevokesNodeKeeps DEF CommerceRevoke, CommerceInv
<1> QED BY <1>1, <1>2, <1>3, <1>4, <1>5, <1>6 DEF CommerceNext

-----------------------------------------------------------------------------
(* openhands: conversations of their own                                   *)

OpenhandsInv ==
  /\ mem \in [made : SUBSET Agent, unbound : SUBSET Agent, bound : [Agent -> Node \cup {None}],
              refused : SUBSET Agent, spawner : Node \cup {None}]
  /\ \A a \in Agent : mem.bound[a] # None => mem.bound[a] \in granted /\ who[mem.bound[a]] = a
  /\ \A a \in mem.made \ mem.unbound : mem.bound[a] # None \/ a \in mem.refused
  /\ RootAgent \notin mem.made \cup mem.unbound /\ mem.bound[RootAgent] = None

(* A conversation that was not refused works on its own Guard. *)
LEMMA OpenhandsNew ==
  ASSUME FrameInv, OpenhandsInv, adapter = "openhands",
         NEW d \in NextCall, NEW c \in OpenhandsConversations
  PROVE  /\ IsNew(d, c) /\ OpenhandsActiveGuard(c) \in granted
         /\ ~OpenhandsRefused(c) => who[OpenhandsActiveGuard(c)] = c.by
<1>1. CASE c \in Nested
  <2>1. /\ IsNew(d, c) /\ c.by \in Agent
        /\ InForce(c) \in granted /\ who[InForce(c)] = c.by
        /\ c.within = None => c.by = RootAgent
    BY <1>1, NestedNew, NameAssumption DEF IsNew, Calls
  <2> QED BY <2>1 DEF OpenhandsActiveGuard, OpenhandsInv
<1>2. CASE \E a \in mem.made \ mem.unbound : c \in Asks(a, None)
  <2>1. PICK a \in mem.made \ mem.unbound : c \in Asks(a, None)
    BY <1>2
  <2>2. IsNew(d, c) /\ c.by = a /\ c.within = None /\ a \in Agent
    BY <2>1, NewOnes DEF OpenhandsInv
  <2>3. Root \in granted
    BY DEF FrameInv, ServiceOK
  <2> QED BY <2>1, <2>2, <2>3 DEF OpenhandsActiveGuard, OpenhandsRefused, InForce, OpenhandsInv
<1> QED BY <1>1, <1>2 DEF OpenhandsConversations

LEMMA OpenhandsGateKeeps ==
  ASSUME FrameInv, OpenhandsInv, UNCHANGED adapter, adapter = "openhands", MemKeeps,
         NEW d \in NextCall, NEW c \in OpenhandsConversations, OpenhandsGate(d, c)
  PROVE  FrameInv'
<1> DEFINE n == OpenhandsActiveGuard(c)
<1>1. /\ IsNew(d, c) /\ n \in granted /\ (~OpenhandsRefused(c) => who[n] = c.by)
      /\ UNCHANGED registry /\ c.tool \in {"use", "unlisted", "broken"} /\ Strict \in BOOLEAN
  BY OpenhandsNew, FrameworkAssumption DEF OpenhandsGate, Uses, IsNew, Calls, Tools
<1>2. CASE OpenhandsRefused(c)
  <2>1. Denies(d, c, n)
    BY <1>2 DEF OpenhandsGate
  <2> HIDE DEF n
  <2> QED BY <1>1, <2>1, DeniesKeeps
<1>3. CASE ~OpenhandsRefused(c)
  <2>1. Answers(d, c, n)
    <3>1. CASE c.tool = "unlisted"
      <4>1. Exempts(d, c, n, "pass") \/ Denies(d, c, n)
        BY <1>3, <3>1 DEF OpenhandsGate
      <4> QED BY <3>1, <4>1 DEF Answers
    <3>2. CASE c.tool = "broken"
      BY <1>3, <3>2 DEF OpenhandsGate, Answers
    <3>3. CASE c.tool = "use"
      <4>1. Checks(d, c, n, Strict, "running")
        BY <1>3, <3>3 DEF OpenhandsGate
      <4> HIDE DEF n
      <4> QED BY <1>1, <3>3, <4>1, Zenon DEF Answers
    <3> QED BY <1>1, <3>1, <3>2, <3>3
  <2> HIDE DEF n
  <2> QED BY <1>1, <1>3, <2>1, AnswersKeep
<1> QED BY <1>2, <1>3

LEMMA OpenhandsDelegationKeeps ==
  ASSUME FrameInv, OpenhandsInv, UNCHANGED adapter, adapter = "openhands", MemKeeps,
         NEW d \in NextCall, NEW c \in OpenhandsConversations, OpenhandsGateDelegation(d, c)
  PROVE  FrameInv'
<1> DEFINE n == OpenhandsActiveGuard(c)
<1>1. /\ IsNew(d, c) /\ n \in granted /\ (~OpenhandsRefused(c) => who[n] = c.by) /\ c.tool \in Agent
  BY OpenhandsNew DEF OpenhandsGateDelegation, Hands
<1>2. CASE Denies(d, c, n) /\ UNCHANGED registry
  BY <1>1, <1>2, DeniesKeeps
<1>3. CASE Rejects(d, c) /\ UNCHANGED registry
  BY <1>1, <1>3, RejectsKeeps
<1>4. CASE /\ ~OpenhandsRefused(c)
           /\ Register(n, c.tool)
           /\ Becomes(d, [c EXCEPT !.stage = "running", !.node = n, !.child = Fresh])
  <2> HIDE DEF n
  <2> QED BY <1>1, <1>4, NewDelegation
<1> QED BY <1>2, <1>3, <1>4 DEF OpenhandsGateDelegation

LEMMA OpenhandsKeeps ==
  ASSUME FrameInv, OpenhandsInv, UNCHANGED adapter, adapter = "openhands", OpenhandsNext
  PROVE  FrameInv'
<1>0. MemKeeps /\ adapter \notin PromisesHands \cup {"crewai"}
  BY PlainMem DEF PromisesHands
<1>1. CASE \E d \in NextCall, c \in OpenhandsConversations : OpenhandsGate(d, c)
  BY <1>0, <1>1, OpenhandsGateKeeps
<1>2. CASE \E d \in NextCall, c \in OpenhandsConversations : OpenhandsGateDelegation(d, c)
  BY <1>0, <1>2, OpenhandsDelegationKeeps
<1>3. CASE \E d \in Dispatch : OpenhandsRun(d)
  BY <1>0, <1>3, Ways, WrappedKeeps DEF OpenhandsRun
<1>4. CASE \E d \in Dispatch : OpenhandsCall(d)
  BY <1>0, <1>4, EndsRunKeeps DEF OpenhandsCall, Hands, Bodies
<1>5. CASE \E p \in Staff, S \in SUBSET Staff : OpenhandsSpawn(p, S)
  BY <1>0, <1>5, StillKeeps DEF OpenhandsSpawn
<1>6. CASE \E a \in Staff : OpenhandsBind(a)
  BY <1>0, <1>6, StillKeeps, RegisterKeeps DEF OpenhandsBind
<1>7. ASSUME NEW a \in Staff, OpenhandsClose(a)
      PROVE  FrameInv'
  <2>1. Completes(mem.bound[a]) \/ UNCHANGED serviceVars
    BY <1>7, Zenon DEF OpenhandsClose
  <2> QED BY <1>0, <1>7, <2>1, CompletesKeeps, StillKeeps DEF OpenhandsClose
<1>8. CASE \E a \in Staff : OpenhandsRevoke(a)
  BY <1>0, <1>8, RevokesNamedKeeps DEF OpenhandsRevoke
<1> QED BY <1>1, <1>2, <1>3, <1>4, <1>5, <1>6, <1>7, <1>8 DEF OpenhandsNext

(* Whatever an adapter does to its Guards only grows. *)
LEMMA MovesGrow ==
  ASSUME FrameInv, NEW d \in Dispatch, NEW c, NEW n
  PROVE  /\ UNCHANGED serviceVars => Grows
         /\ Denies(d, c, n) => Grows
         /\ Rejects(d, c) => Grows
         /\ \A e : Exempts(d, c, n, e) => Grows
         /\ \A promised \in BOOLEAN : \A stage : Checks(d, c, n, promised, stage) => Grows
         /\ \A a : Mints(n, a) => Grows
         /\ \A a : Register(n, a) => Grows
         /\ \A how, says : Ends(d, how, says) => Grows
         /\ Completes(n) => Grows
         /\ Revokes(n) => Grows
<1>1. UNCHANGED serviceVars \/ Completes(n) \/ Revokes(n) => Grows
  BY CalmSteps DEF FrameInv
<1>2. \A promised \in BOOLEAN : \A stage : Clears(d, c, n, promised, stage) => Grows
  BY AllowSteps DEF FrameInv, Clears
<1>3. \A a : Mints(n, a) => Grows
  BY MintSteps DEF FrameInv
<1>4. Report(d) => Grows
  BY ReportSteps DEF FrameInv
<1>5. \A how, says : Ends(d, how, says) => Report(d) \/ UNCHANGED serviceVars
  BY Zenon DEF Ends
<1> QED BY <1>1, <1>2, <1>3, <1>4, <1>5 DEF Denies, Rejects, Exempts, Checks, Register

LEMMA OpenhandsStays ==
  ASSUME FrameInv, OpenhandsInv, Grows, UNCHANGED mem
  PROVE  OpenhandsInv'
BY DEF OpenhandsInv, Grows

LEMMA OpenhandsCallsKeep ==
  ASSUME FrameInv, OpenhandsInv, UNCHANGED adapter, adapter = "openhands",
         \/ \E d \in NextCall, c \in OpenhandsConversations :
              OpenhandsGate(d, c) \/ OpenhandsGateDelegation(d, c)
         \/ \E d \in Dispatch : OpenhandsRun(d) \/ OpenhandsCall(d)
         \/ \E a \in Staff : OpenhandsRevoke(a)
  PROVE  Grows /\ UNCHANGED mem
<1>1. ASSUME NEW d \in NextCall, NEW c \in OpenhandsConversations, OpenhandsGate(d, c)
      PROVE  Grows /\ UNCHANGED mem
  <2> DEFINE n == OpenhandsActiveGuard(c)
  <2>1. d \in Dispatch /\ Strict \in BOOLEAN /\ c.tool \in Tools \ Agent
    BY <1>1, OpenhandsNew, FrameworkAssumption DEF IsNew, Calls, OpenhandsGate, Uses
  <2>2. Denies(d, c, n) \/ Exempts(d, c, n, "pass") \/ Checks(d, c, n, Strict, "running")
    <3>1. CASE OpenhandsRefused(c)
      BY <1>1, <3>1 DEF OpenhandsGate
    <3>2. CASE ~OpenhandsRefused(c)
      <4>1. CASE c.tool = "unlisted"
        BY <1>1, <3>2, <4>1 DEF OpenhandsGate
      <4>2. CASE c.tool = "broken"
        BY <1>1, <3>2, <4>2 DEF OpenhandsGate
      <4>3. CASE c.tool = "use"
        BY <1>1, <3>2, <4>3 DEF OpenhandsGate
      <4> QED BY <2>1, <4>1, <4>2, <4>3 DEF Tools
    <3> QED BY <3>1, <3>2
  <2> HIDE DEF n
  <2> QED BY <1>1, <2>1, <2>2, MovesGrow DEF OpenhandsGate
<1>2. ASSUME NEW d \in NextCall, NEW c \in OpenhandsConversations, OpenhandsGateDelegation(d, c)
      PROVE  Grows /\ UNCHANGED mem
  <2>1. d \in Dispatch
    BY OpenhandsNew DEF IsNew
  <2> QED BY <1>2, <2>1, MovesGrow DEF OpenhandsGateDelegation
<1>3. ASSUME NEW d \in Dispatch, OpenhandsRun(d) \/ OpenhandsCall(d)
      PROVE  Grows /\ UNCHANGED mem
  <2>1. CASE OpenhandsRun(d)
    BY <2>1, MovesGrow DEF OpenhandsRun, Wrapped
  <2>2. CASE OpenhandsCall(d)
    BY <2>2, MovesGrow DEF OpenhandsCall, EndsRun
  <2> QED BY <1>3, <2>1, <2>2
<1>4. ASSUME NEW a \in Staff, OpenhandsRevoke(a)
      PROVE  Grows /\ UNCHANGED mem
  BY <1>4, CalmSteps DEF OpenhandsRevoke, RevokesNamed, FrameInv
<1> QED BY <1>1, <1>2, <1>3, <1>4

LEMMA OpenhandsBindSteps ==
  ASSUME FrameInv, OpenhandsInv, NEW a \in Staff, OpenhandsBind(a)
  PROVE  Grows /\ OpenhandsInv'
<1>1. a \in mem.unbound /\ a \in Agent
  BY DEF OpenhandsBind, OpenhandsInv
<1>2. CASE /\ Register(mem.spawner, a)
           /\ mem' = [mem EXCEPT !.unbound = @ \ {a}, !.bound[a] = Fresh]
  <2> DEFINE f == Fresh
  <2>1. Grows /\ f \in Node /\ f \in granted' /\ who'[f] = a
    BY <1>2, MintSteps DEF Register, FrameInv
  <2>2. mem' = [mem EXCEPT !.unbound = @ \ {a}, !.bound[a] = f]
    BY <1>2
  <2> HIDE DEF f
  <2>3. /\ mem' \in [made : SUBSET Agent, unbound : SUBSET Agent, bound : [Agent -> Node \cup {None}],
                     refused : SUBSET Agent, spawner : Node \cup {None}]
        /\ mem'.made = mem.made /\ mem'.unbound = mem.unbound \ {a} /\ mem'.refused = mem.refused
        /\ mem'.bound = [mem.bound EXCEPT ![a] = f]
    BY <1>1, <2>1, <2>2 DEF OpenhandsInv
  <2>4. f # None /\ a # RootAgent
    BY <1>1, <2>1, NameAssumption DEF OpenhandsInv
  <2>5. /\ mem'.bound[a] = f
        /\ \A b \in Agent : b # a => mem'.bound[b] = mem.bound[b]
    BY <1>1, <2>3 DEF OpenhandsInv
  <2>6. ASSUME NEW b \in Agent, mem'.bound[b] # None
        PROVE  mem'.bound[b] \in granted' /\ who'[mem'.bound[b]] = b
    <3>1. CASE b = a
      BY <2>1, <2>5, <3>1
    <3>2. CASE b # a
      BY <2>1, <2>5, <2>6, <3>2 DEF OpenhandsInv, Grows
    <3> QED BY <3>1, <3>2
  <2>7. \A b \in mem'.made \ mem'.unbound : mem'.bound[b] # None \/ b \in mem'.refused
    <3>1. mem.made \subseteq Agent
      BY DEF OpenhandsInv
    <3> QED BY <2>3, <2>4, <2>5, <3>1 DEF OpenhandsInv
  <2>8. RootAgent \notin mem'.made \cup mem'.unbound /\ mem'.bound[RootAgent] = None
    BY <2>3, <2>4, <2>5, AbstractAssumption DEF OpenhandsInv
  <2> QED BY <2>1, <2>3, <2>6, <2>7, <2>8 DEF OpenhandsInv
<1>3. CASE /\ mem' = [mem EXCEPT !.unbound = @ \ {a}, !.refused = @ \cup {a}]
           /\ UNCHANGED <<serviceVars, registry>>
  BY <1>1, <1>3, CalmSteps DEF OpenhandsInv, Grows, FrameInv
<1> QED BY <1>2, <1>3 DEF OpenhandsBind

LEMMA OpenhandsHolds ==
  ASSUME FrameInv, OpenhandsInv, UNCHANGED adapter, adapter = "openhands", OpenhandsNext
  PROVE  OpenhandsInv'
<1>1. CASE \/ \E d \in NextCall, c \in OpenhandsConversations :
                OpenhandsGate(d, c) \/ OpenhandsGateDelegation(d, c)
           \/ \E d \in Dispatch : OpenhandsRun(d) \/ OpenhandsCall(d)
           \/ \E a \in Staff : OpenhandsRevoke(a)
  BY <1>1, OpenhandsCallsKeep, OpenhandsStays
<1>2. ASSUME NEW p \in Staff, NEW S \in SUBSET Staff, OpenhandsSpawn(p, S)
      PROVE  OpenhandsInv'
  <2>1. Staff \subseteq Agent /\ p \in Agent /\ Root \in Node /\ Grows
    BY <1>2, FrameworkAssumption, AbstractAssumption, CalmSteps DEF Staff, FrameInv, OpenhandsSpawn
  <2> DEFINE sp == IF mem.bound[p] # None THEN mem.bound[p] ELSE Root
  <2>2. sp \in Node \cup {None}
    BY <2>1 DEF OpenhandsInv
  <2>3. /\ mem' = [mem EXCEPT !.made = @ \cup S, !.unbound = S, !.spawner = sp]
        /\ mem.unbound = {} /\ S \subseteq Staff \ ({RootAgent, p} \cup mem.made)
    BY <1>2 DEF OpenhandsSpawn
  <2> HIDE DEF sp
  <2> QED BY <2>1, <2>2, <2>3 DEF OpenhandsInv, Grows
<1>3. CASE \E a \in Staff : OpenhandsBind(a)
  BY <1>3, OpenhandsBindSteps
<1>4. ASSUME NEW a \in Staff, OpenhandsClose(a)
      PROVE  OpenhandsInv'
  <2>1. Completes(mem.bound[a]) \/ UNCHANGED serviceVars
    BY <1>4, Zenon DEF OpenhandsClose
  <2>2. Grows
    BY <2>1, CalmSteps DEF FrameInv
  <2>3. /\ mem' = [mem EXCEPT !.made = @ \ {a}, !.bound[a] = None, !.refused = @ \ {a}]
        /\ a \in mem.made
    BY <1>4 DEF OpenhandsClose
  <2>4. a \in Agent
    BY <2>3 DEF OpenhandsInv
  <2>5. /\ mem' \in [made : SUBSET Agent, unbound : SUBSET Agent, bound : [Agent -> Node \cup {None}],
                     refused : SUBSET Agent, spawner : Node \cup {None}]
        /\ mem'.made = mem.made \ {a} /\ mem'.unbound = mem.unbound
        /\ mem'.refused = mem.refused \ {a} /\ mem'.bound = [mem.bound EXCEPT ![a] = None]
    BY <2>3, <2>4 DEF OpenhandsInv
  <2>6. /\ mem'.bound[a] = None
        /\ \A b \in Agent : b # a => mem'.bound[b] = mem.bound[b]
    BY <2>4, <2>5 DEF OpenhandsInv
  <2>7. ASSUME NEW b \in Agent, mem'.bound[b] # None
        PROVE  mem'.bound[b] \in granted' /\ who'[mem'.bound[b]] = b
    BY <2>2, <2>6, <2>7 DEF OpenhandsInv, Grows
  <2>8. \A b \in mem'.made \ mem'.unbound : mem'.bound[b] # None \/ b \in mem'.refused
    BY <2>5, <2>6 DEF OpenhandsInv
  <2>9. RootAgent \notin mem'.made \cup mem'.unbound /\ mem'.bound[RootAgent] = None
    BY <2>5, <2>6, AbstractAssumption DEF OpenhandsInv
  <2> QED BY <2>5, <2>7, <2>8, <2>9 DEF OpenhandsInv
<1> QED BY <1>1, <1>2, <1>3, <1>4 DEF OpenhandsNext

-----------------------------------------------------------------------------
(* What a call keeps as it begins and as it goes on                        *)

BeginsAs(d, c, n, stage) ==
  /\ call'[d].stage = stage /\ call'[d].by = c.by /\ call'[d].within = c.within
  /\ call'[d].tool = c.tool /\ call'[d].node = n
  /\ \A e \in Dispatch : e # d => call'[e] = call[e]

GoesOn(d, stage) ==
  /\ call'[d].stage = stage /\ call'[d].by = call[d].by /\ call'[d].within = call[d].within
  /\ call'[d].tool = call[d].tool /\ call'[d].node = call[d].node
  /\ \A e \in Dispatch : e # d => call'[e] = call[e]

LEMMA Begins ==
  ASSUME FrameInv, NEW d, NEW c, IsNew(d, c), NEW n
  PROVE  /\ Denies(d, c, n) => BeginsAs(d, c, n, "over") /\ call'[d].child = None
         /\ Rejects(d, c) => BeginsAs(d, c, None, "over") /\ call'[d].child = None
         /\ \A e : Exempts(d, c, n, e) => BeginsAs(d, c, n, "running") /\ call'[d].child = None
         /\ \A promised, stage : Checks(d, c, n, promised, stage) =>
              (BeginsAs(d, c, n, "over") \/ BeginsAs(d, c, n, stage)) /\ call'[d].child = None
         /\ Becomes(d, [c EXCEPT !.stage = "cleared", !.node = n]) =>
              BeginsAs(d, c, n, "cleared") /\ call'[d].child = None
         /\ \A f : Becomes(d, [c EXCEPT !.stage = "running", !.node = n, !.child = f]) =>
              BeginsAs(d, c, n, "running") /\ call'[d].child = f
<1>1. c \in Calls /\ d \in Dispatch /\ c.node = None /\ c.child = None
  BY DEF IsNew
<1>2. ASSUME NEW x, Becomes(d, x)
      PROVE  call'[d] = x /\ \A e \in Dispatch : e # d => call'[e] = call[e]
  BY <1>1, <1>2, Becoming
<1>3. ASSUME NEW x, Becomes(d, x), NEW m, NEW stage,
             x.stage = stage, x.node = m, x.by = c.by, x.within = c.within, x.tool = c.tool
      PROVE  BeginsAs(d, c, m, stage)
  BY <1>2, <1>3 DEF BeginsAs
<1>4. ASSUME NEW stage, NEW e
      PROVE  /\ LET x == [c EXCEPT !.stage = stage, !.node = n, !.entry = e]
                IN  x.stage = stage /\ x.node = n /\ x.by = c.by /\ x.within = c.within
                    /\ x.tool = c.tool /\ x.child = None
             /\ LET x == [c EXCEPT !.stage = stage, !.node = n]
                IN  x.stage = stage /\ x.node = n /\ x.by = c.by /\ x.within = c.within
                    /\ x.tool = c.tool /\ x.child = None
             /\ LET x == [c EXCEPT !.stage = stage, !.node = n, !.child = e]
                IN  x.stage = stage /\ x.node = n /\ x.by = c.by /\ x.within = c.within
                    /\ x.tool = c.tool /\ x.child = e
             /\ LET x == [c EXCEPT !.stage = stage]
                IN  x.stage = stage /\ x.node = None /\ x.by = c.by /\ x.within = c.within
                    /\ x.tool = c.tool /\ x.child = None
  BY <1>1 DEF Calls
<1>5. ASSUME NEW stage, NEW e, Becomes(d, [c EXCEPT !.stage = stage, !.node = n, !.entry = e])
      PROVE  BeginsAs(d, c, n, stage) /\ call'[d].child = None
  <2> DEFINE x == [c EXCEPT !.stage = stage, !.node = n, !.entry = e]
  <2>1. /\ x.stage = stage /\ x.node = n /\ x.by = c.by /\ x.within = c.within
        /\ x.tool = c.tool /\ x.child = None /\ Becomes(d, x)
    BY <1>4, <1>5
  <2> HIDE DEF x
  <2> QED BY <1>2, <1>3, <2>1
<1>6. ASSUME Rejects(d, c)
      PROVE  BeginsAs(d, c, None, "over") /\ call'[d].child = None
  <2> DEFINE x == [c EXCEPT !.stage = "over"]
  <2>1. /\ x.stage = "over" /\ x.node = None /\ x.by = c.by /\ x.within = c.within
        /\ x.tool = c.tool /\ x.child = None /\ Becomes(d, x)
    BY <1>4, <1>6 DEF Rejects
  <2> HIDE DEF x
  <2> QED BY <1>2, <1>3, <2>1
<1>7. ASSUME Becomes(d, [c EXCEPT !.stage = "cleared", !.node = n])
      PROVE  BeginsAs(d, c, n, "cleared") /\ call'[d].child = None
  <2> DEFINE x == [c EXCEPT !.stage = "cleared", !.node = n]
  <2>1. /\ x.stage = "cleared" /\ x.node = n /\ x.by = c.by /\ x.within = c.within
        /\ x.tool = c.tool /\ x.child = None /\ Becomes(d, x)
    BY <1>4, <1>7
  <2> HIDE DEF x
  <2> QED BY <1>2, <1>3, <2>1
<1>8. ASSUME NEW f, Becomes(d, [c EXCEPT !.stage = "running", !.node = n, !.child = f])
      PROVE  BeginsAs(d, c, n, "running") /\ call'[d].child = f
  <2> DEFINE x == [c EXCEPT !.stage = "running", !.node = n, !.child = f]
  <2>1. /\ x.stage = "running" /\ x.node = n /\ x.by = c.by /\ x.within = c.within
        /\ x.tool = c.tool /\ x.child = f /\ Becomes(d, x)
    BY <1>4, <1>8
  <2> HIDE DEF x
  <2> QED BY <1>2, <1>3, <2>1
<1> QED BY <1>5, <1>6, <1>7, <1>8 DEF Denies, Exempts, Checks, Clears

LEMMA EndsAs ==
  ASSUME FrameInv, NEW d \in Dispatch, NEW how, NEW says
  PROVE  /\ Closes(d, how, says) => GoesOn(d, "over") /\ call'[d].child = call[d].child
         /\ Ends(d, how, says) =>
              /\ IsRunning(d) /\ GoesOn(d, "over") /\ call'[d].child = call[d].child
              /\ Report(d) \/ UNCHANGED serviceVars
<1>1. ASSUME NEW x, Becomes(d, x)
      PROVE  call'[d] = x /\ \A e \in Dispatch : e # d => call'[e] = call[e]
  BY <1>1, Becoming
<1>2. ASSUME NEW s, Closes(d, how, s)
      PROVE  IsRunning(d) /\ GoesOn(d, "over") /\ call'[d].child = call[d].child
  <2>1. call[d] \in Calls
    BY DEF FrameInv
  <2>2. call'[d] = [call[d] EXCEPT !.stage = "over", !.body = how, !.outcome = s]
    BY <1>1, <1>2 DEF Closes
  <2> QED BY <1>1, <1>2, <2>1, <2>2 DEF Closes, GoesOn, Calls
<1>3. Ends(d, how, says) => \/ Closes(d, how, says) /\ Report(d)
                            \/ Closes(d, how, "none") /\ UNCHANGED serviceVars
  BY Zenon DEF Ends
<1> QED BY <1>2, <1>3

LEMMA Moving ==
  ASSUME FrameInv, NEW d \in Dispatch
  PROVE  /\ Rejects(d, call[d]) => GoesOn(d, "over") /\ call'[d].child = call[d].child
         /\ \A stage : Becomes(d, [call[d] EXCEPT !.stage = stage]) =>
              GoesOn(d, stage) /\ call'[d].child = call[d].child
         /\ \A f : Becomes(d, [call[d] EXCEPT !.child = f]) =>
              GoesOn(d, call[d].stage) /\ call'[d].child = f
         /\ \A stage, f : Becomes(d, [call[d] EXCEPT !.stage = stage, !.child = f]) =>
              GoesOn(d, stage) /\ call'[d].child = f
<1>1. ASSUME NEW x, Becomes(d, x)
      PROVE  call'[d] = x /\ \A e \in Dispatch : e # d => call'[e] = call[e]
  BY <1>1, Becoming
<1>2. call[d] \in Calls
  BY DEF FrameInv
<1>3. ASSUME NEW x, Becomes(d, x), x.by = call[d].by, x.within = call[d].within,
             x.tool = call[d].tool, x.node = call[d].node
      PROVE  GoesOn(d, x.stage) /\ call'[d].child = x.child
  BY <1>1, <1>3 DEF GoesOn
<1>4. ASSUME NEW stage, Becomes(d, [call[d] EXCEPT !.stage = stage])
      PROVE  GoesOn(d, stage) /\ call'[d].child = call[d].child
  <2> DEFINE x == [call[d] EXCEPT !.stage = stage]
  <2>1. /\ x.by = call[d].by /\ x.within = call[d].within /\ x.tool = call[d].tool
        /\ x.node = call[d].node /\ x.stage = stage /\ x.child = call[d].child /\ Becomes(d, x)
    BY <1>2, <1>4 DEF Calls
  <2> HIDE DEF x
  <2> QED BY <1>3, <2>1
<1>5. ASSUME NEW f, Becomes(d, [call[d] EXCEPT !.child = f])
      PROVE  GoesOn(d, call[d].stage) /\ call'[d].child = f
  <2> DEFINE x == [call[d] EXCEPT !.child = f]
  <2>1. /\ x.by = call[d].by /\ x.within = call[d].within /\ x.tool = call[d].tool
        /\ x.node = call[d].node /\ x.stage = call[d].stage /\ x.child = f /\ Becomes(d, x)
    BY <1>2, <1>5 DEF Calls
  <2> HIDE DEF x
  <2> QED BY <1>3, <2>1
<1>6. ASSUME NEW stage, NEW f, Becomes(d, [call[d] EXCEPT !.stage = stage, !.child = f])
      PROVE  GoesOn(d, stage) /\ call'[d].child = f
  <2> DEFINE x == [call[d] EXCEPT !.stage = stage, !.child = f]
  <2>1. /\ x.by = call[d].by /\ x.within = call[d].within /\ x.tool = call[d].tool
        /\ x.node = call[d].node /\ x.stage = stage /\ x.child = f /\ Becomes(d, x)
    BY <1>2, <1>6 DEF Calls
  <2> HIDE DEF x
  <2> QED BY <1>3, <2>1
<1> QED BY <1>4, <1>5, <1>6 DEF Rejects

-----------------------------------------------------------------------------
(* smolagents: who waits to delegate                                       *)

LEMMA ManagerStays ==
  ASSUME ManagerHands, NEW d \in Dispatch,
         \/ \E c, n, stage : BeginsAs(d, c, n, stage) /\ (stage = "cleared" => c.by = RootAgent)
         \/ \E stage : GoesOn(d, stage) /\ (stage = "cleared" => call[d].stage = "cleared")
         \/ UNCHANGED call
  PROVE  ManagerHands'
BY DEF ManagerHands, BeginsAs, GoesOn

LEMMA SmolagentsHolds ==
  ASSUME FrameInv, ManagerHands, adapter = "smolagents", SmolagentsNext
  PROVE  ManagerHands'
<1>1. ASSUME NEW d \in NextCall, NEW c \in Nested, SmolagentsForward(d, c) \/ SmolagentsEnforce(d, c)
      PROVE  ManagerHands'
  <2>1. IsNew(d, c) /\ d \in Dispatch
    BY NestedNew DEF IsNew
  <2>2. \E n, stage : BeginsAs(d, c, n, stage) /\ (stage = "cleared" => c.by = RootAgent)
    <3>1. CASE SmolagentsForward(d, c)
      <4>1. \E n, stage : BeginsAs(d, c, n, stage) /\ stage \in {"running", "over"}
        <5> DEFINE n == registry[c.by]
        <5>1. \/ Rejects(d, c) \/ Exempts(d, c, n, "pass") \/ Exempts(d, c, None, "none")
              \/ Denies(d, c, n) \/ Checks(d, c, n, Strict, "running")
          BY <3>1 DEF SmolagentsForward
        <5> HIDE DEF n
        <5> QED BY <2>1, <5>1, Begins
      <4> QED BY <4>1
    <3>2. CASE SmolagentsEnforce(d, c)
      BY <2>1, <3>2, Begins DEF SmolagentsEnforce, FromRoot
    <3> QED BY <1>1, <3>1, <3>2
  <2> QED BY <2>1, <2>2, ManagerStays
<1>2. ASSUME NEW d \in Dispatch, SmolagentsMint(d) \/ SmolagentsBody(d)
      PROVE  ManagerHands'
  <2>1. GoesOn(d, "running") \/ GoesOn(d, "over")
    <3>1. CASE SmolagentsMint(d)
      BY <3>1, Moving DEF SmolagentsMint
    <3>2. CASE SmolagentsBody(d)
      BY <3>2, EndsAs DEF SmolagentsBody, Wrapped
    <3> QED BY <1>2, <3>1, <3>2
  <2> QED BY <2>1, ManagerStays
<1>3. CASE \E n \in Node : SmolagentsRevoke(n)
  BY <1>3 DEF SmolagentsRevoke, RevokesNode, ManagerHands
<1> QED BY <1>1, <1>2, <1>3 DEF SmolagentsNext

-----------------------------------------------------------------------------
(* camel: every session of a sub-agent has a reference to a Guard of its    *)
(* own agent, whichever call made the session or moved it on.               *)

Started(d) == call[d].stage # "idle"

SessionOK(s, a) ==
  s # None => /\ s \in Dispatch /\ Started(s) /\ call[s].tool = a
              /\ mem.ref[s] \in granted /\ who[mem.ref[s]] = a

CamelInv ==
  /\ mem \in [pending : [Agent -> Dispatch \cup {None}], ref : [Dispatch -> Node \cup {None}],
              session : [Dispatch -> Dispatch \cup {None}], background : SUBSET Dispatch]
  /\ ManagerHands
  /\ \A a \in Agent : SessionOK(mem.pending[a], a)
  /\ \A d \in Dispatch :
       /\ SessionOK(mem.session[d], call[d].tool)
       /\ mem.session[d] # None => Started(d)
       /\ call[d].stage = "running" /\ call[d].tool \in Agent => mem.session[d] # None
       /\ d \in mem.background => Started(d) /\ call[d].tool \in Agent

LEMMA CamelGuard ==
  ASSUME FrameInv, CamelInv, adapter = "camel", NEW d \in NextCall, NEW c \in Nested
  PROVE  IsNew(d, c) /\ CamelResolve(c) \in granted /\ who[CamelResolve(c)] = c.by
<1>1. /\ IsNew(d, c)
      /\ \/ c.within = None /\ c.by = RootAgent
         \/ /\ c.within \in Dispatch /\ c.by = call[c.within].tool
            /\ IsRunning(c.within) /\ call[c.within].child # None
  BY NestedNew
<1>2. CASE c.within = None
  BY <1>1, <1>2, NameAssumption DEF CamelResolve, FrameInv, ServiceOK
<1>3. CASE c.within # None
  <2> DEFINE w == c.within
  <2>1. w \in Dispatch /\ call[w].stage = "running" /\ c.by = call[w].tool /\ call[w].tool \in Agent
    BY <1>1, <1>3 DEF IsRunning, FrameInv, CallOK, ChildIsDelegate
  <2> HIDE DEF w
  <2>2. mem.session[w] # None /\ SessionOK(mem.session[w], call[w].tool)
    BY <2>1 DEF CamelInv
  <2> QED BY <1>1, <1>3, <2>1, <2>2 DEF CamelResolve, SessionOK, w
<1> QED BY <1>2, <1>3

LEMMA CamelKeeps ==
  ASSUME FrameInv, CamelInv, UNCHANGED adapter, adapter = "camel", CamelNext
  PROVE  FrameInv'
<1>0. MemKeeps /\ adapter # "agno" /\ adapter \notin PromisesHands \cup {"crewai"} /\ Strict \in BOOLEAN
  BY PlainMem, FrameworkAssumption DEF PromisesHands
<1>1. ASSUME NEW d \in NextCall, NEW c \in Nested, CamelAuthorize(d, c)
      PROVE  FrameInv'
  <2> DEFINE n == CamelResolve(c)
  <2>1. IsNew(d, c) /\ n \in granted /\ who[n] = c.by /\ UNCHANGED registry
    BY <1>0, <1>1, CamelGuard DEF CamelAuthorize
  <2>2. Rejects(d, c) \/ Denies(d, c, n) \/ (c.tool = "use" /\ Checks(d, c, n, Strict, "running"))
    BY <1>1 DEF CamelAuthorize
  <2> HIDE DEF n
  <2>3. Answers(d, c, n)
    BY <1>0, <2>2, Zenon DEF Answers
  <2> QED BY <1>0, <2>1, <2>3, AnswersKeep
<1>2. CASE \E d \in NextCall, c \in Nested : CamelEnforce(d, c)
  BY <1>0, <1>2, NestedNew, ManagerAsks DEF CamelEnforce, FromRoot, Hands
<1>3. CASE \E d \in Dispatch : CamelCall(d) \/ CamelAsyncCall(d)
  BY <1>0, <1>3, Ways, WrappedKeeps DEF CamelCall, CamelAsyncCall
<1>4. ASSUME NEW d \in Dispatch, CamelMint(d)
      PROVE  FrameInv'
  <2> DEFINE c == call[d]
  <2>1. c.stage = "cleared" /\ c.tool \in Agent /\ c.by = RootAgent /\ c \in Calls /\ UNCHANGED registry
    BY <1>0, <1>4 DEF CamelMint, FrameInv, CallOK, HandsWait, CamelInv, ManagerHands
  <2>2. ~Promised(d)
    BY <1>0, <2>1, HandsUnpromised
  <2>3. CASE Mints(Root, c.tool) /\ Becomes(d, [c EXCEPT !.child = Fresh])
    <3>1. who[Root] = c.by /\ RegistryOK'
      BY <2>1, <2>3, MintSteps, RegistryKept DEF FrameInv, ServiceOK
    <3>2. [c EXCEPT !.child = Fresh] = [c EXCEPT !.stage = "cleared", !.child = Fresh]
      BY <2>1 DEF Calls
    <3>3. Becomes(d, [c EXCEPT !.stage = "cleared", !.child = Fresh])
      BY <2>3, <3>2
    <3> QED BY <1>0, <2>1, <2>3, <3>1, <3>3, LaterDelegation
  <2>4. CASE Rejects(d, c)
    BY <1>0, <2>1, <2>2, <2>4, RefusedLater
  <2> QED BY <1>4, <2>3, <2>4 DEF CamelMint
<1>5. ASSUME NEW d \in Dispatch, CamelCreateSubagent(d)
      PROVE  FrameInv'
  <2> DEFINE c == call[d]
  <2>1. c.stage = "cleared" /\ c.tool \in Agent /\ UNCHANGED registry
    BY <1>0, <1>5 DEF CamelCreateSubagent, FrameInv, CallOK, HandsWait
  <2>2. ~Promised(d)
    BY <1>0, <2>1, HandsUnpromised
  <2>3. Rejects(d, c) \/ (Becomes(d, [c EXCEPT !.stage = "running"]) /\ UNCHANGED serviceVars)
    BY <1>5, Zenon DEF CamelCreateSubagent
  <2>4. CASE Rejects(d, c)
    BY <1>0, <2>1, <2>2, <2>4, RefusedLater
  <2>5. CASE Becomes(d, [c EXCEPT !.stage = "running"]) /\ UNCHANGED serviceVars
    BY <1>0, <2>1, <2>5, StageMoves DEF Works
  <2> QED BY <2>3, <2>4, <2>5
<1>6. ASSUME NEW d \in Dispatch, CamelRunSubagent(d) \/ CamelBackgroundEnds(d)
      PROVE  FrameInv'
  <2>1. call[d].tool \in Agent /\ UNCHANGED registry
    BY <1>6 DEF CamelRunSubagent, CamelBackgroundEnds, Hands, CamelInv
  <2>2. ~Promised(d)
    BY <1>0, <2>1, HandsUnpromised
  <2>3. UNCHANGED <<serviceVars, call>> \/ \E how \in {"returned", "raised"} : Ends(d, how, "none")
    BY <1>6 DEF CamelRunSubagent, CamelBackgroundEnds
  <2> QED BY <1>0, <2>1, <2>2, <2>3, StillKeeps, EndsKeeps DEF Bodies, Outcomes
<1>7. CASE \E n \in Node : CamelRevoke(n)
  BY <1>0, <1>7, RevokesNodeKeeps DEF CamelRevoke
<1> QED BY <1>1, <1>2, <1>3, <1>4, <1>5, <1>6, <1>7 DEF CamelNext

(* Once a call is started it stays so, and calls what it called. *)
CallsGoOn ==
  \A e \in Dispatch : Started(e) => Started(e)' /\ call'[e].tool = call[e].tool

LEMMA MovesGoOn ==
  ASSUME FrameInv, NEW d \in Dispatch, NEW stage, stage # "idle",
         \/ \E c, n : BeginsAs(d, c, n, stage) /\ ~Started(d)
         \/ GoesOn(d, stage)
  PROVE  CallsGoOn
<1>1. CASE \E c, n : BeginsAs(d, c, n, stage) /\ ~Started(d)
  BY <1>1 DEF BeginsAs, CallsGoOn, Started
<1>2. CASE GoesOn(d, stage)
  BY <1>2 DEF GoesOn, CallsGoOn, Started
<1> QED BY <1>1, <1>2

(* The references only ever move to a new Guard of the same agent. *)
RefsMove ==
  \A s \in Dispatch : /\ Started(s) => Started(s)' /\ call'[s].tool = call[s].tool
                      /\ Started(s) /\ mem.ref[s] \in granted /\ who[mem.ref[s]] = call[s].tool =>
                           mem'.ref[s] \in granted' /\ who'[mem'.ref[s]] = call[s].tool

LEMMA RefsKept ==
  ASSUME CallsGoOn, Grows, mem'.ref = mem.ref
  PROVE  RefsMove
BY DEF CallsGoOn, Grows, RefsMove

LEMMA RefMoved ==
  ASSUME CamelInv, CallsGoOn, Grows, NEW s \in Dispatch, NEW f,
         f \in granted', who'[f] = call[s].tool, mem'.ref = [mem.ref EXCEPT ![s] = f]
  PROVE  RefsMove
<1>1. /\ mem'.ref[s] = f
      /\ \A t \in Dispatch : t # s => mem'.ref[t] = mem.ref[t]
  BY DEF CamelInv
<1> QED BY <1>1 DEF CallsGoOn, Grows, RefsMove

(* A session that is sound in the state a step leads to. *)
SoundNext(s, a) ==
  s # None => /\ s \in Dispatch /\ call'[s].stage # "idle" /\ call'[s].tool = a
              /\ mem'.ref[s] \in granted' /\ who'[mem'.ref[s]] = a

LEMMA SessionsKept ==
  ASSUME RefsMove
  PROVE  \A s, a : SessionOK(s, a) => SoundNext(s, a)
BY DEF RefsMove, SessionOK, SoundNext, Started

(* What is left to show of a step of camel once its references are sound.   *)
LEMMA CamelMoves ==
  ASSUME CamelInv, RefsMove, CallsGoOn, ManagerHands',
         mem' \in [pending : [Agent -> Dispatch \cup {None}], ref : [Dispatch -> Node \cup {None}],
                   session : [Dispatch -> Dispatch \cup {None}], background : SUBSET Dispatch],
         \A a \in Agent : mem'.pending[a] = None \/ mem'.pending[a] = mem.pending[a]
                            \/ SoundNext(mem'.pending[a], a),
         \A d \in Dispatch :
           /\ \/ mem'.session[d] = mem.session[d]
              \/ mem'.session[d] # None /\ Started(d)' /\ SoundNext(mem'.session[d], call'[d].tool)
           /\ call'[d].stage = "running" /\ call'[d].tool \in Agent =>
                mem'.session[d] # None \/ (call[d].stage = "running" /\ call[d].tool \in Agent)
           /\ d \in mem'.background => d \in mem.background \/ (Started(d) /\ call[d].tool \in Agent)
  PROVE  CamelInv'
<1>1. \A s, a : SessionOK(s, a) => SoundNext(s, a)
  BY SessionsKept
<1>2. ASSUME NEW a \in Agent
      PROVE  SoundNext(mem'.pending[a], a)
  <2>1. SoundNext(mem.pending[a], a)
    BY <1>1 DEF CamelInv
  <2>2. mem'.pending[a] = None => SoundNext(mem'.pending[a], a)
    BY DEF SoundNext
  <2> QED BY <2>1, <2>2
<1>3. ASSUME NEW d \in Dispatch
      PROVE  /\ SoundNext(mem'.session[d], call'[d].tool)
             /\ mem'.session[d] # None => Started(d)'
             /\ call'[d].stage = "running" /\ call'[d].tool \in Agent => mem'.session[d] # None
             /\ d \in mem'.background => Started(d)' /\ call'[d].tool \in Agent
  <2>1. CASE mem'.session[d] = mem.session[d]
    <3>1. SoundNext(mem'.session[d], call'[d].tool)
      <4>1. CASE mem.session[d] = None
        BY <2>1, <4>1 DEF SoundNext
      <4>2. CASE mem.session[d] # None
        <5>1. call'[d].tool = call[d].tool /\ SessionOK(mem.session[d], call[d].tool)
          BY <4>2 DEF CamelInv, CallsGoOn
        <5>2. SoundNext(mem.session[d], call[d].tool)
          BY <1>1, <5>1
        <5> QED BY <2>1, <5>1, <5>2
      <4> QED BY <4>1, <4>2
    <3> QED BY <2>1, <3>1 DEF CamelInv, CallsGoOn
  <2>2. CASE mem'.session[d] # None /\ Started(d)' /\ SoundNext(mem'.session[d], call'[d].tool)
    BY <2>2 DEF CamelInv, CallsGoOn
  <2> QED BY <2>1, <2>2
<1>4. /\ \A a \in Agent : SessionOK(mem.pending[a], a)'
      /\ \A d \in Dispatch : SessionOK(mem.session[d], call[d].tool)'
  BY <1>2, <1>3 DEF SessionOK, SoundNext, Started
<1> QED BY <1>3, <1>4 DEF CamelInv

LEMMA CamelStays ==
  ASSUME CamelInv, ManagerHands', CallsGoOn, Grows, UNCHANGED mem,
         \A e \in Dispatch : call'[e].stage = "running" /\ call'[e].tool \in Agent =>
                               call[e].stage = "running" /\ call[e].tool \in Agent
  PROVE  CamelInv'
<1>1. RefsMove
  BY RefsKept
<1>2. mem \in [pending : [Agent -> Dispatch \cup {None}], ref : [Dispatch -> Node \cup {None}],
               session : [Dispatch -> Dispatch \cup {None}], background : SUBSET Dispatch]
  BY DEF CamelInv
<1> QED BY <1>1, <1>2, CamelMoves

(* Whatever the session, its reference is moved to the child just minted.   *)
LEMMA CamelMintHolds ==
  ASSUME FrameInv, CamelInv, adapter = "camel", NEW d \in Dispatch, CamelMint(d)
  PROVE  CamelInv'
<1> DEFINE c == call[d]
           a == call[d].tool
           f == Fresh
<1>1. c.stage = "cleared" /\ a \in Agent /\ Started(d)
  BY DEF CamelMint, FrameInv, CallOK, HandsWait, Started
<1>2. CASE Rejects(d, c) /\ UNCHANGED mem
  <2>1. GoesOn(d, "over") /\ Grows
    BY <1>2, Moving, MovesGrow
  <2>2. CallsGoOn /\ ManagerHands'
    BY <2>1, MovesGoOn, ManagerStays DEF CamelInv
  <2>3. \A e \in Dispatch : call'[e].stage = "running" => call[e].stage = "running" /\ call'[e] = call[e]
    BY <2>1 DEF GoesOn
  <2>4. \A e \in Dispatch : call'[e].stage = "running" /\ call'[e].tool \in Agent =>
                              call[e].stage = "running" /\ call[e].tool \in Agent
    BY <2>3
  <2> QED BY <1>2, <2>1, <2>2, <2>4, CamelStays
<1>3. ASSUME Mints(Root, a), Becomes(d, [c EXCEPT !.child = f]),
             \/ mem' = [mem EXCEPT !.pending[a] = d, !.ref[d] = f]
             \/ \E e \in Dispatch :
                  /\ mem.session[e] # None /\ call[e].tool = a
                  /\ mem' = [mem EXCEPT !.ref[mem.session[e]] = f, !.session[d] = mem.session[e]]
      PROVE  CamelInv'
  <2>1. GoesOn(d, "cleared") /\ Grows /\ f \in Node /\ f \in granted' /\ who'[f] = a
    <3>1. GoesOn(d, c.stage)
      BY <1>3, Moving
    <3> QED BY <1>1, <1>3, <3>1, MintSteps, MovesGrow DEF FrameInv
  <2> HIDE DEF f
  <2>2. CallsGoOn /\ ManagerHands'
    BY <1>1, <2>1, MovesGoOn, ManagerStays DEF CamelInv
  <2>3. \A e \in Dispatch : call'[e].stage = "running" => call[e].stage = "running" /\ call'[e] = call[e]
    BY <1>1, <2>1 DEF GoesOn
  <2>4. CASE mem' = [mem EXCEPT !.pending[a] = d, !.ref[d] = f]
    <3>1. /\ mem' \in [pending : [Agent -> Dispatch \cup {None}], ref : [Dispatch -> Node \cup {None}],
                       session : [Dispatch -> Dispatch \cup {None}], background : SUBSET Dispatch]
          /\ mem'.pending = [mem.pending EXCEPT ![a] = d] /\ mem'.ref = [mem.ref EXCEPT ![d] = f]
          /\ mem'.session = mem.session /\ mem'.background = mem.background
      BY <1>1, <2>1, <2>4 DEF CamelInv
    <3>2. RefsMove
      BY <2>1, <2>2, <3>1, RefMoved
    <3>3. SoundNext(d, a) /\ mem'.pending[a] = d
          /\ \A b \in Agent : b # a => mem'.pending[b] = mem.pending[b]
      <4>1. mem'.ref[d] = f
        BY <3>1 DEF CamelInv
      <4> QED BY <1>1, <2>1, <2>2, <3>1, <4>1 DEF SoundNext, CallsGoOn, CamelInv, Started
    <3>4. \A b \in Agent : mem'.pending[b] = mem.pending[b] \/ SoundNext(mem'.pending[b], b)
      BY <3>3
    <3>5. \A e \in Dispatch : call'[e].stage = "running" /\ call'[e].tool \in Agent =>
                                call[e].stage = "running" /\ call[e].tool \in Agent
      BY <2>3
    <3> QED BY <2>2, <3>1, <3>2, <3>4, <3>5, CamelMoves
  <2>5. ASSUME NEW e \in Dispatch, mem.session[e] # None, call[e].tool = a,
               mem' = [mem EXCEPT !.ref[mem.session[e]] = f, !.session[d] = mem.session[e]]
        PROVE  CamelInv'
    <3> DEFINE s == mem.session[e]
    <3>1. s \in Dispatch /\ s # None /\ Started(s) /\ call[s].tool = a
      BY <2>5 DEF CamelInv, SessionOK
    <3>2. mem' = [mem EXCEPT !.ref[s] = f, !.session[d] = s]
      BY <2>5
    <3> HIDE DEF s
    <3>3. /\ mem' \in [pending : [Agent -> Dispatch \cup {None}], ref : [Dispatch -> Node \cup {None}],
                       session : [Dispatch -> Dispatch \cup {None}], background : SUBSET Dispatch]
          /\ mem'.pending = mem.pending /\ mem'.ref = [mem.ref EXCEPT ![s] = f]
          /\ mem'.session = [mem.session EXCEPT ![d] = s] /\ mem'.background = mem.background
      BY <2>1, <3>1, <3>2 DEF CamelInv
    <3>4. RefsMove
      BY <2>1, <2>2, <3>1, <3>3, RefMoved
    <3>5. /\ mem'.session[d] = s /\ Started(d)' /\ SoundNext(s, call'[d].tool)
          /\ \A x \in Dispatch : x # d => mem'.session[x] = mem.session[x]
      <4>1. mem'.ref[s] = f
        BY <3>1, <3>3 DEF CamelInv
      <4>2. mem'.session[d] = s /\ \A x \in Dispatch : x # d => mem'.session[x] = mem.session[x]
        BY <3>3 DEF CamelInv
      <4>3. Started(d)' /\ call'[d].tool = a /\ call'[s].stage # "idle" /\ call'[s].tool = a
        BY <1>1, <2>2, <3>1 DEF CallsGoOn, Started
      <4>4. SoundNext(s, call'[d].tool)
        BY <2>1, <3>1, <4>1, <4>3 DEF SoundNext
      <4> QED BY <4>2, <4>3, <4>4
    <3>6. \A x \in Dispatch :
            \/ mem'.session[x] = mem.session[x]
            \/ mem'.session[x] # None /\ Started(x)' /\ SoundNext(mem'.session[x], call'[x].tool)
      BY <3>1, <3>5
    <3>7. \A x \in Dispatch : call'[x].stage = "running" /\ call'[x].tool \in Agent =>
                                call[x].stage = "running" /\ call[x].tool \in Agent
      BY <2>3
    <3> QED BY <2>2, <3>3, <3>4, <3>6, <3>7, CamelMoves
  <2> QED BY <1>3, <2>4, <2>5
<1> QED BY <1>2, <1>3 DEF CamelMint

LEMMA CamelCreateHolds ==
  ASSUME FrameInv, CamelInv, adapter = "camel", NEW d \in Dispatch, CamelCreateSubagent(d)
  PROVE  CamelInv'
<1> DEFINE a == call[d].tool
           s == IF mem.session[d] # None THEN mem.session[d] ELSE mem.pending[a]
<1>1. call[d].stage = "cleared" /\ a \in Agent /\ Started(d)
  BY DEF CamelCreateSubagent, FrameInv, CallOK, HandsWait, Started
<1>2. SessionOK(s, a)
  BY <1>1 DEF CamelInv
<1>3. CASE s = None
  <2>1. Rejects(d, call[d]) /\ UNCHANGED mem
    BY <1>3 DEF CamelCreateSubagent
  <2>2. GoesOn(d, "over") /\ Grows
    BY <2>1, Moving, MovesGrow
  <2>3. CallsGoOn /\ ManagerHands'
    BY <2>2, MovesGoOn, ManagerStays DEF CamelInv
  <2>4. \A e \in Dispatch : call'[e].stage = "running" /\ call'[e].tool \in Agent =>
                              call[e].stage = "running" /\ call[e].tool \in Agent
    BY <2>2 DEF GoesOn
  <2> QED BY <2>1, <2>2, <2>3, <2>4, CamelStays
<1>4. CASE s # None
  <2>1. /\ Becomes(d, [call[d] EXCEPT !.stage = "running"]) /\ UNCHANGED serviceVars
        /\ mem' = [mem EXCEPT !.session[d] = s]
    BY <1>4 DEF CamelCreateSubagent
  <2> HIDE DEF s
  <2>2. GoesOn(d, "running") /\ Grows
    BY <2>1, Moving, MovesGrow
  <2>3. CallsGoOn /\ ManagerHands'
    BY <2>2, MovesGoOn, ManagerStays DEF CamelInv
  <2>4. s \in Dispatch
    BY <1>2, <1>4 DEF SessionOK
  <2>5. /\ mem' \in [pending : [Agent -> Dispatch \cup {None}], ref : [Dispatch -> Node \cup {None}],
                     session : [Dispatch -> Dispatch \cup {None}], background : SUBSET Dispatch]
        /\ mem'.pending = mem.pending /\ mem'.ref = mem.ref /\ mem'.background = mem.background
        /\ mem'.session = [mem.session EXCEPT ![d] = s]
    BY <2>1, <2>4 DEF CamelInv
  <2>6. mem'.session[d] = s /\ \A x \in Dispatch : x # d => mem'.session[x] = mem.session[x]
    BY <2>5 DEF CamelInv
  <2>7. RefsMove
    BY <2>2, <2>3, <2>5, RefsKept
  <2>8. SoundNext(s, a)
    BY <1>2, <2>7, SessionsKept
  <2>9. Started(d)' /\ call'[d].tool = a
    BY <1>1, <2>3 DEF CallsGoOn
  <2>10. \A x \in Dispatch :
           /\ \/ mem'.session[x] = mem.session[x]
              \/ mem'.session[x] # None /\ Started(x)' /\ SoundNext(mem'.session[x], call'[x].tool)
           /\ call'[x].stage = "running" /\ call'[x].tool \in Agent =>
                mem'.session[x] # None \/ (call[x].stage = "running" /\ call[x].tool \in Agent)
    BY <1>4, <2>2, <2>6, <2>8, <2>9 DEF GoesOn
  <2> QED BY <2>3, <2>5, <2>7, <2>10, CamelMoves
<1> QED BY <1>3, <1>4

(* agent_run_subagent returns: nothing is pending, and a body that is still *)
(* to end is in the background.                                             *)
LEMMA CamelRunHolds ==
  ASSUME FrameInv, CamelInv, adapter = "camel", NEW d \in Dispatch, CamelRunSubagent(d)
  PROVE  CamelInv'
<1> DEFINE a == call[d].tool
<1>1. a \in Agent /\ Started(d) /\ call[d].stage = "running"
  BY DEF CamelRunSubagent, Hands, IsRunning, Started
<1>2. /\ mem' \in [pending : [Agent -> Dispatch \cup {None}], ref : [Dispatch -> Node \cup {None}],
                   session : [Dispatch -> Dispatch \cup {None}], background : SUBSET Dispatch]
      /\ mem'.pending = [mem.pending EXCEPT ![a] = None] /\ mem'.ref = mem.ref
      /\ mem'.session = mem.session /\ mem'.background \subseteq mem.background \cup {d}
  <2> DEFINE dropped == [mem EXCEPT !.pending[a] = None]
  <2>1. mem' = dropped \/ mem' = [dropped EXCEPT !.background = @ \cup {d}]
    BY DEF CamelRunSubagent
  <2>2. /\ dropped \in [pending : [Agent -> Dispatch \cup {None}], ref : [Dispatch -> Node \cup {None}],
                        session : [Dispatch -> Dispatch \cup {None}], background : SUBSET Dispatch]
        /\ dropped.pending = [mem.pending EXCEPT ![a] = None] /\ dropped.ref = mem.ref
        /\ dropped.session = mem.session /\ dropped.background = mem.background
    BY <1>1 DEF CamelInv
  <2> HIDE DEF dropped
  <2> QED BY <2>1, <2>2
<1>3. \A b \in Agent : mem'.pending[b] = None \/ mem'.pending[b] = mem.pending[b]
  BY <1>2 DEF CamelInv
<1>4. /\ Grows /\ CallsGoOn /\ ManagerHands'
      /\ \A e \in Dispatch : call'[e].stage = "running" /\ call'[e].tool \in Agent =>
                               call[e].stage = "running" /\ call[e].tool \in Agent
  <2>1. CASE UNCHANGED <<serviceVars, call>>
    BY <2>1, MovesGrow DEF CallsGoOn, CamelInv, ManagerHands, Started
  <2>2. CASE \E how \in {"returned", "raised"} : Ends(d, how, "none")
    <3>1. GoesOn(d, "over") /\ Grows
      BY <2>2, EndsAs, MovesGrow
    <3> QED BY <3>1, MovesGoOn, ManagerStays DEF CamelInv, GoesOn
  <2> QED BY <2>1, <2>2 DEF CamelRunSubagent
<1>5. RefsMove
  BY <1>2, <1>4, RefsKept
<1>6. \A x \in mem'.background : x \in mem.background \/ (Started(x) /\ call[x].tool \in Agent)
  BY <1>1, <1>2
<1> QED BY <1>2, <1>3, <1>4, <1>5, <1>6, CamelMoves

LEMMA CamelHolds ==
  ASSUME FrameInv, CamelInv, adapter = "camel", CamelNext
  PROVE  CamelInv'
<1>1. ASSUME NEW d \in NextCall, NEW c \in Nested, CamelAuthorize(d, c) \/ CamelEnforce(d, c)
      PROVE  CamelInv'
  <2>1. IsNew(d, c) /\ d \in Dispatch /\ ~Started(d) /\ Strict \in BOOLEAN
    BY NestedNew, FrameworkAssumption DEF IsNew, Started
  <2>2. /\ Grows
        /\ \E n, stage : /\ BeginsAs(d, c, n, stage) /\ stage # "idle"
                         /\ stage = "cleared" => c.by = RootAgent
                         /\ stage = "running" => c.tool \notin Agent
    <3>1. CASE CamelAuthorize(d, c)
      <4> DEFINE n == CamelResolve(c)
      <4>1. Rejects(d, c) \/ Denies(d, c, n) \/ Checks(d, c, n, Strict, "running")
        BY <3>1 DEF CamelAuthorize
      <4>2. c.tool \notin Agent
        BY <3>1, NameAssumption DEF CamelAuthorize
      <4> HIDE DEF n
      <4>3. Grows
        BY <2>1, <4>1, MovesGrow
      <4>4. \E m, stage : BeginsAs(d, c, m, stage) /\ stage \in {"running", "over"}
        BY <2>1, <4>1, Begins
      <4> QED BY <4>2, <4>3, <4>4
    <3>2. CASE CamelEnforce(d, c)
      <4>1. \/ Checks(d, c, Root, FALSE, "cleared")
            \/ Becomes(d, [c EXCEPT !.stage = "cleared", !.node = Root]) /\ UNCHANGED serviceVars
        BY <3>2 DEF CamelEnforce
      <4>2. Grows
        BY <2>1, <4>1, MovesGrow
      <4>3. BeginsAs(d, c, Root, "over") \/ BeginsAs(d, c, Root, "cleared")
        BY <2>1, <4>1, Begins
      <4> QED BY <3>2, <4>2, <4>3 DEF CamelEnforce, FromRoot
    <3> QED BY <1>1, <3>1, <3>2
  <2>3. PICK n, stage : /\ BeginsAs(d, c, n, stage) /\ stage # "idle"
                        /\ stage = "cleared" => c.by = RootAgent
                        /\ stage = "running" => c.tool \notin Agent
    BY <2>2
  <2>4. CallsGoOn /\ ManagerHands'
    BY <2>1, <2>3, MovesGoOn, ManagerStays DEF CamelInv
  <2>5. \A e \in Dispatch : call'[e].stage = "running" /\ call'[e].tool \in Agent =>
                              call[e].stage = "running" /\ call[e].tool \in Agent
    BY <2>3 DEF BeginsAs
  <2>6. UNCHANGED mem
    BY <1>1 DEF CamelAuthorize, CamelEnforce
  <2> QED BY <2>2, <2>4, <2>5, <2>6, CamelStays
<1>2. ASSUME NEW d \in Dispatch, CamelCall(d) \/ CamelAsyncCall(d) \/ CamelBackgroundEnds(d)
      PROVE  CamelInv'
  <2>1. (\E how, says : Ends(d, how, says)) /\ UNCHANGED mem
    BY <1>2 DEF CamelCall, CamelAsyncCall, CamelBackgroundEnds, Wrapped
  <2>2. GoesOn(d, "over") /\ Grows
    BY <2>1, EndsAs, MovesGrow
  <2>3. CallsGoOn /\ ManagerHands'
    BY <2>2, MovesGoOn, ManagerStays DEF CamelInv
  <2>4. \A e \in Dispatch : call'[e].stage = "running" /\ call'[e].tool \in Agent =>
                              call[e].stage = "running" /\ call[e].tool \in Agent
    BY <2>2 DEF GoesOn
  <2> QED BY <2>1, <2>2, <2>3, <2>4, CamelStays
<1>3. ASSUME NEW n \in Node, CamelRevoke(n)
      PROVE  CamelInv'
  <2>1. Grows /\ UNCHANGED <<call, mem>>
    BY <1>3, CalmSteps DEF CamelRevoke, RevokesNode, FrameInv
  <2>2. CallsGoOn /\ ManagerHands'
    BY <2>1 DEF CallsGoOn, CamelInv, ManagerHands, Started
  <2> QED BY <2>1, <2>2, CamelStays
<1> QED BY <1>1, <1>2, <1>3, CamelMintHolds, CamelCreateHolds, CamelRunHolds DEF CamelNext

-----------------------------------------------------------------------------
(* crewai: which call an arguments' object stands for.  A call loses its    *)
(* slot only to one that was refused on the same object.                    *)
KeyOK(d) ==
  /\ mem.key[d] # None <=> Started(d)
  /\ Started(d) => Started(mem.key[d]) /\ call[mem.key[d]].tool = call[d].tool

DeniedOK(d) ==
  /\ d \in mem.denied => Started(d) /\ ~Promised(d)
  /\ call[d].stage = "ended" /\ call[d].body = "none" => d \in mem.denied

KeepsSlot(d) ==
  Promised(d) /\ call[d].stage # "over" => mem.slot[mem.key[d]] = d \/ d \in mem.collided

LosesSlot(d) ==
  LET e == mem.slot[mem.key[d]] IN
  Started(d) /\ call[d].stage # "over" /\ e # d =>
    \/ e # None /\ d \in mem.denied /\ e \in mem.collided
    \/ \E x \in mem.denied : mem.key[x] = mem.key[d] /\ (e # None => x < e)

CrewaiMem ==
  [slot : [Dispatch -> Dispatch \cup {None}], key : [Dispatch -> Dispatch \cup {None}],
   collided : SUBSET Dispatch, denied : SUBSET Dispatch]

CrewaiInv ==
  /\ mem \in CrewaiMem
  /\ \A k \in Dispatch : mem.slot[k] # None => Started(mem.slot[k]) /\ mem.key[mem.slot[k]] = k
  /\ \A d \in Dispatch : KeyOK(d) /\ DeniedOK(d) /\ KeepsSlot(d) /\ LosesSlot(d)

LEMMA CrewaiKeyed ==
  ASSUME CrewaiInv, NEW d \in Dispatch, Started(d)
  PROVE  mem.key[d] \in Dispatch
BY DEF CrewaiInv, CrewaiMem, KeyOK

LEMMA CrewaiMemKeeps ==
  ASSUME CrewaiInv, adapter = "crewai", UNCHANGED adapter,
         mem.collided \subseteq mem'.collided, mem.denied \subseteq mem'.denied,
         \A e \in Dispatch : Started(e) => mem'.key[e] = mem.key[e]
  PROVE  MemKeeps
<1>1. ASSUME NEW d \in Dispatch, SharesWithRefused(d)
      PROVE  SharesWithRefused(d)'
  <2>1. PICK e \in mem.denied : e < d /\ mem.key[e] = mem.key[d]
    BY <1>1 DEF SharesWithRefused
  <2>2. e \in Dispatch /\ Started(e) /\ mem.key[e] # None
    BY <2>1 DEF CrewaiInv, CrewaiMem, DeniedOK, KeyOK
  <2>3. Started(d)
    BY <2>1, <2>2 DEF CrewaiInv, KeyOK
  <2>4. e \in mem'.denied /\ mem'.key[e] = mem'.key[d]
    BY <2>1, <2>2, <2>3
  <2> QED BY <2>1, <2>4 DEF SharesWithRefused
<1> QED BY <1>1 DEF MemKeeps

(* A call begins on an object, which it takes or another has.               *)
LEMMA CrewaiTaken ==
  ASSUME FrameInv, CrewaiInv, adapter = "crewai", NEW d \in NextCall, NEW k \in Dispatch,
         call'[d].stage \in {"running", "ended"}, call'[d].body = "none",
         \A x \in Dispatch : x # d => call'[x] = call[x],
         k = d \/ (Started(k) /\ call[k].tool = call'[d].tool),
         \A x \in Dispatch : x # d => (Promised(x)' => Promised(x)),
         mem' \in CrewaiMem, mem'.key = [mem.key EXCEPT ![d] = k],
         mem.denied \subseteq mem'.denied, mem'.denied \subseteq mem.denied \cup {d},
         d \in mem'.denied => ~Promised(d)', call'[d].stage = "ended" => d \in mem'.denied,
         \/ /\ mem.slot[k] = None /\ mem'.slot = [mem.slot EXCEPT ![k] = d]
            /\ mem'.collided = mem.collided
         \/ /\ mem.slot[k] # None /\ mem'.slot = mem.slot /\ d \in mem'.denied
            /\ mem'.collided = mem.collided \cup {mem.slot[k]}
  PROVE  CrewaiInv'
<1>1. /\ d \in Dispatch /\ ~Started(d) /\ mem.key[d] = None
      /\ \A x \in Dispatch : Started(x) => x < d
      /\ None \notin Dispatch
  <2>1. d \in Dispatch /\ d \in Nat /\ Dispatch \subseteq Nat
    BY FrameworkAssumption DEF NextCall
  <2>2. \A x \in Dispatch : Started(x) => ~(x >= d)
    BY DEF NextCall, Started
  <2>3. ~Started(d)
    BY <2>1 DEF NextCall, Started
  <2> QED BY <2>1, <2>2, <2>3, NameAssumption DEF CrewaiInv, KeyOK
<1>2. /\ mem'.key[d] = k /\ Started(d)'
      /\ \A x \in Dispatch : x # d => mem'.key[x] = mem.key[x] /\ (Started(x)' <=> Started(x))
  BY <1>1 DEF CrewaiInv, CrewaiMem, Started
<1>3. \A x \in Dispatch : KeyOK(x)'
  <2>1. KeyOK(d)'
    BY <1>1, <1>2 DEF KeyOK, Started
  <2>2. ASSUME NEW x \in Dispatch, x # d
        PROVE  KeyOK(x)'
    <3>1. KeyOK(x) /\ (Started(x) => mem.key[x] \in Dispatch)
      BY CrewaiKeyed DEF CrewaiInv
    <3> QED BY <1>1, <1>2, <2>2, <3>1 DEF KeyOK, Started
  <2> QED BY <2>1, <2>2
<1>4. ASSUME NEW x \in Dispatch
      PROVE  DeniedOK(x)'
  <2>1. CASE x = d
    BY <1>2, <2>1 DEF DeniedOK
  <2>2. CASE x # d
    BY <1>2, <2>2 DEF CrewaiInv, DeniedOK
  <2> QED BY <2>1, <2>2
<1>5. CASE /\ mem.slot[k] = None /\ mem'.slot = [mem.slot EXCEPT ![k] = d]
           /\ mem'.collided = mem.collided
  <2>1. mem'.slot[k] = d /\ \A j \in Dispatch : j # k => mem'.slot[j] = mem.slot[j]
    BY <1>5 DEF CrewaiInv, CrewaiMem
  <2>2. ASSUME NEW j \in Dispatch, mem'.slot[j] # None
        PROVE  call'[mem'.slot[j]].stage # "idle" /\ mem'.key[mem'.slot[j]] = j
    <3>1. CASE j = k
      BY <1>2, <2>1, <3>1 DEF Started
    <3>2. CASE j # k
      <4>1. mem'.slot[j] = mem.slot[j] /\ mem.slot[j] \in Dispatch /\ Started(mem.slot[j])
            /\ mem.key[mem.slot[j]] = j
        BY <2>1, <2>2, <3>2 DEF CrewaiInv, CrewaiMem
      <4>2. mem.slot[j] # d
        BY <1>1, <4>1
      <4> QED BY <1>2, <4>1, <4>2 DEF Started
    <3> QED BY <3>1, <3>2
  <2>3. ASSUME NEW x \in Dispatch
        PROVE  KeepsSlot(x)'
    <3>1. CASE x = d
      BY <1>2, <2>1, <3>1 DEF KeepsSlot
    <3>2. CASE x # d /\ Promised(x)' /\ call'[x].stage # "over"
      <4>1. Promised(x) /\ call[x].stage # "over"
        BY <3>2
      <4>2. Started(x) /\ mem.key[x] \in Dispatch
        <5>1. Started(x)
          BY <4>1, NewIsUnpromised DEF Started
        <5> QED BY <5>1, CrewaiKeyed
      <4>3. mem.slot[mem.key[x]] = x \/ x \in mem.collided
        BY <4>1 DEF CrewaiInv, KeepsSlot
      <4>4. x # None
        BY <1>1
      <4> QED BY <1>2, <1>5, <2>1, <3>2, <4>2, <4>3, <4>4 DEF KeepsSlot
    <3> QED BY <3>1, <3>2 DEF KeepsSlot
  <2>4. ASSUME NEW x \in Dispatch
        PROVE  LosesSlot(x)'
    <3>1. CASE x = d
      BY <1>2, <2>1, <3>1 DEF LosesSlot
    <3>2. CASE x # d /\ Started(x) /\ call[x].stage # "over" /\ mem'.slot[mem'.key[x]] # x
      <4>1. mem.key[x] \in Dispatch /\ mem'.key[x] = mem.key[x] /\ LosesSlot(x)
        BY <1>2, <3>2, CrewaiKeyed DEF CrewaiInv
      <4>2. CASE mem.key[x] = k
        <5>1. \E y \in mem.denied : mem.key[y] = k
          BY <1>1, <1>5, <3>2, <4>1, <4>2 DEF LosesSlot
        <5>2. PICK y \in mem.denied : mem.key[y] = k
          BY <5>1
        <5>3. y \in Dispatch /\ Started(y) /\ y < d /\ y # d
          BY <1>1, <5>2 DEF CrewaiInv, CrewaiMem, DeniedOK
        <5>4. y \in mem'.denied /\ mem'.key[y] = mem'.key[x] /\ mem'.slot[mem'.key[x]] = d
          BY <1>2, <2>1, <4>1, <4>2, <5>2, <5>3
        <5> QED BY <5>3, <5>4 DEF LosesSlot
      <4>3. CASE mem.key[x] # k
        <5>1. mem'.slot[mem'.key[x]] = mem.slot[mem.key[x]]
          BY <2>1, <4>1, <4>3
        <5>2. \A y \in mem.denied : y \in mem'.denied /\ mem'.key[y] = mem.key[y]
          BY <1>1, <1>2 DEF CrewaiInv, CrewaiMem, DeniedOK
        <5> QED BY <1>5, <3>2, <4>1, <5>1, <5>2 DEF LosesSlot
      <4> QED BY <4>2, <4>3
    <3> QED BY <1>2, <3>1, <3>2 DEF LosesSlot
  <2> QED BY <1>3, <1>4, <2>2, <2>3, <2>4 DEF CrewaiInv, Started
<1>6. CASE /\ mem.slot[k] # None /\ mem'.slot = mem.slot /\ d \in mem'.denied
           /\ mem'.collided = mem.collided \cup {mem.slot[k]}
  <2>1. ASSUME NEW j \in Dispatch, mem'.slot[j] # None
        PROVE  call'[mem'.slot[j]].stage # "idle" /\ mem'.key[mem'.slot[j]] = j
    <3>1. mem'.slot[j] = mem.slot[j] /\ mem.slot[j] \in Dispatch /\ Started(mem.slot[j])
          /\ mem.key[mem.slot[j]] = j
      BY <1>6, <2>1 DEF CrewaiInv, CrewaiMem
    <3>2. mem.slot[j] # d
      BY <1>1, <3>1
    <3> QED BY <1>2, <3>1, <3>2 DEF Started
  <2>2. ASSUME NEW x \in Dispatch
        PROVE  KeepsSlot(x)'
    <3>1. CASE x = d
      BY <1>6, <3>1 DEF KeepsSlot
    <3>2. CASE x # d
      BY <1>2, <1>6, <3>2 DEF CrewaiInv, KeepsSlot
    <3> QED BY <3>1, <3>2
  <2>3. ASSUME NEW x \in Dispatch
        PROVE  LosesSlot(x)'
    <3>1. CASE x = d
      BY <1>2, <1>6, <3>1 DEF LosesSlot
    <3>2. CASE x # d /\ Started(x) /\ call[x].stage # "over" /\ mem'.slot[mem'.key[x]] # x
      <4>1. mem'.key[x] = mem.key[x] /\ LosesSlot(x) /\ mem'.slot[mem'.key[x]] = mem.slot[mem.key[x]]
        BY <1>2, <1>6, <3>2 DEF CrewaiInv
      <4>2. \A y \in mem.denied : y \in mem'.denied /\ mem'.key[y] = mem.key[y]
        BY <1>1, <1>2 DEF CrewaiInv, CrewaiMem, DeniedOK
      <4> QED BY <1>6, <3>2, <4>1, <4>2 DEF LosesSlot
    <3> QED BY <1>2, <3>1, <3>2 DEF LosesSlot
  <2> QED BY <1>3, <1>4, <2>1, <2>2, <2>3 DEF CrewaiInv, Started
<1> QED BY <1>5, <1>6

(* A call goes on, and its object may be free again.                        *)
LEMMA CrewaiFreed ==
  ASSUME FrameInv, CrewaiInv, adapter = "crewai", NEW d \in Dispatch, Started(d),
         call[d].stage = "ended", call'[d].stage = "over",
         \A x \in Dispatch : /\ call'[x].tool = call[x].tool
                             /\ x # d => call'[x].stage = call[x].stage /\ call'[x].body = call[x].body,
         \A x \in Dispatch : Promised(x)' => Promised(x),
         mem' = [mem EXCEPT !.slot[mem.key[d]] = None],
         \A x \in Dispatch : x = mem.slot[mem.key[d]] => ~Promised(x)'
  PROVE  CrewaiInv'
<1> DEFINE k == mem.key[d]
           e == mem.slot[k]
<1>1. k \in Dispatch /\ None \notin Dispatch
  BY CrewaiKeyed, NameAssumption
<1>2. /\ mem' \in CrewaiMem /\ mem'.slot = [mem.slot EXCEPT ![k] = None] /\ mem'.key = mem.key
      /\ mem'.collided = mem.collided /\ mem'.denied = mem.denied
  BY <1>1 DEF CrewaiInv, CrewaiMem
<1>3. mem'.slot[k] = None /\ \A j \in Dispatch : j # k => mem'.slot[j] = mem.slot[j]
  BY <1>1, <1>2 DEF CrewaiInv, CrewaiMem
<1>4. \A x \in Dispatch : Started(x)' <=> Started(x)
  BY DEF Started
<1>5. ASSUME NEW j \in Dispatch, mem'.slot[j] # None
      PROVE  call'[mem'.slot[j]].stage # "idle" /\ mem'.key[mem'.slot[j]] = j
  <2>1. mem'.slot[j] = mem.slot[j] /\ mem.slot[j] \in Dispatch /\ Started(mem.slot[j])
        /\ mem.key[mem.slot[j]] = j
    BY <1>3, <1>5 DEF CrewaiInv, CrewaiMem
  <2> QED BY <1>2, <2>1 DEF Started
<1>6. ASSUME NEW x \in Dispatch
      PROVE  KeyOK(x)'
  <2>1. KeyOK(x) /\ (Started(x) => mem.key[x] \in Dispatch)
    BY CrewaiKeyed DEF CrewaiInv
  <2> QED BY <1>2, <2>1 DEF KeyOK, Started
<1>7. ASSUME NEW x \in Dispatch
      PROVE  DeniedOK(x)'
  BY <1>2, <1>4 DEF CrewaiInv, DeniedOK
<1>8. ASSUME NEW x \in Dispatch
      PROVE  KeepsSlot(x)'
  <2>1. CASE Promised(x)' /\ call'[x].stage # "over"
    <3>1. x # d /\ Promised(x) /\ call[x].stage # "over" /\ Started(x)
      BY <2>1, NewIsUnpromised DEF Started
    <3>2. mem.key[x] \in Dispatch /\ (mem.slot[mem.key[x]] = x \/ x \in mem.collided)
      BY <3>1, CrewaiKeyed DEF CrewaiInv, KeepsSlot
    <3>3. mem.key[x] = k => x \in mem.collided
      BY <1>1, <2>1, <3>2
    <3> QED BY <1>2, <1>3, <3>2, <3>3 DEF KeepsSlot
  <2> QED BY <2>1 DEF KeepsSlot
<1>9. ASSUME NEW x \in Dispatch
      PROVE  LosesSlot(x)'
  <2>1. CASE Started(x) /\ call'[x].stage # "over" /\ mem'.slot[mem'.key[x]] # x
    <3>1. x # d /\ call[x].stage # "over" /\ mem.key[x] \in Dispatch /\ LosesSlot(x) /\ LosesSlot(d)
      BY <2>1, CrewaiKeyed DEF CrewaiInv
    <3>2. CASE mem.key[x] = k
      <4>1. \E y \in mem.denied : mem.key[y] = k
        <5>1. CASE e # x
          BY <2>1, <3>1, <3>2, <5>1 DEF LosesSlot
        <5>2. CASE e = x
          BY <3>1, <5>2 DEF LosesSlot
        <5> QED BY <5>1, <5>2
      <4> QED BY <1>2, <1>3, <3>2, <4>1 DEF LosesSlot
    <3>3. CASE mem.key[x] # k
      <4>1. mem'.slot[mem'.key[x]] = mem.slot[mem.key[x]] /\ mem'.key[x] = mem.key[x]
        BY <1>2, <1>3, <3>1, <3>3
      <4> QED BY <1>2, <2>1, <3>1, <4>1 DEF LosesSlot
    <3> QED BY <3>2, <3>3
  <2> QED BY <1>4, <2>1 DEF LosesSlot
<1> QED BY <1>2, <1>5, <1>6, <1>7, <1>8, <1>9 DEF CrewaiInv, Started

LEMMA CrewaiGoesOn ==
  ASSUME CrewaiInv, UNCHANGED mem,
         \A x \in Dispatch : /\ call'[x].tool = call[x].tool
                             /\ Started(x)' <=> Started(x)
                             /\ call'[x].stage # "over" => call[x].stage # "over"
                             /\ call'[x].stage = "ended" /\ call'[x].body = "none" =>
                                  call[x].stage = "ended" /\ call[x].body = "none",
         \A x \in Dispatch : Promised(x)' => Promised(x)
  PROVE  CrewaiInv'
<1>1. ASSUME NEW x \in Dispatch
      PROVE  KeyOK(x)'
  <2>1. KeyOK(x) /\ (Started(x) => mem.key[x] \in Dispatch)
    BY CrewaiKeyed DEF CrewaiInv
  <2> QED BY <2>1 DEF KeyOK, Started
<1>2. ASSUME NEW x \in Dispatch
      PROVE  DeniedOK(x)' /\ KeepsSlot(x)' /\ LosesSlot(x)'
  BY DEF CrewaiInv, DeniedOK, KeepsSlot, LosesSlot
<1>3. ASSUME NEW k \in Dispatch, mem'.slot[k] # None
      PROVE  call'[mem'.slot[k]].stage # "idle" /\ mem'.key[mem'.slot[k]] = k
  BY <1>3 DEF CrewaiInv, CrewaiMem, Started
<1> QED BY <1>1, <1>2, <1>3 DEF CrewaiInv, Started

(* What a step on an object does to what the bridge keeps. *)
LEMMA CrewaiTakesObject ==
  ASSUME CrewaiInv, NEW d \in Dispatch, NEW k \in Dispatch
  PROVE  LET m == CrewaiTakes(mem, d, k) IN
         /\ m \in CrewaiMem /\ m.key = [mem.key EXCEPT ![d] = k]
         /\ m.slot = [mem.slot EXCEPT ![k] = d]
         /\ m.collided = mem.collided /\ m.denied = mem.denied
BY DEF CrewaiTakes, CrewaiInv, CrewaiMem

LEMMA CrewaiDenyKeeps ==
  ASSUME FrameInv, UNCHANGED <<adapter, registry>>, MemKeeps, NEW d, NEW c, IsNew(d, c),
         NEW n, n = None \/ n \in granted, NEW entry \in {"none", "deny"}, CrewaiDeny(d, c, n, entry)
  PROVE  /\ FrameInv' /\ UNCHANGED open
         /\ call'[d].stage = "ended" /\ call'[d].body = "none" /\ call'[d].tool = c.tool
         /\ \A x \in Dispatch : x # d => call'[x] = call[x]
<1> DEFINE x == [c EXCEPT !.stage = "ended", !.node = n, !.entry = entry]
<1>1. /\ x \in Calls /\ x.stage = "ended" /\ x.node = n /\ x.tool = c.tool
      /\ x.child = None /\ x.body = "none" /\ x.outcome = "none"
  <2>1. n \in Node \cup {None}
    BY DEF FrameInv, ServiceOK
  <2> QED BY <2>1 DEF IsNew, Calls, Stages, Entries
<1>2. Becomes(d, x)
  BY DEF CrewaiDeny
<1>3. Calm /\ Grows /\ ServiceOK'
  BY CalmSteps DEF FrameInv, CrewaiDeny
<1> HIDE DEF x
<1>4. x.node # None => x.node \in granted
  BY <1>1
<1>5. FrameInv'
  BY <1>1, <1>2, <1>3, <1>4, Refused
<1>6. d \in Dispatch
  BY DEF IsNew
<1> QED BY <1>1, <1>2, <1>3, <1>5, <1>6, Becoming DEF Calm

LEMMA CrewaiRefusesHolds ==
  ASSUME FrameInv, CrewaiInv, UNCHANGED <<adapter, registry>>, adapter = "crewai",
         NEW d \in NextCall, NEW c, IsNew(d, c), NEW n, n = None \/ n \in granted,
         NEW entry \in {"none", "deny"}, NEW k \in Dispatch,
         k = d \/ (Started(k) /\ call[k].tool = c.tool),
         \/ /\ mem.slot[k] = None
            /\ CrewaiRefuses(d, c, n, entry, CrewaiTakes(mem, d, k))
         \/ /\ mem.slot[k] # None
            /\ CrewaiRefuses(d, c, n, entry,
                 [mem EXCEPT !.key[d] = k, !.collided = @ \cup {mem.slot[k]}])
  PROVE  FrameInv' /\ CrewaiInv'
<1>1. d \in Dispatch /\ ~Started(d) /\ CrewaiDeny(d, c, n, entry)
  BY DEF IsNew, Started, CrewaiRefuses
<1>2. /\ mem' \in CrewaiMem /\ mem'.key = [mem.key EXCEPT ![d] = k]
      /\ mem'.denied = mem.denied \cup {d}
      /\ \/ /\ mem.slot[k] = None /\ mem'.slot = [mem.slot EXCEPT ![k] = d]
            /\ mem'.collided = mem.collided
         \/ /\ mem.slot[k] # None /\ mem'.slot = mem.slot
            /\ mem'.collided = mem.collided \cup {mem.slot[k]}
  <2>1. CASE /\ mem.slot[k] = None
             /\ CrewaiRefuses(d, c, n, entry, CrewaiTakes(mem, d, k))
    <3> DEFINE m == CrewaiTakes(mem, d, k)
    <3>1. /\ m \in CrewaiMem /\ m.key = [mem.key EXCEPT ![d] = k]
          /\ m.slot = [mem.slot EXCEPT ![k] = d]
          /\ m.collided = mem.collided /\ m.denied = mem.denied
      BY <1>1, CrewaiTakesObject
    <3>2. mem' = [m EXCEPT !.denied = @ \cup {d}]
      BY <2>1 DEF CrewaiRefuses
    <3> HIDE DEF m
    <3> QED BY <1>1, <2>1, <3>1, <3>2 DEF CrewaiMem
  <2>2. CASE /\ mem.slot[k] # None
             /\ CrewaiRefuses(d, c, n, entry,
                  [mem EXCEPT !.key[d] = k, !.collided = @ \cup {mem.slot[k]}])
    <3> DEFINE m == [mem EXCEPT !.key[d] = k, !.collided = @ \cup {mem.slot[k]}]
    <3>1. /\ m \in CrewaiMem /\ m.key = [mem.key EXCEPT ![d] = k] /\ m.slot = mem.slot
          /\ m.collided = mem.collided \cup {mem.slot[k]} /\ m.denied = mem.denied
      BY <1>1, <2>2 DEF CrewaiInv, CrewaiMem
    <3>2. mem' = [m EXCEPT !.denied = @ \cup {d}]
      BY <2>2 DEF CrewaiRefuses
    <3> HIDE DEF m
    <3> QED BY <1>1, <2>2, <3>1, <3>2 DEF CrewaiMem
  <2> QED BY <2>1, <2>2
<1>3. MemKeeps
  <2>1. \A e \in Dispatch : Started(e) => mem'.key[e] = mem.key[e]
    BY <1>1, <1>2 DEF CrewaiInv, CrewaiMem
  <2> QED BY <1>2, <2>1, CrewaiMemKeeps
<1>4. /\ FrameInv' /\ UNCHANGED open
      /\ call'[d].stage = "ended" /\ call'[d].body = "none" /\ call'[d].tool = c.tool
      /\ \A x \in Dispatch : x # d => call'[x] = call[x]
  BY <1>1, <1>3, CrewaiDenyKeeps
<1>5. ~Promised(d)' /\ \A x \in Dispatch : Promised(x)' => Promised(x)
  <2>1. ~Promised(d)
    BY <1>1, NewIsUnpromised DEF Started
  <2> QED BY <1>4, <2>1 DEF Promised
<1>6. CrewaiInv'
  BY <1>2, <1>4, <1>5, CrewaiTaken
<1> QED BY <1>4, <1>6

LEMMA CrewaiRuns ==
  ASSUME FrameInv, CrewaiInv, UNCHANGED adapter, adapter = "crewai",
         NEW d \in NextCall, NEW c, IsNew(d, c), NEW n, BeginsAs(d, c, n, "running"), FrameInv',
         \A x \in Dispatch : x # d => (Promised(x)' => Promised(x)),
         NEW k \in Dispatch, k = d \/ (Started(k) /\ call[k].tool = c.tool),
         mem.slot[k] = None, mem' = CrewaiTakes(mem, d, k)
  PROVE  CrewaiInv'
<1>1. /\ mem' \in CrewaiMem /\ mem'.key = [mem.key EXCEPT ![d] = k]
      /\ mem'.slot = [mem.slot EXCEPT ![k] = d]
      /\ mem'.collided = mem.collided /\ mem'.denied = mem.denied /\ d \in Dispatch
  BY CrewaiTakesObject DEF IsNew
<1>2. /\ call'[d].stage = "running" /\ call'[d].tool = c.tool /\ call'[d].body = "none"
      /\ \A x \in Dispatch : x # d => call'[x] = call[x]
  BY <1>1 DEF BeginsAs, FrameInv, CallOK, BodyToCome
<1>3. d \notin mem.denied
  BY <1>1 DEF CrewaiInv, DeniedOK, Started, IsNew
<1> QED BY <1>1, <1>2, <1>3, CrewaiTaken

LEMMA CrewaiBeforeHolds ==
  ASSUME FrameInv, CrewaiInv, UNCHANGED adapter, adapter = "crewai",
         NEW d \in NextCall, NEW c \in ByName, CrewaiBeforeToolCall(d, c)
  PROVE  FrameInv' /\ CrewaiInv'
<1> DEFINE n == registry[c.by]
<1>1. /\ IsNew(d, c) /\ d \in Dispatch /\ Strict \in BOOLEAN /\ ~Started(d)
      /\ n = None \/ (n \in granted /\ who[n] = c.by /\ n # None)
  BY ByNameNew, RegisteredNode, FrameworkAssumption DEF IsNew, Calls, Started
<1>2. PICK k \in {d} \cup {e \in Dispatch : call[e].stage # "idle" /\ call[e].tool = c.tool} :
        CrewaiCollides(d, c, k) \/ CrewaiAuthorize(d, c, k) \/ CrewaiAuthorizeDelegation(d, c, k)
  BY DEF CrewaiBeforeToolCall
<1>3. k \in Dispatch /\ (k = d \/ (Started(k) /\ call[k].tool = c.tool))
  BY <1>1, <1>2 DEF Started
<1>4. CASE CrewaiCollides(d, c, k)
  <2>1. /\ mem.slot[k] # None /\ UNCHANGED registry
        /\ CrewaiRefuses(d, c, None, "none",
             [mem EXCEPT !.key[d] = k, !.collided = @ \cup {mem.slot[k]}])
    BY <1>4 DEF CrewaiCollides
  <2> QED BY <1>1, <1>3, <2>1, CrewaiRefusesHolds
<1>5. ASSUME NEW entry \in {"none", "deny"}, UNCHANGED registry, mem.slot[k] = None,
             CrewaiRefuses(d, c, n, entry, CrewaiTakes(mem, d, k))
      PROVE  FrameInv' /\ CrewaiInv'
  <2>1. n = None \/ n \in granted
    BY <1>1
  <2> HIDE DEF n
  <2> QED BY <1>1, <1>3, <1>5, <2>1, CrewaiRefusesHolds
<1>6. mem' = CrewaiTakes(mem, d, k) => MemKeeps
  <2> DEFINE m == CrewaiTakes(mem, d, k)
  <2>1. m.key = [mem.key EXCEPT ![d] = k] /\ m.collided = mem.collided /\ m.denied = mem.denied
    BY <1>1, <1>3, CrewaiTakesObject
  <2>2. \A e \in Dispatch : Started(e) => m.key[e] = mem.key[e]
    BY <1>1, <2>1 DEF CrewaiInv, CrewaiMem
  <2> HIDE DEF m
  <2>3. ASSUME mem' = m
        PROVE  MemKeeps
    <3>1. /\ mem.collided \subseteq mem'.collided /\ mem.denied \subseteq mem'.denied
          /\ \A e \in Dispatch : Started(e) => mem'.key[e] = mem.key[e]
      BY <2>1, <2>2, <2>3
    <3> QED BY <3>1, CrewaiMemKeeps
  <2> QED BY <2>3 DEF m
<1>7. CASE CrewaiAuthorize(d, c, k)
  <2>1. mem.slot[k] = None /\ UNCHANGED registry
    BY <1>7 DEF CrewaiAuthorize
  <2>2. \/ CrewaiRefuses(d, c, n, "none", CrewaiTakes(mem, d, k))
        \/ CrewaiRefuses(d, c, n, "deny", CrewaiTakes(mem, d, k))
        \/ /\ n # None /\ c.tool = "use" /\ Clears(d, c, n, Strict, "running")
           /\ mem' = CrewaiTakes(mem, d, k)
    BY <1>7 DEF CrewaiAuthorize
  <2>3. CASE /\ n # None /\ c.tool = "use" /\ Clears(d, c, n, Strict, "running")
             /\ mem' = CrewaiTakes(mem, d, k)
    <3>1. n \in granted /\ who[n] = c.by /\ c.tool \notin Agent
      BY <1>1, <2>3, NameAssumption
    <3>2. Checks(d, c, n, Strict, "running") /\ Allow(d, n, Scope(c.tool), Strict)
      BY <2>3 DEF Checks, Clears
    <3> HIDE DEF n
    <3>3. FrameInv'
      BY <1>1, <1>6, <2>1, <2>3, <3>1, ClearsKeeps
    <3>4. BeginsAs(d, c, n, "running")
      <4>1. Becomes(d, [c EXCEPT !.stage = "running", !.node = n, !.entry = "allow"])
        BY <2>3 DEF Clears
      <4>2. c \in Calls /\ d \in Dispatch
        BY <1>1 DEF IsNew
      <4> DEFINE x == [c EXCEPT !.stage = "running", !.node = n, !.entry = "allow"]
      <4>3. x.stage = "running" /\ x.by = c.by /\ x.within = c.within /\ x.tool = c.tool /\ x.node = n
        BY <4>2 DEF Calls
      <4>4. call'[d] = x /\ \A e \in Dispatch : e # d => call'[e] = call[e]
        BY <4>1, <4>2, Becoming
      <4> HIDE DEF x
      <4> QED BY <4>3, <4>4 DEF BeginsAs
    <3>5. \A x \in Dispatch : x # d => (Promised(x)' => Promised(x))
      <4>1. open' = open \/ open' = open \cup {<<d, n>>}
        BY <3>2, Zenon DEF Allow
      <4>2. \A o \in open' : o \in open \/ o[1] = d
        BY <4>1
      <4> QED BY <4>2, OtherPromises
    <3> QED BY <1>1, <1>3, <2>1, <2>3, <3>3, <3>4, <3>5, CrewaiRuns
  <2> QED BY <1>5, <2>1, <2>2, <2>3
<1>8. CASE CrewaiAuthorizeDelegation(d, c, k)
  <2>1. mem.slot[k] = None /\ c.tool \in Agent
    BY <1>8 DEF CrewaiAuthorizeDelegation, Hands
  <2>2. \/ CrewaiRefuses(d, c, n, "none", CrewaiTakes(mem, d, k)) /\ UNCHANGED registry
        \/ /\ Register(n, c.tool)
           /\ Becomes(d, [c EXCEPT !.stage = "running", !.node = n, !.child = Fresh])
           /\ mem' = CrewaiTakes(mem, d, k)
    BY <1>8 DEF CrewaiAuthorizeDelegation
  <2>3. CASE /\ Register(n, c.tool)
             /\ Becomes(d, [c EXCEPT !.stage = "running", !.node = n, !.child = Fresh])
             /\ mem' = CrewaiTakes(mem, d, k)
    <3>1. Mints(n, c.tool)
      BY <2>3 DEF Register
    <3>2. UNCHANGED open /\ n # None
      BY <3>1, MintSteps DEF FrameInv, Mints
    <3>3. who[n] = c.by
      BY <1>1, <3>2
    <3> HIDE DEF n
    <3>4. FrameInv'
      BY <1>1, <1>6, <2>1, <2>3, <3>3, NewDelegation
    <3>5. BeginsAs(d, c, n, "running")
      BY <1>1, <2>3, Begins
    <3>6. \A x \in Dispatch : Promised(x)' => Promised(x)
      BY <3>2 DEF Promised
    <3> QED BY <1>1, <1>3, <2>1, <2>3, <3>4, <3>5, <3>6, CrewaiRuns
  <2> QED BY <1>5, <2>1, <2>2, <2>3
<1> QED BY <1>2, <1>4, <1>7, <1>8

(* The hook of a refused call answers for the one that has the object now.  *)
LEMMA HearsOtherKeeps ==
  ASSUME FrameInv, UNCHANGED <<adapter, registry>>, MemKeeps, NEW d \in Dispatch, NEW e \in Dispatch,
         e # d, call[d].stage = "ended", NEW says \in Outcomes, Promised(e), Hears(d, e, says),
         SharesWithRefused(e), ~Promised(d) \/ LeftOpen(d)
  PROVE  /\ FrameInv' /\ ~Promised(e)' /\ \A x \in Dispatch : Promised(x)' => Promised(x)
         /\ call'[d].stage = "over"
         /\ \A x \in Dispatch :
              /\ call'[x].tool = call[x].tool
              /\ x # d => call'[x].stage = call[x].stage /\ call'[x].body = call[x].body
<1>1. /\ Report(e)
      /\ call' = [x \in Dispatch |->
           IF x = e THEN [call[e] EXCEPT !.outcome = says, !.stage = IF e = d THEN "over" ELSE @]
           ELSE IF x = d THEN [call[d] EXCEPT !.stage = "over"] ELSE call[x]]
  BY DEF Hears
<1>2. /\ Grows /\ ServiceOK' /\ UNCHANGED <<granted, line, who, allowed, killed>>
      /\ open' = {o \in open : o[1] # e}
  BY <1>1, ReportSteps DEF FrameInv
<1>3. /\ ~Promised(e)' /\ \A n \in Node : <<e, n>> \notin open'
      /\ \A x : Promised(x)' => Promised(x)
      /\ \A x : x # e => (Promised(x)' <=> Promised(x))
      /\ \A x, n : <<x, n>> \in open' => <<x, n>> \in open
  BY <1>2 DEF Promised
<1>4. call[d] \in Calls /\ call[e] \in Calls
  BY DEF FrameInv
<1>5. /\ call'[d] = [call[d] EXCEPT !.stage = "over"]
      /\ call'[e] = [call[e] EXCEPT !.outcome = says, !.stage = @]
      /\ \A x \in Dispatch : x # d /\ x # e => call'[x] = call[x]
  BY <1>1
<1> DEFINE cd == call[d]
           ce == call[e]
           xd == call'[d]
           xe == call'[e]
<1>6. /\ xd \in Calls /\ xd.stage = "over" /\ xd.by = cd.by /\ xd.tool = cd.tool /\ xd.node = cd.node
      /\ xd.child = cd.child /\ xd.body = cd.body /\ xd.outcome = cd.outcome /\ xd.entry = cd.entry
  BY <1>4, <1>5 DEF Calls, Stages
<1>7. /\ xe \in Calls /\ xe.stage = ce.stage /\ xe.by = ce.by /\ xe.tool = ce.tool /\ xe.node = ce.node
      /\ xe.child = ce.child /\ xe.body = ce.body /\ xe.entry = ce.entry
  BY <1>4, <1>5 DEF Calls
<1>8. CallOK(e)'
  <2>1. CallOK(e)
    BY DEF FrameInv
  <2>2. OnOwnNode(e)' /\ Authorized(e)' /\ ChildIsDelegate(e)' /\ ChildBelowCaller(e)'
    BY <1>2, <1>7, <2>1 DEF CallOK, OnOwnNode, Authorized, ChildIsDelegate, ChildBelowCaller,
       Works, Ran, Ungated
  <2>3. PromiseKnown(e)' /\ HandsWait(e)' /\ BodyToCome(e)' /\ Settled(e)'
    BY <1>3, <1>7, <2>1 DEF CallOK, PromiseKnown, HandsWait, BodyToCome, Settled
  <2>4. OutcomeKnown(e)'
    BY DEF OutcomeKnown, MemKeeps
  <2> QED BY <2>2, <2>3, <2>4 DEF CallOK
<1>9. CallOK(d)'
  <2>1. CallOK(d)
    BY DEF FrameInv
  <2>2. OnOwnNode(d)' /\ Authorized(d)' /\ ChildIsDelegate(d)' /\ ChildBelowCaller(d)'
    BY <1>2, <1>6, <2>1 DEF CallOK, OnOwnNode, Authorized, ChildIsDelegate, ChildBelowCaller,
       Works, Ran, Ungated
  <2>3. PromiseKnown(d)' /\ HandsWait(d)' /\ BodyToCome(d)'
    BY <1>3, <1>6, <2>1 DEF CallOK, PromiseKnown, HandsWait, BodyToCome
  <2>4. OutcomeKnown(d)'
    <3>1. SharesWithRefused(d) => SharesWithRefused(d)'
      BY DEF MemKeeps
    <3> QED BY <1>6, <2>1, <3>1 DEF CallOK, OutcomeKnown
  <2>5. Settled(d)'
    <3>1. LeftOpen(d) => LeftOpen(d)'
      BY <1>6 DEF LeftOpen, RefusedAfterAllow, Hands, MemKeeps
    <3> QED BY <1>3, <3>1 DEF Settled
  <2> QED BY <2>2, <2>3, <2>4, <2>5 DEF CallOK
<1>10. ASSUME NEW x \in Dispatch
       PROVE  CallOK(x)'
  <2>1. CASE x # d /\ x # e
    BY <1>2, <1>3, <1>5, <2>1, OtherCalls
  <2> QED BY <1>8, <1>9, <2>1
<1>11. call' \in [Dispatch -> Calls]
  <2>1. \A x \in Dispatch : call'[x] \in Calls
    BY <1>5, <1>6, <1>7 DEF FrameInv
  <2>2. call' = [x \in Dispatch |-> call'[x]]
    BY <1>1
  <2> QED BY <2>1, <2>2
<1>12. FrameInv'
  BY <1>2, <1>10, <1>11, RegistryKept DEF FrameInv
<1> QED BY <1>3, <1>5, <1>6, <1>7, <1>12

LEMMA CrewaiAfterHolds ==
  ASSUME FrameInv, CrewaiInv, UNCHANGED adapter, adapter = "crewai",
         NEW d \in Dispatch, CrewaiAfterToolCall(d)
  PROVE  FrameInv' /\ CrewaiInv'
<1> DEFINE k == mem.key[d]
           e == mem.slot[k]
           blocked == d \in mem.denied \/ call[d].body = "cancelled"
           says == IF blocked THEN "abandoned" ELSE call[d].body
<1>1. call[d].stage = "ended" /\ Started(d) /\ UNCHANGED registry /\ call[d] \in Calls
  BY DEF CrewaiAfterToolCall, Started, FrameInv
<1>2. k \in Dispatch /\ None \notin Dispatch /\ e \in Dispatch \cup {None}
  BY <1>1, CrewaiKeyed, NameAssumption DEF CrewaiInv, CrewaiMem
<1>3. e # d => ~Promised(d) \/ LeftOpen(d)
  BY <1>1 DEF CrewaiInv, KeepsSlot, LeftOpen
<1>4. e # None => Started(e) /\ mem.key[e] = k /\ call[e].tool = call[d].tool
  BY <1>1, <1>2 DEF CrewaiInv, KeyOK
<1>5. ASSUME UNCHANGED mem \/ mem' = [mem EXCEPT !.slot[k] = None]
      PROVE  MemKeeps
  <2>1. mem'.collided = mem.collided /\ mem'.denied = mem.denied /\ mem'.key = mem.key
    BY <1>5 DEF CrewaiInv, CrewaiMem
  <2> QED BY <2>1, CrewaiMemKeeps
<1>6. ASSUME Forgets(d), MemKeeps, ~Promised(d) \/ LeftOpen(d)
      PROVE  /\ FrameInv' /\ UNCHANGED open /\ call'[d].stage = "over"
             /\ \A x \in Dispatch :
                  /\ call'[x].tool = call[x].tool
                  /\ x # d => call'[x] = call[x]
  <2>1. FrameInv'
    BY <1>1, <1>6, ForgetsKeeps
  <2>2. /\ call'[d] = [call[d] EXCEPT !.stage = "over"]
        /\ \A x \in Dispatch : x # d => call'[x] = call[x]
    BY <1>6, Becoming DEF Forgets
  <2>3. call'[d].stage = "over" /\ call'[d].tool = call[d].tool
    BY <1>1, <2>2 DEF Calls
  <2> QED BY <1>6, <2>1, <2>2, <2>3 DEF Forgets, serviceVars
<1>7. CASE e = None \/ (blocked /\ e \in mem.collided)
  <2>1. Forgets(d) /\ UNCHANGED mem
    BY <1>7 DEF CrewaiAfterToolCall
  <2>2. ~Promised(d) \/ LeftOpen(d)
    BY <1>2, <1>3, <1>7 DEF LeftOpen
  <2>3. MemKeeps
    BY <1>5, <2>1
  <2>4. /\ FrameInv' /\ UNCHANGED open /\ call'[d].stage = "over"
        /\ \A x \in Dispatch : call'[x].tool = call[x].tool /\ (x # d => call'[x] = call[x])
    BY <1>6, <2>1, <2>2, <2>3
  <2>5. \A x \in Dispatch : Promised(x)' => Promised(x)
    BY <2>4 DEF Promised
  <2>6. \A x \in Dispatch : /\ call'[x].tool = call[x].tool
                            /\ Started(x)' <=> Started(x)
                            /\ call'[x].stage # "over" => call[x].stage # "over"
                            /\ call'[x].stage = "ended" /\ call'[x].body = "none" =>
                                 call[x].stage = "ended" /\ call[x].body = "none"
    BY <1>1, <2>4 DEF Started
  <2> QED BY <2>1, <2>4, <2>5, <2>6, CrewaiGoesOn
<1>8. ASSUME NEW f \in Dispatch, f = e, ~(blocked /\ f \in mem.collided)
      PROVE  FrameInv' /\ CrewaiInv'
  <2>1. /\ mem' = [mem EXCEPT !.slot[k] = None] /\ MemKeeps
        /\ \/ /\ Hands(call[d]) /\ Becomes(d, [call[d] EXCEPT !.stage = "over"])
              /\ Completes(registry[call[d].tool])
           \/ Hears(d, f, says)
    BY <1>2, <1>5, <1>8 DEF CrewaiAfterToolCall
  <2>2. Started(f) /\ mem.key[f] = k /\ call[f].tool = call[d].tool
    BY <1>2, <1>4, <1>8
  <2>3. f # d => ~Promised(d) \/ LeftOpen(d)
    BY <1>3, <1>8
  <2>4. CASE Hands(call[d]) /\ Becomes(d, [call[d] EXCEPT !.stage = "over"])
             /\ Completes(registry[call[d].tool])
    <3>1. ~Promised(d) /\ ~Promised(f)
      BY <2>2, <2>4, HandsUnpromised DEF Hands, PromisesHands
    <3>2. Calm /\ Grows /\ ServiceOK'
      BY <2>4, CalmSteps DEF FrameInv
    <3> DEFINE x == [call[d] EXCEPT !.stage = "over"]
    <3>3. /\ x \in Calls /\ x.stage = "over" /\ x.by = call[d].by /\ x.tool = call[d].tool
          /\ x.node = call[d].node /\ x.child = call[d].child /\ x.body = call[d].body
          /\ x.outcome = call[d].outcome /\ x.entry = call[d].entry
      BY <1>1 DEF Calls, Stages
    <3>4. Becomes(d, x)
      BY <2>4
    <3> HIDE DEF x
    <3>5. FrameInv'
      BY <1>1, <2>1, <3>1, <3>2, <3>3, <3>4, MovesOn DEF Ran
    <3>6. call'[d] = x /\ \A y \in Dispatch : y # d => call'[y] = call[y]
      BY <3>4, Becoming
    <3>7. ~Promised(f)' /\ \A y \in Dispatch : Promised(y)' => Promised(y)
      BY <3>1, <3>2 DEF Promised, Calm
    <3>8. \A y \in Dispatch : y = mem.slot[mem.key[d]] => ~Promised(y)'
      BY <1>8, <3>7
    <3>9. /\ call'[d].stage = "over"
          /\ \A y \in Dispatch :
               /\ call'[y].tool = call[y].tool
               /\ y # d => call'[y].stage = call[y].stage /\ call'[y].body = call[y].body
      BY <3>3, <3>6
    <3>10. CrewaiInv'
      BY <1>1, <2>1, <3>7, <3>8, <3>9, CrewaiFreed
    <3> QED BY <3>5, <3>10
  <2>5. CASE Hears(d, f, says)
    <3>1. Promised(f) \/ f # d => says \in Outcomes
      <4>1. call[d].body \in Bodies /\ call[d].body # "skipped"
        BY <1>1 DEF FrameInv, CallOK, BodyToCome, Calls
      <4> QED BY <4>1 DEF Bodies, Outcomes
    <3>2. CASE ~Promised(f)
      <4>1. Forgets(d) /\ (~Promised(d) \/ LeftOpen(d))
        BY <2>3, <2>5, <3>2 DEF Hears
      <4>2. /\ FrameInv' /\ UNCHANGED open /\ call'[d].stage = "over"
            /\ \A x \in Dispatch : call'[x].tool = call[x].tool /\ (x # d => call'[x] = call[x])
        BY <1>6, <2>1, <4>1
      <4>3. ~Promised(f)' /\ \A y \in Dispatch : Promised(y)' => Promised(y)
        BY <3>2, <4>2 DEF Promised
      <4>4. \A y \in Dispatch : y = mem.slot[mem.key[d]] => ~Promised(y)'
        BY <1>8, <4>3
      <4>5. \A y \in Dispatch :
               /\ call'[y].tool = call[y].tool
               /\ y # d => call'[y].stage = call[y].stage /\ call'[y].body = call[y].body
        BY <4>2
      <4>6. CrewaiInv'
        BY <1>1, <2>1, <4>2, <4>3, <4>4, <4>5, CrewaiFreed
      <4> QED BY <4>2, <4>6
    <3>3. CASE Promised(f)
      <4> SUFFICES /\ FrameInv' /\ ~Promised(f)' /\ \A y \in Dispatch : Promised(y)' => Promised(y)
                   /\ call'[d].stage = "over"
                   /\ \A y \in Dispatch :
                        /\ call'[y].tool = call[y].tool
                        /\ y # d => call'[y].stage = call[y].stage /\ call'[y].body = call[y].body
        <5>1. ASSUME ~Promised(f)'
              PROVE  \A y \in Dispatch : y = mem.slot[mem.key[d]] => ~Promised(y)'
          BY <1>8, <5>1
        <5> QED BY <1>1, <2>1, <5>1, CrewaiFreed
      <4>1. says \in Outcomes
        BY <3>1, <3>3
      <4>2. CASE f # d
        <5>1. LosesSlot(d) /\ (blocked => f \notin mem.collided)
          BY <1>8 DEF CrewaiInv
        <5>2. \E x \in mem.denied : mem.key[x] = k /\ x < f
          BY <1>1, <1>2, <1>8, <4>2, <5>1 DEF LosesSlot
        <5>3. SharesWithRefused(f)
          BY <2>2, <5>2 DEF SharesWithRefused
        <5> HIDE DEF says, e, k
        <5> QED BY <1>1, <2>1, <2>3, <2>5, <3>3, <4>1, <4>2, <5>3, HearsOtherKeeps
      <4>3. CASE f = d
        <5>1. d \notin mem.denied /\ call[d].body # "none"
          BY <1>1, <3>3, <4>3 DEF CrewaiInv, DeniedOK
        <5>2. says = SeenOf(d)
          <6>1. call[d].body # "skipped"
            BY <1>1 DEF FrameInv, CallOK, BodyToCome
          <6> QED BY <5>1, <6>1 DEF SeenOf
        <5> HIDE DEF says, e, k
        <5>3. FrameInv'
          BY <1>1, <2>1, <2>5, <4>1, <4>3, <5>2, HearsKeeps
        <5>4. /\ Report(d)
              /\ call' = [x \in Dispatch |->
                   IF x = d THEN [call[d] EXCEPT !.outcome = says, !.stage = "over"] ELSE call[x]]
          BY <2>5, <3>3, <4>3 DEF Hears
        <5>5. open' = {o \in open : o[1] # d}
          BY <5>4 DEF Report
        <5>6. ~Promised(f)' /\ \A y \in Dispatch : Promised(y)' => Promised(y)
          BY <4>3, <5>5 DEF Promised
        <5>7. /\ call'[d] = [call[d] EXCEPT !.outcome = says, !.stage = "over"]
              /\ \A y \in Dispatch : y # d => call'[y] = call[y]
          BY <5>4
        <5>8. call'[d].stage = "over" /\ call'[d].tool = call[d].tool
          BY <1>1, <5>7 DEF Calls
        <5> QED BY <5>3, <5>6, <5>7, <5>8
      <4> QED BY <4>2, <4>3
    <3> QED BY <3>2, <3>3
  <2> QED BY <2>1, <2>4, <2>5
<1> QED BY <1>2, <1>7, <1>8

LEMMA CrewaiHolds ==
  ASSUME FrameInv, CrewaiInv, UNCHANGED adapter, adapter = "crewai", CrewaiNext
  PROVE  FrameInv' /\ CrewaiInv'
<1>1. CASE \E d \in NextCall, c \in ByName : CrewaiBeforeToolCall(d, c)
  BY <1>1, CrewaiBeforeHolds
<1>2. ASSUME NEW d \in Dispatch, CrewaiBody(d)
      PROVE  FrameInv' /\ CrewaiInv'
  <2>1. PICK how \in {"returned", "deferred", "cancelled"} :
          Becomes(d, [call[d] EXCEPT !.stage = "ended", !.body = how])
    BY <1>2 DEF CrewaiBody, BodyEnds
  <2>2. /\ call'[d] = [call[d] EXCEPT !.stage = "ended", !.body = how] /\ call[d] \in Calls
        /\ \A x \in Dispatch : x # d => call'[x] = call[x]
    BY <2>1, Becoming DEF FrameInv
  <2>3. call[d].stage = "running" /\ UNCHANGED <<serviceVars, mem>>
    BY <1>2 DEF CrewaiBody, BodyEnds, IsRunning
  <2>4. call'[d].stage = "ended" /\ call'[d].body # "none" /\ call'[d].tool = call[d].tool
    BY <2>2 DEF Calls
  <2>5. \A x \in Dispatch : Promised(x)' => Promised(x)
    BY <2>3 DEF Promised, serviceVars
  <2>6. \A x \in Dispatch : /\ call'[x].tool = call[x].tool
                            /\ Started(x)' <=> Started(x)
                            /\ call'[x].stage # "over" => call[x].stage # "over"
                            /\ call'[x].stage = "ended" /\ call'[x].body = "none" =>
                                 call[x].stage = "ended" /\ call[x].body = "none"
    BY <2>2, <2>3, <2>4 DEF Started
  <2>7. FrameInv'
    BY <1>2, BodyEndsKeeps DEF CrewaiBody
  <2> QED BY <2>3, <2>5, <2>6, <2>7, CrewaiGoesOn
<1>3. CASE \E d \in Dispatch : CrewaiAfterToolCall(d)
  BY <1>3, CrewaiAfterHolds
<1>4. ASSUME NEW a \in Staff, CrewaiRevoke(a)
      PROVE  FrameInv' /\ CrewaiInv'
  <2>1. UNCHANGED <<call, mem>> /\ RevokesNamed(a) /\ Revokes(registry[a])
    BY <1>4 DEF CrewaiRevoke, RevokesNamed
  <2>2. FrameInv'
    BY <2>1, SameMem, RevokesNamedKeeps
  <2>3. UNCHANGED open
    BY <2>1, CalmSteps DEF FrameInv, Calm
  <2>4. \A x \in Dispatch : Promised(x)' => Promised(x)
    BY <2>3 DEF Promised
  <2> QED BY <2>1, <2>2, <2>4, CrewaiGoesOn DEF Started
<1> QED BY <1>1, <1>2, <1>3, <1>4 DEF CrewaiNext

-----------------------------------------------------------------------------
(* Agents revoked by name: whatever allows a call works on the live Guard   *)
(* its caller is registered with.                                           *)
RevokedKnown ==
  /\ adapter = "openai_agents" => mem \in [revoked : SUBSET Agent]
  /\ adapter = "strands" => mem \in [revoked : SUBSET Agent, intervention : BOOLEAN]
  /\ \A a \in Agent : Revoked(a) /\ registry[a] # None => registry[a] \in killed

LiveStep ==
  /\ killed \subseteq killed'
  /\ \A t \in allowed' \ allowed : \E a \in Agent :
       t[2] = registry[a] /\ registry[a] \notin killed \cup {None}

LEMMA AllowIsLive ==
  ASSUME ServiceOK, NEW d \in Dispatch, NEW a \in Agent, registry[a] # None,
         NEW x, NEW promised \in BOOLEAN, Allow(d, registry[a], x, promised)
  PROVE  LiveStep
<1> DEFINE n == registry[a]
<1>1. n \in granted /\ UNCHANGED killed /\ allowed' = allowed \cup {<<d, n, x>>}
      /\ \A m \in line[n] : m \notin killed
  BY DEF Allow, MayAct
<1>2. n \notin killed
  BY <1>1 DEF ServiceOK
<1> QED BY <1>1, <1>2 DEF LiveStep

LEMMA CalmIsLive ==
  ASSUME ServiceOK, adapter \in Adapters, NEW d \in Dispatch, NEW n
  PROVE  /\ UNCHANGED serviceVars \/ Completes(n) \/ Revokes(n) => LiveStep
         /\ \A a : Register(n, a) => LiveStep
         /\ \A how, says : Ends(d, how, says) => LiveStep
         /\ \A e \in Dispatch : \A says : Hears(d, e, says) => LiveStep
<1>1. UNCHANGED serviceVars \/ Completes(n) \/ Revokes(n) => LiveStep
  BY CalmSteps DEF Calm, Grows, LiveStep
<1>2. \A a : Register(n, a) => LiveStep
  BY MintSteps DEF Register, LiveStep
<1>3. \A e \in Dispatch : Report(e) => LiveStep
  BY ReportSteps DEF LiveStep
<1>4. \A how, says : Ends(d, how, says) => Report(d) \/ UNCHANGED serviceVars
  BY Zenon DEF Ends
<1>5. \A e \in Dispatch : \A says : Hears(d, e, says) => Report(e) \/ UNCHANGED serviceVars
  BY Zenon DEF Hears, Forgets
<1> QED BY <1>1, <1>2, <1>3, <1>4, <1>5

LEMMA AnswerIsLive ==
  ASSUME ServiceOK, adapter \in Adapters, NEW d \in Dispatch, NEW c, NEW a \in Agent,
         NEW promised \in BOOLEAN, NEW stage
  PROVE  /\ Rejects(d, c) => LiveStep
         /\ \A n : Denies(d, c, n) => LiveStep
         /\ \A n, entry : Exempts(d, c, n, entry) => LiveStep
         /\ registry[a] # None /\ Checks(d, c, registry[a], promised, stage) => LiveStep
<1>1. UNCHANGED serviceVars => LiveStep
  BY CalmIsLive
<1>2. ASSUME registry[a] # None, Clears(d, c, registry[a], promised, stage)
      PROVE  LiveStep
  BY <1>2, AllowIsLive DEF Clears
<1> QED BY <1>1, <1>2, Zenon DEF Rejects, Denies, Exempts, Checks

(* What keeps a revoked agent so. *)
RevokedKept ==
  /\ LiveStep
  /\ \A a \in Agent : /\ Revoked(a) => registry'[a] = registry[a]
                      /\ Revoked(a)' /\ ~Revoked(a) =>
                           registry'[a] = None \/ registry'[a] \in killed'
  /\ adapter \in {"openai_agents", "strands"} => mem.revoked \subseteq mem'.revoked
  /\ adapter = "openai_agents" => mem' \in [revoked : SUBSET Agent]
  /\ adapter = "strands" => mem' \in [revoked : SUBSET Agent, intervention : BOOLEAN]

LEMMA RevokedStays ==
  ASSUME FrameInv, RevokedKnown, UNCHANGED adapter, RevokedKept
  PROVE  /\ RevokedKnown'
         /\ \A a \in Agent : Revoked(a) =>
              Revoked(a)' /\ \A t \in allowed' \ allowed : who[t[2]] # a
<1>1. ASSUME NEW a \in Agent, Revoked(a)
      PROVE  Revoked(a)' /\ \A t \in allowed' \ allowed : who[t[2]] # a
  <2>1. Revoked(a)'
    BY <1>1 DEF Revoked, RevokedKept, LiveStep
  <2>2. ASSUME NEW t \in allowed' \ allowed, who[t[2]] = a
        PROVE  FALSE
    <3>1. PICK b \in Agent : t[2] = registry[b] /\ registry[b] \notin killed \cup {None}
      BY <2>2 DEF RevokedKept, LiveStep
    <3>2. b = a
      BY <2>2, <3>1 DEF FrameInv, RegistryOK
    <3> QED BY <1>1, <3>1, <3>2 DEF RevokedKnown
  <2> QED BY <2>1, <2>2
<1>2. ASSUME NEW a \in Agent, Revoked(a)', registry'[a] # None
      PROVE  registry'[a] \in killed'
  <2>1. CASE Revoked(a)
    BY <1>2, <2>1 DEF RevokedKnown, RevokedKept, LiveStep
  <2>2. CASE ~Revoked(a)
    BY <1>2, <2>2 DEF RevokedKept
  <2> QED BY <2>1, <2>2
<1>3. RevokedKnown'
  BY <1>2 DEF RevokedKept, RevokedKnown
<1> QED BY <1>1, <1>3

(* Nobody is revoked, or given a Guard. *)
LEMMA RevokedUntouched ==
  ASSUME RevokedKnown, LiveStep, UNCHANGED <<adapter, registry, mem>>
  PROVE  RevokedKept
BY DEF RevokedKnown, RevokedKept, Revoked

(* One that is not revoked is given a Guard. *)
LEMMA RevokedUnregistered ==
  ASSUME FrameInv, RevokedKnown, adapter \in {"openai_agents", "strands"},
         NEW p, NEW a, a \notin mem.revoked, Register(p, a), UNCHANGED <<adapter, mem>>
  PROVE  RevokedKept
<1>1. LiveStep
  BY MintSteps DEF FrameInv, Register, LiveStep
<1>2. registry' = [registry EXCEPT ![a] = Fresh] /\ registry \in [Agent -> Node \cup {None}]
  BY DEF Register, FrameInv, RegistryOK
<1>3. \A b \in Agent : Revoked(b) => registry'[b] = registry[b]
  BY <1>2 DEF Revoked
<1>4. \A b \in Agent : Revoked(b)' => Revoked(b)
  BY DEF Revoked
<1> QED BY <1>1, <1>3, <1>4 DEF RevokedKnown, RevokedKept

LEMMA RevokesKill ==
  ASSUME ServiceOK, NEW n \in granted, Revokes(n)
  PROVE  n \in killed'
<1>1. n \in Below(n)
  BY DEF ServiceOK, Below
<1> QED BY <1>1 DEF Revokes, Kill, serviceVars

LEMMA OpenaiRevokedStays ==
  ASSUME FrameInv, RevokedKnown, UNCHANGED adapter, adapter = "openai_agents", OpenaiNext
  PROVE  RevokedKept
<1>0. ServiceOK /\ adapter \in Adapters /\ FALSE \in BOOLEAN /\ Strict \in BOOLEAN
  BY FrameworkAssumption DEF FrameInv
<1>1. ASSUME NEW d \in NextCall, NEW c \in ByName,
             OpenaiInvoke(d, c) \/ OpenaiAuthorizeV1(d, c) \/ OpenaiAgentTool(d, c)
      PROVE  RevokedKept
  <2>1. d \in Dispatch /\ c.by \in Agent /\ UNCHANGED <<registry, mem>>
    BY <1>1, ByNameNew DEF OpenaiInvoke, OpenaiAuthorizeV1, OpenaiAgentTool, KeepsMem, IsNew, Calls
  <2> DEFINE a == c.by
  <2>2. \/ Rejects(d, c)
        \/ \E n : Denies(d, c, n)
        \/ registry[a] # None /\ \E promised \in BOOLEAN : \E stage :
             Checks(d, c, registry[a], promised, stage)
        \/ UNCHANGED serviceVars
    BY <1>0, <1>1, Zenon DEF OpenaiInvoke, OpenaiAuthorizeV1, OpenaiAgentTool
  <2>3. a \in Agent
    BY <2>1
  <2> HIDE DEF a
  <2>4. LiveStep
    BY <1>0, <2>1, <2>2, <2>3, AnswerIsLive, CalmIsLive
  <2> QED BY <2>1, <2>4, RevokedUntouched
<1>2. ASSUME NEW d \in Dispatch, OpenaiStartAgent(d)
      PROVE  RevokedKept
  <2>1. CASE OpenaiDelegate(call[d].by, call[d].tool)
    BY <2>1, RevokedUnregistered DEF OpenaiDelegate, KeepsMem
  <2>2. CASE UNCHANGED <<serviceVars, registry, mem>>
    BY <1>0, <2>2, CalmIsLive, RevokedUntouched
  <2> QED BY <1>2, <2>1, <2>2 DEF OpenaiStartAgent, Rejects
<1>3. ASSUME NEW d \in Dispatch, OpenaiBody(d) \/ OpenaiGuardrailRefuses(d)
      PROVE  RevokedKept
  <2>1. (\E how, says : Ends(d, how, says)) /\ UNCHANGED <<registry, mem>>
    BY <1>3 DEF OpenaiBody, OpenaiGuardrailRefuses, Wrapped, KeepsMem
  <2> QED BY <1>0, <2>1, CalmIsLive, RevokedUntouched
<1>4. CASE \E p, a \in Staff : OpenaiHandoff(p, a)
  BY <1>4, RevokedUnregistered DEF OpenaiHandoff, OpenaiDelegate, KeepsMem
<1>5. ASSUME NEW a \in Staff, OpenaiRevoke(a)
      PROVE  RevokedKept
  <2>1. a \in Agent /\ mem \in [revoked : SUBSET Agent] /\ registry \in [Agent -> Node \cup {None}]
    BY FrameworkAssumption DEF Staff, FrameInv, RegistryOK, RevokedKnown
  <2>2. mem' = [mem EXCEPT !.revoked = @ \cup {a}] /\ UNCHANGED registry
    BY <1>5 DEF OpenaiRevoke
  <2>3. mem' \in [revoked : SUBSET Agent] /\ mem'.revoked = mem.revoked \cup {a}
    BY <2>1, <2>2
  <2>4. UNCHANGED serviceVars \/ Revokes(registry[a])
    BY <1>5, Zenon DEF OpenaiRevoke
  <2>5. LiveStep
    BY <1>0, <2>4, CalmSteps DEF Calm, Grows, LiveStep
  <2>6. registry[a] = None \/ registry[a] \in killed'
    <3>1. CASE registry[a] # None
      <4>1. Revokes(registry[a])
        BY <1>5, <3>1, Zenon DEF OpenaiRevoke
      <4>2. registry[a] \in granted
        BY <2>1, <3>1, RegisteredNode
      <4> QED BY <1>0, <4>1, <4>2, RevokesKill
    <3> QED BY <3>1
  <2> QED BY <2>2, <2>3, <2>5, <2>6 DEF RevokedKept, Revoked
<1> QED BY <1>1, <1>2, <1>3, <1>4, <1>5 DEF OpenaiNext

LEMMA StrandsRevokedStays ==
  ASSUME FrameInv, RevokedKnown, UNCHANGED adapter, adapter = "strands", StrandsNext
  PROVE  RevokedKept
<1>0. ServiceOK /\ adapter \in Adapters /\ Strict \in BOOLEAN
  BY FrameworkAssumption DEF FrameInv
<1>1. ASSUME NEW d \in NextCall, NEW c \in ByName, StrandsEvaluate(d, c)
      PROVE  RevokedKept
  <2>1. d \in Dispatch /\ c.by \in Agent /\ UNCHANGED <<registry, mem>>
    BY <1>1, ByNameNew DEF StrandsEvaluate, IsNew, Calls
  <2> DEFINE a == c.by
  <2>2. \/ Rejects(d, c)
        \/ \E n, entry : Exempts(d, c, n, entry)
        \/ registry[a] # None /\ \E promised \in BOOLEAN : \E stage :
             Checks(d, c, registry[a], promised, stage)
        \/ UNCHANGED serviceVars
    <3>1. c.tool \in Tools
      BY <1>1, ByNameNew DEF IsNew, Calls
    <3>2. CASE registry[a] = None
      BY <1>1, <3>2 DEF StrandsEvaluate
    <3>3. CASE registry[a] # None /\ c.tool = "unlisted"
      BY <1>1, <3>3, NameAssumption DEF StrandsEvaluate
    <3>4. CASE registry[a] # None /\ c.tool = "broken"
      BY <1>1, <3>4, NameAssumption DEF StrandsEvaluate
    <3>5. CASE registry[a] # None /\ c.tool \notin {"unlisted", "broken"}
      <4>1. (\E stage : Checks(d, c, registry[a], Strict, stage)) \/ UNCHANGED serviceVars
        BY <1>1, <3>1, <3>5, NameAssumption DEF StrandsEvaluate, Tools
      <4> QED BY <1>0, <3>5, <4>1, Zenon
    <3> QED BY <3>2, <3>3, <3>4, <3>5
  <2>3. a \in Agent
    BY <2>1
  <2> HIDE DEF a
  <2>4. LiveStep
    BY <1>0, <2>1, <2>2, <2>3, AnswerIsLive, CalmIsLive
  <2> QED BY <2>1, <2>4, RevokedUntouched
<1>2. ASSUME NEW d \in Dispatch, StrandsMint(d)
      PROVE  RevokedKept
  <2>1. CASE StrandsMayMint(call[d].tool) /\ Register(call[d].node, call[d].tool)
    BY <1>2, <2>1, RevokedUnregistered DEF StrandsMint, StrandsMayMint
  <2>2. CASE UNCHANGED <<serviceVars, registry>>
    BY <1>0, <1>2, <2>2, CalmIsLive, RevokedUntouched DEF StrandsMint
  <2> QED BY <1>2, <2>1, <2>2 DEF StrandsMint
<1>3. ASSUME NEW d \in Dispatch,
             StrandsBody(d) \/ StrandsAfterToolCall(d) \/ StrandsAsIntervention(d)
      PROVE  RevokedKept
  <2>1. UNCHANGED serviceVars \/ \E says : Hears(d, d, says)
    BY <1>3 DEF StrandsBody, BodyEnds, StrandsAfterToolCall, StrandsAsIntervention, Forgets
  <2>2. UNCHANGED <<registry, mem>>
    BY <1>3 DEF StrandsBody, BodyEnds, StrandsAfterToolCall, StrandsAsIntervention
  <2> QED BY <1>0, <2>1, <2>2, CalmIsLive, RevokedUntouched
<1>4. CASE \E p, a \in Staff : StrandsBeforeNodeCall(p, a)
  BY <1>4, RevokedUnregistered DEF StrandsBeforeNodeCall, StrandsMayMint
<1>5. ASSUME NEW a \in Staff, StrandsRevoke(a)
      PROVE  RevokedKept
  <2>1. a \in Agent /\ mem \in [revoked : SUBSET Agent, intervention : BOOLEAN]
    BY FrameworkAssumption DEF Staff, FrameInv, RevokedKnown
  <2>2. /\ mem' = [mem EXCEPT !.revoked = @ \cup {a}] /\ UNCHANGED registry
        /\ Revokes(registry[a]) /\ registry[a] # None
    BY <1>5 DEF StrandsRevoke
  <2>3. /\ mem' \in [revoked : SUBSET Agent, intervention : BOOLEAN]
        /\ mem'.revoked = mem.revoked \cup {a}
    BY <2>1, <2>2
  <2>4. LiveStep
    BY <1>0, <2>2, CalmSteps DEF Calm, Grows, LiveStep
  <2>5. registry[a] \in killed'
    BY <1>0, <2>1, <2>2, RegisteredNode, RevokesKill
  <2> QED BY <2>2, <2>3, <2>4, <2>5 DEF RevokedKept, Revoked
<1> QED BY <1>1, <1>2, <1>3, <1>4, <1>5 DEF StrandsNext

(* google_adk gives a Guard only to an agent whose own is not revoked. *)
LEMMA AdkRegisters ==
  ASSUME FrameInv, RevokedKnown, UNCHANGED adapter, adapter = "google_adk",
         NEW p, NEW a, registry[a] \notin killed, Register(p, a)
  PROVE  RevokedKept
<1>1. LiveStep /\ UNCHANGED killed
  BY MintSteps DEF FrameInv, Register, LiveStep
<1>2. registry' = [registry EXCEPT ![a] = Fresh] /\ registry \in [Agent -> Node \cup {None}]
  BY DEF Register, FrameInv, RegistryOK
<1>3. \A b \in Agent : Revoked(b) => registry'[b] = registry[b]
  BY <1>2 DEF Revoked
<1> QED BY <1>1, <1>3 DEF RevokedKept, Revoked

LEMMA AdkRevokedStays ==
  ASSUME FrameInv, RevokedKnown, UNCHANGED adapter, adapter = "google_adk", AdkNext
  PROVE  RevokedKept
<1>0. ServiceOK /\ adapter \in Adapters /\ Strict \in BOOLEAN /\ None \notin killed
      /\ Root \in granted
  BY FrameworkAssumption, NameAssumption DEF FrameInv, ServiceOK
<1> DEFINE Kept == LiveStep /\ UNCHANGED registry
<1>1. ASSUME Kept PROVE RevokedKept
  BY <1>1 DEF RevokedKept, Revoked, LiveStep
<1>2. ASSUME NEW d \in NextCall, NEW c \in ByName, AdkBeforeTool(d, c)
      PROVE  RevokedKept
  <2> DEFINE a == c.by
  <2>1. d \in Dispatch /\ a \in Agent /\ c.tool \in Tools /\ UNCHANGED registry /\ registry[a] # None
    BY <1>2, ByNameNew DEF AdkBeforeTool, AdkIsReady, IsNew, Calls
  <2>2. \/ Completes(registry[a])
        \/ \E n, entry : Exempts(d, c, n, entry)
        \/ \E n : Denies(d, c, n)
        \/ \E stage : Checks(d, c, registry[a], Strict, stage)
    <3>1. CASE Hands(c)
      BY <1>2, <3>1 DEF AdkBeforeTool, AdkHandsBack, AdkDelegates
    <3>2. CASE c.tool = "unlisted" /\ ~Hands(c)
      BY <1>2, <3>2 DEF AdkBeforeTool
    <3>3. CASE c.tool = "broken" /\ ~Hands(c)
      BY <1>2, <3>3 DEF AdkBeforeTool
    <3>4. CASE c.tool = "use" /\ ~Hands(c)
      BY <1>2, <3>4 DEF AdkBeforeTool
    <3> QED BY <2>1, <3>1, <3>2, <3>3, <3>4 DEF Hands, Tools
  <2> HIDE DEF a
  <2>3. LiveStep
    BY <1>0, <2>1, <2>2, AnswerIsLive, CalmIsLive
  <2> QED BY <1>1, <2>1, <2>3
<1>3. ASSUME NEW d \in Dispatch,
             AdkBody(d) \/ AdkAfterTool(d) \/ AdkOnToolError(d) \/ AdkCancelled(d)
      PROVE  RevokedKept
  <2>1. UNCHANGED serviceVars \/ \E says : Hears(d, d, says)
    BY <1>3 DEF AdkBody, BodyEnds, AdkAfterTool, AdkOnToolError, AdkCancelled, Forgets
  <2>2. UNCHANGED registry
    BY <1>3 DEF AdkBody, BodyEnds, AdkAfterTool, AdkOnToolError, AdkCancelled
  <2> QED BY <1>0, <1>1, <2>1, <2>2, CalmIsLive
<1>4. ASSUME NEW a \in Staff, AdkEnsureGuard(a)
      PROVE  RevokedKept
  <2>1. CASE UNCHANGED <<serviceVars, registry>>
    <3>1. LiveStep
      BY <2>1 DEF serviceVars, LiveStep
    <3> QED BY <1>1, <2>1, <3>1
  <2>2. CASE \E p : Register(p, a)
    BY <1>0, <1>4, <2>2, AdkRegisters DEF AdkEnsureGuard
  <2> QED BY <1>4, <2>1, <2>2 DEF AdkEnsureGuard
<1>5. CASE \E a \in Staff : AdkRespawn(a)
  BY <1>5, AdkRegisters DEF AdkRespawn, AdkIsStale
<1>6. ASSUME NEW a \in Staff, AdkBeforeAgent(a) \/ AdkAfterAgent(a) \/ AdkRevoke(a)
      PROVE  RevokedKept
  <2>1. \/ UNCHANGED serviceVars \/ Completes(registry[a]) \/ Revokes(registry[a])
    BY <1>6 DEF AdkBeforeAgent, AdkAfterAgent, AdkRevoke, RevokesNamed
  <2>2. UNCHANGED registry
    BY <1>6 DEF AdkBeforeAgent, AdkAfterAgent, AdkRevoke, RevokesNamed
  <2>3. LiveStep
    BY <1>0, <2>1, CalmSteps DEF Calm, Grows, LiveStep
  <2> QED BY <1>1, <2>2, <2>3
<1> QED BY <1>2, <1>3, <1>4, <1>5, <1>6 DEF AdkNext

-----------------------------------------------------------------------------
(* Where the sub-agent runs inside the delegation: a child is of one call,  *)
(* only the calls made within that one work on it, and they end before it.  *)
Inside == adapter \in {"langchain", "astrbot", "openhands"}

BoundOnes == IF adapter = "openhands" THEN {mem.bound[a] : a \in Agent} ELSE {}

ChildApart(d) ==
  LET n == call[d].child IN
  n # None =>
    /\ n # Root /\ n \notin BoundOnes
    /\ \A e \in Dispatch : /\ e # d => call[e].child # n
                           /\ call[e].within = None => call[e].node # n

RunsWithin(e) ==
  LET w == call[e].within IN
  /\ call[e].stage = "idle" => w = None /\ call[e].child = None
  /\ w # None =>
       /\ call[w].child # None
       /\ call[e].node \in {None, call[w].child}
       /\ call[e].stage # "over" => call[w].stage = "running"

LeftClosed(d) ==
  call[d].stage = "over" /\ call[d].child # None =>
    call[d].child \in finished \/ OpenOn(call[d].child) # {}

FamilyInv == \A d \in Dispatch : ChildApart(d) /\ RunsWithin(d) /\ LeftClosed(d)

LEMMA FamilyKnown ==
  ASSUME FrameInv, NEW d \in Dispatch
  PROVE  /\ call[d].child # None => call[d].child \in granted
         /\ call[d].node # None => call[d].node \in granted
         /\ call[d].within \in Dispatch \cup {None}
         /\ \A n \in Node : <<d, n>> \in open => call[d].node = n
BY DEF FrameInv, CallOK, ChildIsDelegate, OnOwnNode, PromiseKnown, Calls

(* The node is left closed while nothing of it is reported. *)
LEMMA StaysClosed ==
  ASSUME FrameInv, Grows, NEW d \in Dispatch, LeftClosed(d),
         call[d].stage = "over" /\ call[d].child # None =>
           \A e \in Dispatch : <<e, call[d].child>> \in open => <<e, call[d].child>> \in open',
         call'[d].stage = call[d].stage, call'[d].child = call[d].child
  PROVE  LeftClosed(d)'
BY DEF LeftClosed, OpenOn, Grows

LEMMA FamilyStill ==
  ASSUME FrameInv, FamilyInv, Grows, UNCHANGED <<call, open>>,
         \A x \in BoundOnes' : x \in BoundOnes \/ x \notin granted
  PROVE  FamilyInv'
<1>1. ASSUME NEW d \in Dispatch
      PROVE  ChildApart(d)' /\ RunsWithin(d)' /\ LeftClosed(d)'
  <2>1. ChildApart(d) /\ RunsWithin(d) /\ LeftClosed(d)
    BY DEF FamilyInv
  <2>2. ChildApart(d)'
    BY <2>1, FamilyKnown DEF ChildApart
  <2>3. RunsWithin(d)'
    BY <2>1 DEF RunsWithin
  <2>4. LeftClosed(d)'
    BY <2>1, StaysClosed
  <2> QED BY <2>2, <2>3, <2>4
<1> QED BY <1>1 DEF FamilyInv

(* A new call works on the Guard in force, and its child is a new node. *)
LEMMA FamilyBegins ==
  ASSUME FrameInv, FamilyInv, Grows, BoundOnes \subseteq granted \cup {None},
         BoundOnes' = BoundOnes, open \subseteq open',
         NEW d, NEW c, IsNew(d, c), NEW n \in granted, NEW m \in {n, None},
         NEW stage \in {"running", "over"}, BeginsAs(d, c, m, stage),
         c.within = None => n \in BoundOnes \cup {Root},
         c.within # None =>
           c.within \in Dispatch /\ IsRunning(c.within) /\ call[c.within].child = n,
         \/ call'[d].child = None
         \/ call'[d].child \notin granted /\ stage = "running"
  PROVE  FamilyInv'
<1>1. /\ d \in Dispatch /\ call[d].stage = "idle" /\ None \notin granted /\ Root \in granted
      /\ call'[d].stage = stage /\ call'[d].within = c.within /\ call'[d].node = m
      /\ \A e \in Dispatch : e # d => call'[e] = call[e]
  BY NameAssumption DEF IsNew, BeginsAs, FrameInv, ServiceOK
<1>2. call[d].child = None /\ (c.within # None => c.within # d)
  BY <1>1 DEF FamilyInv, RunsWithin, IsRunning
<1>3. \A e \in Dispatch : /\ call[e].child # None => call[e].child \in granted
                          /\ call[e].node # None => call[e].node \in granted
                          /\ call[e].within \in Dispatch \cup {None}
  BY FamilyKnown
<1>4. ASSUME NEW e \in Dispatch
      PROVE  ChildApart(e)' /\ RunsWithin(e)' /\ LeftClosed(e)'
  <2>1. ChildApart(e) /\ RunsWithin(e) /\ LeftClosed(e)
    BY DEF FamilyInv
  <2>2. CASE e = d
    <3>1. ChildApart(e)'
      <4>1. CASE call'[d].child = None
        BY <2>2, <4>1 DEF ChildApart
      <4>2. CASE call'[d].child \notin granted \cup {None}
        BY <1>1, <1>3, <2>2, <4>2 DEF ChildApart
      <4> QED BY <4>1, <4>2
    <3>2. RunsWithin(e)'
      BY <1>1, <1>2, <2>2 DEF RunsWithin, IsRunning
    <3>3. LeftClosed(e)'
      BY <1>1, <2>2 DEF LeftClosed
    <3> QED BY <3>1, <3>2, <3>3
  <2>3. CASE e # d
    <3>1. call'[e] = call[e]
      BY <1>1, <2>3
    <3>2. ChildApart(e)'
      BY <1>1, <1>3, <2>1, <3>1 DEF ChildApart
    <3>3. RunsWithin(e)'
      <4>1. call[e].within # None => call'[call[e].within] = call[call[e].within]
        BY <1>1, <1>2, <1>3, <2>1 DEF RunsWithin
      <4> QED BY <2>1, <3>1, <4>1 DEF RunsWithin
    <3>4. LeftClosed(e)'
      BY <2>1, <3>1, StaysClosed
    <3> QED BY <3>2, <3>3, <3>4
  <2> QED BY <2>2, <2>3
<1> QED BY <1>4 DEF FamilyInv

(* A call that still runs works on no node whose run is over. *)
LEMMA FamilyEnds ==
  ASSUME FrameInv, FamilyInv, Grows, BoundOnes' = BoundOnes,
         NEW d \in Dispatch, IsRunning(d), GoesOn(d, "over"), call'[d].child = call[d].child,
         \A e \in Dispatch : call[e].within = d => call[e].stage = "over",
         \A o \in open : o \in open' \/ o[1] = d,
         LeftClosed(d)'
  PROVE  FamilyInv'
<1>1. /\ call'[d].stage = "over" /\ call[d].stage = "running"
      /\ \A e \in Dispatch : e # d => call'[e] = call[e]
      /\ \A e \in Dispatch : /\ call'[e].within = call[e].within /\ call'[e].node = call[e].node
                             /\ call'[e].child = call[e].child
  BY DEF GoesOn, IsRunning
<1>2. ASSUME NEW e \in Dispatch
      PROVE  ChildApart(e)' /\ RunsWithin(e)' /\ LeftClosed(e)'
  <2>1. ChildApart(e) /\ RunsWithin(e) /\ LeftClosed(e) /\ call[e].within \in Dispatch \cup {None}
    BY FamilyKnown DEF FamilyInv
  <2>2. ChildApart(e)'
    BY <1>1, <2>1 DEF ChildApart
  <2>3. RunsWithin(e)'
    <3>1. CASE call[e].within = None
      BY <1>1, <2>1, <3>1 DEF RunsWithin
    <3>2. CASE call[e].within # None
      BY <1>1, <2>1, <3>2 DEF RunsWithin
    <3> QED BY <3>1, <3>2
  <2>4. LeftClosed(e)'
    <3>1. CASE e = d
      BY <3>1
    <3>2. CASE e # d
      <4>1. ASSUME call[e].stage = "over", call[e].child # None, <<d, call[e].child>> \in open
            PROVE  FALSE
        <5>1. call[d].node = call[e].child
          BY <4>1, FamilyKnown DEF FrameInv, ServiceOK
        <5>2. RunsWithin(d) /\ call[d].within \in Dispatch \cup {None}
          BY FamilyKnown DEF FamilyInv
        <5>3. call[d].within # None
          BY <2>1, <4>1, <5>1 DEF ChildApart
        <5>4. /\ call[call[d].within].child = call[e].child
              /\ call[call[d].within].stage = "running"
          BY <1>1, <4>1, <5>1, <5>2, <5>3 DEF RunsWithin
        <5>5. call[d].within = e
          BY <2>1, <4>1, <5>2, <5>3, <5>4 DEF ChildApart
        <5> QED BY <4>1, <5>4, <5>5
      <4>2. call[e].stage = "over" /\ call[e].child # None =>
              \A x \in Dispatch : <<x, call[e].child>> \in open => <<x, call[e].child>> \in open'
        BY <4>1
      <4> QED BY <1>1, <2>1, <3>2, <4>2, StaysClosed
    <3> QED BY <3>1, <3>2
  <2> QED BY <2>2, <2>3, <2>4
<1> QED BY <1>2 DEF FamilyInv

(* The body of a tool ends, and its outcome is reported or not. *)
LEMMA FamilyToolEnds ==
  ASSUME FrameInv, FamilyInv, UNCHANGED adapter, BoundOnes' = BoundOnes,
         NEW d \in Dispatch, Uses(call[d]), NEW how, NEW says,
         Ends(d, how, says) \/ (Closes(d, how, says) /\ Report(d))
  PROVE  FamilyInv'
<1>1. /\ IsRunning(d) /\ GoesOn(d, "over") /\ call'[d].child = call[d].child
      /\ \A e \in Dispatch : call[e].within = d => call[e].stage = "over"
      /\ Report(d) \/ UNCHANGED serviceVars
  <2>0. \A s : Closes(d, how, s) =>
          IsRunning(d) /\ \A e \in Dispatch : call[e].within = d => call[e].stage = "over"
    BY DEF Closes
  <2>1. CASE Ends(d, how, says)
    <3>1. \E s : Closes(d, how, s)
      BY <2>1, Zenon DEF Ends
    <3> QED BY <2>0, <2>1, <3>1, EndsAs
  <2>2. CASE Closes(d, how, says) /\ Report(d)
    BY <2>0, <2>2, EndsAs
  <2> QED BY <2>1, <2>2
<1>2. Grows /\ \A o \in open : o \in open' \/ o[1] = d
  BY <1>1, CalmSteps, ReportSteps DEF FrameInv, Calm
<1>3. call[d].child = None
  BY DEF FrameInv, CallOK, ChildIsDelegate, Uses
<1>4. LeftClosed(d)'
  BY <1>1, <1>3 DEF LeftClosed
<1> QED BY <1>1, <1>2, <1>4, FamilyEnds

(* The run of a delegation ends, and its node is completed if it may be. *)
LEMMA FamilyRunEnds ==
  ASSUME FrameInv, FamilyInv, UNCHANGED adapter, BoundOnes' = BoundOnes,
         NEW d \in Dispatch, NEW how, EndsRun(d, how)
  PROVE  FamilyInv'
<1>1. Closes(d, how, "none") /\ Completes(call[d].child)
  BY DEF EndsRun
<1>2. /\ IsRunning(d) /\ GoesOn(d, "over") /\ call'[d].child = call[d].child
      /\ \A e \in Dispatch : call[e].within = d => call[e].stage = "over"
  <2>1. IsRunning(d) /\ \A e \in Dispatch : call[e].within = d => call[e].stage = "over"
    BY <1>1 DEF Closes
  <2> QED BY <1>1, <2>1, EndsAs
<1>3. Grows /\ UNCHANGED open
  BY <1>1, CalmSteps DEF FrameInv, Calm
<1>4. call[d].child \in finished' \/ OpenOn(call[d].child) # {}
  BY <1>1 DEF Completes, Finish, MayFinish
<1>5. LeftClosed(d)'
  BY <1>2, <1>3, <1>4 DEF LeftClosed, OpenOn
<1> QED BY <1>2, <1>3, <1>5, FamilyEnds

(* What the gate of one of these says of a new call. *)
LEMMA FamilyGate ==
  ASSUME FrameInv, FamilyInv, BoundOnes \subseteq granted \cup {None}, BoundOnes' = BoundOnes,
         NEW d, NEW c, IsNew(d, c), NEW n \in granted,
         c.within = None => n \in BoundOnes \cup {Root},
         c.within # None =>
           c.within \in Dispatch /\ IsRunning(c.within) /\ call[c.within].child = n,
         \/ Rejects(d, c)
         \/ Denies(d, c, n)
         \/ \E m \in {n, None} : \E entry : Exempts(d, c, m, entry)
         \/ Checks(d, c, n, Strict, "running")
         \/ /\ Register(n, c.tool)
            /\ Becomes(d, [c EXCEPT !.stage = "running", !.node = n, !.child = Fresh])
  PROVE  FamilyInv'
<1>0. d \in Dispatch /\ Strict \in BOOLEAN /\ ServiceOK /\ adapter \in Adapters
  BY FrameworkAssumption DEF IsNew, FrameInv
<1>1. CASE Rejects(d, c) \/ Denies(d, c, n) \/ \E m \in {n, None} : \E entry : Exempts(d, c, m, entry)
  <2>1. UNCHANGED serviceVars
    BY <1>1, Zenon DEF Rejects, Denies, Exempts
  <2>2. Grows /\ open \subseteq open'
    BY <1>0, <2>1, CalmSteps DEF Calm
  <2>3. PICK m \in {n, None}, stage \in {"running", "over"} :
          BeginsAs(d, c, m, stage) /\ call'[d].child = None
    BY <1>1, Begins, Zenon
  <2> QED BY <2>2, <2>3, FamilyBegins
<1>2. CASE Checks(d, c, n, Strict, "running")
  <2>1. Grows
    BY <1>0, <1>2, MovesGrow
  <2>2. open \subseteq open'
    <3>1. Denies(d, c, n) => open \subseteq open'
      BY DEF Denies, serviceVars
    <3>2. Clears(d, c, n, Strict, "running") => open' = open \/ open' = open \cup {<<d, n>>}
      BY <1>0, Zenon DEF Clears, Allow
    <3> QED BY <1>2, <3>1, <3>2 DEF Checks
  <2>3. PICK stage \in {"running", "over"} : BeginsAs(d, c, n, stage) /\ call'[d].child = None
    BY <1>2, Begins, Zenon
  <2> QED BY <2>1, <2>2, <2>3, FamilyBegins
<1>3. CASE /\ Register(n, c.tool)
           /\ Becomes(d, [c EXCEPT !.stage = "running", !.node = n, !.child = Fresh])
  <2> DEFINE f == Fresh
  <2>1. Grows /\ UNCHANGED open /\ f \notin granted
    BY <1>0, <1>3, MintSteps DEF Register
  <2>2. Becomes(d, [c EXCEPT !.stage = "running", !.node = n, !.child = f])
    BY <1>3
  <2> HIDE DEF f
  <2>3. BeginsAs(d, c, n, "running") /\ call'[d].child = f
    BY <2>2, Begins, Zenon
  <2> QED BY <2>1, <2>3, FamilyBegins
<1> QED BY <1>1, <1>2, <1>3

LEMMA FamilyNested ==
  ASSUME FrameInv, adapter \in {"langchain", "astrbot"}, UNCHANGED adapter,
         NEW d \in NextCall, NEW c \in Nested
  PROVE  /\ BoundOnes = {} /\ BoundOnes' = {}
         /\ IsNew(d, c) /\ InForce(c) \in granted
         /\ c.within = None => InForce(c) = Root
         /\ c.within # None =>
              c.within \in Dispatch /\ IsRunning(c.within) /\ call[c.within].child = InForce(c)
<1>1. adapter # "agno" /\ BoundOnes = {} /\ BoundOnes' = {}
  BY DEF BoundOnes
<1> QED BY <1>1, NestedNew DEF InForce

LEMMA LangchainFamily ==
  ASSUME FrameInv, FamilyInv, UNCHANGED adapter, adapter = "langchain", LangchainNext, KeepsMem
  PROVE  FamilyInv'
<1>0. BoundOnes = {} /\ BoundOnes' = {}
  BY DEF BoundOnes
<1>1. ASSUME NEW d \in NextCall, NEW c \in Nested,
             LangchainGate(d, c) \/ LangchainGateDelegation(d, c)
      PROVE  FamilyInv'
  <2> DEFINE n == InForce(c)
  <2>1. /\ IsNew(d, c) /\ n \in granted /\ c.tool \in Tools
        /\ c.within = None => n = Root
        /\ c.within # None =>
             c.within \in Dispatch /\ IsRunning(c.within) /\ call[c.within].child = n
    BY FamilyNested DEF IsNew, Calls
  <2>2. \/ Rejects(d, c) \/ Denies(d, c, n) \/ Exempts(d, c, n, "pass")
        \/ Checks(d, c, n, Strict, "running")
        \/ /\ Register(n, c.tool)
           /\ Becomes(d, [c EXCEPT !.stage = "running", !.node = n, !.child = Fresh])
    <3>1. CASE LangchainGateDelegation(d, c)
      BY <3>1 DEF LangchainGateDelegation
    <3>2. CASE LangchainGate(d, c) /\ c.tool = "unlisted"
      BY <3>2 DEF LangchainGate
    <3>3. CASE LangchainGate(d, c) /\ c.tool = "broken"
      BY <3>3 DEF LangchainGate
    <3>4. CASE LangchainGate(d, c) /\ c.tool = "use"
      BY <3>4 DEF LangchainGate
    <3> QED BY <1>1, <2>1, <3>1, <3>2, <3>3, <3>4 DEF LangchainGate, Uses, Tools
  <2> HIDE DEF n
  <2>3. BoundOnes \subseteq granted \cup {None} /\ BoundOnes' = BoundOnes
    BY <1>0
  <2>4. c.within = None => n \in BoundOnes \cup {Root}
    BY <2>1
  <2> QED BY <2>1, <2>2, <2>3, <2>4, FamilyGate, Zenon
<1>2. ASSUME NEW d \in Dispatch, LangchainRunSync(d) \/ LangchainRunAsync(d)
      PROVE  FamilyInv'
  <2>1. Uses(call[d]) /\ \E how : Ends(d, how, Says(how))
    BY <1>2 DEF LangchainRunSync, LangchainRunAsync, Wrapped
  <2> QED BY <1>0, <2>1, FamilyToolEnds
<1>3. ASSUME NEW d \in Dispatch, LangchainWrapToolCall(d) \/ LangchainAwrapToolCall(d)
      PROVE  FamilyInv'
  <2>1. \E how : EndsRun(d, how)
    BY <1>3 DEF LangchainWrapToolCall, LangchainAwrapToolCall
  <2> QED BY <1>0, <2>1, FamilyRunEnds
<1>4. ASSUME NEW a \in Staff, LangchainRevoke(a)
      PROVE  FamilyInv'
  <2>1. Grows /\ UNCHANGED <<call, open>>
    BY <1>4, CalmSteps DEF LangchainRevoke, RevokesNamed, FrameInv, Calm
  <2> QED BY <1>0, <2>1, FamilyStill
<1> QED BY <1>1, <1>2, <1>3, <1>4 DEF LangchainNext

LEMMA AstrbotFamily ==
  ASSUME FrameInv, FamilyInv, UNCHANGED adapter, adapter = "astrbot", AstrbotNext
  PROVE  FamilyInv'
<1>0. BoundOnes = {} /\ BoundOnes' = {}
  BY DEF BoundOnes
<1>1. ASSUME NEW d \in NextCall, NEW c \in Nested, AstrbotGate(d, c) \/ AstrbotGateDelegation(d, c)
      PROVE  FamilyInv'
  <2> DEFINE n == InForce(c)
  <2>1. /\ IsNew(d, c) /\ n \in granted /\ c.tool \in Tools
        /\ c.within = None => n = Root
        /\ c.within # None =>
             c.within \in Dispatch /\ IsRunning(c.within) /\ call[c.within].child = n
    BY FamilyNested DEF IsNew, Calls
  <2>2. \/ Rejects(d, c) \/ Denies(d, c, n)
        \/ Exempts(d, c, n, "pass") \/ Exempts(d, c, None, "none")
        \/ Checks(d, c, n, Strict, "running")
        \/ /\ Register(n, c.tool)
           /\ Becomes(d, [c EXCEPT !.stage = "running", !.node = n, !.child = Fresh])
    <3>1. CASE AstrbotGateDelegation(d, c)
      BY <3>1 DEF AstrbotGateDelegation
    <3>2. CASE AstrbotGate(d, c) /\ ~mem'.swept
      BY <3>2 DEF AstrbotGate
    <3>3. CASE AstrbotGate(d, c) /\ mem'.swept
      <4>1. CASE c.tool = "unlisted"
        BY <3>3, <4>1 DEF AstrbotGate
      <4>2. CASE c.tool = "broken"
        BY <3>3, <4>2 DEF AstrbotGate
      <4>3. CASE c.tool = "use"
        BY <3>3, <4>3 DEF AstrbotGate
      <4> QED BY <2>1, <3>3, <4>1, <4>2, <4>3 DEF AstrbotGate, Uses, Tools
    <3> QED BY <1>1, <3>1, <3>2, <3>3
  <2> HIDE DEF n
  <2>3. BoundOnes \subseteq granted \cup {None} /\ BoundOnes' = BoundOnes
    BY <1>0
  <2>4. c.within = None => n \in BoundOnes \cup {Root}
    BY <2>1
  <2> QED BY <2>1, <2>2, <2>3, <2>4, FamilyGate, Zenon
<1>2. ASSUME NEW d \in Dispatch, AstrbotRun(d) \/ AstrbotInnerRefusal(d)
      PROVE  FamilyInv'
  <2>1. /\ Uses(call[d])
        /\ \E how, says : Ends(d, how, says) \/ (Closes(d, how, says) /\ Report(d))
    BY <1>2 DEF AstrbotRun, AstrbotInnerRefusal
  <2> QED BY <1>0, <2>1, FamilyToolEnds
<1>3. ASSUME NEW d \in Dispatch, AstrbotExecuteHandoff(d)
      PROVE  FamilyInv'
  <2>1. \E how : EndsRun(d, how)
    BY <1>3 DEF AstrbotExecuteHandoff
  <2> QED BY <1>0, <2>1, FamilyRunEnds
<1>4. CASE AstrbotManager \/ \E a \in Staff : AstrbotRevoke(a)
  <2>1. Grows /\ UNCHANGED <<call, open>>
    BY <1>4, CalmSteps DEF AstrbotManager, AstrbotRevoke, RevokesNamed, FrameInv, Calm
  <2> QED BY <1>0, <2>1, FamilyStill
<1> QED BY <1>1, <1>2, <1>3, <1>4 DEF AstrbotNext

LEMMA OpenhandsFamilyGate ==
  ASSUME FrameInv, OpenhandsInv, FamilyInv, UNCHANGED adapter, adapter = "openhands",
         NEW d \in NextCall, NEW c \in OpenhandsConversations,
         OpenhandsGate(d, c) \/ OpenhandsGateDelegation(d, c)
  PROVE  FamilyInv'
<1> DEFINE n == OpenhandsActiveGuard(c)
<1>1. BoundOnes \subseteq granted \cup {None} /\ BoundOnes' = BoundOnes
  BY DEF BoundOnes, OpenhandsInv, OpenhandsGate, OpenhandsGateDelegation
<1>2. IsNew(d, c) /\ n \in granted /\ c.tool \in Tools /\ c.by \in Agent
  BY OpenhandsNew DEF IsNew, Calls
<1>3. /\ c.within = None => n \in BoundOnes \cup {Root}
      /\ c.within # None =>
           c.within \in Dispatch /\ IsRunning(c.within) /\ call[c.within].child = n
  <2>1. CASE c \in Nested
    <3>1. /\ c.within = None => InForce(c) = Root
          /\ c.within # None =>
               c.within \in Dispatch /\ IsRunning(c.within) /\ call[c.within].child = InForce(c)
      BY <2>1, NestedNew DEF InForce
    <3> QED BY <1>2, <3>1 DEF OpenhandsActiveGuard, BoundOnes
  <2>2. CASE \E a \in mem.made \ mem.unbound : c \in Asks(a, None)
    <3>1. c.within = None
      BY <2>2, NewOnes DEF OpenhandsInv
    <3> QED BY <1>2, <3>1 DEF OpenhandsActiveGuard, BoundOnes, InForce
  <2> QED BY <2>1, <2>2 DEF OpenhandsConversations
<1>4. \/ Rejects(d, c) \/ Denies(d, c, n) \/ Exempts(d, c, n, "pass")
      \/ Checks(d, c, n, Strict, "running")
      \/ /\ Register(n, c.tool)
         /\ Becomes(d, [c EXCEPT !.stage = "running", !.node = n, !.child = Fresh])
  <2>1. CASE OpenhandsGateDelegation(d, c)
    BY <2>1 DEF OpenhandsGateDelegation
  <2>2. CASE OpenhandsGate(d, c) /\ OpenhandsRefused(c)
    BY <2>2 DEF OpenhandsGate
  <2>3. CASE OpenhandsGate(d, c) /\ ~OpenhandsRefused(c)
    <3>1. CASE c.tool = "unlisted"
      BY <2>3, <3>1 DEF OpenhandsGate
    <3>2. CASE c.tool = "broken"
      BY <2>3, <3>2 DEF OpenhandsGate
    <3>3. CASE c.tool = "use"
      BY <2>3, <3>3 DEF OpenhandsGate
    <3> QED BY <1>2, <2>3, <3>1, <3>2, <3>3 DEF OpenhandsGate, Uses, Tools
  <2> QED BY <2>1, <2>2, <2>3
<1> HIDE DEF n
<1> QED BY <1>1, <1>2, <1>3, <1>4, FamilyGate, Zenon

LEMMA OpenhandsFamily ==
  ASSUME FrameInv, OpenhandsInv, FamilyInv, UNCHANGED adapter, adapter = "openhands", OpenhandsNext
  PROVE  FamilyInv'
<1>0. UNCHANGED mem => BoundOnes' = BoundOnes
  BY DEF BoundOnes
<1>1. CASE \E d \in NextCall, c \in OpenhandsConversations :
             OpenhandsGate(d, c) \/ OpenhandsGateDelegation(d, c)
  BY <1>1, OpenhandsFamilyGate
<1>2. ASSUME NEW d \in Dispatch, OpenhandsRun(d)
      PROVE  FamilyInv'
  <2>1. Uses(call[d]) /\ UNCHANGED mem /\ \E how : Ends(d, how, Says(how))
    BY <1>2 DEF OpenhandsRun, Wrapped
  <2> QED BY <1>0, <2>1, FamilyToolEnds
<1>3. ASSUME NEW d \in Dispatch, OpenhandsCall(d)
      PROVE  FamilyInv'
  <2>1. UNCHANGED mem /\ \E how : EndsRun(d, how)
    BY <1>3 DEF OpenhandsCall
  <2> QED BY <1>0, <2>1, FamilyRunEnds
<1>4. ASSUME NEW p \in Staff, NEW S \in SUBSET Staff, OpenhandsSpawn(p, S)
      PROVE  FamilyInv'
  <2>1. Grows /\ UNCHANGED <<call, open>>
    BY <1>4, CalmSteps DEF OpenhandsSpawn, FrameInv, Calm
  <2>2. mem'.bound = mem.bound
    BY <1>4 DEF OpenhandsSpawn, OpenhandsInv
  <2> QED BY <2>1, <2>2, FamilyStill DEF BoundOnes
<1>5. ASSUME NEW a \in Staff, OpenhandsBind(a)
      PROVE  FamilyInv'
  <2>1. a \in Agent
    BY <1>5 DEF OpenhandsBind, OpenhandsInv
  <2>2. CASE /\ Register(mem.spawner, a)
             /\ mem' = [mem EXCEPT !.unbound = @ \ {a}, !.bound[a] = Fresh]
    <3> DEFINE f == Fresh
    <3>1. Grows /\ UNCHANGED open /\ f \notin granted
      BY <2>2, MintSteps DEF Register, FrameInv
    <3>2. mem' = [mem EXCEPT !.unbound = @ \ {a}, !.bound[a] = f]
      BY <2>2
    <3> HIDE DEF f
    <3>3. mem'.bound = [mem.bound EXCEPT ![a] = f] /\ DOMAIN mem.bound = Agent
      BY <3>2 DEF OpenhandsInv
    <3>4. \A b \in Agent : mem'.bound[b] \in {f, mem.bound[b]}
      BY <2>1, <3>3
    <3> QED BY <1>5, <3>1, <3>4, FamilyStill DEF OpenhandsBind, BoundOnes
  <2>3. CASE /\ mem' = [mem EXCEPT !.unbound = @ \ {a}, !.refused = @ \cup {a}]
             /\ UNCHANGED <<serviceVars, registry>>
    <3>1. Grows /\ UNCHANGED open /\ mem'.bound = mem.bound
      BY <2>3, CalmSteps DEF FrameInv, Calm, OpenhandsInv
    <3> QED BY <1>5, <3>1, FamilyStill DEF OpenhandsBind, BoundOnes
  <2> QED BY <1>5, <2>2, <2>3 DEF OpenhandsBind
<1>6. ASSUME NEW a \in Staff, OpenhandsClose(a)
      PROVE  FamilyInv'
  <2>1. Completes(mem.bound[a]) \/ UNCHANGED serviceVars
    BY <1>6, Zenon DEF OpenhandsClose
  <2>2. Grows /\ UNCHANGED <<call, open>>
    BY <1>6, <2>1, CalmSteps DEF OpenhandsClose, FrameInv, Calm
  <2>3. mem' = [mem EXCEPT !.made = @ \ {a}, !.bound[a] = None, !.refused = @ \ {a}]
    BY <1>6 DEF OpenhandsClose
  <2>4. mem'.bound = [mem.bound EXCEPT ![a] = None] /\ DOMAIN mem.bound = Agent
    BY <2>3 DEF OpenhandsInv
  <2>5. \A b \in Agent : mem'.bound[b] \in {None, mem.bound[b]}
    BY <2>4
  <2>6. None \notin granted
    BY NameAssumption DEF FrameInv, ServiceOK
  <2> QED BY <2>2, <2>5, <2>6, FamilyStill DEF BoundOnes
<1>7. ASSUME NEW a \in Staff, OpenhandsRevoke(a)
      PROVE  FamilyInv'
  <2>1. Grows /\ UNCHANGED <<call, open, mem>>
    BY <1>7, CalmSteps DEF OpenhandsRevoke, RevokesNamed, FrameInv, Calm
  <2> QED BY <1>0, <2>1, FamilyStill
<1> QED BY <1>1, <1>2, <1>3, <1>4, <1>5, <1>6, <1>7 DEF OpenhandsNext

-----------------------------------------------------------------------------
(* All of the adapters: what they have in common, and what one or another   *)
(* keeps besides.                                                           *)
BridgesOK ==
  /\ adapter = "smolagents" => ManagerHands
  /\ adapter = "commerce" => CommerceInv
  /\ adapter = "openhands" => OpenhandsInv
  /\ adapter = "camel" => CamelInv
  /\ adapter = "crewai" => CrewaiInv
  /\ Inside => FamilyInv
  /\ RevokedKnown

AdapterInv == FrameInv /\ BridgesOK

LEMMA AdaptersStartIdle ==
  ASSUME AdaptersInit
  PROVE  FrameInv /\ registry = OnlyRoot /\ \A d \in Dispatch : ~Promised(d)
<1>1. FrameworkInit /\ adapter \in Adapters
  BY DEF AdaptersInit
<1>2. registry = OnlyRoot
  BY DEF AdaptersInit, Ag2Registry, AgentFrameworkRegistry, AgnoRegistry, AstrbotInit,
         AutogenRegistry, CamelRefs, ClaudeRegistry, CommerceExecutors, CrewaiBridge, AdkPlugin,
         HaystackContext, LangchainChildren, LangflowGuards, LanggraphNodes, LlamaGuards,
         OmnigentChain, OpenaiRegistry, OpenhandsInit, PydanticDeps, SkChain, SmolagentsRefs,
         StrandsBindings
<1>3. /\ granted = {Root} /\ open = {} /\ killed = {} /\ allowed = {}
      /\ line = [n \in Node |-> IF n = Root THEN {Root} ELSE {}]
      /\ who = [n \in Node |-> RootAgent]
      /\ call = [d \in Dispatch |-> Idle]
  BY <1>1 DEF FrameworkInit, AbstractInit
<1>4. ServiceOK
  <2>1. IsFiniteSet({Root})
    BY FS_Singleton
  <2> QED BY <1>3, <2>1, AbstractAssumption DEF ServiceOK
<1>5. RegistryOK
  BY <1>2, <1>3, AbstractAssumption, NameAssumption DEF RegistryOK, OnlyRoot
<1>6. Idle \in Calls
  BY AbstractAssumption DEF Idle, Calls, Stages, Entries, Bodies, Outcomes, Tools
<1>7. \A d \in Dispatch : ~Promised(d)
  BY <1>3 DEF Promised
<1>8. ASSUME NEW d \in Dispatch
      PROVE  CallOK(d)
  <2>1. call[d] = Idle
    BY <1>3
  <2>2. OnOwnNode(d) /\ Authorized(d) /\ ChildIsDelegate(d) /\ ChildBelowCaller(d)
    BY <2>1 DEF OnOwnNode, Authorized, ChildIsDelegate, ChildBelowCaller, Works, Ran, Idle
  <2>3. PromiseKnown(d) /\ HandsWait(d) /\ BodyToCome(d) /\ OutcomeKnown(d) /\ Settled(d)
    BY <1>3, <1>7, <2>1 DEF PromiseKnown, HandsWait, BodyToCome, OutcomeKnown, Settled, Idle
  <2> QED BY <2>2, <2>3 DEF CallOK
<1> QED BY <1>1, <1>2, <1>3, <1>4, <1>5, <1>6, <1>7, <1>8 DEF FrameInv

LEMMA AdaptersStart ==
  ASSUME AdaptersInit
  PROVE  AdapterInv
<1>1. /\ FrameInv /\ registry = OnlyRoot /\ killed = {}
      /\ \A d \in Dispatch : ~Promised(d) /\ call[d] = Idle
  BY AdaptersStartIdle DEF AdaptersInit, FrameworkInit, AbstractInit
<1>2. ManagerHands
  BY <1>1 DEF ManagerHands, Idle
<1>3. ASSUME adapter = "commerce" PROVE CommerceInv
  <2>1. mem = [installed |-> FALSE, flagged |-> {}]
    BY <1>3 DEF AdaptersInit, CommerceExecutors
  <2> QED BY <2>1 DEF CommerceInv
<1>4. ASSUME adapter = "openhands" PROVE OpenhandsInv
  <2>1. mem = [made |-> {}, unbound |-> {}, bound |-> [a \in Agent |-> None], refused |-> {},
               spawner |-> None]
    BY <1>4 DEF AdaptersInit, OpenhandsInit
  <2> QED BY <2>1, AbstractAssumption DEF OpenhandsInv
<1>5. ASSUME adapter = "camel" PROVE CamelInv
  <2>1. mem = [pending |-> [a \in Agent |-> None], ref |-> [d \in Dispatch |-> None],
               session |-> [d \in Dispatch |-> None], background |-> {}]
    BY <1>5 DEF AdaptersInit, CamelRefs
  <2> QED BY <1>1, <1>2, <2>1 DEF CamelInv, SessionOK, Idle
<1>6. ASSUME adapter = "crewai" PROVE CrewaiInv
  <2>1. mem = [slot |-> [k \in Dispatch |-> None], key |-> [d \in Dispatch |-> None],
               collided |-> {}, denied |-> {}]
    BY <1>6 DEF AdaptersInit, CrewaiBridge
  <2>2. /\ mem.denied = {} /\ mem \in CrewaiMem
        /\ \A d \in Dispatch : ~Started(d) /\ mem.slot[d] = None /\ mem.key[d] = None
    BY <1>1, <2>1 DEF Started, Idle, CrewaiMem
  <2>3. ASSUME NEW d \in Dispatch
        PROVE  KeyOK(d) /\ DeniedOK(d) /\ KeepsSlot(d) /\ LosesSlot(d)
    <3>1. call[d].stage = "idle" /\ ~Promised(d)
      BY <1>1 DEF Idle
    <3> QED BY <2>2, <3>1 DEF KeyOK, DeniedOK, KeepsSlot, LosesSlot, Started
  <2> QED BY <2>2, <2>3 DEF CrewaiInv
<1>7. RevokedKnown
  <2>1. adapter = "openai_agents" => mem = [revoked |-> {}]
    BY DEF AdaptersInit, OpenaiRegistry
  <2>2. adapter = "strands" => \E alone \in BOOLEAN : mem = [revoked |-> {}, intervention |-> alone]
    BY DEF AdaptersInit, StrandsBindings
  <2>3. \A a \in Agent : ~Revoked(a)
    BY <1>1, <2>1, <2>2 DEF Revoked
  <2> QED BY <2>1, <2>2, <2>3 DEF RevokedKnown
<1>8. FamilyInv
  <2>1. \A d \in Dispatch : /\ call[d].child = None /\ call[d].within = None
                            /\ call[d].stage = "idle"
    BY <1>1 DEF Idle
  <2> QED BY <2>1 DEF FamilyInv, ChildApart, RunsWithin, LeftClosed
<1> QED BY <1>1, <1>2, <1>3, <1>4, <1>5, <1>6, <1>7, <1>8 DEF AdapterInv, BridgesOK

(* No step says anything of a revoked agent but the three's own. *)
LEMMA RevokedStep ==
  ASSUME AdapterInv, AdaptersNext
  PROVE  \/ RevokedKept
         \/ adapter \notin {"openai_agents", "strands", "google_adk"} /\ RevokedKnown'
<1>1. FrameInv /\ RevokedKnown /\ UNCHANGED adapter
  BY DEF AdapterInv, BridgesOK, AdaptersNext
<1>2. CASE adapter = "openai_agents"
  BY <1>1, <1>2, OpenaiRevokedStays DEF AdaptersNext
<1>3. CASE adapter = "strands"
  BY <1>1, <1>3, StrandsRevokedStays DEF AdaptersNext
<1>4. CASE adapter = "google_adk"
  BY <1>1, <1>4, AdkRevokedStays DEF AdaptersNext
<1>5. CASE adapter \notin {"openai_agents", "strands", "google_adk"}
  BY <1>1, <1>5 DEF RevokedKnown, Revoked
<1> QED BY <1>2, <1>3, <1>4, <1>5

LEMMA FamilySteps ==
  ASSUME AdapterInv, AdaptersNext, Inside
  PROVE  FamilyInv'
<1>1. FrameInv /\ FamilyInv /\ UNCHANGED adapter /\ (adapter = "openhands" => OpenhandsInv)
  BY DEF AdapterInv, BridgesOK, AdaptersNext
<1>2. CASE adapter = "langchain"
  BY <1>1, <1>2, LangchainFamily DEF AdaptersNext
<1>3. CASE adapter = "astrbot"
  BY <1>1, <1>3, AstrbotFamily DEF AdaptersNext
<1>4. CASE adapter = "openhands"
  BY <1>1, <1>4, OpenhandsFamily DEF AdaptersNext
<1> QED BY <1>2, <1>3, <1>4 DEF Inside

LEMMA AdapterSteps ==
  ASSUME AdapterInv, AdaptersNext
  PROVE  AdapterInv'
<1>0. FrameInv /\ BridgesOK /\ UNCHANGED adapter
  BY DEF AdapterInv, AdaptersNext
<1>1. RevokedKnown' /\ (Inside' => FamilyInv')
  <2>1. Inside' => Inside
    BY <1>0 DEF Inside
  <2> QED BY <1>0, <2>1, RevokedStep, RevokedStays, FamilySteps DEF BridgesOK
<1>2. CASE \/ adapter = "ag2"             /\ Ag2Next
           \/ adapter = "agent_framework" /\ AgentFrameworkNext
           \/ adapter = "autogen"         /\ AutogenNext
           \/ adapter = "openai_agents"   /\ OpenaiNext
           \/ adapter = "agno"            /\ AgnoNext
           \/ adapter = "llama_index"     /\ LlamaNext
           \/ adapter = "astrbot"         /\ AstrbotNext
           \/ adapter = "claude_sdk"      /\ ClaudeNext
           \/ adapter = "google_adk"      /\ AdkNext
  <2>1. FrameInv'
    BY <1>0, <1>2, Ag2Keeps, AgentFrameworkKeeps, AutogenKeeps, OpenaiKeeps, AgnoKeeps, LlamaKeeps,
       AstrbotKeeps, ClaudeKeeps, AdkKeeps, Zenon
  <2> QED BY <1>0, <1>1, <1>2, <2>1 DEF AdapterInv, BridgesOK
<1>3. CASE \/ adapter = "semantic_kernel" /\ SemanticKernelNext /\ KeepsMem
           \/ adapter = "langchain"       /\ LangchainNext /\ KeepsMem
           \/ adapter = "langgraph"       /\ LanggraphNext /\ KeepsMem
           \/ adapter = "haystack"        /\ HaystackNext /\ KeepsMem
           \/ adapter = "pydantic_ai"     /\ PydanticNext /\ KeepsMem
           \/ adapter = "omnigent"        /\ OmnigentNext /\ KeepsMem
           \/ adapter = "langflow"        /\ LangflowNext /\ KeepsMem
  <2>1. FrameInv'
    BY <1>0, <1>3, SemanticKernelKeeps, LangchainKeeps, LanggraphKeeps, HaystackKeeps,
       PydanticKeeps, OmnigentKeeps, LangflowKeeps, Zenon
  <2> QED BY <1>0, <1>1, <1>3, <2>1 DEF AdapterInv, BridgesOK
<1>4. CASE adapter = "smolagents" /\ SmolagentsNext /\ KeepsMem
  <2>1. FrameInv' /\ ManagerHands'
    BY <1>0, <1>4, SmolagentsKeeps, SmolagentsHolds DEF BridgesOK
  <2> QED BY <1>0, <1>1, <1>4, <2>1 DEF AdapterInv, BridgesOK
<1>5. CASE adapter = "commerce" /\ CommerceNext
  <2>1. FrameInv' /\ CommerceInv'
    BY <1>0, <1>5, CommerceKeeps DEF BridgesOK
  <2> QED BY <1>0, <1>1, <1>5, <2>1 DEF AdapterInv, BridgesOK
<1>6. CASE adapter = "openhands" /\ OpenhandsNext
  <2>1. FrameInv' /\ OpenhandsInv'
    BY <1>0, <1>6, OpenhandsKeeps, OpenhandsHolds DEF BridgesOK
  <2> QED BY <1>0, <1>1, <1>6, <2>1 DEF AdapterInv, BridgesOK
<1>7. CASE adapter = "camel" /\ CamelNext
  <2>1. FrameInv' /\ CamelInv'
    BY <1>0, <1>7, CamelKeeps, CamelHolds DEF BridgesOK
  <2> QED BY <1>0, <1>1, <1>7, <2>1 DEF AdapterInv, BridgesOK
<1>8. CASE adapter = "crewai" /\ CrewaiNext
  <2>1. FrameInv' /\ CrewaiInv'
    BY <1>0, <1>8, CrewaiHolds DEF BridgesOK
  <2> QED BY <1>0, <1>1, <1>8, <2>1 DEF AdapterInv, BridgesOK
<1>9. CASE adapter = "strands" /\ StrandsNext
  <2>1. "intervention" \in DOMAIN mem
    BY <1>0, <1>9 DEF BridgesOK, RevokedKnown
  <2>2. FrameInv'
    BY <1>0, <1>9, <2>1, StrandsKeeps
  <2> QED BY <1>0, <1>1, <1>9, <2>2 DEF AdapterInv, BridgesOK
<1> QED BY <1>2, <1>3, <1>4, <1>5, <1>6, <1>7, <1>8, <1>9, Zenon DEF AdaptersNext

LEMMA AdapterStutters ==
  ASSUME AdapterInv, UNCHANGED vars
  PROVE  AdapterInv'
<1>0. FrameInv /\ BridgesOK /\ UNCHANGED <<adapter, call, registry, mem>> /\ UNCHANGED serviceVars
  BY DEF AdapterInv, vars
<1>1. FrameInv' /\ Grows
  BY <1>0, SameMem, StillKeeps, CalmSteps DEF FrameInv
<1>2. ManagerHands => ManagerHands'
  BY <1>0 DEF ManagerHands
<1>3. CommerceInv => CommerceInv'
  BY <1>0 DEF CommerceInv
<1>4. OpenhandsInv => OpenhandsInv'
  BY <1>0, <1>1, OpenhandsStays
<1>5. CamelInv => CamelInv'
  BY <1>0 DEF CamelInv, ManagerHands, SessionOK, Started, serviceVars
<1>6. CrewaiInv => CrewaiInv'
  BY <1>0 DEF CrewaiInv, KeyOK, DeniedOK, KeepsSlot, LosesSlot, Started, Promised, serviceVars
<1>7. RevokedKnown => RevokedKnown'
  BY <1>0 DEF RevokedKnown, Revoked, serviceVars
<1>8. Inside /\ FamilyInv => FamilyInv'
  <2>1. BoundOnes' = BoundOnes /\ UNCHANGED <<call, open>>
    BY <1>0 DEF BoundOnes, serviceVars
  <2> QED BY <1>0, <1>1, <2>1, FamilyStill
<1>9. Inside' => Inside
  BY <1>0 DEF Inside
<1> QED BY <1>0, <1>1, <1>2, <1>3, <1>4, <1>5, <1>6, <1>7, <1>8, <1>9 DEF AdapterInv, BridgesOK

(* The inductive invariant of the adapters: what FrameInv says of every call, and the *)
(* bookkeeping of each bridge. *)
THEOREM AdaptersInvariant == AdaptersSpec => []AdapterInv
<1>1. AdaptersInit => AdapterInv
  BY AdaptersStart
<1>2. AdapterInv /\ [AdaptersNext]_vars => AdapterInv'
  BY AdapterSteps, AdapterStutters
<1> QED BY <1>1, <1>2, PTL DEF AdaptersSpec

(* A guarded tool's body runs only after an allow on the Guard of the agent *)
(* that called it, whichever adapter stands between the two.                *)
THEOREM BodiesRunOnOwnAllow == AdaptersSpec => []BodiesAreAuthorized
<1>1. ASSUME AdapterInv, NEW d \in Dispatch, BodyRan(d), call[d].tool \in {"use", "broken"}, ~Ungated(d)
      PROVE  <<d, call[d].node, "use">> \in allowed /\ who[call[d].node] = call[d].by
  <2>1. Authorized(d)
    BY <1>1 DEF AdapterInv, FrameInv, CallOK
  <2>2. Works(d) \/ Ran(d)
    BY <1>1 DEF BodyRan, IsRunning, Works, Ran
  <2> QED BY <1>1, <2>1, <2>2 DEF Authorized
<1>2. AdapterInv => BodiesAreAuthorized
  BY <1>1 DEF BodiesAreAuthorized
<1> QED BY <1>2, AdaptersInvariant, PTL

(* A child hangs below a node of the agent that asked for it.               *)
THEOREM ChildrenHangBelowTheirCaller == AdaptersSpec => []DelegatedByCaller
<1>1. AdapterInv => DelegatedByCaller
  BY DEF AdapterInv, FrameInv, CallOK, ChildBelowCaller, DelegatedByCaller
<1> QED BY <1>1, AdaptersInvariant, PTL

(* What the ledger says of a body is what became of it.                     *)
THEOREM LedgerTellsOutcomes == AdaptersSpec => []OutcomesAreTrue
<1>1. AdapterInv => OutcomesAreTrue
  BY DEF AdapterInv, FrameInv, CallOK, OutcomeKnown, OutcomesAreTrue
<1> QED BY <1>1, AdaptersInvariant, PTL

(* A call that is over keeps no promised outcome open, but where LeftOpen says so. *)
THEOREM CallsOverAreSettled == AdaptersSpec => []ClosedOnceOver
<1>1. AdapterInv => ClosedOnceOver
  BY DEF AdapterInv, FrameInv, CallOK, Settled, ClosedOnceOver
<1> QED BY <1>1, AdaptersInvariant, PTL

(* An agent revoked by name stays revoked, and nothing it does afterwards is allowed. *)
THEOREM RevocationByNameIsFinal == AdaptersSpec => RevokedStaysRevoked
<1> DEFINE Final == \A a \in Agent : Revoked(a) =>
                      Revoked(a)' /\ \A t \in allowed' \ allowed : who[t[2]] # a
<1>1. AdapterInv /\ [AdaptersNext]_vars => [Final]_vars
  <2> SUFFICES ASSUME AdapterInv, AdaptersNext PROVE Final
    OBVIOUS
  <2>1. FrameInv /\ RevokedKnown /\ UNCHANGED adapter
    BY DEF AdapterInv, BridgesOK, AdaptersNext
  <2>2. CASE RevokedKept
    BY <2>1, <2>2, RevokedStays
  <2>3. CASE adapter \notin {"openai_agents", "strands", "google_adk"}
    BY <2>3 DEF Revoked
  <2> QED BY <2>2, <2>3, RevokedStep
<1> QED BY <1>1, AdaptersInvariant, PTL DEF AdaptersSpec, RevokedStaysRevoked

(* Where the sub-agent runs inside the delegation, its node is finished when *)
(* that is over, but for calls still open on it.                             *)
THEOREM ChildrenAreLeftClosed == AdaptersSpec => []ChildrenAreClosed
<1>1. AdapterInv => ChildrenAreClosed
  BY DEF AdapterInv, BridgesOK, Inside, FamilyInv, LeftClosed, ChildrenAreClosed
<1> QED BY <1>1, AdaptersInvariant, PTL
=============================================================================
