# attenu-guard in TLA+

A verification project for `attenu_guard`: a library that hands agents
delegated authority that can only shrink, enforces it at each call, revokes it,
and writes a ledger that someone with nothing but the ledger can check.

The modules model the code under `src/src/attenu_guard/` and three integrations
under `src/examples/integrations/`; paths below are relative to the first. TLC
checks the models on small instances; TLAPS proves the theorems for every value
of the constants. `PROJECT.json` maps each definition to the lines it stands
for and lists the runs, hazards, findings and theorems.

## The system

| Part | State | Operations | What makes it correct |
|---|---|---|---|
| Authority lattice (`authority.py`, `ceilings.py`, `draft02.py`) | none: immutable scopes, ceilings, ttl | `meet`, `is_narrower_than`, `permits`, in two profiles (-01 and -02) | the meet permits no more than either side, and is the greatest such; narrowing is a preorder; narrower means permits less |
| Chain (`chain.py`, `strikes.py`) | nodes, `_revoked`, `_banned_agents`, call and strike meters, `_pending`, `_outcomed`, one lock | `add_child`, `revoke`, `revoke_agent`, meters, pending calls | revocation reaches every descendant, whatever is delegated meanwhile; bans hold; bounds hold |
| Guard (`guard.py`) | one node of a chain, shared chain and log | `issue`, `delegate`, `check`, `record_denial`, `record_passthrough`, `record_outcome`, `complete`, `revoke`, `revoke_agent` | what is allowed is authorised by every ancestor and on the ledger before its node is killed; one outcome per call; no call open at completion |
| Audit log (`audit.py`) | entries, hash of the last, file, sinks | `append`, `verify`, `load`, `anchor` | entries are a chain, in memory and in the file, across failures and restarts |
| Spool sink (`sinks.py`) | file, size, acknowledged offset | `write`, `read_pending`, `ack` | what the spool holds is a prefix of the ledger; nothing unacknowledged is lost |
| Evidence (`evidence.py`) | none: a bundle is a document | `export_bundle`, `sign_envelope`, `verify_bundle`, trust sets | accepts what was exported, and nothing else under the producer's key; what it accepts is a tree of narrowing authority |
| Command line (`cli.py`) | none | `verify`, `view` | its exit status and what it lists are the verifier's verdict |
| Wire tokens (`wire.py`) | none | `serialize`, `serialize_chain`, `load` | only a chain as minted loads, with its leaf's authority and depth |
| A2A adapter (`adapters/a2a.py`) | a chain per process, ledgers in `audit_dir`, what each resolver minted | the interceptor, the executor, the tool gate, `verify_hop` | a served agent holds no more than any caller; a hop proves which call it served |
| Framework adapters (19 in `adapters/`, 3 in the examples) | Guards by agent, run or tool; open calls | a framework's callbacks around `check` and `record_outcome` | a body runs only after an allow of its caller's Guard, and its outcome is told once and truly |
| Claude Code hooks (`examples/.../hook.py`) | a ledger file and its lock, a key file, the project's rules | one process per event: derive, lock, load, decide, append, export | one chain on file, each answer on it, bundles that verify |
| Identity, canonical JSON, reasons, scenarios, demos | none worth a model | cryptography, conversions, printing | out of scope (see the end) |

### How the parts interact

A Guard is one node of a chain. All Guards of a chain share a `Chain`, with one
re-entrant lock, and an `AuditLog`, with its own. Frameworks call Guards from
thread pools, so every operation may interleave with every other one. `check`,
`record_*`, `complete` and the kills hold the chain lock from their first read
to their append. `delegate` does not: it takes the lock to add the child, drops
it, and takes it again to log the spawn. `is_revoked`, `would_allow`,
`would_delegate` and `graph` read with no lock.

An append goes through memory, the file and each sink in turn; a failure stops
it where it is, and the entry stays in the log. A `SpoolSink` is one such sink:
its file outlives the process, and an uploader, usually another process, drains
it by an offset kept in a file of its own.

A ledger leaves its process as a bundle, which others carry, witness and verify;
a node leaves it as a chain of tokens, which another process loads and goes on
from in a chain of its own. Neither sees the other's memory. Adapters stand
between a framework and the Guards: they keep which Guard an agent, run or tool
acts under, and which allowed call the framework's next callback is about.

### What is hard

* A cascade visits nodes one at a time while other threads wait for the lock,
  and lockless readers see it half done.
* A delegation is two steps; a revocation fits in between.
* An append raises before its commit point, leaving nothing, or after it,
  leaving an entry and an exception. What each operation has done by then differs.
* On a v2 chain, open calls live in three places (`_pending`, `_outcomed` and
  the ledger) that must agree at every completion and every kill.
* The verifier judges each entry by those before it, so the order of entries is
  a promise of the engine.
* A process may die, or a write fail, between memory, file, sinks, POST and ack;
  the next process starts from what is on disk.
* A bundle and a token pass through hands that may change them, and messages are
  lost, delayed and delivered twice, to servers that restart.
* An adapter hears of a call in several callbacks, from frameworks that nest,
  retry, cancel, defer and run calls concurrently; it must find the right call.
* The meet pairs constraints by key; each type has its own order, and the two
  profiles say the same bound in different types.

## The modules

| Module | Models |
|---|---|
| `Authority` | scopes, the ceilings of both profiles and the lattice, as operators |
| `Attenuation` | a path of delegations over `Authority`: one action, `Delegate` |
| `Wire`, `Tokens` | tokens: minting and loading; the path of `Attenuation` minted several times, and what loads of the tokens put together; EXTENDS `Attenuation` |
| `Chain` | the state of `Chain` and its operations as action parts |
| `Guard` | the API: one action per operation, per thread; EXTENDS `Chain` |
| `LedgerVerifier` | what `verify_bundle` reads in an honest ledger; EXTENDS `Guard` |
| `GuardProperties` | types, invariants and liveness of the composition |
| `AbstractGuard` | what a chain promises: atomic kills, no lock, no cascade, no ledger |
| `GuardRefinement` | the mapping under which `Guard` implements it |
| `AuditLog` | the file and the sinks of a ledger, processes that open it, fail and die |
| `Spool` | `SpoolSink`, its uploader and the endpoint |
| `Streaming` | `AuditLog` with a `Spool` as its last sink; EXTENDS both |
| `Bundle` | the entries of a bundle, their hash chain and anchor, and each check of `verify_bundle` |
| `Envelopes` | witnesses' envelopes, trust sets, the verdict; EXTENDS `Bundle` |
| `CommandLine` | `attenu-guard verify` and `view`; EXTENDS `Envelopes` |
| `Evidence` | the life of a bundle: written, exported, witnessed, edited, forged, verified; EXTENDS `CommandLine` |
| `A2A`, `A2AProperties` | clients, messages and servers that continue chains over `Wire`; what a caller is owed |
| `Framework` | a framework and its calls, over `AbstractGuard` |
| `RegistryAdapters` | ag2, agent_framework, autogen |
| `HandoffAdapters` | openai_agents, agno, semantic_kernel, llama_index |
| `ContextAdapters` | langchain, langgraph, haystack, astrbot, openhands |
| `BoundToolAdapters` | camel, smolagents, pydantic_ai |
| `HookAdapters` | strands, claude_sdk, crewai, google_adk |
| `ExampleAdapters` | omnigent, commerce-agents, langflow |
| `Adapters` | one of them at a time, and what holds of all |
| `HookRoster`, `Hooks` | the scopes a Claude Code project gives; the hook processes, over `Bundle` |
| `MC*` | values for TLC |
| `AuthorityProofs` | the laws of the lattice, and facts of sequences and minted chains |
| `AttenuationProofs` | paths, and the tokens of them |
| `A2AProofs` | hops between processes: how long, within what, and which ledger proves which |
| `GuardProofs` | types, revocation, strikes; containment, attenuation, kill and spawn entries; call ids: pending, outcomes, meters, what `chain_binding` reads; `Guard` implements `AbstractGuard` |
| `AuditProofs` | ledger files and spools: what verifies, what is kept, what loads, what is spooled |
| `AdapterProofs` | what holds of all the adapters |
| `EvidenceProofs` | bundles: what is accepted, what verifies, whose each accepted thing is |
| `HooksProofs` | the hook processes of a session: its ledger, its answers, its bundles |

Two seams carry the composition. `Chain` takes authorities as an abstract set
with operators `Attenuate`, `Narrower`, `PermitsAct`, `CallLimits` and `Ttls`, and
assumes three laws of them (`MeetLaw`, `NarrowerLaw`, `PermitsLaw`);
`AuthorityProofs` proves the corresponding facts of the lattice as coded, and
`MCGuard` instantiates the parameters with it, so TLC evaluates the laws on each
instance it checks. The adapters call `AbstractGuard`, and
`ImplementsAbstractGuard` shows that `Guard`, with its lock, cascades and ledger,
implements it.

### Steps

* **Guard.** An operation under one hold of the lock is one action, guarded by
  `lock = Free`. A kill is `Revoke` / `RevokeAgent` / the striking `CheckDeny`,
  then one `Sweep` per iteration of the loop of `Chain.revoke`, then `LogKill`;
  the thread holds `lock` throughout, `work` is its stack (a set: the order of
  pops is left open) and `swept` its `revoked_now`. `revoke_agent` runs that loop
  from each node the agent holds; the model runs the same iterations from all at
  once, which only a lockless reader could tell. `delegate` is `DelegateAdd` or
  `DelegateRefused`, then `LogSpawn`, `SpawnFault` or `LogSpawnDenied`.
* **Refinement.** A kill is one abstract step, when the cascade gives the lock
  back: what a running cascade has swept is still alive until then. A grant is
  the return of `add_child`; the spawn entry is a stutter.
* **Log.** Opening is `Find` or `Refuse`, then `Truncate`; an append is `Commit`,
  `WriteFile` or `WriteFails`, then `Hand` or `HandFails`, with the process able
  to `Die` before and after each. `ack` is `AckOpen`, which empties the offset
  file, then `AckWrite`.
* **Adapters.** A dispatch is one tool call, from the request to the end of its
  body. What an adapter does between two calls into the framework is one action,
  and holds several Guard calls only where the code makes them in a row with
  nothing awaited. `mem` is what the adapter keeps beside its registry, a record
  whose fields are its own.
* **A2A.** Sending, delivering, serving, a tool call, a revocation, its listing
  and a restart are each one action; a message once sent can be delivered at any
  later time, any number of times or never.
* **Hooks.** A hook process derives the project, locks, loads, writes its lines
  one half at a time, unlocks and answers; a stop reads the ledger, then the
  key, then signs and verifies. Each of these is a step.
* **Evidence.** Each edit of a bundle is a step; `verify` is no step but a
  predicate of bundle, key, trust file and time.

### Faults

`Faults` says how an append may raise. *Uncommitted*: the entry has no RFC 8785
form, nothing is kept. *Committed*: the entry is in the ledger and the file or
a sink failed (`CommittedAuditError`). `Unwritable` are agents whose name the
ledger cannot hold. A `check` that fails before its commit puts its meter back
and leaves nothing: it is a stuttering step and has no action. A committed
failure of an allow, an outcome, a completion or a kill leaves the state a
success leaves, so it adds no action either; of a denial, it skips the strike
(`CheckDeny` with `raises`); of a spawn, it loses the Guard (`SpawnFault`).
`AnyIdRevoked` lets callers revoke ids that name no node (`SweepKeyError`).

`FileFaults` is how a write of the ledger file fails: nothing written, or a part
of the line, perhaps all but its newline. `SinkFaults` lets a sink before the
spool raise, `SpoolFaults` the spool's flush or fsync. A flush that raises
leaves its line in the file object, and the next one writes it. `AckDies` lets
the uploader die between the halves of `ack`. In `Hooks`, a derivation or the lock
may raise, a write may fail part way, and a process may be killed by the hook's
timeout; `Die` exists only where it leaves a trace. In the adapters a body may
return, raise, be cancelled or be deferred, a context callable may raise, and
what delegates may be refused.

### Abstractions

* Data: an action is a model value, which `MCGuard` gives a scope and a context;
  node and call ids are counters (call ids are 128 random bits in the code);
  tasks, tools, reasons, dispositions and parameter hashes are left out where no
  property tells them apart; amounts are integers.
* The seal of a node always verifies: nothing in the code assigns
  `Node.authority` after the node is built.
* `check` reads the lifecycle before the authority except on a revoked node;
  both refuse, so `Refused` is a disjunction. In `Guard` a `CallLimit` is the
  unscoped one, metered by the Guard: a caller's own `calls`, scoped limits,
  strict metering and trusted totals are not modelled there (`Authority` has
  scoped limits and the -02 totals as bounds on a context).
* `record_outcome` is given ids the chain drew. A foreign id is recorded by the
  code as well; it affects only what the verifier reports of it.
* In `LedgerVerifier` the granted authority of a node is read from the chain: a
  root or spawn entry carries it and it never changes. `Bundle` reads it from
  the entries.
* A hash is what it covers: in `AuditLog` an entry is its history; in `Bundle` a
  hash is the sequence of payloads, each with the hash it names where that is
  not the one it follows; in `Wire` a parent's hash is its claims. A signature
  verifies under its own key only.
* In `Bundle` an authority is the set of acts it permits, and members the
  verifier tells apart only by presence and form are two sets, `members` and
  `malformed`. An entry that is no JSON object is left out; a part of the bundle
  of the wrong type is `mistyped`.
* A spool line is its process and entry, and only its length counts beside. One
  process has one chain. Processes die but machines do not, so what `fsync`
  protects is not told apart. The endpoint keeps each line once under its key,
  as `docs/STREAMING.md` says of the console; it and the uploader's loop are
  external.
* In `Authority` a scope is its segments and a wildcard flag; a text is a
  sequence, compared by prefix; `IsStrictPrefix` stands for the dotted boundary
  the code keeps in `held[:-1]`.
* In `Wire` what `_parse_token` refuses before any check (text that is not the
  canonical JSON of a token) and `accepted_algs` are not represented; tokens of
  one profile are not parsed under the other.
* In the adapters, `Declared` is what a deployment grants each agent, `Strict`
  that the chain is v2 and outcomes are promised, `Bounds` what a run allows each
  adapter. camel's toolkits are told apart by the call that is pending on each.
  Streams, messages and the frameworks themselves are abstracted.
* In `A2A` every chain is v1, as `GuardedAgentExecutor` issues it, and the clocks
  are one.
* In `Hooks` the key file is replaced in one step, the configuration is fixed for
  a session, and an authority is the set of the scopes its calls could need.

## What is checked

Each property of a passing run is shown to have teeth by a seeded fault: a
changed definition, beside the original and marked *mutant*, under which TLC
finds the property violated.

| Run | Instance | Shows |
|---|---|---|
| `attenuation` | 6 roots, 18 requests of every ceiling type of both profiles, 2 hops, 5 scopes; 5 mints of the path (two keys, both profiles, two holders of -02), 2 verifiers | the lattice along a path, and the tokens of it |
| `revocation` | 2 threads, 2 agents, 4 nodes, depth 2, fanout 2, two requests (one under a ceiling of another type, refused), 5 entries | revocation, bans, containment, what the ledger tells, the refinement |
| `binding` | v2, 2 threads, 2 nodes, 2 calls, 7 entries | execution binding, what the views of the ledger show, the refinement with outcomes |
| `faults` | 2 threads, 3 nodes, both faults, an unwritable agent, unknown ids, limits of 2 and 1, 2 strikes, ttl, 4 calls, one tick, fairness | cascades that end, meters and strikes |
| `streaming` | 2 processes in turn, one that overwrites; 2 entries each, of 2 lengths; a spool of 3 units; batches of 2; every fault but a death inside `ack`; one death of an uploader; fairness | the file, the spool and the endpoint |
| `evidence` | a chain of two nodes with one call, at most 1 export, 1 envelope of 2 witnesses, 2 edits or 3 forged entries, 16 forged bodies, 9 trust files, 2 times | bundles and the command line |
| `a2a` | a client and two remotes, one with an audit_dir and one with a revocation check; clock to 4, 2 messages, 7 nodes, 1 revocation | hops between processes |
| `adapters` | each of 22 adapters, 2 or 3 calls, 3 or 4 nodes, 2 or 3 agents | who a body runs as, what is told of it, what is left open |
| `hooks` | 3 processes, a declared and an undeclared agent, 5 events, an edit of the project, 2 configurations, one fault | a session's ledger and its bundles |
| `spawn_race`, `separator`, `refused_handoff` | small | one violated statement each: see *Findings* |

The bounds are chosen for the hazards. A root, two levels and a fanout of two
make a cascade with both a sibling and a grandchild; two threads are all a race
of two operations needs, and the lock admits no third one; two agents separate a
ban from a revocation; two calls are the fewest with an open and a closed one at
a kill; a limit of two with four calls passes it, and two strikes are the fewest
that are not one. `MaxLog` bounds the entries before which an operation starts:
5 hold a root, two spawns, an action and a kill, 7 the life of two bound calls.
Two entries are the fewest with a gap, or with a torn line and an entry glued to
it; two lengths and a spool that holds three units let a short line fit where a
long one was dropped.

Two edits of a bundle are the fewest that undo each other's traces (an entry
rewritten and the chain rehashed, a tail cut and another anchor attached, an
envelope attached twice), and three forged entries after any beginning of the
history are the fewest for a second root, a child before its parent or a node
defined twice with a call under it. In `a2a` two messages make a chain of two
hops, a resend and a redelivery; a lifetime is one second, so a clock to 4 goes
past the three of `RemoteCallsEnd`, and seven nodes hold the client's, two
continued chains and a delegation in each. Adapters whose calls nest, or whose
hooks may take one call for another, have three calls; hand-offs, which
delegate more than once, have four nodes; google_adk, which replaces nodes all
the way up, has three agents. Three hooks are two writers and a reader.
Deadlock is not checked: a program that makes no call is done.

Threads and hook processes are interchangeable in the runs with `SYMMETRY`; none
of those checks liveness.

**Fairness.** `FairSpec` assumes only that a thread that holds the chain lock
keeps running: nothing in a cascade blocks but the append, which returns or
raises. It assumes nothing about who gets the lock or that callers call.
`LockReturned` follows: a cascade ends on every tree and by every exit. In
`Streaming`, the uploader's steps are weakly fair: `docs/STREAMING.md` asks for a
loop that retries until the endpoint confirms. Processes that write owe nothing.

**Processes that overlap.** With `Overlap = TRUE` two processes that start on one
path at once both find no ledger, and the second erases what the first wrote;
two sinks open on one spool each count only their own lines. `streaming` runs one
process at a time, so `LedgersAreKept` and `FilesLoadBack` speak of that case;
`VerifiedIsOneLog` is proved for both.

### The properties, briefly

* `PathNarrows`, `PathPermits`, `MeetIsGreatest`: against every authority above,
  and no bound or scope lost.
* `LoadsExactlyMints`, `LoadedPermitsNoMore`: of all chains the tokens of several
  mints can be put together to, exactly the minted ones load, and nothing is
  loosened by saying it in the other profile.
* `CascadeClosed`, `BannedHoldNothing`, `LedgerTellsRevocations`: revocation in
  the chain, by agent, and on the ledger.
* `LedgerContained`, `AllowsWithinAncestors`, `LedgerMonotone`: the verifier's
  checks on honest ledgers, and against every ancestor.
* `ImplementsAbstractGuard`: each step of the threads is one of the atomic
  service or none.
* `MeterExact`, `StrikesRevoke`: the counters at their limits.
* `DoneIsFinal`, `KillSnapshotExact`, `HonestBinding`: the chain's view of open
  calls, the ledger's and the verifier's are the same; the graph and the denials
  view leave out no call and no refusal.
* `VerifiedIsOneLog`, `FilesLoadBack`, `LedgersAreKept`: what a file that verifies
  is, when it is the whole log, and that restarts lose nothing.
* `SpoolIsAPrefix`, `SpoolIsDelivered`: overflow is for good, and each line arrives.
* `VerifiedIsExported`: under the producer's key or a retained anchor, exit 0 means
  the exported entries, all and no others; after one edit, the entry listed as
  breaking the chain is the first one touched.
* `WitnessedIsSigned`: an entry listed as witness-signed is the producer's, and
  the witness's key is trusted now by every not_after in the trust file, whichever
  of its shapes the file has.
* `ExportsVerify`: every export verifies, redacted or not, with honest envelopes.
* `AcceptedIsNarrowing`: a ledger accepted without any key, forged or not, is a
  tree of narrowing authority whose gated allows are within it; complete coverage
  of its parameters means each allow was carried out with those authorized, and
  its view ends.
* `ServedWithinCallers`, `HopsVerify`, `RemoteCallsEnd`: what is served, which
  ledgers prove which hop, and for how long.
* `BodiesAreAuthorized`, `DelegatedByCaller`: a body runs after an allow of its
  caller's own Guard, and children hang under the one that asked.
* `OutcomesAreTrue`, `ClosedOnceOver`, `ChildrenAreClosed`: what is told of a body
  is what it did; nothing over stays open. The adapters that are exempt, because
  they say so or because of a finding or an observation below, are named in
  `Ungated`, `LeftOpen` and `SharesWithRefused`.
* `RevokedStaysRevoked`: no later hand-off or turn revives an agent.
* `OneLedger`, `AnswersAreRecorded`, `StopsVerify`: the hook processes of a session.

### Findings

* `spawn_race`: delegate and revoke of the parent can log kill before spawn.
  `verify_bundle` then fails monotonicity on a ledger the library wrote (running
  the code with that interleaving gives "is spawned from ... after ... was
  revoked"). No authority escapes: the child is revoked with its parent
  (`CascadeClosed`) and nothing it does is allowed (`LedgerContained` holds).
* `separator`: `load` cuts lines with `str.splitlines`, which also cuts at U+0085,
  U+2028 and U+2029; RFC 8785 leaves those unescaped. A task with one of them
  makes `load` and `attenu-guard verify` raise on a ledger the library wrote
  (running the code shows it). `streaming` has no such text (`Separated = {}`).
* `refused_handoff`: ag2 records the allow of a delegation tool, with its
  promise, before `delegate`; a refusal leaves the call open for ever. So do
  autogen, agent_framework and haystack.

### Observations

Met while modelling; the models have them, and the properties are stated around
them or make them a premise.

*Lattice, chain, log.* Two `Prefix` ceilings under one key with different `field`s:
the longer prefix is kept with its own field (`ceilings.py:763`, `185-190`), so a
child may permit a context its parent denies; `PathPermits` and `NarrowerPermits`
hold where a key means one field. A ttl is counted from each node's own issue
(`chain.py:100`), so a child may outlive its parent, against
`docs/CONTROLS-MAPPING.md:10`. `ack()` rewrites the offset file in place
(`sinks.py:85`): a death inside leaves it empty, and every later `read_pending`
raises, where `docs/STREAMING.md:137` promises a resumed upload (`AckDies = TRUE`).

*Evidence.* With no key, a rehashed ledger verifies, by design. A bundle with
envelopes stops verifying when the witness's key expires. The verifier does not
ask that a kill's list be closed under descendants, and accepts an ungated allow
whose node is no string. After a spawn race `delegation_graph` shows a revoked node as
live, since it was not in the graph yet when its kill was read (`HonestBinding`
asks only that what is shown revoked is). `view` of a ledger that does not verify, in which a node
hangs below itself, does not end.

*A2A.* Tokens start a lifetime anew at each send and each delivery, so a remote
call may outlive the client's node by two ttl (`RemoteCallsEnd` says three in
all). `max_depth` and call limits start anew in each continued chain. To a
remote with an `audit_dir`, a second message in the same second, or a
redelivery, is refused as `chain_invalid` since the file exists, though
`a2a.py:850-852` says such hops land in one ledger; and a call whose `delegate` is
refused after `issue` leaves a file that refuses the retry. A task id used twice
overwrites `guards[task]`. A v2 binding cannot be reached through
`GuardedAgentExecutor`.

*Adapters.* openai_agents (251-269) and omnigent reuse the Guard an agent has,
so a second dispatcher's ceilings are not in it, though `handler.py:15-16` says a
child can never hold more than the agent that dispatched it. claude_sdk takes
pending delegations to one type of agent in order of arrival. crewai's
after-hook of a call may be of a refused call with the same argument object,
and concurrent delegations complete only the latest child. commerce-agents:
what a plain tool's body dispatches in turn is not asked about, where the
comment (248-255) speaks of the same call; executors a delegate builds are
unguarded without `install()`. langflow: a context callable that raises leaves no
entry. strands as an intervention, a cancelled body of astrbot or google_adk,
and claude_sdk after its verdicts were evicted leave calls pending. The
registries' `revoke(agent)` kills the newest node only. camel's `_pending_ref` is
one slot; openhands falls back to the root after `close()`; openai_agents records
nothing of arguments it cannot parse.

*Hooks.* An edit of the project in mid-session starts a second chain in the same
ledger, and no bundle of it verifies, though `hook.py:16-19` promises one. A
structure written in part counts as written. Two stops that both find no key
each make one, and one bundle is left with a key that is gone (`StopsVerify`
excludes it). A deny rule narrower than a held wildcard is not subtracted. An
fsync that fails after the write denies a call whose allow is on file. A line
left without its newline takes the next entry with it and ends the session's
ledger. The README of the hooks says revocation is the hard stop; no hook
revokes.

## What is proved

| Theorem | Statement | Argument |
|---|---|---|
| `NarrowerReflexive`, `NarrowerTransitive` | the offline relation is a preorder | ceiling by ceiling, in both profiles |
| `MeetIsAuthority`, `MeetIsNarrower` | the assertion in `add_child` never fails | the meet keeps only covered scopes; each `Narrow` is subsumed |
| `GreatestWithinBoth`, `MeetsAreGreatest` | nor does it lose a scope or a bound, along any path | pruning keeps the shortest scope that covers (`WFMin` over its length) |
| `NarrowerPermits` | narrower permits no more | where a key means one field |
| `PathsNarrow`, `PathsPermitLess` | the same along any path | `PathInv`: every element well formed, and narrower than those before it |
| `MintsLoadExactly` | of what the tokens of all mints can be put together to, a verifier loads exactly what it was minted | `TokenInv`; the parent hashes fix every token above a leaf |
| `LoadedChainsPermitNoMore` | a loaded chain permits no more than its path, in either profile | `ExpiriesFall`, `PathsPermitLess`'s lattice laws |
| `ServedAreWithinCallers` | what is served permits no more than any caller up the hops | `IInv` of `A2AProofs` |
| `RemoteCallsAreBounded` | no call is served later than three lifetimes after the client's node | `IInv` |
| `HopsVerifyExactly` | `verify_hop` accepts exactly the ledger that was begun with the tokens sent | `IInv`; a ledger's root holds its message |
| `Typed` | `TypeOK` | inductive |
| `CascadesClose`, `CascadesCover`, `BansHold` | revocation | `RevocationInv` |
| `StrikesEndInRevocation` | at the threshold, strikes revoke | `StrikeInv` |
| `DelegationAttenuates`, `AllowsAreWithinAncestors` | attenuation | `AuthorityInv` |
| `LedgersAreContained` | containment | `LedgerInv` |
| `KillsTellRevocations` | kill entries are the revocations | `KillInv` |
| `GuardsFollowTheLedger` | Guards and spawn entries | `SpawnInv` |
| `DoneEntriesAreFinal`, `KillsTellPending`, `MetersCountAllows`, `HonestLedgersBind` | nothing runs after `done`; a kill lists what is pending; meters are the allows; a Guard's own ledger passes the binding checks | `BindingInv` |
| `GuardImplementsService` | the refinement, where callers revoke ids of nodes that exist (`~AnyIdRevoked`) | one abstract step or stutter per action |
| `VerifiedFilesAreOneLog` | a verified file is one process's log, overlapping or not | `LogInv` |
| `LedgersKept` | the restart rule, without overlap | `LogInv`, `Alone` |
| `WrittenFilesLoad` | `load` returns the log, without overlap or separators | `FileFollows` |
| `SpoolsKeepPrefixes` | while no append raised, a process's spooled lines begin its log, whoever else writes | `LogInv`, `SpoolInv` |
| `BodiesRunOnOwnAllow`, `ChildrenHangBelowTheirCaller`, `LedgerTellsOutcomes` | all adapters: a body runs on an allow of its own call; a child hangs below its caller; outcomes are what happened | `AdapterInv` |
| `CallsOverAreSettled`, `ChildrenAreLeftClosed` | a call that is over is closed once, its children with it, but for the listed exceptions | `AdapterInv` |
| `RevocationByNameIsFinal` | what was revoked by name stays so (an action property) | `AdapterInv` |
| `VerifiedAreExported` | under the producer's key or a retained anchor, exit 0 means what was exported | `IInv` of `EvidenceProofs`; a hash determines the entries |
| `WitnessedAreSigned` | an entry listed as witnessed is one a trusted witness signed | `IInv` |
| `AcceptedAreNarrowing` | any accepted ledger, forged or not, is a tree of narrowing authority | none: of `LedgerOk` alone |
| `ExportsDoVerify` | an export verifies, redacted or not | `OInv`; what is accepted is accepted at every beginning of it |
| `SessionsHaveOneLedger` | the lines before any that does not parse are one chain; with no fault each derivation's part of it is accepted | `IInv` of `HooksProofs`; `ChainAccepted` |
| `SessionsRecordAnswers` | what the hook answered is on the ledger once, as decided, or a line is lost and all later calls are denied | `IInv`: an entry of a call is its hook's |
| `StoppedSessionsVerify` | a stop's bundle verifies if nothing failed, nothing was edited and no other stop made the key | relative to `IInv`; what was read is a beginning of the plan |

None of the invariants is inductive alone. On the Guard: `RevocationInv` adds
that the stack is empty when the lock is free, and what covers a child while it
is not: a child of a revoked node is revoked or on the stack, and an agent's
live nodes are on the stack or below a node on it. `StrikeInv` says that
strikes never pass the limit, and that a node which reached it is revoked or on
the stack of the sweep.
`LedgerInv` ties an allow's position to the kill entries: a kill names only
revoked nodes, so a check that finds its node not revoked comes after no kill of
it. `AuthorityInv` says that the parent of a created node is created and that
the node's authority is narrower than the parent's; the least closed set
`Ancestors` is then followed up one parent at a time. `KillInv` says that
`revoked` is what the ledger tells and what the running cascade has swept.
`SpawnInv` says that a node the ledger lacks is the subject of the one thread at
"spawned". `BindingInv` follows each call id from the counter that gave it to
its one allow, through `pending`, to at most one outcome, and counts the allows
of each node against its meter; the four properties about entries are read off
it. The refinement takes each action of `Guard` to a step of the abstract
service or to a stutter, over the invariants above and `ServiceInv`. Its
premise is real: ids come from a counter (`chain.py:84-85`), so a caller may
revoke an id before any node has it. The call raises `KeyError`, the id stays in
`_revoked`, and the node that later gets it is born revoked, which the abstract
service does not do.

On the log: `LogInv` says that each log verifies and each line of the file that
parses is an entry of some log: the last line of a verified file then fixes
every line before it, since an entry holds its history. `Alone` says that one
process runs, and that one which will not overwrite found no ledger;
`FileFollows` ties the file to the log of the running process at each step of an
append. `SpoolInv` numbers the lines of each process in the shared spool: the
n-th of them is the n-th entry of its log, and there are as many as it has
offered unless one was dropped (`Cardinality`, by `FS_AddElement`).

On the adapters: `AdapterInv` is `FrameInv` and one invariant per bridge. Most
of the proof is that every handler of the twenty adapters makes one of a few
*moves* on a call (it is refused, cleared, started, delegated, finished, cut
short), and that a move keeps `FrameInv`, which ties a call's stage to the
entries the abstract Guard holds of it. What one adapter keeps for itself has an
invariant of its own: under smolagents and camel only the manager waits to
delegate (`ManagerHands`); openhands binds a conversation it made, unless it was
refused, to a Guard of its agent (`OpenhandsInv`); each session of camel has a
reference to a Guard of its agent (`CamelInv`); under crewai a promised call
loses its slot only to one that shares its argument object with a refused one
(`CrewaiInv`); where the sub-agent runs inside the delegation, a child is of one
call, and only calls made within that call work on it and end before it
(`FamilyInv`); a name that was revoked stands for a killed node
(`RevokedKnown`).

On the tokens: `TokenInv` is `PathInv` and a bound on the path. Each token of a
mint holds the hash of the one above, so two mints that share a token share all
above it, and a chain that loads is a mint's as far as its leaf; `ExpiriesFall`
gives the check of lifetimes, and `IsMinted` says what a token carries of its
hop in the verifier's profile.

On A2A: `IInv` says of each node whether it is a root, with the message it began
with, or a child narrower than its parent in the same ledger; of each message in
the net that it is what some node was minted; and of a listing that it is no
later than the clock. Callers are an inductive union over hops; it is followed
by least counterexample over node ids, since a node's callers were made before
it.

On the evidence: a hash is what it covers, so the head determines the chain
(`HeadDetermines`), and an anchor its export. `IInv` says that the log and each
export verify; that what a witness signed is of an entry as written, masked or
not; that a signature of the producer or of a witness, wherever it was moved to, is over
something they made; and that a bundle edited once is its export up to a first
entry that is not linked, if any, which is the one the listing names.
`AcceptedAreNarrowing` needs no invariant but the shape of a bundle: the parents
of an accepted ledger's definitions come before them, so the graph is a tree
(`AcceptedIsTree`, by least counterexample), every subtree is closed, and the
lines drawn are the definitions. `ExportsDoVerify` adds that the log is the
history as far as written (`LogInv`) and where a bundle comes from
(`OriginInv`); each check of the verifier is then shown to hold of a beginning
of an accepted ledger that starts with its root, and to read nothing of a
task.

On the hooks: the file is never a ledger by itself while a process writes, so
`IInv` speaks of the *plan*: the lines that stay (`Pre` of them, the last one
excepted while its writer may still finish it) and after them what the holder of
the lock has still to write (`Todo`). A step of a write moves a line from the one
to the other and leaves the plan as it is; only taking the lock makes it longer,
and a failed write or a death cuts it. While no line that stays is garbled
(`Broken`), the plan tells one chain (`Told`), has each call's decision once
(`CallInv`, `AnswerInv`) and, with no fault, allows only nodes it has defined
before and has each derivation in full (`Gated`, `Complete`); once one is, what matters is only
that the lines before it are such a chain and that nobody gets past it. `Told`
and `Gated` hold of every beginning of a ledger they hold of, which is why a stop
may read without the lock; `ReadInv` keeps that for what it read. That a
verifier accepts a ledger of one derivation is `ChainAccepted`, check by check.

The theorems on `Guard` rest on the named assumptions of `Chain` and `Guard`,
the lattice laws among them; those on the log on the assumptions of `AuditLog`
and `Spool`, and `SpoolsKeepPrefixes` on `BootAssumption` (the boot
ids of the spool are the processes). Those on the adapters rest on `FrameworkAssumption` and
`NameAssumption`, which say what kind of thing the constants are. Those on the
lattice assume authorities that are well formed (`WellFormed`, -02 ceilings
included) and, where they speak of `Permits`, that a key means one field
(`KeysMeanFields`); those on tokens and hops assume the same of roots, requests,
grants and asks, that a mint has at most one audience and a key one name
(`MintsWellFormed`), and that calls ask for scopes in contexts
(`CallsWellFormed`). Those on the evidence rest on the assumptions of
`Evidence`. Of these `HonestAssumption` is the one with content: what the
producer's Guard writes is accepted by the verifier. It is what
`LedgersAreContained` and `HonestLedgersBind` prove of the Guard's own ledger,
where no spawn race happened, and TLC evaluates it on the history of the run.
Those on the hooks rest on the assumptions of `HookRoster` and `Hooks` (agents
have different names, rules name scopes, the acts are those the calls need), and
on two stated with the theorems, since they quantify over everything and TLC
cannot enumerate it: a line that does not parse is not an entry
(`GarbledIsNoEntry`), and no anchor is not a signed one (`NoAnchorIsNone`).
`CascadeCovered`, `GuardsAreLogged` and `Attenuated`, which
three of the theorems state, are in no run: they are what the checked invariants
rest on.

Only model-checked: `LockReturned` and `SpoolIsDelivered`, since liveness under
fairness is beyond the prover; every other property of a passing run is stated by
a theorem. The library's induction theorems take an operator, which the provers cannot
instantiate; where a proof needs induction over data (a path, a ledger, a tree of
callers), it takes a least counterexample instead (`LeastNumber`). A function of
two arguments is not supported either: `Evidence` closes a subtree as a least set
(`Subtree`), not as the closure of a relation. Nor is a LAMBDA: `HookRoster` picks
the elements of a sequence with a function (`Among`), not with `SelectSeq`.

## Plan

1. *Done*: lattice in both profiles, chain, guard, ledger, the abstract service
   and the refinement, log and spool, tokens, A2A, adapters, evidence and command
   line, hooks.
2. *Done*: the proofs about `Guard`, its refinement, the log and spool, the
   adapters, the tokens, A2A, the evidence and the hooks.
3. Power loss (`fsync`), several uploaders on one spool, strict metering and
   trusted totals in `Guard`.

## Not modelled

Canonical JSON, hashing, signatures and identity: conversions and cryptography,
seen only as appends that may fail. Parsing: of tokens, of `--witness-keys` JSON
beyond its shape, of agents' frontmatter. The reasons and wording of findings,
`redaction_report`: no state, and no verdict. Scenarios
and demos: fixed scripts over the API. `Chain.consume`: no operation of a Guard
calls it. Operator-registered ceilings: their code is the operator's. Streams and
argument snapshots of the adapters: copies of data. The frameworks themselves:
only the order in which they call back.
