------------------------------- MODULE Hooks -------------------------------
(***************************************************************************)
(* The Claude Code hook at work                                            *)
(* (examples/integrations/claude_code/hooks_receipt/hook.py): every event  *)
(* of a session is a process of its own, which reads the project, takes    *)
(* the lock of the session's ledger, loads and verifies it, decides the    *)
(* call, appends, and answers; a process at a stop exports the ledger as a *)
(* bundle without the lock.  The project may be edited between two of      *)
(* them, a write may fail, and a process may be killed at any point.       *)
(*                                                                         *)
(* A line of the file is an entry or Garbled, which does not parse; the    *)
(* last may lack its newline, and then the next is glued to it.  The       *)
(* "call" of an entry is the hook that wrote it, a ghost: no entry of      *)
(* schema_version 1 carries one.  The key file is replaced in one step.    *)
(***************************************************************************)
EXTENDS Bundle, HookRoster

CONSTANTS
  Procs,      \* the hook processes, one per event
  Calls,      \* the payloads: [event, agent, tool, target]
  Declared,   \* the declarations the project may have, by a name
  Initially,  \* those the session finds
  Configs,    \* config.json: [enforce, main, export]
  Acts,       \* the scopes the calls need
  Garbled, NoOne,
  MaxFaults   \* bound

ASSUME ProcsAssumption == NoOne \notin Procs
ASSUME ActsAssumption ==
  /\ {ScopeForTool(c.tool, c.target) : c \in {x \in Calls : x.event = "PreToolUse"}} \subseteq Acts
  /\ Acts \subseteq Seq(STRING) \ {<<>>}
  /\ \A scopes \in SUBSET Acts : Unreadable # scopes
ASSUME DeclaredAssumption ==
  Initially \in DOMAIN Declared /\ \A r \in DOMAIN Declared : IsProject(Declared[r])

VARIABLES
  roster,    \* how the project is declared now, of DOMAIN Declared
  edited,    \* whether it was edited during the session
  config,
  file,      \* the lines of the ledger
  ended,     \* whether the last of them has its newline
  exists,    \* whether there is a ledger file
  holder,    \* the process that holds its lock
  key,       \* the anchor key on disk
  hook,      \* what each process is doing
  faults     \* writes failed and processes killed

vars == <<roster, edited, config, file, ended, exists, holder, key, hook, faults>>
disk == <<file, ended, exists>>
project == <<roster, edited, config>>

Idle ==
  [pc |-> "idle", call |-> NoOne, seen |-> NoOne, todo |-> <<>>, begun |-> "no", answer |-> "none",
   entries |-> <<>>, key |-> NoOne, report |-> "none"]

Init ==
  /\ roster = Initially /\ edited = FALSE /\ config \in Configs
  /\ file = <<>> /\ ended = TRUE /\ exists = FALSE
  /\ holder = NoOne /\ key = NoOne
  /\ hook = [p \in Procs |-> Idle]
  /\ faults = 0

-----------------------------------------------------------------------------
(* A chain id is the digest of the derivation, told by the first name with *)
(* that digest.                                                            *)
ChainId ==
  [r \in DOMAIN Declared |->
     CHOOSE n \in DOMAIN Declared : Digest(Declared[n]) = Digest(Declared[r])]

ActsWithin(scopes) == {a \in Acts : PermitsScope(scopes, a)}
Session == [r \in DOMAIN Declared |-> ActsWithin(RootScopes(Declared[r]))]
Agents == [r \in DOMAIN Declared |-> DOMAIN Declared[r].agents]
Held ==
  [r \in DOMAIN Declared |-> [n \in Agents[r] |-> ActsWithin(HeldScopes(Declared[r], n))]]

Body(r) ==
  [v |-> 1, chain |-> ChainId[r], event |-> "root", node |-> "", parent |-> "", auth |-> {},
   act |-> <<>>, call |-> NoOne, revoked |-> {}, state |-> "", params |-> "",
   members |-> {}, malformed |-> {}]

(* _build_chain: a root for the session, and one node per declared agent, *)
(* in the order of their names.                                           *)
Structure(r) ==
  <<[Body(r) EXCEPT !.auth = Session[r]]>>
    \o [i \in DOMAIN AgentsOf(Declared[r]) |->
          LET n == AgentsOf(Declared[r])[i]
          IN  [Body(r) EXCEPT !.event = "spawn", !.node = n, !.auth = Held[r][n]]]

(* decide: an agent that is not declared holds nothing, and its denial is *)
(* the session's.                                                         *)
Allowed(r, call) ==
  LET scope == ScopeForTool(call.tool, call.target)
  IN  \/ call.agent = "" /\ scope \in Session[r]
      \/ call.agent \in Agents[r] /\ scope \in Held[r][call.agent]

Denied(r, call) == ~Allowed(r, call) /\ config.enforce /\ (call.agent = "" => config.main)

Decision(r, call, p) ==
  [Body(r) EXCEPT !.event = IF Allowed(r, call) THEN "allow" ELSE "deny",
                  !.node = IF call.agent \in Agents[r] THEN call.agent ELSE "",
                  !.act = ScopeForTool(call.tool, call.target), !.call = p]

Readable(lines) == Garbled \notin ToSet(lines)

(* Mutant of NewBodies: a call does not write the structure. *)
NewBodiesBare(r, call, p) ==
  IF call.event = "PreToolUse" THEN <<Decision(r, call, p)>> ELSE Structure(r)

(* What a process adds to the ledger it loaded: the structure of its chain *)
(* if no entry is of it yet, and its decision.                             *)
NewBodies(r, call, p) ==
  (IF \E i \in DOMAIN file : file[i].body.chain = ChainId[r] THEN <<>> ELSE Structure(r))
    \o (IF call.event = "PreToolUse" THEN <<Decision(r, call, p)>> ELSE <<>>)

(* rechain, after the entries that are there. *)
Rechained(bodies) ==
  HashedAfter(HeadHash(file), [i \in DOMAIN bodies |-> Entry(Len(file) + i - 1, bodies[i])])

-----------------------------------------------------------------------------
Done(p, answer) ==
  [hook EXCEPT ![p].pc = "done", ![p].answer = answer, ![p].todo = <<>>, ![p].begun = "no",
               ![p].entries = <<>>]

(* The project is derived before the lock is asked for. *)
Start(p, call) ==
  /\ hook[p].pc = "idle"
  /\ hook' = [hook EXCEPT ![p].pc = IF call.event = "Stop" THEN "export" ELSE "ready",
                          ![p].call = call, ![p].seen = roster]
  /\ UNCHANGED <<project, disk, holder, key, faults>>

EditRoster ==
  /\ ~edited
  /\ edited' = TRUE
  /\ roster' \in DOMAIN Declared \ {roster}
  /\ UNCHANGED <<config, disk, holder, key, hook, faults>>

Fault ==
  /\ faults < MaxFaults
  /\ faults' = faults + 1

(* An exception of the derivation, or an OSError of the lock: nothing is   *)
(* recorded, and a call is denied.                                         *)
Fails(p) ==
  /\ hook[p].pc = "ready" /\ Fault
  /\ hook' = Done(p, "fail")
  /\ UNCHANGED <<project, disk, holder, key>>

(* Mutant of Locked: the lock is not exclusive. *)
LockedShared(p) == holder' = p

Locked(p) == holder = NoOne /\ holder' = p

(* Ledger.__enter__ and load; what is to be written is settled here, under *)
(* the lock.                                                               *)
Lock(p) ==
  LET h == hook[p]
      todo == Rechained(NewBodies(h.seen, h.call, p))
  IN  /\ h.pc = "ready"
      /\ Readable(file) /\ ChainVerifies(file)
      /\ Locked(p)
      /\ hook' = [hook EXCEPT ![p].pc = "writing", ![p].todo = todo]
      /\ exists' = (exists \/ todo # <<>>)
      /\ UNCHANGED <<project, file, ended, key, faults>>

(* A ledger that does not parse or verify is not appended to. *)
Refuse(p) ==
  /\ hook[p].pc = "ready" /\ holder = NoOne
  /\ ~(Readable(file) /\ ChainVerifies(file))
  /\ hook' = Done(p, "fail")
  /\ UNCHANGED <<project, disk, holder, key, faults>>

-----------------------------------------------------------------------------
(* append: part of a line is on disk before the rest is. *)
BeginLine(p) ==
  /\ hook[p].pc = "writing" /\ hook[p].todo # <<>> /\ hook[p].begun = "no"
  /\ \/ /\ ended
        /\ \E line \in {Garbled, Head(hook[p].todo)} : file' = Append(file, line)
        /\ hook' = [hook EXCEPT ![p].begun = "own"]
     \/ /\ ~ended
        /\ file' = [file EXCEPT ![Len(file)] = Garbled]
        /\ hook' = [hook EXCEPT ![p].begun = "glued"]
  /\ ended' = FALSE
  /\ UNCHANGED <<project, exists, holder, key, faults>>

EndLine(p) ==
  /\ hook[p].begun # "no" /\ hook[p].pc = "writing"
  /\ file' = IF hook[p].begun = "own" THEN [file EXCEPT ![Len(file)] = Head(hook[p].todo)] ELSE file
  /\ ended' = TRUE
  /\ hook' = [hook EXCEPT ![p].todo = Tail(@), ![p].begun = "no"]
  /\ UNCHANGED <<project, exists, holder, key, faults>>

(* What a hook that is done tells: {} or a denial. *)
Verdict(h) == IF h.call.event = "PreToolUse" /\ Denied(h.seen, h.call) THEN "deny" ELSE "pass"

Unlock(p) == holder' = IF holder = p THEN NoOne ELSE holder

(* Mutant of WriteFails: the failure is not told. *)
WriteFailsOpen(p) ==
  /\ hook[p].pc = "writing" /\ Fault
  /\ hook' = Done(p, Verdict(hook[p]))
  /\ Unlock(p)
  /\ UNCHANGED <<project, disk, key>>

(* An OSError of a write, of the flush or of fsync: whatever of the lines  *)
(* is on disk stays, and the call is denied.                               *)
WriteFails(p) ==
  /\ hook[p].pc = "writing" /\ Fault
  /\ hook' = Done(p, "fail")
  /\ Unlock(p)
  /\ UNCHANGED <<project, disk, key>>

(* The lock is released, and the decision answered. *)
Answer(p) ==
  /\ hook[p].pc = "writing" /\ hook[p].todo = <<>>
  /\ hook' = Done(p, Verdict(hook[p]))
  /\ Unlock(p)
  /\ UNCHANGED <<project, disk, key, faults>>

(* The process is killed (a hook has ten seconds) and the kernel frees its *)
(* lock.  One that is killed elsewhere leaves no trace.                    *)
Die(p) ==
  /\ hook[p].pc = "writing" /\ Fault
  /\ hook' = Done(p, "none")
  /\ Unlock(p)
  /\ UNCHANGED <<project, disk, key>>

-----------------------------------------------------------------------------
(* A stop: export_evidence loads the ledger, without its lock, and         *)
(* signer_for the key; a line that does not parse makes it fail.           *)
ExportRead(p) ==
  /\ hook[p].pc = "export"
  /\ IF ~(config.export /\ exists) THEN hook' = Done(p, "pass")
     ELSE IF ~Readable(file) THEN hook' = Done(p, "fail")
     ELSE hook' = [hook EXCEPT ![p].pc = IF key = NoOne THEN "key" ELSE "verify",
                               ![p].entries = file, ![p].key = key]
  /\ UNCHANGED <<project, disk, holder, key, faults>>

(* signer_for found no key, and makes one. *)
ExportKey(p) ==
  /\ hook[p].pc = "key"
  /\ key' = p
  /\ hook' = [hook EXCEPT ![p].pc = "verify", ![p].key = p]
  /\ UNCHANGED <<project, disk, holder, faults>>

(* verify_bundle of the bundle exported, under the key that is there now. *)
Verifies(es, signer) ==
  LET b == BundleOf(es, AnchorFor(es, signer), <<>>)
  IN  LedgerOk(b) /\ AnchorVerifies(es, b.anchor, key)

(* The report tells the number of entries and the verdict. *)
ExportVerify(p) ==
  LET es == hook[p].entries
  IN  /\ hook[p].pc = "verify"
      /\ hook' = [Done(p, "pass") EXCEPT
                    ![p].report = IF es = <<>> THEN "empty"
                                  ELSE IF Verifies(es, hook[p].key) THEN "verifies" ELSE "fails"]
      /\ UNCHANGED <<project, disk, holder, key, faults>>

Next ==
  \/ EditRoster
  \/ \E p \in Procs :
       \/ \E call \in Calls : Start(p, call)
       \/ Fails(p) \/ Lock(p) \/ Refuse(p)
       \/ BeginLine(p) \/ EndLine(p) \/ WriteFails(p) \/ Answer(p)
       \/ Die(p)
       \/ ExportRead(p) \/ ExportKey(p) \/ ExportVerify(p)

Spec == Init /\ [][Next]_vars

-----------------------------------------------------------------------------
(* Whatever processes interleave, fail or are killed in, the lines of the  *)
(* ledger before any that does not parse are one chain, which holds every  *)
(* derivation once; and with no fault the entries of each derivation,      *)
(* chained on their own, are a ledger that verifies.                       *)
Ledger ==
  LET garbled == {i \in DOMAIN file : file[i] = Garbled}
  IN  IF garbled = {} THEN file ELSE SubSeq(file, 1, Min(garbled) - 1)

OneLedger ==
  /\ ChainVerifies(Ledger)
  /\ \A chain \in {e.body.chain : e \in ToSet(Ledger)} :
       LET es == Among(Ledger, {e \in ToSet(Ledger) : e.body.chain = chain})
           bodies == [i \in DOMAIN es |-> es[i].body]
       IN  /\ bodies[1].event = "root"
           /\ \A i, j \in DOMAIN bodies :
                (i # j /\ bodies[i].event \in {"root", "spawn"}) => bodies[i] # bodies[j]
           /\ faults = 0 => LedgerOk(BundleOf(Chained(bodies), NoAnchor, <<>>))

(* A tool call the hook lets through or denies by decision is on the       *)
(* ledger, once, as it was decided on the project as the hook read it; a   *)
(* subagent that is let through under enforcement holds the scope, within  *)
(* what the project declares for it.  Only the newline of a line that a    *)
(* failed write left out can take an entry with it, and then every later   *)
(* call of the session is denied.                                          *)
AnswersAreRecorded ==
  \A p \in Procs :
    LET h == hook[p]
        mine == {i \in DOMAIN Ledger : Ledger[i].body.call = p}
    IN  (h.pc = "done" /\ h.answer \in {"pass", "deny"} /\ h.call.event = "PreToolUse") =>
          /\ h.answer = "deny" => config.enforce
          /\ \/ /\ Cardinality(mine) = 1
                /\ \A i \in mine :
                     LET b == Ledger[i].body
                     IN  /\ b.chain = ChainId[h.seen]
                         /\ h.answer = "deny" => b.event = "deny"
                         /\ (h.answer = "pass" /\ config.enforce /\ h.call.agent # "") =>
                              /\ b.event = "allow" /\ h.call.agent \in Agents[h.seen]
                              /\ PermitsScope(AgentScopes(Declared[h.seen], h.call.agent), b.act)
                              /\ b.act \in Session[h.seen]
             \/ faults > 0 /\ ~Readable(file)

(* The bundle of a stop verifies, whatever the hooks of other calls were   *)
(* writing when it read the ledger, if the project was not edited, nothing *)
(* failed, an entry was there to read, and no other stop made the key.     *)
StopsVerify ==
  \A p \in Procs :
    (/\ ~edited /\ faults = 0
     /\ \A q \in Procs \ {p} : hook[q].key # q) => hook[p].report # "fails"
=============================================================================
