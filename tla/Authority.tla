----------------------------- MODULE Authority -----------------------------
(***************************************************************************)
(* The authority lattice (src/attenu_guard/authority.py) with the built-in *)
(* ceilings of the default -01 profile (ceilings.py) and the generic ones  *)
(* of the -02 profile (draft02.py).                                        *)
(*                                                                         *)
(* A scope is its dot-separated segments and whether it ends in ".*".  A   *)
(* text is a sequence, compared by prefix only.  A value of a request      *)
(* context is its JSON kind and what it holds: a ceiling refuses a value   *)
(* of a kind it does not compare.  The ceilings of an authority are a      *)
(* function of their key, since construction refuses two under one key     *)
(* (-02: under one key and type, which is then what a key stands for).     *)
(* The totals -02 passes beside the context are fields of it that no other *)
(* ceiling reads.                                                          *)
(***************************************************************************)
EXTENDS Integers, Sequences, SequencesExt

Nul == "NUL"   \* the character Prefix.narrow joins incomparable prefixes with

(* An opaque scope of -02 is one segment, which no wildcard covers. *)
Scope(path, wild) == [path |-> path, wild |-> wild]

(* A string, a number, and a value of another JSON kind. *)
Text(text)     == [kind |-> "string", text |-> text]
Number(number) == [kind |-> "number", number |-> number]
Other(kind)    == [kind |-> kind]

(* The constructors of the built-in ceilings; RowLimit and SpendCap are     *)
(* both "max", told apart by their key.                                     *)
Maximum(field, bound) == [kind |-> "max", field |-> field, bound |-> bound]
CallLimit(field, bound, applies) ==
  [kind |-> "calls", field |-> field, bound |-> bound, applies |-> applies]
EgressRank(level)       == [kind |-> "rank", field |-> "egress", level |-> level]
Allow(field, members)   == [kind |-> "allow", field |-> field, members |-> members]
Deny(field, members)    == [kind |-> "deny", field |-> field, members |-> members]
Prefix(field, prefix)   == [kind |-> "prefix", field |-> field, prefix |-> prefix]
UnknownCeiling(raw)     == [kind |-> "unknown", field |-> "-", raw |-> raw]

(* Of -02: a minimum, a bound on a running total ("lifetime" or "subtree"), *)
(* and a bound on the place in an order the constraint itself carries.      *)
Minimum(field, bound) == [kind |-> "min", field |-> field, bound |-> bound]
Total(kind, field, bound, applies) ==
  [kind |-> kind, field |-> field, bound |-> bound, applies |-> applies]
Ranked(field, order, bound) ==
  [kind |-> "ranked", field |-> field, order |-> order, bound |-> bound]

Cumulative == {"lifetime", "subtree"}
Counted    == {"calls"} \cup Cumulative
Caps       == {"max"} \cup Counted

(* ttl is {} (None) or {seconds}; ceilings maps keys to ceilings. *)
Grant(scopes, ceilings, ttl) ==
  [scopes |-> scopes, ceilings |-> ceilings, ttl |-> ttl]

-----------------------------------------------------------------------------
(* Scopes *)

(* _scope_covers_01: equal, or under the held wildcard's dotted boundary. *)
Covers(held, requested) ==
  \/ held = requested
  \/ held.wild /\ IsStrictPrefix(held.path, requested.path)

CoversScope(a, s) == \E h \in a.scopes : Covers(h, s)

(* What each side holds that the other covers, less what a wildcard kept    *)
(* beside it makes redundant.                                               *)
RequestedScopes(a, b) == {s \in b.scopes : CoversScope(a, s)}   \* mutant: one side only
CommonScopes(a, b) ==
  {s \in b.scopes : CoversScope(a, s)} \cup {s \in a.scopes : CoversScope(b, s)}
MeetScopes(a, b) ==
  {s \in CommonScopes(a, b) :
     ~\E w \in CommonScopes(a, b) : w.wild /\ w # s /\ Covers(w, s)}

-----------------------------------------------------------------------------
(* Ceilings *)
Scalar == {"string", "number", "boolean"}

(* _egress_rank: an unlisted rank is above every one listed. *)
RankOf(text) ==
  IF text = <<"none">> THEN 0
  ELSE IF text = <<"internal">> THEN 1
  ELSE IF text = <<"any">> THEN 2 ELSE 3

(* A ceiling of each type admits the value the context declares. *)
Admits(c, v) ==
  \/ c.kind \in Caps /\ v.kind = "number" /\ v.number <= c.bound
  \/ c.kind = "min" /\ v.kind = "number" /\ v.number >= c.bound
  \/ /\ c.kind = "ranked" /\ v.kind = "string"
     /\ \E i \in DOMAIN c.order : i <= c.bound /\ c.order[i] = v.text
  \/ c.kind = "rank" /\ v.kind = "string" /\ RankOf(v.text) <= RankOf(c.level)
  \/ c.kind = "allow" /\ v.kind \in Scalar /\ v \in c.members
  \/ c.kind = "deny" /\ v.kind \in Scalar /\ v \notin c.members
  \/ c.kind = "prefix" /\ v.kind = "string" /\ IsPrefix(c.prefix, v.text)

(* The value of the field the ceiling reads: none when absent or null. *)
Declared(c, ctx) ==
  {v \in {ctx[f] : f \in {c.field} \cap DOMAIN ctx} : v.kind # "null"}

AppliesTo(c, s) == \A p \in c.applies : Covers(p, s)

(* Ceiling.permits.  An unknown ceiling denies whatever it is asked, and a  *)
(* bound on a total denies where no total is held.                          *)
CeilingPermits(c, s, ctx) ==
  \/ c.kind \in Counted /\ ~AppliesTo(c, s)
  \/ /\ c.kind # "unknown"
     /\ c.kind \in Cumulative => Declared(c, ctx) # {}
     /\ \A v \in Declared(c, ctx) : Admits(c, v)

(* Ceiling.narrow, of two ceilings of one type (and order). *)
Least(m, n) == IF m <= n THEN m ELSE n
Greatest(m, n) == IF m <= n THEN n ELSE m
NarrowPrefix(a, b) ==
  IF IsPrefix(b.prefix, a.prefix) THEN a
  ELSE IF IsPrefix(a.prefix, b.prefix) THEN b
  ELSE [a EXCEPT !.prefix = a.prefix \o <<Nul>> \o b.prefix]
Narrow(a, b) ==
  CASE a.kind \in Caps \cup {"ranked"} -> [a EXCEPT !.bound = Least(a.bound, b.bound)]
    [] a.kind = "min" -> [a EXCEPT !.bound = Greatest(a.bound, b.bound)]
    [] a.kind = "rank" -> IF RankOf(a.level) <= RankOf(b.level) THEN a ELSE b
    [] a.kind = "allow" -> [a EXCEPT !.members = a.members \cap b.members]
    [] a.kind = "deny" -> [a EXCEPT !.members = a.members \cup b.members]
    [] a.kind = "prefix" -> NarrowPrefix(a, b)
    [] OTHER -> a

(* Ceiling.subsumes: a admits at least what b does. *)
Subsumes(a, b) ==
  /\ a.kind = b.kind
  /\ \/ a.kind \in Caps /\ a.bound >= b.bound
     \/ a.kind = "min" /\ a.bound <= b.bound
     \/ a.kind = "ranked" /\ a.order = b.order /\ a.bound >= b.bound
     \/ a.kind = "rank" /\ RankOf(a.level) >= RankOf(b.level)
     \/ a.kind = "allow" /\ b.members \subseteq a.members
     \/ a.kind = "deny" /\ a.members \subseteq b.members
     \/ a.kind = "prefix" /\ IsPrefix(a.prefix, b.prefix)
     \/ a.kind = "unknown" /\ a.raw = b.raw

-----------------------------------------------------------------------------
(* Authorities *)
Keys(a) == DOMAIN a.ceilings

(* Two types, or two rank orders, under one key: neither narrows the other. *)
SameType(c, d) ==
  /\ c.kind = d.kind
  /\ c.kind = "ranked" => c.order = d.order

(* meet raises AuthorityError on those.  A parent's unknown ceiling is the  *)
(* exception: it is kept, and denies.                                       *)
Meetable(a, b) ==
  \A k \in Keys(a) \cap Keys(b) :
    SameType(a.ceilings[k], b.ceilings[k]) \/ a.ceilings[k].kind = "unknown"

RequestedCeilings(a, b) ==   \* mutant: a ceiling only the parent holds is lost
  [k \in Keys(b) |->
     IF k \notin Keys(a) THEN b.ceilings[k] ELSE Narrow(a.ceilings[k], b.ceilings[k])]
MeetCeilings(a, b) ==
  [k \in Keys(a) \cup Keys(b) |->
     IF k \notin Keys(b) THEN a.ceilings[k]
     ELSE IF k \notin Keys(a) THEN b.ceilings[k]
     ELSE Narrow(a.ceilings[k], b.ceilings[k])]

RequestedTtl(a, b) == IF b.ttl # {} THEN b.ttl ELSE a.ttl   \* mutant: the request decides
MeetTtl(a, b) == {n \in a.ttl \cup b.ttl : \A m \in a.ttl \cup b.ttl : n <= m}

(* Authority.meet, of the parent and the request. *)
Meet(a, b) == Grant(MeetScopes(a, b), MeetCeilings(a, b), MeetTtl(a, b))

(* Authority.is_narrower_than: a <= b. *)
IsNarrowerThan(a, b) ==
  /\ \A s \in a.scopes : CoversScope(b, s)
  /\ \A k \in Keys(b) : k \in Keys(a) /\ Subsumes(b.ceilings[k], a.ceilings[k])
  /\ \A n \in b.ttl : \E m \in a.ttl : m <= n

(* Authority.permits *)
Permits(a, s, ctx) ==
  /\ CoversScope(a, s)
  /\ \A k \in Keys(a) : CeilingPermits(a.ceilings[k], s, ctx)
=============================================================================
