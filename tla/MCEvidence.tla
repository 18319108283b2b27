----------------------------- MODULE MCEvidence -----------------------------
(***************************************************************************)
(* A chain of two nodes whose child makes one call, and the bodies an      *)
(* editor puts in its place: wider grants, a second root, a node twice, a  *)
(* revoked parent, calls outside the authority, ungated or unbound, and    *)
(* members that are missing, misplaced or malformed.                       *)
(***************************************************************************)
EXTENDS Evidence, TLC

CONSTANTS w1, w2

Plain ==
  [v |-> 2, chain |-> "c", event |-> "done", node |-> "n0", parent |-> "", auth |-> {}, act |-> "",
   call |-> "", revoked |-> {}, state |-> "", params |-> "", task |-> "", members |-> {},
   malformed |-> {}]

Root(auth) ==
  [Plain EXCEPT !.event = "root", !.auth = auth, !.task = "t", !.members = {"params_salt"}]
Spawn(node, parent, auth) ==
  [Plain EXCEPT !.event = "spawn", !.node = node, !.parent = parent, !.auth = auth, !.task = "t"]
Allow(node, act) ==
  [Plain EXCEPT !.event = "allow", !.node = node, !.act = act, !.call = "k", !.params = "p",
                !.members = {"call_id", "capture", "adapter", "authorized_params_hash"}]
Outcome(node, params) ==
  [Plain EXCEPT !.event = "outcome", !.node = node, !.call = "k", !.state = "returned",
                !.params = params,
                !.members = {"call_id", "body_state", "duration_ms", "invoked_params_hash"}]
Kill(nodes) == [Plain EXCEPT !.event = "kill", !.revoked = nodes]

MCHistory ==
  <<Root({"r", "w"}), Spawn("n1", "n0", {"r"}), Allow("n1", "r"), Outcome("n1", "p")>>

MCBodies ==
  {Root({"r"}), [Root({"r"}) EXCEPT !.v = 1, !.members = {}],
   Spawn("n1", "n0", {"r"}), Spawn("n1", "n0", {"r", "w"}), Spawn("n2", "n1", {"w"}),
   Spawn("n1", "n0", Unreadable), Spawn("n0", "n1", {"r"}), Kill({"n1"}),
   Allow("n1", "r"), Allow("n2", "w"), [Allow("n0", "w") EXCEPT !.members = @ \cup {"policy"}],
   [Allow("n1", "r") EXCEPT !.malformed = {"adapter"}],
   Outcome("n1", "p"), Outcome("n1", "q"), [Plain EXCEPT !.event = "other"],
   [Plain EXCEPT !.event = "deny", !.call = "k", !.members = {"call_id", "policy"}]}

MCWitnesses == {w1, w2}

(* Of two witnesses the verifier trusts one: in each of the files it may    *)
(* give, until time 1 or for good.                                          *)
Row(until) == [kid |-> w1, until |-> until, known |-> TRUE]
File(shape, rows, until) == [shape |-> shape, rows |-> rows, until |-> until]

MCTrustFiles ==
  {NoTrustFile, File("missing", <<>>, Never), File("other", <<>>, Never),
   File("rows", <<Row(1)>>, Never), File("case", <<Row(Never)>>, Never),
   File("document", <<Row(Never)>>, 1), File("case", <<Row(Never)>>, 1),
   File("rows", <<Row(1), Row(Never)>>, Never),
   File("rows", <<[Row(1) EXCEPT !.known = FALSE]>>, Never)}
=============================================================================
