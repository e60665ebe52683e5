----------------------------- MODULE MCRequests -----------------------------
(* What calls send, on small instances. *)
EXTENDS RequestsProperties, TLC

CONSTANTS c1, c2

MCSymmetry == Permutations(Calls)

Text(role, part) == [role |-> role, parts |-> <<part>>]

\* A conversation; no messages at all, with a cell to spare.
\* The client of the server posts the middle one as a list of parts.
MCShapes ==
  {[msgs |-> <<Text("system", "rules"), Text("user", "first"), Text("user", "last")>>,
    room |-> 0, listed |-> {2}],
   [msgs |-> <<>>, room |-> 1, listed |-> {}]}

\* A hook that edits in place; one that does not, and then one that does.
MCChains ==
  {<<[mark |-> "M1", inPlace |-> TRUE]>>,
   <<[mark |-> "M2", inPlace |-> FALSE], [mark |-> "M3", inPlace |-> TRUE]>>}

MCPrompts == [p \in Providers |-> IF p = 2 THEN "override" ELSE ""]

Tmpl(content, provider, model, position) ==
  [content |-> content, provider |-> provider, model |-> model, position |-> position]

MCLists ==
  {<<Tmpl("T1", Star, Star, "system"), Tmpl("T2", "p1", Star, "prepend_user")>>,
   <<Tmpl("T3", Star, "m2", "append_user")>>}

MCName == [p \in Providers |-> IF p = 2 THEN "p2" ELSE "p1"]
MCModel == [p \in Providers |-> IF p = 2 THEN "m2" ELSE "m"]

Well == [latency |-> 0, rate |-> 1000]
Slow == [latency |-> 1000, rate |-> 500]
Dead == [latency |-> 0, rate |-> 0]

Routing(r, available, h) ==
  [router |-> r, avail |-> available, health |-> h, counter |-> 0]

MCRoutings ==
  {Routing(BuildRouter("round-robin", ""), {1, 2}, <<Well, Well>>),
   [Routing(BuildRouter("round-robin", ""), {1, 2}, <<Well, Well>>) EXCEPT !.counter = Half + 1],
   Routing(BuildRouter("weighted", "latency"), {1, 2}, <<Slow, Well>>),
   Routing(BuildRouter("weighted", "success_rate"), {1}, <<Dead, Well>>),
   Routing(BuildRouter("random", ""), {1, 2}, <<Well, Well>>),
   Routing(BuildRouter("primary", ""), {}, <<Well, Well>>),
   Routing([strategy |-> "single", name |-> 2], {1, 2}, <<Well, Well>>)}

=============================================================================
