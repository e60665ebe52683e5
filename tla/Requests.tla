------------------------------ MODULE Requests ------------------------------
(***************************************************************************)
(* What a call sends: the copies of the caller's request, the templates    *)
(* of the prompt injector (internal/engine/prompt.go), the hooks and the   *)
(* providers' own prompts that change them, on their way to the providers  *)
(* that the router picks.                                                  *)
(*                                                                         *)
(* Several calls are made with one request at the same time, and share     *)
(* the array behind its Messages.  A slice either is that array or, after  *)
(* a copy, has an array of its own, which nobody else sees.  The content   *)
(* of a message is the sequence of the pieces it was put together from.    *)
(* A call "post" is a chat that came in through the HTTP server.           *)
(* Slots, retries, results and closing are the subject of module Calls.    *)
(***************************************************************************)
EXTENDS Routers

CONSTANTS
  Calls,
  Kinds,       \* of calls: "chat", "post", "fallback", "dual", "audit"
  Shapes,      \* of requests: their messages, the cells left behind them, and
               \* which messages a client posts as a list of parts
  Chains,      \* of hooks, each with its mark and whether it edits in place
  Prompts,     \* the initial system prompt of each provider, "" for none
  Lists,       \* of templates, as given to the injector
  Routings,    \* routers, with what they may see: availability and health
  Name, Model, \* of each provider
  Star         \* the pattern that matches everything

\* Messages, hooks and templates come in sequences.
ASSUME RequestsAssumption ==
  /\ \A s \in Shapes : s.msgs \in Seq(Range(s.msgs)) /\ s.room \in Nat
  /\ \A ch \in Chains : ch \in Seq(Range(ch)) /\ \A i \in DOMAIN ch : ch[i].inPlace \in BOOLEAN
  /\ \A l \in Lists : l \in Seq(Range(l))

Roles == {"system", "user"}
Turns == 1..N    \* the places in the order of a call
NoMessage == [role |-> "user", parts |-> <<>>]

VARIABLES
  router, avail, health, counter,
  cells,      \* the array behind the caller's Messages
  given,      \* his messages
  listed,     \* those that are a list of parts when posted
  chain,      \* of hooks
  templates,  \* those of the injector
  prompt,     \* of each provider
  edits,      \* how often these three were replaced while calls run
  kind, at,
  degraded,   \* the dual calls that found one provider only
  base,       \* of each call, its request
  ran,        \* the hooks it has run
  order,      \* the providers it asks
  leg         \* of each call and turn, the copy on its way to that provider

routing == <<router, avail, health, counter>>
config == <<given, listed, chain, templates, prompt, edits>>
requestVars == <<routing, cells, config, kind, at, degraded, base, ran, order, leg>>

-----------------------------------------------------------------------------
(* Slices *)

Shared(len) == [own |-> FALSE, len |-> len, msgs |-> <<>>]
Own(msgs) == [own |-> TRUE, len |-> Len(msgs), msgs |-> msgs]

\* A view is a slice together with the array of the caller.
View(s) == [slice |-> s, cells |-> cells]

Messages(v) == IF v.slice.own THEN v.slice.msgs ELSE SubSeq(v.cells, 1, v.slice.len)

\* v.Messages[i].Content = ...
Edited(v, i, parts) ==
  IF v.slice.own
    THEN [v EXCEPT !.slice.msgs[i].parts = parts]
    ELSE [v EXCEPT !.cells[i].parts = parts]

\* append: in the cell behind the slice if there is one.
Appended(v, m) ==
  IF ~v.slice.own /\ v.slice.len < Len(v.cells)
    THEN [slice |-> Shared(v.slice.len + 1), cells |-> [v.cells EXCEPT ![v.slice.len + 1] = m]]
    ELSE [v EXCEPT !.slice = Own(Append(Messages(v), m))]

\* Mutant: the copy keeps the array.
ShallowClone(v) == v

\* Clone copies the messages, if there are any.
Clone(v) == IF Messages(v) = <<>> THEN v ELSE [v EXCEPT !.slice = Own(Messages(v))]

-----------------------------------------------------------------------------
(* The prompt injector *)

matchWildcard(pattern, value) == pattern \in {"", Star, value}

Places(v, role) == {i \in DOMAIN Messages(v) : Messages(v)[i].role = role}

Before(v, i, content) == Edited(v, i, <<content>> \o Messages(v)[i].parts)
Behind(v, i, content) == Edited(v, i, Messages(v)[i].parts \o <<content>>)

injectSystem(v, content) ==
  IF Places(v, "system") # {}
    THEN Before(v, Min(Places(v, "system")), content)
    ELSE [v EXCEPT !.slice = Own(<<[role |-> "system", parts |-> <<content>>]>> \o Messages(v))]

injectPrependUser(v, content) ==
  IF Places(v, "user") # {}
    THEN Before(v, Min(Places(v, "user")), content)
    ELSE Appended(v, [role |-> "user", parts |-> <<content>>])

injectAppendUser(v, content) ==
  IF Places(v, "user") # {}
    THEN Behind(v, Max(Places(v, "user")), content)
    ELSE Appended(v, [role |-> "user", parts |-> <<content>>])

Matches(tmpl, p) == matchWildcard(tmpl.provider, Name[p]) /\ matchWildcard(tmpl.model, Model[p])

InjectOne(v, tmpl) ==
  CASE tmpl.position = "prepend_user" -> injectPrependUser(v, tmpl.content)
    [] tmpl.position = "append_user" -> injectAppendUser(v, tmpl.content)
    [] OTHER -> injectSystem(v, tmpl.content)

Inject(v, p) ==
  FoldLeft(LAMBDA w, tmpl : IF Matches(tmpl, p) THEN InjectOne(w, tmpl) ELSE w, v, templates)

-----------------------------------------------------------------------------
(* The hooks before a request *)

Marked(m, h) == [m EXCEPT !.parts = @ \o <<h.mark>>]
MarkedAll(msgs, h) == [i \in DOMAIN msgs |-> Marked(msgs[i], h)]

\* A hook marks every message, in place or in a new array.
RunHook(v, h) ==
  IF ~h.inPlace THEN [v EXCEPT !.slice = Own(MarkedAll(Messages(v), h))]
  ELSE IF v.slice.own THEN [v EXCEPT !.slice.msgs = MarkedAll(@, h)]
  ELSE [v EXCEPT !.cells = [i \in DOMAIN @ |-> IF i <= v.slice.len THEN Marked(@[i], h) ELSE @[i]]]

ApplyBefore(v, hooks) == FoldLeft(RunHook, v, hooks)

\* The hooks that have run when one of them fails.
Broken == {SubSeq(chain, 1, k) : k \in 0..(Len(chain) - 1)}

-----------------------------------------------------------------------------
(* The two ends: the HTTP server and the provider *)

\* Content that is not a string is taken for empty.
convertMessage(i) == IF i \in listed THEN [given[i] EXCEPT !.parts = <<>>] ELSE given[i]
ToCoreRequest == [i \in DOMAIN given |-> convertMessage(i)]

buildOpenAIMessages(msgs) ==
  [i \in DOMAIN msgs |-> [role |-> msgs[i].role, parts |-> msgs[i].parts]]

\* What the provider p puts on the wire.
Wire(p, v) ==
  (IF prompt[p] = "" THEN <<>> ELSE <<[role |-> "system", parts |-> <<prompt[p]>>]>>)
    \o buildOpenAIMessages(Messages(v))

-----------------------------------------------------------------------------

\* The stages of a copy are "idle", "inject", "hook", "ready" and "done".
Idle == [stage |-> "idle", slice |-> Shared(0), list |-> <<>>]

RequestInit ==
  /\ \E r \in Routings :
       router = r.router /\ avail = r.avail /\ health = r.health /\ counter = r.counter
  /\ \E s \in Shapes :
       /\ given = s.msgs
       /\ listed = s.listed
       /\ cells = s.msgs \o [i \in 1..s.room |-> NoMessage]
  /\ chain \in Chains
  /\ prompt = Prompts
  /\ templates \in Lists
  /\ edits = 0
  /\ kind \in [Calls -> Kinds]
  /\ at = [c \in Calls |-> "new"]
  /\ degraded = {}
  /\ base = [c \in Calls |-> Shared(Len(given))]
  /\ ran = [c \in Calls |-> <<>>]
  /\ order = [c \in Calls |-> <<>>]
  /\ leg = [c \in Calls |-> [i \in Turns |-> Idle]]

Proceed(c, from, to) == at[c] = from /\ at' = [at EXCEPT ![c] = to]

-----------------------------------------------------------------------------
(* The way of a call *)

\* ChatHandler converts what was posted; a fallback copies what it was given.
RequestOf(c) ==
  CASE kind[c] = "post" -> Own(ToCoreRequest)
    [] kind[c] = "fallback" -> Clone(View(base[c])).slice
    [] OTHER -> base[c]

Start(c) ==
  /\ Proceed(c, "new",
       IF avail = {} \/ (kind[c] = "audit" /\ Cardinality(avail) < 2) THEN "refused"
       ELSE IF kind[c] \in {"fallback", "dual"} THEN "before" ELSE "route")
  /\ base' = [base EXCEPT ![c] = RequestOf(c)]
  /\ UNCHANGED <<routing, cells, config, kind, degraded, ran, order, leg>>

\* The hooks of a fallback or a dual call run before it picks providers.
BeforeAll(c) ==
  LET v == ApplyBefore(View(base[c]), chain) IN
  /\ Proceed(c, "before", "route")
  /\ base' = [base EXCEPT ![c] = v.slice]
  /\ cells' = v.cells
  /\ ran' = [ran EXCEPT ![c] = @ \o chain]
  /\ UNCHANGED <<routing, config, kind, degraded, order, leg>>

BeforeFails(c) ==
  /\ \/ at[c] = "before"
     \/ at[c] = "legs" /\ \E i \in Turns : leg[c][i].stage = "hook"
  /\ \E hooks \in Broken, i \in Turns :
       /\ at[c] = "legs" => leg[c][i].stage = "hook"
       /\ cells' = ApplyBefore(View(IF at[c] = "before" THEN base[c] ELSE leg[c][i].slice), hooks).cells
       /\ ran' = [ran EXCEPT ![c] = @ \o hooks]
  /\ at' = [at EXCEPT ![c] = "refused"]
  /\ UNCHANGED <<routing, config, kind, degraded, base, order, leg>>

Ask(c, q) ==
  /\ Proceed(c, "route", "legs")
  /\ order' = [order EXCEPT ![c] = q]

Single(c) == kind[c] \in {"chat", "post"} \/ (kind[c] = "dual" /\ c \in degraded)

\* The router panics: the call ends before anything is sent.
RoutePanics(c) ==
  /\ Proceed(c, "route", "refused")
  /\ kind[c] # "audit"
  /\ Panics(router, avail, counter)
  /\ counter' = Count(counter, 1)
  /\ UNCHANGED <<router, avail, health, cells, config, kind, degraded, base, ran, order, leg>>

\* pickWithRouter; without an answer of the router, the first one available.
RouteOne(c) ==
  /\ at[c] = "route" /\ Single(c) /\ ~Panics(router, avail, counter)
  /\ LET picks == Select(router, avail, health, counter) IN
       \E p \in IF picks = {} THEN {Min(avail)} ELSE picks : Ask(c, <<p>>)
  /\ counter' = Selected(router, avail, health, counter)
  /\ UNCHANGED <<router, avail, health, cells, config, kind, degraded, base, ran, leg>>

\* Without an answer of the router, all in their order.
RouteFallback(c) ==
  /\ at[c] = "route" /\ kind[c] = "fallback" /\ ~Panics(router, avail, counter)
  /\ LET seqs == SelectSequence(router, avail, health, counter) IN
       \E q \in IF seqs = {} THEN {InOrder(avail)} ELSE seqs : Ask(c, q)
  /\ counter' = Sequenced(router, avail, counter)
  /\ UNCHANGED <<router, avail, health, cells, config, kind, degraded, base, ran, leg>>

Differ(p, q) == Name[p] # Name[q]

\* The sequences of the router that a dual call makes use of.
Long == {q \in SelectSequence(router, avail, health, counter) : Len(q) >= 2}

\* The first of the sequence and the next of another name, or two that the
\* scheduler's own round robin finds.
RoutePair(c) ==
  /\ at[c] = "route" /\ kind[c] = "dual" /\ ~Single(c) /\ ~Panics(router, avail, counter)
  /\ \/ \E q \in Long : \E k \in DOMAIN q :
          /\ Differ(q[1], q[k]) /\ \A j \in 1..(k - 1) : ~Differ(q[1], q[j])
          /\ Ask(c, <<q[1], q[k]>>)
     \/ Long = {} /\ \E p, q \in avail : Differ(p, q) /\ Ask(c, <<p, q>>)
  /\ counter' = Sequenced(router, avail, counter)
  /\ UNCHANGED <<router, avail, health, cells, config, kind, degraded, base, ran, leg>>

\* Without a second provider the call goes on as a chat, hooks included: the
\* others have one name, or other calls keep moving the round robin on.
Degrade(c) ==
  /\ at[c] = "route" /\ kind[c] = "dual" /\ ~Single(c) /\ ~Panics(router, avail, counter)
  /\ \A q \in Long : \A k \in DOMAIN q : ~Differ(q[1], q[k])
  /\ degraded' = degraded \cup {c}
  /\ counter' = Sequenced(router, avail, counter)
  /\ UNCHANGED <<router, avail, health, cells, config, kind, at, base, ran, order, leg>>

\* Audit asks the first one available, and another one if it finds it.
RouteAudit(c) ==
  /\ at[c] = "route" /\ kind[c] = "audit"
  /\ LET first == Min(avail) IN
       \/ Ask(c, <<first>>)
       \/ \E p \in avail : Differ(first, p) /\ Ask(c, <<first, p>>)
  /\ UNCHANGED <<routing, cells, config, kind, degraded, base, ran, leg>>

\* The legs of a dual call run at the same time, those of another one by one.
Turn(c, i) ==
  /\ at[c] = "legs" /\ i \in DOMAIN order[c]
  /\ kind[c] = "dual" \/ \A j \in 1..(i - 1) : leg[c][j].stage = "done"

Step(c, i, from, to, v) ==
  /\ Turn(c, i)
  /\ leg[c][i].stage = from
  /\ leg' = [leg EXCEPT ![c][i] = [stage |-> to, slice |-> v.slice, list |-> @.list]]
  /\ cells' = v.cells
  /\ UNCHANGED <<routing, config, kind, degraded, base, order>>

CloneLeg(c, i) ==
  /\ Step(c, i, "idle", "inject", Clone(View(base[c])))
  /\ UNCHANGED <<at, ran>>

\* Mutant: the request of the call is changed, and with it the next copies.
InjectBase(c, i) ==
  /\ at[c] = "legs" /\ i \in DOMAIN order[c]
  /\ LET v == Inject(View(leg[c][i].slice), order[c][i]) IN
       /\ leg[c][i].stage = "inject"
       /\ leg' = [leg EXCEPT ![c][i] =
            [stage |-> IF Single(c) THEN "hook" ELSE "ready",
             slice |-> v.slice, list |-> templates]]
       /\ base' = [base EXCEPT ![c] = v.slice]
       /\ cells' = v.cells
  /\ UNCHANGED <<routing, config, kind, degraded, at, ran, order>>

InjectLeg(c, i) ==
  /\ at[c] = "legs" /\ i \in DOMAIN order[c]
  /\ LET v == Inject(View(leg[c][i].slice), order[c][i]) IN
       /\ leg[c][i].stage = "inject"
       /\ leg' = [leg EXCEPT ![c][i] =
            [stage |-> IF Single(c) THEN "hook" ELSE "ready",
             slice |-> v.slice, list |-> templates]]
       /\ cells' = v.cells
  /\ UNCHANGED <<routing, config, kind, degraded, at, base, ran, order>>

HookLeg(c, i) ==
  /\ i \in DOMAIN order[c]
  /\ Step(c, i, "hook", "ready", ApplyBefore(View(leg[c][i].slice), chain))
  /\ ran' = [ran EXCEPT ![c] = @ \o chain]
  /\ UNCHANGED at

\* The provider has answered; one success ends a fallback.
Send(c, i) ==
  /\ at[c] = "legs" /\ i \in DOMAIN order[c]
  /\ leg[c][i].stage = "ready"
  /\ leg' = [leg EXCEPT ![c][i] = [Idle EXCEPT !.stage = "done"]]
  /\ \/ kind[c] = "fallback" /\ at' = [at EXCEPT ![c] = "done"]
     \/ at' = [at EXCEPT ![c] =
          IF \A j \in DOMAIN order[c] : j = i \/ leg[c][j].stage = "done"
            THEN "done" ELSE "legs"]
  /\ UNCHANGED <<routing, cells, config, kind, degraded, base, ran, order>>

-----------------------------------------------------------------------------
(* Templates, hooks and prompts, while calls run *)

Edit ==
  /\ edits = 0 /\ edits' = 1   \* bound
  /\ UNCHANGED <<routing, cells, given, listed, kind, degraded, at, base, ran, order, leg>>

Replace(list) ==
  /\ Edit
  /\ templates' = list
  /\ UNCHANGED <<chain, prompt>>

AddTemplate == \E l \in Lists : \E t \in Range(l) \ Range(templates) : Replace(Append(templates, t))
SetTemplates == \E l \in Lists \ {templates} : Replace(l)
Clear == Replace(<<>>)

SetInterceptors ==
  /\ Edit
  /\ chain' \in Chains \ {chain}
  /\ UNCHANGED <<templates, prompt>>

\* The loop over the providers, as far as it has come.
Change(text) ==
  /\ Edit
  /\ \E k \in Providers :
       prompt' = [p \in Providers |-> IF p <= k THEN text ELSE prompt[p]]
  /\ prompt' # prompt
  /\ UNCHANGED <<chain, templates>>

SetSystemPrompt == Change("override")
ClearSystemPrompt == Change("")

CallStep(c) ==
  \/ Start(c) \/ BeforeAll(c) \/ BeforeFails(c)
  \/ RouteOne(c) \/ RouteFallback(c) \/ RoutePair(c) \/ RouteAudit(c)
  \/ RoutePanics(c) \/ Degrade(c)
  \/ \E i \in Turns : CloneLeg(c, i) \/ InjectLeg(c, i) \/ HookLeg(c, i) \/ Send(c, i)

Configure ==
  \/ AddTemplate \/ SetTemplates \/ Clear
  \/ SetInterceptors \/ SetSystemPrompt \/ ClearSystemPrompt

RequestNext == (\E c \in Calls : CallStep(c)) \/ Configure

RequestSpec == RequestInit /\ [][RequestNext]_requestVars

=============================================================================
