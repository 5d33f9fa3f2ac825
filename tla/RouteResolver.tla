---------------------------- MODULE RouteResolver -----------------------------
(***************************************************************************)
(* RouteResolver of tengen/n8n/route_resolver.py, the lazily built         *)
(* singleton of tengen/agents/router.py, and the route file under it,      *)
(* which its owner replaces (a ConfigMap update), writes in place or       *)
(* removes at any time.                                                    *)
(*                                                                         *)
(* A route table is the set of paths that hold a webhook; the inner nodes  *)
(* of the YAML tree are the prefixes of those paths.  A file that yaml     *)
(* rejects, or that is empty, is "torn"; "null" is one that ends after the *)
(* key `routes:`.                                                          *)
(*                                                                         *)
(* resolve() runs to its end without another call of it between; only the  *)
(* file changes under it.                                                  *)
(***************************************************************************)
EXTENDS Integers, Sequences, SequencesExt

CONSTANTS
  Keys,      \* what is looked up: [vendor, category, event]
  NoEvent,   \* event_type None
  Tables,    \* the route tables the file may hold
  MaxWrites  \* bound: changes of the file in a behaviour

(* The resolver never looks for a webhook at the root of the tree. *)
ASSUME ResolverAssumption ==
  /\ Keys \subseteq [vendor : STRING, category : STRING, event : STRING \cup {NoEvent}]
  /\ \A W \in Tables : \A p \in W : p \in Seq(STRING) /\ p # <<>>
  /\ MaxWrites \in Nat

VARIABLES
  file,      \* what the file holds: [kind, paths]
  mtime,     \* its modification time
  writing,   \* an in-place write is under way
  writes,    \* changes so far
  built,     \* the singleton exists
  routes,    \* _routes, in the form of file
  loadedAt,  \* _mtime
  step,      \* where resolve() is; "idle" when it is not running
  key,       \* its arguments
  answer,    \* how the last call ended: [raised, path]
  seen,      \* what the file held since the call began
  blind      \* a change that the modification time does not show

fileVars == <<file, mtime, writing, writes>>
resolverVars == <<built, routes, loadedAt, step, key, answer>>
resolveVars == <<file, mtime, writing, writes, built, routes, loadedAt, step,
                 key, answer, seen, blind>>

-------------------------------------------------------------------------------
(* The lookup. *)

NoRoute == <<>>

Default(p) == Append(p, "_default")

Vendor(k) == <<k.vendor>>
Category(k) == <<k.vendor, k.category>>
Event(k) == <<k.vendor, k.category, k.event>>

(* A mapping without a webhook of its own. *)
Inner(W, p) == p \notin W /\ \E w \in W : IsStrictPrefix(p, w)

OrElse(found, p, W) ==
  CASE found # NoRoute -> found
    [] found = NoRoute /\ p \in W -> p
    [] OTHER -> NoRoute

InCategory(W, k) ==
  OrElse(IF k.event # NoEvent /\ Event(k) \in W THEN Event(k) ELSE NoRoute,
         Default(Category(k)), W)

InVendor(W, k) ==
  OrElse(IF Inner(W, Category(k)) THEN InCategory(W, k)
                                  ELSE OrElse(NoRoute, Category(k), W),
         Default(Vendor(k)), W)

(* Mistake: a known vendor never falls back to the root default. *)
LookupStopsAtVendor(W, k) ==
  IF Inner(W, Vendor(k)) THEN InVendor(W, k)
                         ELSE OrElse(OrElse(NoRoute, Vendor(k), W), Default(NoRoute), W)

Lookup(W, k) ==
  OrElse(IF Inner(W, Vendor(k)) THEN InVendor(W, k)
                                ELSE OrElse(NoRoute, Vendor(k), W),
         Default(NoRoute), W)

(* Reference: the docstring's order, from the most to the least specific   *)
(* path, a leaf standing for the defaults below it.                        *)
Order(k) ==
  (IF k.event = NoEvent THEN <<>> ELSE <<Event(k)>>)
    \o <<Default(Category(k)), Category(k), Default(Vendor(k)), Vendor(k),
         Default(NoRoute)>>

(* A webhook hides every path below it. *)
Visible(W) == {p \in W : \A q \in W : ~ IsStrictPrefix(q, p)}

MostSpecific(W, k) ==
  LET found == {i \in DOMAIN Order(k) : Order(k)[i] \in Visible(W)}
  IN IF found = {} THEN NoRoute ELSE Order(k)[Min(found)]

-------------------------------------------------------------------------------
(* The file. *)

Table(W) == [kind |-> "routes", paths |-> W]
Text(kind) == [kind |-> kind, paths |-> {}]

(* A change goes unnoticed between the read and the getmtime of a load, or *)
(* within one tick of the file system's clock after one.                   *)
Change(text) ==
  /\ writes < MaxWrites /\ writes' = writes + 1
  /\ file' = text
  /\ mtime' \in {mtime, mtime + 1}
  /\ blind' = (blind \/ step = "stat" \/ (built /\ mtime' = loadedAt))
  /\ seen' = seen \cup {text}
  /\ UNCHANGED resolverVars

Replace(W) == ~ writing /\ Change(Table(W)) /\ UNCHANGED writing

BeginWrite ==
  /\ ~ writing /\ writing' = TRUE
  /\ \E kind \in {"torn", "null"} : Change(Text(kind))

EndWrite(W) == writing /\ writing' = FALSE /\ Change(Table(W))

(* While the file is missing, what was loaded stands for it. *)
Delete ==
  /\ ~ writing /\ file.kind # "missing"
  /\ writes < MaxWrites /\ writes' = writes + 1
  /\ file' = Text("missing")
  /\ seen' = seen \cup {file', routes}
  /\ UNCHANGED <<mtime, writing, blind, resolverVars>>

-------------------------------------------------------------------------------
(* resolve(). *)

Goto(s) == step' = s

Return(raised, path) ==
  /\ Goto("idle")
  /\ answer' = [raised |-> raised, path |-> path]

(* Mistake: the singleton is taken for built. *)
CallUnbuilt(k) ==
  /\ step = "idle"
  /\ Goto("check")
  /\ key' = k
  /\ seen' = {file} \cup (IF file.kind = "missing" THEN {routes} ELSE {})
  /\ UNCHANGED <<fileVars, built, routes, loadedAt, answer, blind>>

(* The first call builds the singleton, whose __init__ loads the file. *)
Call(k) ==
  /\ step = "idle"
  /\ Goto(IF built THEN "check" ELSE "read")
  /\ key' = k
  /\ seen' = {file} \cup (IF file.kind = "missing" THEN {routes} ELSE {})
  /\ UNCHANGED <<fileVars, built, routes, loadedAt, answer, blind>>

(* Mistake: the file is read once. *)
CheckNothing ==
  /\ step = "check"
  /\ Goto("lookup")
  /\ UNCHANGED <<fileVars, built, routes, loadedAt, key, answer, seen, blind>>

(* _reload_if_changed. *)
Check ==
  /\ step = "check"
  /\ Goto(IF file.kind = "missing" \/ mtime = loadedAt THEN "lookup" ELSE "read")
  /\ UNCHANGED <<fileVars, built, routes, loadedAt, key, answer, seen, blind>>

(* _load: open, safe_load and data.get; `routes: null` gets through.       *)
Read ==
  /\ step = "read"
  /\ IF file.kind \in {"missing", "torn"}
     THEN Return(TRUE, NoRoute) /\ UNCHANGED <<routes, blind>>
     ELSE routes' = file /\ blind' = FALSE /\ Goto("stat") /\ UNCHANGED answer
  /\ UNCHANGED <<fileVars, built, loadedAt, key, seen>>

(* _load: getmtime, then len(None) raises.  After __init__, resolve()      *)
(* checks again.                                                           *)
Stat ==
  /\ step = "stat"
  /\ loadedAt' = IF file.kind = "missing" THEN loadedAt ELSE mtime
  /\ IF file.kind = "missing" \/ routes.kind = "null"
     THEN Return(TRUE, NoRoute) /\ UNCHANGED built
     ELSE /\ Goto(IF built THEN "lookup" ELSE "check")
          /\ built' = TRUE
          /\ UNCHANGED answer
  /\ UNCHANGED <<fileVars, routes, key, seen, blind>>

(* The lookup; on None it raises AttributeError. *)
Find ==
  /\ step = "lookup"
  /\ IF routes.kind = "null" THEN Return(TRUE, NoRoute)
                             ELSE Return(FALSE, Lookup(routes.paths, key))
  /\ UNCHANGED <<fileVars, built, routes, loadedAt, key, seen, blind>>

-------------------------------------------------------------------------------

Init ==
  /\ file \in {Table(W) : W \in Tables} /\ mtime = 1
  /\ writing = FALSE /\ writes = 0
  /\ built = FALSE /\ routes = Text("none") /\ loadedAt = 0
  /\ step = "idle" /\ key \in Keys
  /\ answer = [raised |-> FALSE, path |-> NoRoute]
  /\ seen = {file} /\ blind = FALSE

Owner ==
  \/ \E W \in Tables : Replace(W) \/ EndWrite(W)
  \/ BeginWrite \/ Delete

Resolve == Check \/ Read \/ Stat \/ Find

===============================================================================
