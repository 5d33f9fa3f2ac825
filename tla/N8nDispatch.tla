----------------------------- MODULE N8nDispatch ------------------------------
(***************************************************************************)
(* The dispatch of events to n8n: the tools of tengen/agents/router.py on  *)
(* the route resolver and on N8nClient.execute of tengen/n8n/client.py.    *)
(*                                                                         *)
(* Each event has an agent session that calls resolve_route and, with the  *)
(* answer, execute_webhook.  Both block the event loop, so that tool calls *)
(* of different sessions interleave but do not overlap; what the model     *)
(* does between them is its own.                                           *)
(***************************************************************************)
EXTENDS RouteResolver, FiniteSets

CONSTANTS
  Events,      \* the events to dispatch
  KeyOf,       \* how each is classified
  MaxRetries   \* N8N_MAX_RETRIES

ASSUME DispatchAssumption ==
  /\ KeyOf \in [Events -> Keys]
  /\ MaxRetries \in Nat

VARIABLES
  pc,      \* where each session is
  posts,   \* posts made for each event
  ran,     \* how often n8n ran the workflow for each event
  unsure,  \* runs of which no success was reported
  refused  \* the events n8n answered with a 4xx

clientVars == <<pc, posts, ran, unsure, refused>>
vars == <<resolveVars, clientVars>>

Ended == {"done", "failed", "raised", "noRoute", "invalid"}

Session(e, s) == pc' = [pc EXCEPT ![e] = s]

(* No tool call is running. *)
Free == step = "idle" /\ \A e \in Events : pc[e] \notin {"resolving", "posting"}

-------------------------------------------------------------------------------
(* resolve_route; an exception other than NoRouteError is not caught. *)
ResolveRoute(e) ==
  /\ pc[e] = "new" /\ Free
  /\ Call(KeyOf[e])
  /\ Session(e, "resolving")
  /\ UNCHANGED <<posts, ran, unsure, refused>>

Resolved(e) ==
  /\ pc[e] = "resolving" /\ step = "idle"
  /\ Session(e, CASE answer.raised -> "raised"
                  [] ~ answer.raised /\ answer.path = NoRoute -> "noRoute"
                  [] OTHER -> "resolved")
  /\ UNCHANGED <<resolveVars, posts, ran, unsure, refused>>

(* execute_webhook; payload_json is the model's text and may be no JSON.   *)
ExecuteWebhook(e) ==
  /\ pc[e] = "resolved" /\ Free
  /\ Session(e, "posting") \/ Session(e, "invalid")
  /\ UNCHANGED <<resolveVars, posts, ran, unsure, refused>>

-------------------------------------------------------------------------------
(* N8nClient.execute. *)

Post(e) ==
  /\ pc[e] = "posting" /\ posts[e] < MaxRetries
  /\ posts' = [posts EXCEPT ![e] = @ + 1]
  /\ UNCHANGED resolveVars

(* The workflow ran; was its success reported? *)
Runs(e, reported) ==
  /\ ran' = [ran EXCEPT ![e] = @ + 1]
  /\ unsure' = IF reported THEN unsure ELSE [unsure EXCEPT ![e] = @ + 1]

(* Any status below 400; a body that is not JSON raises. *)
PostSucceeds(e) ==
  /\ Post(e)
  /\ \/ Runs(e, TRUE) /\ Session(e, "done")
     \/ Runs(e, FALSE) /\ Session(e, "raised")
  /\ UNCHANGED refused

(* Mistake: a 4xx is retried like a 5xx. *)
PostRefusedRetries(e) ==
  /\ Post(e)
  /\ refused' = refused \cup {e}
  /\ UNCHANGED <<pc, ran, unsure>>

(* 4xx: N8nRequestFailed at once. *)
PostRefused(e) ==
  /\ Post(e)
  /\ refused' = refused \cup {e}
  /\ Session(e, "failed")
  /\ UNCHANGED <<ran, unsure>>

(* 5xx, or a timeout or a failed connection: the workflow may have run,    *)
(* and the loop goes on.                                                   *)
PostFails(e) ==
  /\ Post(e)
  /\ Runs(e, FALSE) \/ UNCHANGED <<ran, unsure>>
  /\ UNCHANGED <<pc, refused>>

(* Any other error of httpx, or an event loop that is gone, propagates. *)
PostRaises(e) ==
  /\ Post(e)
  /\ Runs(e, FALSE) \/ UNCHANGED <<ran, unsure>>
  /\ Session(e, "raised")
  /\ UNCHANGED refused

(* Mistake: the loop has no end. *)
GiveUpNever(e) ==
  /\ pc[e] = "posting" /\ posts[e] > MaxRetries
  /\ Session(e, "failed")
  /\ UNCHANGED <<resolveVars, posts, ran, unsure, refused>>

GiveUp(e) ==
  /\ pc[e] = "posting" /\ posts[e] = MaxRetries
  /\ Session(e, "failed")
  /\ UNCHANGED <<resolveVars, posts, ran, unsure, refused>>

Execute(e) ==
  \/ PostSucceeds(e) \/ PostRefused(e) \/ PostFails(e) \/ PostRaises(e)
  \/ GiveUp(e)

-------------------------------------------------------------------------------

DispatchInit ==
  /\ Init
  /\ pc = [e \in Events |-> "new"]
  /\ posts = [e \in Events |-> 0] /\ ran = [e \in Events |-> 0]
  /\ unsure = [e \in Events |-> 0]
  /\ refused = {}

Next ==
  \/ Owner /\ UNCHANGED clientVars
  \/ Resolve /\ UNCHANGED clientVars
  \/ \E e \in Events :
       ResolveRoute(e) \/ Resolved(e) \/ ExecuteWebhook(e) \/ Execute(e)

(* A tool call that was made runs; nothing says that one is made. *)
Fairness ==
  /\ WF_vars(Resolve /\ UNCHANGED clientVars)
  /\ \A e \in Events : WF_vars(Resolved(e)) /\ WF_vars(Execute(e))

Spec == DispatchInit /\ [][Next]_vars /\ Fairness

-------------------------------------------------------------------------------
(* Properties. *)

(* The resolver's state fits together: a call that is past the check has   *)
(* the singleton, and what it looks up in was loaded.                      *)
TypeOK ==
  /\ file \in [kind : {"routes", "null", "torn", "missing"}, paths : {{}} \cup Tables]
  /\ routes \in [kind : {"none", "routes", "null"}, paths : {{}} \cup Tables]
  /\ mtime \in 1 .. (1 + writes) /\ loadedAt \in 0 .. mtime
  /\ writes \in 0 .. MaxWrites /\ writing \in BOOLEAN
  /\ built \in BOOLEAN /\ blind \in BOOLEAN
  /\ step \in {"idle", "check", "read", "stat", "lookup"}
  /\ step \in {"check", "lookup"} => built
  /\ built => routes.kind # "none" /\ loadedAt > 0
  /\ key \in Keys
  /\ step # "idle" => \E e \in Events : pc[e] = "resolving" /\ KeyOf[e] = key
  /\ pc \in [Events -> Ended \cup {"new", "resolving", "resolved", "posting"}]
  /\ posts \in [Events -> 0 .. MaxRetries] /\ refused \subseteq Events
  /\ ran \in [Events -> Nat] /\ unsure \in [Events -> Nat]
  /\ \A e \in Events : unsure[e] <= ran[e] /\ ran[e] <= posts[e]

(* The lookup that is about to run returns the most specific path of the   *)
(* docstring's order that no webhook above it hides, whatever table over   *)
(* the paths of all keys was loaded.                                       *)
LookupIsMostSpecific ==
  step = "lookup" =>
    \A W \in SUBSET UNION {ToSet(Order(k)) : k \in Keys} :
      Lookup(W, key) = MostSpecific(W, key)

(* What a call of resolve() answers is what the file held at some moment   *)
(* during the call (an exception, a file that could not be used then),     *)
(* unless a change was hidden from the modification time: by another in    *)
(* the same tick, or by falling between the read and the getmtime of       *)
(* _load.                                                                  *)
AnswersAreCurrent ==
  \A e \in Events :
    pc[e] = "resolving" /\ step = "idle" /\ ~ blind =>
      \E text \in seen :
        IF answer.raised THEN text.kind # "routes"
                         ELSE /\ text.kind = "routes"
                              /\ answer.path = MostSpecific(text.paths, key)

(* A workflow runs again for an event only when an earlier run was not     *)
(* reported; an event given up was refused or posted MaxRetries times, and *)
(* never posted again after a refusal.                                     *)
RepeatsNeedLostAnswers ==
  \A e \in Events :
    /\ ran[e] <= unsure[e] + 1
    /\ pc[e] = "failed" => e \in refused \/ posts[e] = MaxRetries
    /\ e \in refused => pc[e] = "failed"

(* Every tool call ends, whatever the file and n8n do. *)
CallsEnd ==
  /\ \A e \in Events : pc[e] = "resolving" ~> pc[e] # "resolving"
  /\ \A e \in Events : pc[e] = "posting" ~> pc[e] \in Ended

===============================================================================
