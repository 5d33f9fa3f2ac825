---------------------------- MODULE FieldRegistry -----------------------------
(***************************************************************************)
(* The review queue of unmapped fields: FieldRegistry of                   *)
(* tengen/udm/field_registry.py, one SQLite table that several processes   *)
(* share.  The parser observes fields; analysts review them through PATCH  *)
(* requests (tengen/dashboard/app.py, a pool of threads) and the commands  *)
(* `tengen-udm approve` and `ignore`; `tengen-udm branch` proposes what    *)
(* was approved on a git branch and marks it promoted                      *)
(* (tengen/udm/model_updater.py).                                          *)
(*                                                                         *)
(* All updaters work on one checkout of the repository: `git checkout -b`  *)
(* takes its files and its index along to the new branch, and nothing goes *)
(* back.  The one file they write there, the scaffold, is modelled by the  *)
(* model fields it lists.  What else is done with git, by an analyst who   *)
(* reviews a branch, is left out.                                          *)
(*                                                                         *)
(* Each statement on the table is a transaction of its own; what an        *)
(* operation read, it may write after others have written.  Rows are never *)
(* deleted, and a request for a row that does not exist changes nothing.   *)
(* Notes, samples and counts are left out: nothing reads them back but the *)
(* order of the proposals, which decides only between duplicates.          *)
(***************************************************************************)
EXTENDS Integers, FiniteSets, Functions

CONSTANTS
  Fields,        \* the raw fields, by source and path
  Suggestions,   \* the UDM fields one may be mapped onto
  NoSuggestion,  \* ''
  Heuristic,     \* what suggest_udm_field says of each field
  ModelFieldOf,  \* _target_model and _field_name: by field and suggestion
  Known,         \* the model fields that exist
  Reviews,       \* the statuses analysts set through PATCH
  Requests,      \* PATCH requests at a time
  Updaters,      \* processes that run `tengen-udm branch`
  MaxDecisions,  \* bound: status changes by analysts
  MaxRuns,       \* bound: runs of `tengen-udm branch` with something to propose
  MaxFaults      \* bound: crashes, and a locked database

Mappings == Suggestions \cup {NoSuggestion}
Statuses == {"new", "approved", "promoted", "ignored"}

ASSUME RegistryAssumption ==
  /\ Heuristic \in [Fields -> Mappings]
  /\ DOMAIN ModelFieldOf = Fields
  /\ \A f \in Fields : DOMAIN ModelFieldOf[f] = Mappings
  /\ Reviews \subseteq Statuses
  /\ MaxDecisions \in Nat /\ MaxRuns \in Nat /\ MaxFaults \in Nat

VARIABLES
  status,     \* of each row; "absent" for none
  suggested,  \* suggested_udm_field of each row
  request,    \* each request: where it is ("idle", "notes", "echo", "map"),
              \* its row, and the status it read with the decision that was
              \* last then
  updater,    \* each updater: "idle", "marking", or which git step is next
  plan,       \* its proposals still to be marked: by field, the model field
              \* and the decision that was last when it read the row
  file,       \* the scaffold in the working tree of the checkout, ...
  index,      \* ... in its index, ...
  tip,        \* ... and at the tip of the branch that is checked out
  left,       \* the model fields at the tips of the other branches
  decided,    \* the last decision on each field: [status, number]
  decisions,  \* how many there were
  stale,      \* fields whose status was written over a later decision
  runs,       \* how many runs of updaters there were
  unsafe,     \* updaters that shared the checkout while they were at it, or
              \* did not commit
  unbacked,   \* fields promoted by a request or by an unsafe updater, or
              \* re-mapped once planned
  covered,    \* fields proposed and not put up for review again
  faults

tableVars == <<status, suggested>>
gitVars == <<file, index, tip, left>>
updaterVars == <<updater, plan, runs, unsafe>>
historyVars == <<decided, decisions, stale, unbacked, covered>>
vars == <<status, suggested, request, updater, plan, file, index, tip, left,
          decided, decisions, stale, runs, unsafe, unbacked, covered, faults>>

Rows == {f \in Fields : status[f] # "absent"}

(* The model field a row stands for. *)
ModelField(f) == ModelFieldOf[f][suggested[f]]

Fault == faults < MaxFaults /\ faults' = faults + 1

(* Fields an updater has read and not yet dealt with. *)
Planned == UNION {DOMAIN plan[u] : u \in Updaters}

-------------------------------------------------------------------------------
(* Writing a row. *)

(* A decision of an analyst. *)
Decide(f, s) ==
  /\ decisions < MaxDecisions /\ decisions' = decisions + 1
  /\ status' = [status EXCEPT ![f] = s]
  /\ decided' = [decided EXCEPT ![f] = [status |-> s, number |-> decisions']]
  /\ stale' = stale \ {f}
  /\ covered' = covered \ {f}
  /\ unbacked' = unbacked \cup (IF s = "promoted" THEN {f} ELSE {})

(* A status derived from what was read when decision n was the last one.   *)
Overwrite(f, s, n) ==
  /\ status' = [status EXCEPT ![f] = s]
  /\ stale' = stale \cup (IF n = decided[f].number THEN {} ELSE {f})

Map(f, m) ==
  /\ suggested' = [suggested EXCEPT ![f] = m]
  /\ unbacked' = unbacked \cup
       (IF (status[f] = "promoted" \/ f \in Planned) /\ m # suggested[f] THEN {f} ELSE {})

(* Mistake: the upsert writes the whole row. *)
ObserveResets(f) ==
  /\ status' = [status EXCEPT ![f] = "new"]
  /\ IF suggested[f] = NoSuggestion THEN Map(f, Heuristic[f])
     ELSE UNCHANGED <<suggested, unbacked>>
  /\ UNCHANGED <<request, updaterVars, gitVars, decided, decisions, stale, covered, faults>>

(* observe(): a new row, or a suggestion for a row that has none. *)
Observe(f) ==
  /\ status' = [status EXCEPT ![f] = IF @ = "absent" THEN "new" ELSE @]
  /\ IF suggested[f] = NoSuggestion THEN Map(f, Heuristic[f])
     ELSE UNCHANGED <<suggested, unbacked>>
  /\ UNCHANGED <<request, updaterVars, gitVars, decided, decisions, stale, covered, faults>>

(* `tengen-udm approve` and `tengen-udm ignore`. *)
Command(f) ==
  /\ f \in Rows
  /\ \E s \in {"approved", "ignored"} : Decide(f, s)
  /\ UNCHANGED <<suggested, request, updaterVars, gitVars, faults>>

-------------------------------------------------------------------------------
(* api_udm_field_update. *)

Idle == [at |-> "idle"]

Goto(r, to) == request' = [request EXCEPT ![r] = to]

(* With a status, with notes only, or with neither. *)
Patch(r, f) ==
  /\ request[r] = Idle /\ f \in Rows
  /\ \/ /\ \E s \in Reviews : Decide(f, s)
        /\ Goto(r, [at |-> "map", field |-> f])
     \/ /\ \E s \in {"notes", "map"} : Goto(r, [at |-> s, field |-> f])
        /\ UNCHANGED <<status, historyVars>>
  /\ UNCHANGED <<suggested, updaterVars, gitVars, faults>>

(* set_status(field_id, get(field_id)["status"], notes): the read, and ... *)
ReadStatus(r) ==
  LET f == request[r].field
  IN /\ request[r].at = "notes"
     /\ Goto(r, [at |-> "echo", field |-> f, status |-> status[f],
                 number |-> decided[f].number])
     /\ UNCHANGED <<tableVars, updaterVars, gitVars, historyVars, faults>>

(* ... the write. *)
Echo(r) ==
  LET f == request[r].field
  IN /\ request[r].at = "echo"
     /\ Overwrite(f, request[r].status, request[r].number)
     /\ Goto(r, [at |-> "map", field |-> f])
     /\ unbacked' = unbacked \cup (IF request[r].status = "promoted" THEN {f} ELSE {})
     /\ covered' = covered \ {f}
     /\ UNCHANGED <<suggested, updaterVars, gitVars, decided, decisions, faults>>

(* set_suggested_field, if one was given. *)
Remap(r) ==
  /\ request[r].at = "map" /\ Goto(r, Idle)
  /\ (\E m \in Mappings : Map(request[r].field, m)) \/ UNCHANGED <<suggested, unbacked>>
  /\ UNCHANGED <<status, updaterVars, gitVars, decided, decisions, stale, covered, faults>>

(* The dashboard dies, or the database stays locked. *)
RequestEnds(r) ==
  /\ request[r] # Idle /\ Goto(r, Idle)
  /\ Fault
  /\ UNCHANGED <<tableVars, updaterVars, gitVars, historyVars>>

-------------------------------------------------------------------------------
(* create_update_branch. *)

Advance(u, s, p) ==
  /\ updater' = [updater EXCEPT ![u] = s]
  /\ plan' = [plan EXCEPT ![u] = p]

NoPlan == [f \in {} |-> {}]

End(u) == Advance(u, "idle", NoPlan) /\ unsafe' = unsafe \ {u}

Approved == {f \in Fields : status[f] = "approved"}

Proposal(f) == [model |-> ModelField(f), number |-> decided[f].number]

NewOnModel(p) == {p[f].model : f \in DOMAIN p} \ Known

(* Mistake: the run goes on with nothing to propose. *)
ProposeNothing(u) ==
  /\ updater[u] = "idle"
  /\ runs < MaxRuns /\ runs' = runs + 1
  /\ Advance(u, "checkout", [f \in Approved |-> Proposal(f)])
  /\ covered' = covered \ Planned
  /\ UNCHANGED <<tableVars, request, gitVars, decided, decisions, stale, unsafe,
                 unbacked, faults>>

(* propose_from_registry; without a new model field it returns an error.   *)
(* Another updater may have these fields in hand.                          *)
Propose(u) ==
  /\ updater[u] = "idle"
  /\ runs < MaxRuns /\ runs' = runs + 1
  /\ LET p == [f \in Approved |-> Proposal(f)]
     IN NewOnModel(p) # {} /\ Advance(u, "checkout", p)
  /\ covered' = covered \ Planned
  /\ UNCHANGED <<tableVars, request, gitVars, decided, decisions, stale, unsafe,
                 unbacked, faults>>

(* Updaters between their checkout and their commit. *)
Working == {u \in Updaters : updater[u] \in {"write", "add", "commit"}}

(* Mistake: the run stays on the branch of the run before. *)
StayOnBranch(u) ==
  /\ updater[u] = "checkout"
  /\ Advance(u, "write", plan[u])
  /\ unsafe' = unsafe \cup (IF Working = {} THEN {} ELSE Working \cup {u})
  /\ UNCHANGED <<tableVars, request, runs, gitVars, historyVars, faults>>

(* git checkout -b: a new branch, with the tip of the one checked out.     *)
Checkout(u) ==
  /\ updater[u] = "checkout"
  /\ left' = left \cup tip
  /\ Advance(u, "write", plan[u])
  /\ unsafe' = unsafe \cup (IF Working = {} THEN {} ELSE Working \cup {u})
  /\ UNCHANGED <<tableVars, request, runs, file, index, tip, historyVars, faults>>

(* The git commands are through: the rows are to be marked, unless the     *)
(* command was given --no-promote.                                         *)
ToMarking(u) ==
  /\ Advance(u, "marking", plan[u])
  /\ covered' = covered \cup
       (DOMAIN plan[u] \ UNION {DOMAIN plan[v] : v \in Updaters \ {u}})

WithoutMarking(u) == End(u) /\ UNCHANGED covered

(* The scaffold replaces the file; with --no-commit the git commands end.  *)
WriteScaffold(u) ==
  /\ updater[u] = "write"
  /\ file' = NewOnModel(plan[u])
  /\ \/ Advance(u, "add", plan[u]) /\ UNCHANGED <<unsafe, covered>>
     \/ ToMarking(u) /\ unsafe' = unsafe \cup {u}
     \/ WithoutMarking(u)
  /\ UNCHANGED <<tableVars, request, runs, index, tip, left, decided, decisions, stale,
                 unbacked, faults>>

(* git add: the file as it is now, whoever wrote it. *)
Add(u) ==
  /\ updater[u] = "add"
  /\ index' = file
  /\ Advance(u, "commit", plan[u])
  /\ UNCHANGED <<tableVars, request, runs, file, tip, left, unsafe, historyVars, faults>>

(* git commit: what is in the index, onto the branch checked out now. *)
Commit(u) ==
  /\ updater[u] = "commit"
  /\ tip' = index
  /\ \/ ToMarking(u) /\ UNCHANGED unsafe
     \/ WithoutMarking(u)
  /\ UNCHANGED <<tableVars, request, runs, file, index, left, decided, decisions, stale,
                 unbacked, faults>>

(* checkout, add or commit fails (there may be nothing to commit): an      *)
(* error is returned.                                                      *)
GitFails(u) ==
  /\ updater[u] \in {"checkout", "add", "commit"}
  /\ End(u)
  /\ UNCHANGED <<tableVars, request, runs, gitVars, historyVars, faults>>

(* Mistake: only proposals of new model fields are marked. *)
MarkNew(u, f) ==
  LET rest == Restrict(plan[u], DOMAIN plan[u] \ {f})
  IN /\ updater[u] = "marking" /\ f \in DOMAIN plan[u]
     /\ IF rest = NoPlan THEN End(u) ELSE Advance(u, "marking", rest) /\ UNCHANGED unsafe
     /\ IF plan[u][f].model \in Known THEN UNCHANGED <<status, stale>>
        ELSE Overwrite(f, "promoted", plan[u][f].number)
     /\ unbacked' = unbacked \cup (IF u \in unsafe THEN {f} ELSE {})
     /\ UNCHANGED <<suggested, request, runs, gitVars, decided, decisions, covered, faults>>

(* Every proposal is marked, a field that exists on the model too. *)
Mark(u, f) ==
  LET rest == Restrict(plan[u], DOMAIN plan[u] \ {f})
  IN /\ updater[u] = "marking" /\ f \in DOMAIN plan[u]
     /\ IF rest = NoPlan THEN End(u) ELSE Advance(u, "marking", rest) /\ UNCHANGED unsafe
     /\ Overwrite(f, "promoted", plan[u][f].number)
     /\ unbacked' = unbacked \cup (IF u \in unsafe THEN {f} ELSE {})
     /\ UNCHANGED <<suggested, request, runs, gitVars, decided, decisions, covered, faults>>

(* The command dies, or the file cannot be written, or set_status raises.  *)
UpdaterDies(u) ==
  /\ updater[u] # "idle"
  /\ Fault
  /\ End(u)
  /\ covered' = covered \ DOMAIN plan[u]
  /\ UNCHANGED <<tableVars, request, runs, gitVars, decided, decisions, stale, unbacked>>

-------------------------------------------------------------------------------

Init ==
  /\ status = [f \in Fields |-> "absent"]
  /\ suggested = [f \in Fields |-> NoSuggestion]
  /\ request = [r \in Requests |-> Idle]
  /\ updater = [u \in Updaters |-> "idle"] /\ plan = [u \in Updaters |-> NoPlan]
  /\ runs = 0
  /\ file = {} /\ index = {} /\ tip = {} /\ left = {}
  /\ decided = [f \in Fields |-> [status |-> "none", number |-> 0]] /\ decisions = 0
  /\ stale = {} /\ unsafe = {} /\ unbacked = {} /\ covered = {}
  /\ faults = 0

Next ==
  \/ \E f \in Fields : Observe(f) \/ Command(f) \/ \E r \in Requests : Patch(r, f)
  \/ \E r \in Requests : ReadStatus(r) \/ Echo(r) \/ Remap(r) \/ RequestEnds(r)
  \/ \E u \in Updaters :
       \/ Propose(u) \/ Checkout(u) \/ WriteScaffold(u) \/ Add(u) \/ Commit(u)
       \/ GitFails(u) \/ UpdaterDies(u)
       \/ \E f \in Fields : Mark(u, f)

Spec == Init /\ [][Next]_vars

-------------------------------------------------------------------------------
(* Properties. *)

(* Only updaters that run are unsafe, two that are on the checkout both    *)
(* are; a scaffold lists new model fields only.                            *)
CheckoutOK ==
  /\ unsafe \subseteq {u \in Updaters : updater[u] # "idle"}
  /\ \A u, v \in Working : u = v \/ {u, v} \subseteq unsafe
  /\ (file \cup index \cup tip \cup left) \cap Known = {}

(* Only rows that exist have a suggestion, a decision, a request or an     *)
(* updater; an updater that works has something left to do.                *)
TypeOK ==
  /\ status \in [Fields -> Statuses \cup {"absent"}]
  /\ suggested \in [Fields -> Mappings]
  /\ request \in [Requests -> {Idle} \cup [at : {"notes", "map"}, field : Rows]
                       \cup [at : {"echo"}, field : Rows, status : Statuses,
                             number : 0 .. decisions]]
  /\ updater \in [Updaters -> {"idle", "checkout", "write", "add", "commit", "marking"}]
  /\ \A u \in Updaters :
       /\ DOMAIN plan[u] \subseteq Rows
       /\ updater[u] = "idle" <=> DOMAIN plan[u] = {}
  /\ decided \in [Fields -> [status : Statuses \cup {"none"}, number : 0 .. decisions]]
  /\ \A f \in Fields \ Rows : suggested[f] = NoSuggestion /\ decided[f].number = 0
  /\ decisions \in 0 .. MaxDecisions /\ runs \in 0 .. MaxRuns /\ faults \in 0 .. MaxFaults
  /\ stale \cup unbacked \cup covered \subseteq Rows
  /\ CheckoutOK

(* What may have become of a row since a decision. *)
Outcomes(s) == CASE s = "none" -> {"absent", "new"}
                 [] s = "approved" -> {"approved", "promoted"}
                 [] OTHER -> {s}

(* A decision stands until the next one: sightings, other requests and     *)
(* updaters do not undo it, and only what was approved is promoted, unless *)
(* a step wrote back what it had read before the decision (the notes of a  *)
(* PATCH, the marks of an updater).                                        *)
DecisionsStand ==
  \A f \in Fields : f \in stale \/ status[f] \in Outcomes(decided[f].status)

(* PROMOTED, "a PR adding it to the model has been opened": the model      *)
(* field of a promoted row is at the tip of a branch or on the model,      *)
(* whatever git commands fail, updaters die and later runs propose on the  *)
(* same checkout.  Excused are rows that an analyst promoted, or re-mapped *)
(* after the updater had read them, and those marked by an updater that    *)
(* was given --no-commit, whose scaffold the next run overwrites, or that  *)
(* shared the checkout with another one, which may commit the scaffold of  *)
(* either.                                                                 *)
PromotedMeansOffered ==
  \A f \in Fields :
    status[f] = "promoted" /\ f \notin unbacked => ModelField(f) \in left \cup tip \cup Known

(* A field that was proposed is not proposed on another branch, unless the *)
(* updater died or did not promote, an analyst or a stale write put it up  *)
(* again, or two updaters ran at once.                                     *)
ProposedOnce ==
  \A u \in Updaters :
    updater[u] = "checkout" \/ u \in Working => DOMAIN plan[u] \cap covered = {}

===============================================================================
