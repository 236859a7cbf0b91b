---------------------------- MODULE LiveGenerations ----------------------------
(***************************************************************************)
(* The native plugins of a host and their exchange at run time             *)
(* (server/plugins: live, lifecycle, composition, admission, tasks).  The  *)
(* host serves one generation; a change stops what it affects, starts a    *)
(* candidate that inherits the rest, and publishes it, or starts the old   *)
(* composition afresh, or goes down.  Requests, response streams and       *)
(* background work of the plugins run meanwhile.                           *)
(***************************************************************************)
EXTENDS Naturals, FiniteSets

CONSTANTS Plugin, Request,
          Depends,     \* the plugins whose services a plugin is initialised with
          Observers,   \* plugins that keep the whole service container
          Selections,  \* the sets of plugins an operator may ask for
          MaxChanges,  \* bound: changes begun, for the generations there are
          Budgets      \* bounds: changes, failing hooks, routes and jobs, jobs, requests

ASSUME DependsAssumption == Plugin # {} /\ Depends \in [Plugin -> SUBSET Plugin]
(* The planner refuses cyclic dependencies: whatever is left has a first and a last plugin. *)
ASSUME AcyclicAssumption ==
  \A S \in (SUBSET Plugin) \ {{}} :
    /\ \E p \in S : Depends[p] \cap S = {}
    /\ \E p \in S : \A q \in S : p \notin Depends[q]
ASSUME SelectionAssumption == Observers \subseteq Plugin /\ Selections \subseteq SUBSET Plugin
Budget == [changes : Nat, faults : Nat, jobs : Nat, requests : Nat]
ASSUME BoundAssumption ==
  /\ MaxChanges \in Nat
  /\ Budgets \subseteq Budget /\ \A budget \in Budgets : budget.changes <= MaxChanges

VARIABLES
  lifecycle,  \* per generation: the instances it consists of and what became of them
  unit,       \* per instance, named by its plugin and the generation that made it
  current,    \* the generation requests are dispatched to; 0: none yet
  made,       \* generations composed so far
  op,         \* the holder of the operation lock and how far it is
  request,
  left        \* what is left of the budget

vars == <<lifecycle, unit, current, made, op, request, left>>

Generation == 1..(2 * MaxChanges + 1)
Instance == Plugin \X Generation
Live == {"entered", "opened", "ready"}
Starting == {"open", "resolve", "launch", "ready", "route"}
Stopping == {"quiesce", "drain", "release"}

Lifecycle == [entries : [Plugin -> {0} \cup Generation], cancelled : BOOLEAN,
              entered : SUBSET Plugin, retired : SUBSET Plugin, dirty : BOOLEAN]
Unit == [stage : {"absent", "stopped", "stuck"} \cup Live, cancelled : BOOLEAN,
         busy : BOOLEAN, failed : BOOLEAN, stops : 0..1]
Operation == [kind : {"idle", "initialize", "change", "shutdown"},
              stage : {"first", "old", "candidate", "recovery", "rest"},
              step : {"build"} \cup Starting \cup Stopping, on : {0} \cup Generation,
              todo : SUBSET Plugin, selected : SUBSET Plugin, changed : SUBSET Plugin,
              target : SUBSET Plugin, dirty : BOOLEAN]

(* Every variable keeps its type. *)
TypeOK ==
  /\ lifecycle \in [Generation -> Lifecycle]
  /\ unit \in [Instance -> Unit]
  /\ current \in {0} \cup Generation
  /\ made \in Generation
  /\ op \in Operation
  /\ request \in [Request -> [step : {"none", "queued", "handling", "streaming"},
                              generation : {0} \cup Generation, plugin : Plugin]]
  /\ left \in Budget

-----------------------------------------------------------------------------
(* Composition. *)

Composed(g) == {p \in Plugin : lifecycle[g].entries[p] # 0}
Member(g, p) == <<p, lifecycle[g].entries[p]>>
Members(g) == {Member(g, p) : p \in Composed(g)}
Fresh(g) == {p \in Composed(g) : lifecycle[g].entries[p] = g}
(* The instances an instance was initialised with. *)
Bound(u) == {Member(u[2], p) : p \in Depends[u[1]] \cap Composed(u[2])}

Closed(S, plugins) ==
  \A p \in plugins : p \in Observers \/ Depends[p] \cap S # {} => p \in S
AffectedDirectly(changed, plugins) ==
  IF changed = {} THEN {}
  ELSE changed \cup {p \in plugins : p \in Observers \/ Depends[p] \cap changed # {}}
(* What a change makes rebuild: the least set closed under dependence. *)
Affected(changed, plugins) ==
  IF changed = {} THEN {}
  ELSE {p \in plugins : \A S \in SUBSET plugins :
          changed \subseteq S /\ Closed(S, plugins) => p \in S}

NoLifecycle == [entries |-> [p \in Plugin |-> 0], cancelled |-> FALSE, entered |-> {},
                retired |-> {}, dirty |-> FALSE]
NoUnit == [stage |-> "absent", cancelled |-> FALSE, busy |-> FALSE, failed |-> FALSE, stops |-> 0]
NoOperation == [kind |-> "idle", stage |-> "first", step |-> "build", on |-> 0, todo |-> {},
                selected |-> {}, changed |-> {}, target |-> {}, dirty |-> FALSE]

(* Generation g of the plugins: the changed ones anew, the others as in the old one. *)
Compose(g, plugins, changed, old) ==
  [NoLifecycle EXCEPT !.entries = [p \in Plugin |->
     IF p \notin plugins THEN 0
     ELSE IF p \notin changed THEN lifecycle[old].entries[p] ELSE g]]

-----------------------------------------------------------------------------
(* Stopping the selected part of a generation. *)

CancelledGeneration(g, selected) ==
  [u \in Instance |-> IF u \in Members(g) THEN [unit[u] EXCEPT !.cancelled = TRUE] ELSE unit[u]]
Cancelled(g, selected) ==
  [u \in Instance |-> IF u[1] \in selected /\ u = Member(g, u[1])
                      THEN [unit[u] EXCEPT !.cancelled = TRUE] ELSE unit[u]]

RemainingAll(g, selected) == selected \cap Composed(g)
Remaining(g, selected) == (selected \cap Composed(g)) \ lifecycle[g].retired

StopOf(g, all, stage, dirty) ==
  [op EXCEPT !.stage = stage, !.step = "quiesce", !.on = g, !.selected = all, !.todo = all,
             !.dirty = dirty]
(* Refuse new requests and cancel the selected tasks at once; then wait. *)
BeginStop(g, selected, stage) ==
  /\ op' = StopOf(g, Remaining(g, selected), stage, lifecycle[g].dirty)
  /\ lifecycle' = [lifecycle EXCEPT ![g].cancelled = TRUE]
  /\ unit' = Cancelled(g, Remaining(g, selected))

Holds(r, g) == request[r].step \in {"handling", "streaming"} /\ request[r].generation = g

(* Every request admitted to the generation has ended. *)
AwaitRequests ==
  /\ op.step = "quiesce" /\ \A r \in Request : ~ Holds(r, op.on)
  /\ op' = [op EXCEPT !.step = "drain"]
  /\ UNCHANGED <<lifecycle, unit, current, made, request, left>>

LastAny(p) == p \in op.todo
LastOfGeneration(p) == p \in op.todo /\ \A q \in Composed(op.on) : p \notin Depends[q]
(* Dependants come first. *)
Last(p) == p \in op.todo /\ \A q \in op.todo : p \notin Depends[q]

(* The jobs and host calls of a plugin have ended. *)
Drain(p) ==
  /\ op.step = "drain" /\ Last(p) /\ ~ unit[Member(op.on, p)].busy
  /\ op' = [op EXCEPT !.todo = @ \ {p}, !.dirty = @ \/ unit[Member(op.on, p)].failed]
  /\ UNCHANGED <<lifecycle, unit, current, made, request, left>>

BeginRelease ==
  /\ op.step = "drain" /\ op.todo = {}
  /\ op' = [op EXCEPT !.step = "release", !.todo = op.selected \cap lifecycle[op.on].entered]
  /\ UNCHANGED <<lifecycle, unit, current, made, request, left>>

Spend(what) == left[what] > 0 /\ left' = [left EXCEPT ![what] = @ - 1]
Fault(fails) == IF fails THEN Spend("faults") ELSE UNCHANGED left

(* The stop hooks of a plugin; an error does not keep the other plugins from theirs. *)
Release(p, fails) ==
  /\ op.step = "release" /\ Last(p) /\ Fault(fails)
  /\ op' = [op EXCEPT !.todo = @ \ {p}, !.dirty = @ \/ fails]
  /\ unit' = [unit EXCEPT ![Member(op.on, p)].stage = IF fails THEN "stuck" ELSE "stopped",
                          ![Member(op.on, p)].stops = @ + 1]
  /\ UNCHANGED <<lifecycle, current, made, request>>

Retired == [lifecycle EXCEPT ![op.on].retired = @ \cup op.selected, ![op.on].dirty = op.dirty]

BeginStart(g, stage) ==
  /\ op' = [op EXCEPT !.stage = stage, !.step = "open", !.on = g, !.todo = Composed(g)]
  /\ lifecycle' = Retired
  /\ UNCHANGED unit

(* What is left of the served generation is stopped too; the host stays down. *)
GoDown ==
  LET all == Composed(current) \ Retired[current].retired IN
  /\ op' = StopOf(current, all, "rest", Retired[current].dirty)
  /\ lifecycle' = Retired
  /\ unit' = Cancelled(current, all)

EndOperation == op' = NoOperation /\ lifecycle' = Retired /\ UNCHANGED unit

RecoverableAnyway == op.stage = "candidate"
Recoverable == op.stage = "candidate" /\ ~ op.dirty
Replaceable == op.stage = "old" /\ ~ op.dirty

(* A stop is over: what follows depends on whether everything was cleaned up. *)
Released ==
  /\ op.step = "release" /\ op.todo = {}
  /\ IF Replaceable THEN BeginStart(made - 1, "candidate")
     ELSE IF Recoverable THEN BeginStart(made, "recovery")
     ELSE IF op.stage \in {"first", "rest"} THEN EndOperation
     ELSE GoDown
  /\ UNCHANGED <<current, made, request, left>>

-----------------------------------------------------------------------------
(* Starting a generation. *)

Compensate == BeginStop(op.on, Fresh(op.on), op.stage)
Opening == {p \in Fresh(op.on) : unit[<<p, op.on>>].stage = "entered"}
MayGoOn == op.step \in Starting /\ ~ lifecycle[op.on].cancelled

EnterFresh(p) ==
  /\ MayGoOn /\ op.step = "open" /\ Opening = {}
  /\ p \in op.todo /\ Depends[p] \cap op.todo = {}
  /\ lifecycle' = [lifecycle EXCEPT ![op.on].entered = @ \cup ({p} \cap Fresh(op.on))]
  /\ unit' = IF p \in Fresh(op.on) THEN [unit EXCEPT ![<<p, op.on>>].stage = "entered"] ELSE unit
  /\ op' = [op EXCEPT !.todo = @ \ {p}]
  /\ UNCHANGED <<current, made, request, left>>

(* A plugin is registered for its stop hooks before its resources are initialised; *)
(* an inherited one is registered only.  Its dependencies came before.             *)
Enter(p) ==
  /\ MayGoOn /\ op.step = "open" /\ Opening = {}
  /\ p \in op.todo /\ Depends[p] \cap op.todo = {}
  /\ lifecycle' = [lifecycle EXCEPT ![op.on].entered = @ \cup {p}]
  /\ unit' = IF p \in Fresh(op.on) THEN [unit EXCEPT ![<<p, op.on>>].stage = "entered"] ELSE unit
  /\ op' = [op EXCEPT !.todo = @ \ {p}]
  /\ UNCHANGED <<current, made, request, left>>

Initialized(p) ==
  /\ op.step = "open" /\ p \in Opening
  /\ unit' = [unit EXCEPT ![<<p, op.on>>].stage = "opened"]
  /\ UNCHANGED <<lifecycle, current, made, op, request, left>>

NextStep(step, todo) ==
  /\ op' = [op EXCEPT !.step = step, !.todo = todo]
  /\ UNCHANGED <<lifecycle, unit, current, made, request, left>>

(* The required services resolve. *)
Resolve == MayGoOn /\ op.step = "open" /\ op.todo = {} /\ Opening = {} /\ NextStep("launch", Fresh(op.on))

(* The start hooks restore what the plugins own. *)
Launch(p) == MayGoOn /\ op.step = "launch" /\ p \in op.todo /\ Depends[p] \cap op.todo = {}
             /\ NextStep("launch", op.todo \ {p})
Launched == MayGoOn /\ op.step = "launch" /\ op.todo = {} /\ NextStep("ready", Fresh(op.on))

(* The ready hooks begin background work, once all plugins are restored. *)
MakeReady(p) ==
  /\ MayGoOn /\ op.step = "ready" /\ p \in op.todo /\ Depends[p] \cap op.todo = {}
  /\ op' = [op EXCEPT !.todo = @ \ {p}]
  /\ unit' = [unit EXCEPT ![<<p, op.on>>].stage = "ready"]
  /\ UNCHANGED <<lifecycle, current, made, request, left>>
Started == MayGoOn /\ op.step = "ready" /\ op.todo = {} /\ NextStep("route", {})

(* The routes are assembled and the generation replaces the served one. *)
Publish ==
  /\ MayGoOn /\ op.step = "route"
  /\ current' = op.on /\ op' = NoOperation
  /\ UNCHANGED <<lifecycle, unit, made, request, left>>

(* A hook, the resolution of a service or the assembly of the routes fails. *)
StartFails ==
  /\ op.step \in Starting
  /\ op.step = "open" => Opening # {} \/ op.todo = {}
  /\ op.step \in {"launch", "ready"} => op.todo # {}
  /\ Compensate /\ Spend("faults")
  /\ UNCHANGED <<current, made, request>>

(* The caller of the first start goes away: no further hook begins. *)
Abandon ==
  /\ op.kind = "initialize" /\ MayGoOn
  /\ lifecycle' = [lifecycle EXCEPT ![op.on].cancelled = TRUE]
  /\ unit' = Cancelled(op.on, Fresh(op.on))
  /\ UNCHANGED <<current, made, op, request, left>>
Interrupted ==
  /\ op.step \in Starting /\ lifecycle[op.on].cancelled
  /\ op.step = "open" => Opening = {}
  /\ Compensate
  /\ UNCHANGED <<current, made, request, left>>

-----------------------------------------------------------------------------
(* Operations. *)

Available == current # 0 /\ ~ lifecycle[current].cancelled

Differing(target, replaced) ==
  (Composed(current) \ target) \cup (target \ Composed(current)) \cup replaced

(* reconfigure and restart: the caller names the plugins and the recipes that differ. *)
BeginChange(target, replaced) ==
  /\ op.kind = "idle" /\ Available /\ Spend("changes")
  /\ replaced \subseteq Composed(current) \cap target /\ Differing(target, replaced) # {}
  /\ op' = [NoOperation EXCEPT !.kind = "change", !.target = target,
              !.changed = Affected(Differing(target, replaced), Composed(current) \cup target)]
  /\ UNCHANGED <<lifecycle, unit, current, made, request>>

(* The composition is invalid, or the caller goes away before anything is stopped. *)
Refuse ==
  /\ op.kind = "change" /\ op.step = "build"
  /\ op' = NoOperation
  /\ UNCHANGED <<lifecycle, unit, current, made, request, left>>

(* Candidate and recovery are composed, then the affected part of the old one is stopped. *)
Commit ==
  /\ op.kind = "change" /\ op.step = "build"
  /\ made' = made + 2
  /\ op' = StopOf(current, Remaining(current, op.changed), "old", lifecycle[current].dirty)
  /\ lifecycle' = [lifecycle EXCEPT
       ![made + 1] = Compose(made + 1, op.target, op.changed, current),
       ![made + 2] = Compose(made + 2, Composed(current), op.changed, current),
       ![current].cancelled = TRUE]
  /\ unit' = Cancelled(current, Remaining(current, op.changed))
  /\ UNCHANGED <<current, request, left>>

(* Stops the served generation; may be called again. *)
Shutdown ==
  /\ op.kind = "idle" /\ current # 0
  /\ op' = [StopOf(current, Remaining(current, Plugin), "rest", lifecycle[current].dirty)
              EXCEPT !.kind = "shutdown"]
  /\ lifecycle' = [lifecycle EXCEPT ![current].cancelled = TRUE]
  /\ unit' = Cancelled(current, Remaining(current, Plugin))
  /\ UNCHANGED <<current, made, request, left>>

-----------------------------------------------------------------------------
(* Requests and background work. *)

(* A request takes the router of the served generation and asks for a permit. *)
Dispatch(r, p) ==
  /\ request[r].step = "none" /\ Available /\ p \in Composed(current) /\ Spend("requests")
  /\ request' = [request EXCEPT ![r] = [step |-> "queued", generation |-> current, plugin |-> p]]
  /\ UNCHANGED <<lifecycle, unit, current, made, op>>

AdmitsAll(g) == TRUE
Admits(g) == ~ lifecycle[g].cancelled
AdmitBeforeStop(r) ==
  /\ request[r].step = "queued"
  /\ lifecycle[request[r].generation].retired = {}
  /\ request' = [request EXCEPT ![r].step =
                   IF Admits(request[r].generation) THEN "handling" ELSE "none"]
  /\ UNCHANGED <<lifecycle, unit, current, made, op, left>>

(* The permit is granted once no stop waits for or holds the other side of the lock. *)
Admit(r) ==
  /\ request[r].step = "queued"
  /\ ~ (op.step \in Stopping /\ op.on = request[r].generation)
  /\ request' = [request EXCEPT ![r].step =
                   IF Admits(request[r].generation) THEN "handling" ELSE "none"]
  /\ UNCHANGED <<lifecycle, unit, current, made, op, left>>

(* The handler answers, with a body that is still being produced or a finished one. *)
Respond(r, step) ==
  /\ request[r].step = "handling" /\ step \in {"streaming", "none"}
  /\ request' = [request EXCEPT ![r].step = step]
  /\ UNCHANGED <<lifecycle, unit, current, made, op, left>>

(* The body ends, is dropped, or meets the cancellation. *)
EndStream(r) ==
  /\ request[r].step = "streaming"
  /\ request' = [request EXCEPT ![r].step = "none"]
  /\ UNCHANGED <<lifecycle, unit, current, made, op, left>>

AcceptsWork(u) == ~ unit[u].cancelled
(* A plugin begins a job or a host call in its task scope. *)
BeginWork(u) ==
  /\ unit[u].stage \in Live /\ ~ unit[u].busy /\ AcceptsWork(u) /\ Spend("jobs")
  /\ unit' = [unit EXCEPT ![u].busy = TRUE]
  /\ UNCHANGED <<lifecycle, current, made, op, request>>

EndWork(u, fails) ==
  /\ unit[u].busy /\ Fault(fails)
  /\ unit' = [unit EXCEPT ![u].busy = FALSE, ![u].failed = @ \/ fails]
  /\ UNCHANGED <<lifecycle, current, made, op, request>>

-----------------------------------------------------------------------------
Init ==
  /\ \E plugins \in Selections :
       /\ lifecycle = [g \in Generation |-> IF g = 1
            THEN [NoLifecycle EXCEPT !.entries = [p \in Plugin |-> IF p \in plugins THEN 1 ELSE 0]]
            ELSE NoLifecycle]
       /\ op = [NoOperation EXCEPT !.kind = "initialize", !.step = "open", !.on = 1,
                                   !.todo = plugins]
  /\ unit = [u \in Instance |-> NoUnit]
  /\ current = 0 /\ made = 1 /\ left \in Budgets
  /\ request \in [Request -> [step : {"none"}, generation : {0}, plugin : {CHOOSE p \in Plugin : TRUE}]]

StopStep == \/ AwaitRequests \/ BeginRelease \/ Released
            \/ \E p \in Plugin : Drain(p) \/ \E fails \in BOOLEAN : Release(p, fails)
StartStep == \/ Resolve \/ Launched \/ Started \/ Publish \/ StartFails \/ Interrupted
             \/ \E p \in Plugin : Enter(p) \/ Initialized(p) \/ Launch(p) \/ MakeReady(p)
Call == \/ Refuse \/ Commit \/ Shutdown \/ Abandon
        \/ \E target \in Selections, replaced \in SUBSET Plugin : BeginChange(target, replaced)
RequestStep(r) == \/ Admit(r) \/ EndStream(r)
                  \/ \E step \in {"streaming", "none"} : Respond(r, step)
Work == \E u \in Instance : BeginWork(u) \/ \E fails \in BOOLEAN : EndWork(u, fails)

Next == \/ StopStep \/ StartStep \/ Call \/ Work
        \/ \E r \in Request : RequestStep(r) \/ \E p \in Plugin : Dispatch(r, p)

(* The host's own tasks go on; handlers answer, bodies end once they are cancelled or *)
(* finished, and work ends: the contract of PluginTasks.spawn and of the README.  The *)
(* lock of the requests is fair, so a request is not overtaken by stops for ever.     *)
Fairness == /\ WF_vars(StopStep) /\ WF_vars(StartStep) /\ WF_vars(Refuse \/ Commit)
            /\ \A r \in Request : WF_vars(RequestStep(r)) /\ SF_vars(Admit(r))
            /\ \A u \in Instance : WF_vars(\E fails \in BOOLEAN : EndWork(u, fails))
Spec == Init /\ [][Next]_vars /\ Fairness

-----------------------------------------------------------------------------
(* Never two instances of a plugin that may hold its resources: an instance is  *)
(* stopped, and without an error, before the next one is initialised.           *)
OneInstance ==
  \A p \in Plugin, g \in Generation, h \in Generation :
    g # h => \/ unit[<<p, g>>].stage \in {"absent", "stopped"}
             \/ unit[<<p, h>>].stage \in {"absent", "stopped"}

(* Whatever an instance was initialised with outlives it. *)
DependenciesOutlive ==
  \A u \in Instance : unit[u].stage \in Live =>
    \A v \in Bound(u) : unit[v].stage \in {"opened", "ready"}

(* Requests, response bodies and work only ever run on instances that are up. *)
WorkOnLive ==
  /\ \A r \in Request, g \in Generation : Holds(r, g) =>
       \A u \in {Member(g, request[r].plugin)} \cup Bound(Member(g, request[r].plugin)) :
         unit[u].stage = "ready"
  /\ \A u \in Instance : unit[u].busy =>
       /\ unit[u].stage \in Live
       /\ \A v \in Bound(u) : unit[v].stage \in Live

(* While the host says it is available, it is whole: every plugin is up, may     *)
(* work, and uses the instances that are served; nothing else is left running.   *)
AvailableMeansWhole ==
  Available =>
    /\ \A u \in Members(current) : /\ unit[u].stage = "ready" /\ ~ unit[u].cancelled
                                   /\ Bound(u) \subseteq Members(current)
                                   /\ u[1] \in Observers => u[2] = current
    /\ \A u \in Instance \ Members(current) : unit[u].stage \notin Live

(* When the host has stopped for good, after a shutdown, a failed first start or *)
(* a change that could not be undone, every plugin that was ever entered has had *)
(* its stop hooks run, and nothing works any more.                               *)
DownMeansReleased ==
  op.kind = "idle" /\ ~ Available =>
    /\ \A u \in Instance : unit[u].stage \notin Live /\ ~ unit[u].busy
    /\ \A r \in Request, g \in Generation : ~ Holds(r, g)

(* Every operation ends. *)
OperationsEnd == op.kind # "idle" ~> op.kind = "idle"

(* Every request is answered or refused, whatever is exchanged meanwhile. *)
RequestsEnd == \A r \in Request : request[r].step # "none" ~> request[r].step = "none"
-----------------------------------------------------------------------------
(* The generations keep the promise of the owner of the plugins (RuntimeHost). *)

Doing ==
  IF op.kind = "initialize" THEN "starting"
  ELSE IF op.kind = "idle" THEN (IF Available THEN "serving" ELSE "down")
  ELSE IF op.kind = "change" /\ op.step = "build" THEN "asked"
  ELSE IF op.kind = "change" /\ op.stage # "rest" THEN "changing" ELSE "stopping"
Served == [p \in Plugin |-> IF current = 0 THEN 0 ELSE lifecycle[current].entries[p]]
Wanted == IF op.kind = "change" THEN op.target ELSE {}
Touched == IF op.kind = "change" THEN op.changed ELSE {}
UpUnits == {u \in Instance : unit[u].stage \in Live}
EndedUnits == {u \in Instance : unit[u].cancelled}
BusyUnits == {u \in Instance : unit[u].busy}
Inside == {r \in Request : request[r].step \in {"handling", "streaming"}}

Promise == INSTANCE RuntimeHost WITH
  Number <- Generation, None <- 0, phase <- Doing, served <- Served,
  wanted <- Wanted, affected <- Touched,
  up <- UpUnits, ended <- EndedUnits, busy <- BusyUnits, inside <- Inside

(* A host serves all of one composition and exchanges nothing meanwhile; what a  *)
(* change does not affect keeps instance and tasks throughout; a change ends     *)
(* with the target, with the old set anew, or with a host that has gone down     *)
(* and left nothing behind.                                                      *)
KeepsPromise == Promise!Spec
=============================================================================
