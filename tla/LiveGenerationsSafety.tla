------------------------- MODULE LiveGenerationsSafety -------------------------
(***************************************************************************)
(* What LiveGenerations promises of the instances that are up, of requests *)
(* and of work, for any plugins, dependencies, changes and failures.       *)
(* The steps are first sorted by what they change; SafetyInv then extends  *)
(* the inductive invariant of LiveGenerationsProofs layer by layer.        *)
(***************************************************************************)
EXTENDS LiveGenerationsProofs

SameCancels ==
  \A p \in Plugin, g \in Generation : unit'[<<p, g>>].cancelled = unit[<<p, g>>].cancelled
SameBusy ==
  \A p \in Plugin, g \in Generation : unit'[<<p, g>>].busy = unit[<<p, g>>].busy
CancelsUnits(h, S) ==
  \A p \in Plugin, g \in Generation :
    unit'[<<p, g>>].cancelled <=>
      unit[<<p, g>>].cancelled \/ (p \in S /\ lifecycle[h].entries[p] = g)

(* Requests and work go on, or nothing happens. *)
Calm ==
  /\ UNCHANGED <<lifecycle, current, made, op>> /\ SameStages /\ SameCancels
  /\ \/ request' = request /\ SameBusy
     \/ SameBusy /\ \E r \in Request : RequestStep(r) \/ \E p \in Plugin : Dispatch(r, p)
     \/ Work

(* A start or a stop moves on. *)
Moves ==
  /\ UNCHANGED <<lifecycle, unit, current, made, request>> /\ SameOperation
  /\ \/ /\ op.step = "quiesce" /\ op'.step = "drain" /\ op'.todo = op.todo
        /\ \A r \in Request : ~ Holds(r, op.on)
     \/ /\ op.step = "drain" /\ op'.step = "drain"
        /\ \E p \in op.todo : op'.todo = op.todo \ {p} /\ ~ unit[Member(op.on, p)].busy
     \/ /\ op.step = "drain" /\ op.todo = {} /\ op'.step = "release"
        /\ op'.todo = op.selected \cap lifecycle[op.on].entered
     \/ op.step = "open" /\ op.todo = {} /\ Opening = {} /\ op'.step = "launch"
     \/ op.step = "launch" /\ op'.step = "launch"
     \/ op.step = "launch" /\ op'.step = "ready" /\ op'.todo = Fresh(op.on)
     \/ op.step = "ready" /\ op.todo = {} /\ op'.step = "route"

(* A plugin is registered in a start, and initialised if it is a fresh one. *)
Enters(p) ==
  /\ Entering(p) /\ request' = request /\ SameCancels /\ SameBusy
  /\ op.step = "open" /\ ~ lifecycle[op.on].cancelled /\ Opening = {}
  /\ p \in op.todo /\ Depends[p] \cap op.todo = {}

(* The initialisation or the ready hooks of a fresh plugin have run. *)
Rises(p) ==
  /\ UNCHANGED <<lifecycle, current, made, request>> /\ SameOperation /\ SameCancels /\ SameBusy
  /\ p \in Fresh(op.on) /\ op'.step = op.step
  /\ \A q \in Plugin, g \in Generation :
       (q # p \/ g # op.on) => unit'[<<q, g>>].stage = unit[<<q, g>>].stage
  /\ \/ /\ op.step = "open" /\ unit[<<p, op.on>>].stage = "entered" /\ op'.todo = op.todo
        /\ unit'[<<p, op.on>>].stage = "opened"
     \/ /\ op.step = "ready" /\ p \in op.todo /\ op'.todo = op.todo \ {p}
        /\ unit'[<<p, op.on>>].stage = "ready"

(* The stop hooks of a plugin have run. *)
Falls(p) ==
  /\ UNCHANGED <<lifecycle, current, made, request>> /\ SameOperation /\ SameCancels /\ SameBusy
  /\ op.step = "release" /\ op'.step = "release" /\ p \in op.todo /\ op'.todo = op.todo \ {p}
  /\ \A q \in op.todo : p \notin Depends[q]
  /\ unit'[Member(op.on, p)].stage \notin Live
  /\ \A q \in Plugin, g \in Generation :
       <<q, g>> # Member(op.on, p) => unit'[<<q, g>>].stage = unit[<<q, g>>].stage

(* A stop is over; a start, nothing, or the stop of the rest follows. *)
NextBegins ==
  /\ Changing /\ op.stage \in {"old", "candidate"}
  /\ op'.kind = "change" /\ op'.step = "open" /\ op'.on \in {made - 1, made}
  /\ op'.on # current /\ op'.todo = Composed(op'.on) /\ op'.stage \in {"candidate", "recovery"}
  /\ op'.changed = op.changed /\ op'.target = op.target /\ SameCancels
NothingFollows == op' = NoOperation /\ op.stage \in {"first", "rest"} /\ SameCancels
RestFollows ==
  /\ Changing /\ op.stage # "rest" /\ op'.kind = "change" /\ op'.step = "quiesce" /\ op'.stage = "rest"
  /\ op'.on = current /\ op'.selected = Composed(current) \ lifecycle'[current].retired
  /\ op'.todo = op'.selected /\ op'.changed = op.changed /\ op'.target = op.target
  /\ CancelsUnits(current, op'.selected)
Ends ==
  /\ op.step = "release" /\ op.todo = {} /\ op.on \in Generation
  /\ UNCHANGED <<current, made, request>> /\ StopOver /\ SameBusy
  /\ NextBegins \/ NothingFollows \/ RestFollows

Publishes ==
  /\ op.step = "route" /\ ~ lifecycle[op.on].cancelled /\ current' = op.on /\ op' = NoOperation
  /\ UNCHANGED <<lifecycle, unit, made, request>>

(* A start is given up. *)
GivesUp ==
  /\ op.step \in Starting /\ UNCHANGED <<current, made, request>>
  /\ CancelsOnly(op.on) /\ lifecycle'[op.on].cancelled /\ SameStages /\ SameBusy
  /\ CancelsUnits(op.on, Fresh(op.on))
  /\ op'.kind = op.kind /\ op'.stage = op.stage /\ op'.on = op.on /\ op'.changed = op.changed
  /\ op'.target = op.target
  /\ \/ op' = op /\ op.kind = "initialize"
     \/ op'.step = "quiesce" /\ op'.selected = Fresh(op.on) /\ op'.todo = Fresh(op.on)

(* A change is asked for or given up before anything is stopped. *)
Builds ==
  /\ UNCHANGED <<lifecycle, unit, current, made, request>> /\ Available
  /\ op.step = "build" /\ op'.step = "build" /\ op'.on = 0
  /\ \/ op.kind = "change" /\ op'.kind = "idle"
     \/ /\ op.kind = "idle" /\ op'.kind = "change" /\ op'.changed # {}
        /\ Closed(op'.changed, Composed(current) \cup op'.target)

(* The served generation begins to stop, for a change or for good. *)
ServedStops ==
  /\ op.step = "build" /\ current \in Generation /\ UNCHANGED <<current, request>>
  /\ op'.step = "quiesce" /\ op'.on = current /\ op'.todo = op'.selected
  /\ SameStages /\ SameBusy /\ CancelsUnits(current, op'.selected)
  /\ lifecycle'[current].cancelled
Commits ==
  /\ ServedStops /\ op.kind = "change" /\ Available /\ op'.kind = "change" /\ op'.stage = "old"
  /\ op'.changed = op.changed /\ op'.target = op.target
  /\ op'.selected = op.changed \cap Composed(current) /\ made' = made + 2
  /\ {made - 1, made} \cap {made + 1, made + 2} = {} /\ {made + 1, made + 2} \subseteq Generation
  /\ \A g \in Generation :
       IF g \in {made + 1, made + 2}
       THEN /\ lifecycle'[g].entered = {} /\ lifecycle'[g].retired = {} /\ ~ lifecycle'[g].cancelled
            /\ \A p \in Plugin :
                 lifecycle'[g].entries[p] =
                   IF p \notin (IF g = made + 1 THEN op.target ELSE Composed(current)) THEN 0
                   ELSE IF p \notin op.changed THEN lifecycle[current].entries[p] ELSE g
       ELSE /\ lifecycle'[g].entries = lifecycle[g].entries
            /\ lifecycle'[g].entered = lifecycle[g].entered
            /\ lifecycle'[g].retired = lifecycle[g].retired
            /\ g # current => lifecycle'[g].cancelled = lifecycle[g].cancelled
ShutsDown ==
  /\ ServedStops /\ op.kind = "idle" /\ op'.kind = "shutdown" /\ op'.stage = "rest"
  /\ op'.selected = Composed(current) \ lifecycle[current].retired
  /\ made' = made /\ CancelsOnly(current)

Changes ==
  \/ Calm \/ Moves \/ Ends \/ Publishes \/ GivesUp \/ Builds \/ Commits \/ ShutsDown
  \/ \E p \in Plugin : Enters(p) \/ Rises(p) \/ Falls(p)

-----------------------------------------------------------------------------
(* Every step is one of those. *)
LEMMA UnitsCancelled ==
  ASSUME TypeOK, NEW h \in Generation, NEW S \in SUBSET Plugin, unit' = Cancelled(h, S)
  PROVE  SameStages /\ SameBusy /\ CancelsUnits(h, S)
<1>1. SameStages
  BY CancelledUnits
<1>2. ASSUME NEW p \in Plugin, NEW g \in Generation
      PROVE  /\ unit'[<<p, g>>].busy = unit[<<p, g>>].busy
             /\ unit'[<<p, g>>].cancelled <=>
                  unit[<<p, g>>].cancelled \/ (p \in S /\ lifecycle[h].entries[p] = g)
  <2> DEFINE u == <<p, g>>
  <2>1. u \in Instance /\ u[1] = p /\ (u = Member(h, u[1]) <=> lifecycle[h].entries[p] = g)
    BY DEF Instance, Member
  <2>2. unit[u] \in Unit
    BY <2>1 DEF TypeOK
  <2>3. unit'[u] = IF p \in S /\ lifecycle[h].entries[p] = g
                   THEN [unit[u] EXCEPT !.cancelled = TRUE] ELSE unit[u]
    BY <2>1 DEF Cancelled
  <2> HIDE DEF u
  <2>4. unit'[u].busy = unit[u].busy
    BY <2>2, <2>3 DEF Unit
  <2>5. unit'[u].cancelled <=> unit[u].cancelled \/ (p \in S /\ lifecycle[h].entries[p] = g)
    BY <2>2, <2>3 DEF Unit
  <2> QED
    BY <2>4, <2>5 DEF u
<1> QED
  BY <1>1, <1>2 DEF SameBusy, CancelsUnits

(* Instances that do not change keep stage, cancellation and work. *)
LEMMA SameUnits ==
  ASSUME unit' = unit
  PROVE  SameStages /\ SameCancels /\ SameBusy
BY DEF SameStages, SameCancels, SameBusy

(* Beginning and ending work changes nothing but who is busy. *)
LEMMA WorkCalm ==
  ASSUME IInv, Work
  PROVE  Calm
<1>1. PICK u \in Instance : BeginWork(u) \/ \E fails \in BOOLEAN : EndWork(u, fails)
  BY DEF Work
<1>2. UNCHANGED <<lifecycle, current, made, op>>
  BY <1>1 DEF BeginWork, EndWork
<1>3. \A v \in Instance : /\ unit'[v].stage = unit[v].stage /\ unit'[v].stops = unit[v].stops
                          /\ unit'[v].cancelled = unit[v].cancelled
  <2>1. CASE BeginWork(u)
    BY <2>1 DEF BeginWork, IInv, TypeOK, Unit
  <2>2. CASE \E fails \in BOOLEAN : EndWork(u, fails)
    <3>1. PICK fails \in BOOLEAN : EndWork(u, fails)
      BY <2>2
    <3>2. unit' = [unit EXCEPT ![u].busy = FALSE, ![u].failed = unit[u].failed \/ fails]
      BY <3>1 DEF EndWork
    <3> QED
      BY <3>2 DEF IInv, TypeOK, Unit
  <2> QED
    BY <1>1, <2>1, <2>2
<1>4. SameStages /\ SameCancels
  BY <1>3 DEF SameStages, SameCancels, Instance
<1> QED
  BY <1>2, <1>4 DEF Calm

(* Requests change nothing but themselves. *)
LEMMA RequestCalm ==
  ASSUME \E r \in Request : RequestStep(r) \/ \E p \in Plugin : Dispatch(r, p)
  PROVE  Calm
<1>1. UNCHANGED <<lifecycle, unit, current, made, op>>
  BY DEF RequestStep, Dispatch, Admit, EndStream, Respond
<1> QED
  BY <1>1, SameUnits DEF Calm

(* The steps of an operation that only move it on. *)
LEMMA MovesEffect ==
  ASSUME IInv,
         \/ AwaitRequests \/ BeginRelease \/ Resolve \/ Launched \/ Started
         \/ \E p \in Plugin : Drain(p) \/ Launch(p)
  PROVE  Moves
<1> USE DEF IInv, TypeOK, Operation, SameOperation
<1>1. CASE AwaitRequests
  BY <1>1 DEF AwaitRequests, Moves
<1>2. CASE BeginRelease
  <2>1. op' = [op EXCEPT !.step = "release", !.todo = op.selected \cap lifecycle[op.on].entered]
    BY <1>2 DEF BeginRelease
  <2> QED
    BY <1>2, <2>1 DEF BeginRelease, Moves
<1>3. CASE Resolve
  BY <1>3 DEF Resolve, NextStep, Moves
<1>4. CASE Launched
  BY <1>4 DEF Launched, NextStep, Moves
<1>5. CASE Started
  BY <1>5 DEF Started, NextStep, Moves
<1>6. ASSUME NEW p \in Plugin, Drain(p) PROVE Moves
  BY <1>6 DEF Drain, Last, Moves
<1>7. ASSUME NEW p \in Plugin, Launch(p) PROVE Moves
  BY <1>7 DEF Launch, NextStep, Moves
<1> QED
  BY <1>1, <1>2, <1>3, <1>4, <1>5, <1>6, <1>7

(* What writing the stage of one instance leaves alone. *)
LEMMA Restaged ==
  ASSUME TypeOK, NEW u \in Instance, NEW stage, unit' = [unit EXCEPT ![u].stage = stage]
  PROVE  /\ SameCancels /\ SameBusy /\ unit'[u].stage = stage
         /\ \A q \in Plugin, g \in Generation :
              <<q, g>> # u => unit'[<<q, g>>].stage = unit[<<q, g>>].stage
<1>1. \A v \in Instance :
        /\ unit'[v].cancelled = unit[v].cancelled /\ unit'[v].busy = unit[v].busy
        /\ unit'[v].stage = IF v = u THEN stage ELSE unit[v].stage
  BY DEF TypeOK, Unit
<1>2. \A q \in Plugin, g \in Generation : <<q, g>> \in Instance
  BY DEF Instance
<1> QED
  BY <1>1, <1>2 DEF SameCancels, SameBusy

(* Entering a plugin registers it; a fresh one begins to hold resources. *)
LEMMA EntersEffect ==
  ASSUME IInv, NEW p \in Plugin, Enter(p)
  PROVE  Enters(p)
<1>1. Entering(p)
  BY EnterChanges
<1>2. /\ op.step = "open" /\ ~ lifecycle[op.on].cancelled /\ Opening = {} /\ request' = request
      /\ p \in op.todo /\ Depends[p] \cap op.todo = {} /\ op.step \in Starting
      /\ unit' = IF p \in Fresh(op.on) THEN [unit EXCEPT ![<<p, op.on>>].stage = "entered"] ELSE unit
  BY DEF Enter, MayGoOn
<1>3. <<p, op.on>> \in Instance
  BY <1>2, AtGeneration DEF Instance
<1>4. SameCancels /\ SameBusy
  BY <1>2, <1>3, Restaged, SameUnits DEF IInv
<1> QED
  BY <1>1, <1>2, <1>4 DEF Enters

(* A fresh plugin becomes opened, later ready. *)
LEMMA RisesEffect ==
  ASSUME IInv, NEW p \in Plugin, Initialized(p) \/ MakeReady(p)
  PROVE  Rises(p)
<1> DEFINE stage == IF op.step = "open" THEN "opened" ELSE "ready"
<1>1. /\ op.step \in Starting /\ UNCHANGED <<lifecycle, current, made, request>>
      /\ unit' = [unit EXCEPT ![<<p, op.on>>].stage = stage]
      /\ SameOperation /\ op'.step = op.step
      /\ \/ /\ op.step = "open" /\ p \in Fresh(op.on)
            /\ unit[<<p, op.on>>].stage = "entered" /\ op'.todo = op.todo
         \/ op.step = "ready" /\ p \in op.todo /\ op'.todo = op.todo \ {p}
  <2>1. CASE Initialized(p)
    BY <2>1 DEF Initialized, Opening, SameOperation, Starting
  <2>2. CASE MakeReady(p)
    BY <2>2 DEF MakeReady, MayGoOn, SameOperation, IInv, TypeOK, Operation
  <2> QED
    BY <2>1, <2>2
<1>2. op.on \in Generation /\ <<p, op.on>> \in Instance
  BY <1>1, AtGeneration DEF Instance
<1>3. p \in Fresh(op.on)
  BY <1>1 DEF IInv, Phase
<1> HIDE DEF stage
<1>4. /\ SameCancels /\ SameBusy /\ unit'[<<p, op.on>>].stage = stage
      /\ \A q \in Plugin, g \in Generation :
           (q # p \/ g # op.on) => unit'[<<q, g>>].stage = unit[<<q, g>>].stage
  <2>1. \A q \in Plugin, g \in Generation : (q # p \/ g # op.on) => <<q, g>> # <<p, op.on>>
    OBVIOUS
  <2>2. unit' = [unit EXCEPT ![<<p, op.on>>].stage = stage]
    BY <1>1
  <2>3. /\ SameCancels /\ SameBusy /\ unit'[<<p, op.on>>].stage = stage
        /\ \A q \in Plugin, g \in Generation :
             <<q, g>> # <<p, op.on>> => unit'[<<q, g>>].stage = unit[<<q, g>>].stage
    BY <1>2, <2>2, Restaged DEF IInv
  <2> QED
    BY <2>1, <2>3
<1> QED
  BY <1>1, <1>3, <1>4 DEF Rises, stage

(* Releasing a plugin takes it down and touches no other. *)
LEMMA FallsEffect ==
  ASSUME IInv, NEW p \in Plugin, NEW fails \in BOOLEAN, Release(p, fails)
  PROVE  Falls(p)
<1> DEFINE u == Member(op.on, p)
           after == IF fails THEN "stuck" ELSE "stopped"
<1>1. /\ op.step = "release" /\ op.step \in Stopping /\ p \in op.todo
      /\ \A q \in op.todo : p \notin Depends[q]
      /\ op' = [op EXCEPT !.todo = @ \ {p}, !.dirty = @ \/ fails]
      /\ unit' = [unit EXCEPT ![u].stage = after, ![u].stops = @ + 1]
      /\ UNCHANGED <<lifecycle, current, made, request>>
  BY DEF Release, Last, Stopping
<1>2. op.on \in Generation
  BY <1>1, AtGeneration
<1>3. p \in Composed(op.on)
  BY <1>1 DEF IInv, Phase
<1>4. u \in Instance
  BY <1>2, <1>3, Types DEF IInv
<1>5. after \notin Live
  BY DEF Live
<1>6. SameOperation /\ op'.step = "release" /\ op'.todo = op.todo \ {p}
  BY <1>1 DEF SameOperation, IInv, TypeOK, Operation
<1> HIDE DEF u, after
<1>7. \A v \in Instance :
        /\ unit'[v].cancelled = unit[v].cancelled /\ unit'[v].busy = unit[v].busy
        /\ unit'[v].stage = IF v = u THEN after ELSE unit[v].stage
  BY <1>1, <1>4 DEF IInv, TypeOK, Unit
<1>8. \A q \in Plugin, g \in Generation : <<q, g>> \in Instance
  BY DEF Instance
<1>9. SameCancels /\ SameBusy
  BY <1>7, <1>8 DEF SameCancels, SameBusy
<1>10. unit'[u].stage \notin Live /\ \A q \in Plugin, g \in Generation :
         <<q, g>> # u => unit'[<<q, g>>].stage = unit[<<q, g>>].stage
  BY <1>4, <1>5, <1>7, <1>8
<1> QED
  BY <1>1, <1>6, <1>9, <1>10 DEF Falls, u

(* What follows the end of a stop. *)
LEMMA EndsEffect ==
  ASSUME IInv, Released
  PROVE  Ends
<1>1. /\ op.step = "release" /\ op.todo = {} /\ UNCHANGED <<current, made, request>>
      /\ lifecycle' = Retired
      /\ \/ BeginStart(made - 1, "candidate") /\ op.stage = "old"
         \/ BeginStart(made, "recovery") /\ op.stage = "candidate"
         \/ EndOperation /\ op.stage \in {"first", "rest"}
         \/ GoDown /\ op.stage \notin {"first", "rest"}
  BY DEF Released, BeginStart, EndOperation, GoDown, Replaceable, Recoverable
<1>2. op.on \in Generation /\ op.kind \in {"initialize", "change", "shutdown"}
      /\ (op.kind = "change" => Changing)
  BY <1>1, AtGeneration DEF IInv, TypeOK, Operation, Stopping
<1>3. op.stage \notin {"first", "rest"} => Changing
  BY <1>2 DEF IInv, Shape
<1>4. Changing => /\ current \in Generation /\ current + 2 <= made /\ made \in Nat /\ current \in Nat
                  /\ op.kind = "change"
  BY BoundAssumption DEF IInv, Shape, TypeOK, Generation, Changing
<1>5. CASE \E g \in {made - 1, made}, stage \in {"candidate", "recovery"} :
             Changing /\ op.stage \in {"old", "candidate"} /\ BeginStart(g, stage)
  <2>1. PICK g \in {made - 1, made}, stage \in {"candidate", "recovery"} :
          Changing /\ op.stage \in {"old", "candidate"} /\ BeginStart(g, stage)
    BY <1>5
  <2>2. unit' = unit /\ g # current
    BY <1>4, <1>5, <2>1 DEF BeginStart
  <2>3. SameStages /\ SameCancels /\ SameBusy
    BY <2>2, SameUnits
  <2>4. StopOver
    BY <1>1, <1>2, <2>3, RetiredLifecycle DEF IInv
  <2>5. /\ op'.kind = "change" /\ op'.step = "open" /\ op'.on = g /\ op'.todo = Composed(g)
        /\ op'.stage = stage /\ op'.changed = op.changed /\ op'.target = op.target
    BY <1>4, <1>5, <2>1 DEF BeginStart, IInv, TypeOK, Operation
  <2>6. NextBegins
    BY <2>1, <2>2, <2>3, <2>5 DEF NextBegins
  <2> QED
    BY <1>1, <1>2, <2>3, <2>4, <2>6 DEF Ends
<1>6. CASE EndOperation /\ op.stage \in {"first", "rest"}
  <2>1. SameStages /\ SameCancels /\ SameBusy
    BY <1>6, SameUnits DEF EndOperation
  <2>2. StopOver
    BY <1>1, <1>2, <2>1, RetiredLifecycle DEF IInv
  <2> QED
    BY <1>1, <1>2, <1>6, <2>1, <2>2 DEF Ends, NothingFollows, EndOperation
<1>7. CASE GoDown /\ op.stage \notin {"first", "rest"}
  <2> DEFINE rest == Composed(current) \ Retired[current].retired
  <2>1. op' = StopOf(current, rest, "rest", Retired[current].dirty) /\ unit' = Cancelled(current, rest)
    BY <1>7 DEF GoDown
  <2>2. rest = Composed(current) \ lifecycle'[current].retired /\ rest \in SUBSET Plugin
    BY <1>1 DEF Composed
  <2> HIDE DEF rest
  <2>3. SameStages /\ SameBusy /\ CancelsUnits(current, rest)
    BY <1>3, <1>4, <1>7, <2>1, <2>2, UnitsCancelled DEF IInv
  <2>4. StopOver
    BY <1>1, <1>2, <2>3, RetiredLifecycle DEF IInv
  <2>5. /\ op'.kind = "change" /\ op'.step = "quiesce" /\ op'.on = current /\ op'.stage = "rest"
        /\ op'.selected = rest /\ op'.todo = rest
        /\ op'.changed = op.changed /\ op'.target = op.target
    BY <1>3, <1>4, <1>7, <2>1 DEF StopOf, IInv, TypeOK, Operation
  <2> QED
    BY <1>1, <1>2, <1>3, <1>7, <2>2, <2>3, <2>4, <2>5 DEF Ends, RestFollows
<1> QED
  BY <1>1, <1>3, <1>5, <1>6, <1>7

(* Publishing replaces the served generation and ends the operation. *)
LEMMA PublishesEffect ==
  ASSUME IInv, Publish
  PROVE  Publishes
BY DEF Publish, MayGoOn, Publishes

(* A start that fails or is interrupted turns into a stop, or is only cancelled. *)
LEMMA GivesUpEffect ==
  ASSUME IInv, Abandon \/ StartFails \/ Interrupted
  PROVE  GivesUp
<1>1. /\ op.step \in Starting /\ UNCHANGED <<current, made, request>>
      /\ Compensate \/ Abandon
  BY DEF Abandon, MayGoOn, StartFails, Interrupted
<1>2. op.on \in Generation
  BY <1>1, AtGeneration
<1>3. /\ Remaining(op.on, Fresh(op.on)) = Fresh(op.on) /\ Fresh(op.on) \in SUBSET Plugin
  BY <1>1, <1>2, Types DEF Remaining, IInv, Phase, Fresh
<1>4. /\ lifecycle' = [lifecycle EXCEPT ![op.on].cancelled = TRUE]
      /\ unit' = Cancelled(op.on, Fresh(op.on))
  BY <1>1, <1>3 DEF Compensate, BeginStop, Abandon
<1>5. SameStages /\ SameBusy /\ CancelsUnits(op.on, Fresh(op.on))
  BY <1>2, <1>3, <1>4, UnitsCancelled DEF IInv
<1>6. CancelsOnly(op.on) /\ lifecycle'[op.on].cancelled
  BY <1>2, <1>4, CancelledLifecycle DEF IInv
<1>7. /\ op'.kind = op.kind /\ op'.stage = op.stage /\ op'.on = op.on /\ op'.changed = op.changed
      /\ op'.target = op.target
      /\ \/ op' = op /\ op.kind = "initialize"
         \/ op'.step = "quiesce" /\ op'.selected = Fresh(op.on) /\ op'.todo = Fresh(op.on)
  <2>1. CASE Abandon
    BY <2>1 DEF Abandon
  <2>2. CASE Compensate
    <3>1. op' = StopOf(op.on, Fresh(op.on), op.stage, lifecycle[op.on].dirty)
      BY <1>3, <2>2 DEF Compensate, BeginStop
    <3> QED
      BY <3>1 DEF StopOf, IInv, TypeOK, Operation
  <2> QED
    BY <1>1, <2>1, <2>2
<1> QED
  BY <1>1, <1>4, <1>5, <1>6, <1>7 DEF GivesUp

(* What a change rebuilds: all that depends on it is in it. *)
LEMMA AffectedClosed ==
  ASSUME NEW changed, NEW plugins
  PROVE  changed # {} => Closed(Affected(changed, plugins), plugins)
<1> SUFFICES ASSUME changed # {}, NEW p \in plugins,
                    p \in Observers \/ Depends[p] \cap Affected(changed, plugins) # {}
             PROVE  p \in Affected(changed, plugins)
  BY DEF Closed
<1>1. ASSUME NEW S \in SUBSET plugins, changed \subseteq S, Closed(S, plugins)
      PROVE  p \in S
  <2>1. Affected(changed, plugins) \subseteq S
    BY <1>1 DEF Affected
  <2> QED
    BY <1>1, <2>1 DEF Closed
<1> QED
  BY <1>1 DEF Affected

(* Asking for a change, or refusing it, touches no instance. *)
LEMMA BuildsEffect ==
  ASSUME IInv, Refuse \/ \E target \in Selections, replaced \in SUBSET Plugin : BeginChange(target, replaced)
  PROVE  Builds
<1>1. CASE Refuse
  BY <1>1 DEF Refuse, Builds, NoOperation, IInv, Shape
<1>2. ASSUME NEW target \in Selections, NEW replaced \in SUBSET Plugin, BeginChange(target, replaced)
      PROVE  Builds
  <2> DEFINE plugins == Composed(current) \cup target
             changed == Affected(Differing(target, replaced), plugins)
  <2>1. /\ op.kind = "idle" /\ Available /\ replaced \subseteq Composed(current) \cap target
        /\ Differing(target, replaced) # {}
        /\ op' = [NoOperation EXCEPT !.kind = "change", !.target = target, !.changed = changed]
        /\ UNCHANGED <<lifecycle, unit, current, made, request>>
    BY <1>2 DEF BeginChange
  <2>2. op.step = "build"
    BY <2>1 DEF IInv, Shape
  <2>3. Differing(target, replaced) \subseteq plugins
    BY <2>1 DEF Differing
  <2>4. changed # {} /\ Closed(changed, plugins)
    BY <2>1, <2>3, AffectedContains, AffectedClosed
  <2> HIDE DEF changed
  <2>5. op'.kind = "change" /\ op'.step = "build" /\ op'.on = 0 /\ op'.changed = changed
        /\ op'.target = target
    BY <2>1 DEF NoOperation
  <2> QED
    BY <2>1, <2>2, <2>4, <2>5 DEF Builds
<1> QED
  BY <1>1, <1>2

(* A change and a shutdown begin by cancelling what they stop. *)
LEMMA ServedStopsEffect ==
  ASSUME IInv, Commit \/ Shutdown
  PROVE  Commits \/ ShutsDown
<1>1. CASE Commit
  <2> DEFINE selected == op.changed \cap Composed(current)
             candidate == Compose(made + 1, op.target, op.changed, current)
             recovery == Compose(made + 2, Composed(current), op.changed, current)
  <2>1. /\ op.kind = "change" /\ op.step = "build" /\ Available /\ current \in Generation
        /\ Complete(current, {}) /\ current <= made
    BY <1>1 DEF Commit, IInv, Shape, Available, TypeOK, Serving
  <2>2. /\ made \in Nat /\ current \in Nat /\ made + 1 \in Generation /\ made + 2 \in Generation
        /\ {made - 1, made} \cap {made + 1, made + 2} = {} /\ current \notin {made + 1, made + 2}
    <3>1. made \in Nat /\ current \in Nat /\ MaxChanges \in Nat /\ left.changes \in Nat
      BY BoundAssumption, <2>1 DEF IInv, TypeOK, Generation, Budget
    <3>2. made + 2 * left.changes + 2 <= 2 * MaxChanges + 1
      BY <2>1 DEF IInv, Budgeted
    <3> QED
      BY <2>1, <3>1, <3>2 DEF Generation
  <2>3. Remaining(current, op.changed) = selected
    BY <2>1 DEF Remaining, Complete
  <2>4. /\ op' = StopOf(current, selected, "old", lifecycle[current].dirty)
        /\ lifecycle' = [lifecycle EXCEPT ![made + 1] = candidate, ![made + 2] = recovery,
                                          ![current].cancelled = TRUE]
        /\ unit' = Cancelled(current, selected)
        /\ made' = made + 2 /\ UNCHANGED <<current, request>>
    BY <1>1, <2>3 DEF Commit
  <2>5. selected \in SUBSET Plugin
    BY DEF Composed
  <2> HIDE DEF selected
  <2>6. SameStages /\ SameBusy /\ CancelsUnits(current, selected)
    BY <2>1, <2>4, <2>5, UnitsCancelled DEF IInv
  <2>7. /\ op'.kind = "change" /\ op'.stage = "old" /\ op'.step = "quiesce" /\ op'.on = current
        /\ op'.selected = selected /\ op'.todo = selected
        /\ op'.changed = op.changed /\ op'.target = op.target
    BY <2>1, <2>4 DEF StopOf, IInv, TypeOK, Operation
  <2>8. /\ candidate.entered = {} /\ candidate.retired = {} /\ ~ candidate.cancelled
        /\ candidate.entries = [p \in Plugin |-> IF p \notin op.target THEN 0
             ELSE IF p \notin op.changed THEN lifecycle[current].entries[p] ELSE made + 1]
    BY <2>1, <2>2, ComposeType DEF IInv
  <2>9. /\ recovery.entered = {} /\ recovery.retired = {} /\ ~ recovery.cancelled
        /\ recovery.entries = [p \in Plugin |-> IF p \notin Composed(current) THEN 0
             ELSE IF p \notin op.changed THEN lifecycle[current].entries[p] ELSE made + 2]
    BY <2>1, <2>2, ComposeType DEF IInv
  <2> HIDE DEF candidate, recovery
  <2>10. ASSUME NEW g \in Generation
         PROVE  IF g \in {made + 1, made + 2}
                THEN lifecycle'[g] = IF g = made + 1 THEN candidate ELSE recovery
                ELSE /\ lifecycle'[g].entries = lifecycle[g].entries
                     /\ lifecycle'[g].entered = lifecycle[g].entered
                     /\ lifecycle'[g].retired = lifecycle[g].retired
                     /\ IF g = current THEN lifecycle'[g].cancelled
                        ELSE lifecycle'[g].cancelled = lifecycle[g].cancelled
    <3>1. /\ lifecycle \in [Generation -> Lifecycle] /\ lifecycle[g] \in Lifecycle
          /\ made + 1 # made + 2
      BY <2>2 DEF IInv, TypeOK
    <3> QED
      BY <2>1, <2>2, <2>4, <3>1 DEF Lifecycle
  <2>11. ASSUME NEW g \in {made + 1, made + 2}
         PROVE  /\ lifecycle'[g].entered = {} /\ lifecycle'[g].retired = {} /\ ~ lifecycle'[g].cancelled
                /\ \A p \in Plugin :
                     lifecycle'[g].entries[p] =
                       IF p \notin (IF g = made + 1 THEN op.target ELSE Composed(current)) THEN 0
                       ELSE IF p \notin op.changed THEN lifecycle[current].entries[p] ELSE g
    <3>1. g \in Generation /\ (g # made + 1 => g = made + 2)
      BY <2>2
    <3>2. CASE g = made + 1
      <4>1. lifecycle'[g] = candidate
        BY <2>10, <3>1, <3>2
      <4> QED
        BY <2>8, <3>2, <4>1
    <3>3. CASE g # made + 1
      <4>1. lifecycle'[g] = recovery
        BY <2>10, <3>1, <3>3
      <4> QED
        BY <2>9, <3>1, <3>3, <4>1
    <3> QED
      BY <3>2, <3>3
  <2>12. ServedStops
    BY <2>1, <2>2, <2>4, <2>6, <2>7, <2>10 DEF ServedStops
  <2>13. Commits
    BY <2>1, <2>2, <2>4, <2>7, <2>10, <2>11, <2>12 DEF Commits, selected
  <2> QED
    BY <2>13
<1>2. CASE Shutdown
  <2> DEFINE rest == Remaining(current, Plugin)
  <2>1. /\ op.kind = "idle" /\ current # 0 /\ op.step = "build"
        /\ op' = [StopOf(current, rest, "rest", lifecycle[current].dirty) EXCEPT !.kind = "shutdown"]
        /\ lifecycle' = [lifecycle EXCEPT ![current].cancelled = TRUE]
        /\ unit' = Cancelled(current, rest) /\ UNCHANGED <<current, made, request>>
    BY <1>2 DEF Shutdown, IInv, Shape
  <2>2. current \in Generation
    BY <2>1 DEF IInv, TypeOK
  <2>3. rest = Composed(current) \ lifecycle[current].retired /\ rest \in SUBSET Plugin
    BY <2>2, Types DEF IInv, Remaining
  <2> HIDE DEF rest
  <2>4. SameStages /\ SameBusy /\ CancelsUnits(current, rest)
    BY <2>1, <2>2, <2>3, UnitsCancelled DEF IInv
  <2>5. CancelsOnly(current) /\ lifecycle'[current].cancelled
    BY <2>1, <2>2, CancelledLifecycle DEF IInv
  <2>6. /\ op'.kind = "shutdown" /\ op'.stage = "rest" /\ op'.step = "quiesce" /\ op'.on = current
        /\ op'.selected = rest /\ op'.todo = rest
    BY <2>1, <2>2, <2>3 DEF StopOf, IInv, TypeOK, Operation
  <2> QED
    BY <2>1, <2>2, <2>3, <2>4, <2>5, <2>6 DEF ShutsDown, ServedStops
<1> QED
  BY <1>1, <1>2

(* Every step is in one of the classes. *)
LEMMA Effects ==
  ASSUME IInv, [Next]_vars
  PROVE  Changes
<1>1. CASE UNCHANGED vars
  BY <1>1, SameUnits DEF vars, Calm, Changes
<1>2. CASE StopStep
  <2>1. ASSUME NEW p \in Plugin, NEW fails \in BOOLEAN, Release(p, fails) PROVE Changes
    BY <2>1, FallsEffect DEF Changes
  <2>2. ASSUME NEW p \in Plugin, Drain(p) PROVE Changes
    BY <2>2, MovesEffect DEF Changes
  <2> QED
    BY <1>2, <2>1, <2>2, MovesEffect, EndsEffect DEF StopStep, Changes
<1>3. CASE StartStep
  <2>1. ASSUME NEW p \in Plugin, Enter(p) \/ Initialized(p) \/ Launch(p) \/ MakeReady(p)
        PROVE  Changes
    BY <2>1, EntersEffect, RisesEffect, MovesEffect DEF Changes
  <2> QED
    BY <1>3, <2>1, MovesEffect, PublishesEffect, GivesUpEffect DEF StartStep, Changes
<1>4. CASE Call
  BY <1>4, BuildsEffect, ServedStopsEffect, GivesUpEffect DEF Call, Changes
<1>5. CASE Work
  BY <1>5, WorkCalm DEF Changes
<1>6. CASE \E r \in Request : RequestStep(r) \/ \E p \in Plugin : Dispatch(r, p)
  BY <1>6, RequestCalm DEF Changes
<1> QED
  BY <1>1, <1>2, <1>3, <1>4, <1>5, <1>6 DEF Next

-----------------------------------------------------------------------------
(* What the instances of a generation are made of. *)

(* A plugin uses the instances its own generation consists of, and a plugin    *)
(* that keeps the service container was made for its generation.              *)
Wired ==
  \A g \in Generation : \A p \in Composed(g) :
    /\ \A q \in Depends[p] \cap Composed(lifecycle[g].entries[p]) :
         lifecycle[g].entries[q] = lifecycle[lifecycle[g].entries[p]].entries[q]
    /\ p \in Observers => lifecycle[g].entries[p] = g
(* What is inherited comes from a generation that has been cancelled. *)
Inherited ==
  \A g \in Generation, p \in Plugin :
    lifecycle[g].entries[p] \notin {0, g} => lifecycle[lifecycle[g].entries[p]].cancelled
(* What a change rebuilds is closed under dependence. *)
Rebuilt ==
  /\ op.kind = "change" => Closed(op.changed, Composed(current) \cup op.target)
  /\ Changing => Composed(made - 1) = op.target /\ Composed(made) = Composed(current)
(* All of the served generation is registered, and a last stop is of all of it. *)
Whole ==
  /\ current # 0 => lifecycle[current].entered = Composed(current)
  /\ op.step \in Stopping /\ op.stage = "rest" =>
       op.selected = Composed(current) \ lifecycle[current].retired
  /\ op.step = "quiesce" => op.todo = op.selected

CancelledInstances ==
  /\ \A p \in Plugin, g \in Generation : unit[<<p, g>>].cancelled => lifecycle[g].cancelled
  /\ op.step \in Stopping => \A p \in op.selected : unit[Member(op.on, p)].cancelled
  /\ Available => \A p \in Composed(current) : ~ unit[Member(current, p)].cancelled
  /\ Changing /\ op.stage # "rest" =>
       \A p \in Composed(current) \ op.changed : ~ unit[Member(current, p)].cancelled

Structure == Wired /\ Inherited /\ Rebuilt /\ Whole /\ CancelledInstances

(* Generations are numbers. *)
LEMMA Numbers ==
  ASSUME IInv
  PROVE  /\ Generation \subseteq Nat \ {0} /\ current \in Nat /\ made \in Nat /\ current <= made
         /\ made \in Generation
         /\ current # 0 => current \in Generation
         /\ Changing => made - 1 \in Generation /\ current \in Generation /\ current + 2 <= made
BY BoundAssumption DEF IInv, TypeOK, Shape, Generation

(* The steps an operation goes on with. *)
Goes == Calm \/ Moves \/ GivesUp \/ \E p \in Plugin : Enters(p) \/ Rises(p) \/ Falls(p)

(* What a step within an operation keeps of it. *)
LEMMA GoesOn ==
  ASSUME IInv, Goes
  PROVE  /\ op'.kind = op.kind /\ op'.stage = op.stage /\ op'.on = op.on
         /\ op'.changed = op.changed /\ op'.target = op.target
         /\ current' = current /\ made' = made /\ SameComposition
         /\ op.step = "build" <=> op'.step = "build"
         /\ Changing' <=> Changing
         /\ \A g \in Generation : /\ lifecycle'[g].retired = lifecycle[g].retired
                                  /\ lifecycle[g].cancelled => lifecycle'[g].cancelled
<1>1. CASE Calm
  BY <1>1 DEF Calm, SameComposition, Changing
<1>2. CASE Moves
  BY <1>2 DEF Moves, SameOperation, SameComposition, Changing
<1>3. CASE GivesUp
  BY <1>3 DEF GivesUp, CancelsOnly, SameComposition, Changing, Starting
<1>4. ASSUME NEW p \in Plugin, Enters(p)
      PROVE  /\ SameOperation /\ op.step # "build" /\ op'.step # "build"
             /\ current' = current /\ made' = made /\ SameComposition
             /\ \A g \in Generation : /\ lifecycle'[g].retired = lifecycle[g].retired
                                      /\ lifecycle'[g].cancelled = lifecycle[g].cancelled
  BY <1>4 DEF Enters, Entering
<1>5. ASSUME NEW p \in Plugin, Rises(p) \/ Falls(p)
      PROVE  /\ SameOperation /\ op.step # "build" /\ op'.step # "build"
             /\ current' = current /\ made' = made /\ lifecycle' = lifecycle
  BY <1>5 DEF Rises, Falls
<1> QED
  BY <1>1, <1>2, <1>3, <1>4, <1>5 DEF Goes, SameOperation, SameComposition, Changing

(* What never changes of a generation. *)
LEMMA Lasting ==
  ASSUME IInv, Changes
  PROVE  /\ ~ Commits => SameComposition /\ made' = made
         /\ \A g \in Generation : /\ g <= made => lifecycle'[g].entries = lifecycle[g].entries
                                  /\ lifecycle[g].cancelled => lifecycle'[g].cancelled
<1> USE DEF SameComposition
<1>1. CASE Goes
  BY <1>1, GoesOn
<1>2. CASE Ends
  BY <1>2, Numbers DEF Ends, StopOver
<1>3. CASE Publishes \/ Builds
  BY <1>3 DEF Publishes, Builds
<1>4. CASE ShutsDown
  BY <1>4 DEF ShutsDown, ServedStops, CancelsOnly
<1>5. CASE Commits
  <2>1. ASSUME NEW g \in Generation
        PROVE  /\ g <= made => lifecycle'[g].entries = lifecycle[g].entries
               /\ lifecycle[g].cancelled => lifecycle'[g].cancelled
    <3>1. CASE g \in {made + 1, made + 2}
      BY <1>5, <3>1, Numbers DEF Commits, IInv, Known, Unstarted
    <3>2. CASE g \notin {made + 1, made + 2}
      BY <1>5, <3>2 DEF Commits, ServedStops
    <3> QED
      BY <3>1, <3>2
  <2> QED
    BY <1>5, <2>1
<1> QED
  BY <1>1, <1>2, <1>3, <1>4, <1>5 DEF Changes, Goes

(* A change keeps instances only with everything they use. *)
LEMMA WiredKeeps ==
  ASSUME IInv, Wired, Rebuilt, Changes
  PROVE  Wired'
<1> SUFFICES ASSUME NEW g \in Generation, NEW p \in Plugin, lifecycle'[g].entries[p] # 0
             PROVE  /\ \A q \in Depends[p] : lifecycle'[lifecycle'[g].entries[p]].entries[q] # 0 =>
                         lifecycle'[g].entries[q] = lifecycle'[lifecycle'[g].entries[p]].entries[q]
                    /\ p \in Observers => lifecycle'[g].entries[p] = g
  BY DEF Wired, Composed
<1>0. ASSUME NEW x \in Generation, NEW y \in Plugin, lifecycle[x].entries[y] # 0
      PROVE  /\ x <= made /\ y \in Composed(x)
             /\ lifecycle[x].entries[y] \in Generation /\ lifecycle[x].entries[y] <= made
  <2>1. y \in Composed(x) /\ lifecycle[x].entries[y] \in Generation
    BY <1>0, Types DEF IInv, Composed
  <2>2. x <= made
    BY <2>1, Numbers DEF IInv, Known
  <2>3. lifecycle[x].entries[y] <= x
    BY DEF IInv, Known
  <2> QED
    BY <2>1, <2>2, <2>3, Numbers
<1>1. CASE lifecycle'[g].entries = lifecycle[g].entries
  <2>1. /\ p \in Composed(g) /\ lifecycle[g].entries[p] \in Generation
        /\ lifecycle'[lifecycle[g].entries[p]].entries = lifecycle[lifecycle[g].entries[p]].entries
    BY <1>0, <1>1, Lasting
  <2> QED
    BY <1>1, <2>1, DependsAssumption DEF Wired, Composed
<1>2. CASE lifecycle'[g].entries # lifecycle[g].entries
  <2>1. Commits /\ g \in {made + 1, made + 2}
    BY <1>2, Lasting DEF SameComposition, Commits
  <2>2. /\ op.kind = "change" /\ current \in Generation /\ current <= made
        /\ op.target \ op.changed = Composed(current) \ op.changed
        /\ Closed(op.changed, Composed(current) \cup op.target)
    BY <2>1, Numbers DEF Commits, ServedStops, Rebuilt, IInv, Recipes
  <2> DEFINE plugins == IF g = made + 1 THEN op.target ELSE Composed(current)
  <2>3. /\ plugins \ op.changed = Composed(current) \ op.changed
        /\ plugins \subseteq Composed(current) \cup op.target
        /\ \A q \in Plugin : lifecycle'[g].entries[q] =
             IF q \notin plugins THEN 0
             ELSE IF q \notin op.changed THEN lifecycle[current].entries[q] ELSE g
    BY <2>1, <2>2 DEF Commits
  <2>4. p \in plugins
    BY <2>3
  <2>5. p \in Observers => lifecycle'[g].entries[p] = g
    BY <2>2, <2>3, <2>4 DEF Closed
  <2> HIDE DEF plugins
  <2>6. ASSUME NEW q \in Depends[p], lifecycle'[lifecycle'[g].entries[p]].entries[q] # 0,
               p \notin op.changed
        PROVE  lifecycle'[g].entries[q] = lifecycle'[lifecycle'[g].entries[p]].entries[q]
    <3> DEFINE h == lifecycle[current].entries[p]
    <3>1. q \in Plugin /\ lifecycle'[g].entries[p] = h /\ p \in Composed(current) /\ h # 0
      BY <2>3, <2>4, <2>6, DependsAssumption
    <3>2. h \in Generation /\ h <= made
      BY <2>2, <1>0, <3>1
    <3>3. lifecycle'[h].entries = lifecycle[h].entries
      BY Lasting, <3>2
    <3>4. q \in Composed(h)
      BY <2>6, <3>1, <3>3 DEF Composed
    <3>5. lifecycle[current].entries[q] = lifecycle[h].entries[q]
      BY <2>2, <3>1, <3>4 DEF Wired
    <3>6. q \in Composed(current) /\ q \notin op.changed
      BY <2>2, <2>3, <2>6, <3>1, <3>3, <3>5 DEF Composed, Closed
    <3> HIDE DEF h
    <3> QED
      BY <2>3, <3>1, <3>3, <3>5, <3>6
  <2>7. CASE p \in op.changed
    BY <2>3, <2>4, <2>5, <2>7
  <2> QED
    BY <2>5, <2>6, <2>7
<1> QED
  BY <1>1, <1>2

(* A change inherits from a generation it has cancelled. *)
LEMMA InheritedKeeps ==
  ASSUME IInv, Inherited, Changes
  PROVE  Inherited'
<1> SUFFICES ASSUME NEW g \in Generation, NEW p \in Plugin, lifecycle'[g].entries[p] \notin {0, g}
             PROVE  lifecycle'[lifecycle'[g].entries[p]].cancelled
  BY DEF Inherited
<1>1. CASE lifecycle'[g].entries = lifecycle[g].entries
  <2>1. lifecycle[g].entries[p] \in Generation /\ lifecycle[lifecycle[g].entries[p]].cancelled
    BY <1>1, Types DEF IInv, Inherited
  <2> QED
    BY <1>1, <2>1, Lasting
<1>2. CASE lifecycle'[g].entries # lifecycle[g].entries
  <2>1. Commits /\ g \in {made + 1, made + 2}
    BY <1>2, Lasting DEF SameComposition, Commits
  <2>2. current \in Generation /\ lifecycle'[current].cancelled
    BY <2>1 DEF Commits, ServedStops
  <2>3. lifecycle'[g].entries[p] = lifecycle[current].entries[p]
    BY <2>1 DEF Commits
  <2>4. lifecycle[current].entries[p] \in Generation
    BY <2>2, <2>3, Types DEF IInv
  <2>5. CASE lifecycle[current].entries[p] = current
    BY <2>2, <2>3, <2>5
  <2>6. CASE lifecycle[current].entries[p] # current
    BY <2>2, <2>3, <2>4, <2>6, Lasting DEF Inherited
  <2> QED
    BY <2>5, <2>6
<1> QED
  BY <1>1, <1>2

(* What a change rebuilds stays closed until it ends. *)
LEMMA RebuiltKeeps ==
  ASSUME IInv, Rebuilt, Changes
  PROVE  Rebuilt'
<1>1. ASSUME SameComposition, current' = current, made' = made, op'.kind = op.kind,
             op'.changed = op.changed, op'.target = op.target, Changing' <=> Changing
      PROVE  Rebuilt'
  <2>1. CASE op.kind = "change"
    <3>1. current \in Generation /\ Composed(current)' = Composed(current)
      <4>1. current \in Generation
        BY <2>1, Numbers DEF IInv, Shape, Available, Changing
      <4> QED
        BY <1>1, <4>1 DEF SameComposition, Composed
    <3>2. Changing => Composed(made - 1)' = Composed(made - 1) /\ Composed(made)' = Composed(made)
      <4>1. Changing => made - 1 \in Generation /\ made \in Generation
        BY Numbers
      <4> QED
        BY <1>1, <4>1 DEF SameComposition, Composed
    <3> QED
      BY <1>1, <2>1, <3>1, <3>2 DEF Rebuilt
  <2>2. CASE op.kind # "change"
    BY <1>1, <2>2 DEF Rebuilt, Changing
  <2> QED
    BY <2>1, <2>2
<1>2. CASE Goes
  BY <1>1, <1>2, GoesOn
<1>3. CASE Ends
  <2>1. CASE NothingFollows
    BY <2>1 DEF NothingFollows, NoOperation, Rebuilt, Changing
  <2>2. CASE NextBegins \/ RestFollows
    <3>1. /\ op.kind = "change" /\ op'.kind = "change" /\ op'.changed = op.changed
          /\ op'.target = op.target /\ Changing /\ Changing'
      BY <2>2 DEF NextBegins, RestFollows, Changing
    <3> QED
      BY <1>1, <1>3, <3>1 DEF Ends, StopOver
  <2> QED
    BY <1>3, <2>1, <2>2 DEF Ends
<1>4. CASE Publishes
  BY <1>4 DEF Publishes, NoOperation, Rebuilt, Changing
<1>5. CASE Builds
  BY <1>5 DEF Builds, Rebuilt, Changing, Composed
<1>6. CASE Commits
  <2>1. /\ op.kind = "change" /\ op'.kind = "change" /\ current \in Generation /\ current <= made
        /\ op'.changed = op.changed /\ op'.target = op.target /\ current' = current /\ made' = made + 2
        /\ op.target \ op.changed = Composed(current) \ op.changed
    BY <1>6, Numbers DEF Commits, ServedStops, IInv, Recipes
  <2>2. Composed(current)' = Composed(current)
    BY <2>1, Lasting DEF Composed
  <2>3. ASSUME NEW g \in {made + 1, made + 2}
        PROVE  {p \in Plugin : lifecycle'[g].entries[p] # 0} =
                 IF g = made + 1 THEN op.target ELSE Composed(current)
    <3> DEFINE plugins == IF g = made + 1 THEN op.target ELSE Composed(current)
    <3>1. /\ plugins \ op.changed = Composed(current) \ op.changed
          /\ g \in Generation
          /\ \A q \in Plugin : lifecycle'[g].entries[q] =
               IF q \notin plugins THEN 0
               ELSE IF q \notin op.changed THEN lifecycle[current].entries[q] ELSE g
      BY <1>6, <2>1 DEF Commits
    <3>2. plugins \subseteq Plugin /\ g # 0
      BY <2>1, <3>1, Types DEF IInv
    <3> HIDE DEF plugins
    <3>3. {p \in Plugin : lifecycle'[g].entries[p] # 0} = plugins
      BY <3>1, <3>2 DEF Composed
    <3> QED
      BY <3>3 DEF plugins
  <2>4. made' - 1 = made + 1 /\ made' = made + 2 /\ made + 1 # made + 2
    BY <2>1, Numbers
  <2>5. Composed(made - 1)' = op.target /\ Composed(made)' = Composed(current)
    BY <2>3, <2>4 DEF Composed
  <2>6. Closed(op'.changed, Composed(current)' \cup op'.target)
    BY <2>1, <2>2 DEF Rebuilt
  <2> QED
    BY <2>1, <2>2, <2>5, <2>6 DEF Rebuilt
<1>7. CASE ShutsDown
  BY <1>7 DEF ShutsDown, Rebuilt, Changing
<1> QED
  BY <1>2, <1>3, <1>4, <1>5, <1>6, <1>7 DEF Changes, Goes

(* Only a start registers plugins, and never ones of the served generation;    *)
(* only the end of a stop retires any.                                         *)
LEMMA ServedKeeps ==
  ASSUME IInv, Changes, current # 0, ~ Publishes
  PROVE  /\ current' = current /\ current \in Generation
         /\ lifecycle'[current].entries = lifecycle[current].entries
         /\ lifecycle'[current].entered = lifecycle[current].entered
         /\ Composed(current)' = Composed(current)
         /\ lifecycle'[current].retired =
              IF Ends /\ op.on = current THEN lifecycle[current].retired \cup op.selected
              ELSE lifecycle[current].retired
<1>1. current \in Generation /\ current <= made
  BY Numbers
<1>2. lifecycle'[current].entries = lifecycle[current].entries
  BY <1>1, Lasting
<1>3. CASE Goes /\ ~ Ends
  <2>1. lifecycle'[current].entered = lifecycle[current].entered
    <3>1. CASE Calm \/ Moves
      BY <3>1 DEF Calm, Moves
    <3>2. CASE GivesUp
      BY <1>1, <3>2 DEF GivesUp, CancelsOnly
    <3>3. ASSUME NEW p \in Plugin, Enters(p)
          PROVE  lifecycle'[current].entered = lifecycle[current].entered
      <4>1. op.step \in Starting
        BY <3>3 DEF Enters, Starting
      <4>2. op.on # current
        BY <1>1, <4>1, Position, Numbers
      <4> QED
        BY <1>1, <3>3, <4>2 DEF Enters, Entering
    <3>4. ASSUME NEW p \in Plugin, Rises(p) \/ Falls(p)
          PROVE  lifecycle'[current].entered = lifecycle[current].entered
      BY <3>4 DEF Rises, Falls
    <3> QED
      BY <1>3, <3>1, <3>2, <3>3, <3>4 DEF Goes
  <2> QED
    BY <1>1, <1>2, <1>3, <2>1, GoesOn DEF Composed
<1>4. CASE Ends
  <2>1. /\ current' = current /\ lifecycle'[current].entered = lifecycle[current].entered
        /\ lifecycle'[current].retired =
             IF op.on = current THEN lifecycle[current].retired \cup op.selected
             ELSE lifecycle[current].retired
    BY <1>1, <1>4 DEF Ends, StopOver, SameRegistration
  <2> QED
    BY <1>1, <1>2, <1>4, <2>1 DEF Composed
<1>5. CASE Builds /\ ~ Ends
  BY <1>1, <1>2, <1>5 DEF Builds, Composed
<1>6. CASE Commits /\ ~ Ends
  <2>1. /\ current' = current /\ current \notin {made + 1, made + 2}
        /\ lifecycle'[current].entered = lifecycle[current].entered
        /\ lifecycle'[current].retired = lifecycle[current].retired
    BY <1>1, <1>6, Numbers DEF Commits, ServedStops
  <2> QED
    BY <1>1, <1>2, <1>6, <2>1 DEF Composed
<1>7. CASE ShutsDown /\ ~ Ends
  <2>1. /\ current' = current /\ lifecycle'[current].entered = lifecycle[current].entered
        /\ lifecycle'[current].retired = lifecycle[current].retired
    BY <1>1, <1>7 DEF ShutsDown, ServedStops, CancelsOnly
  <2> QED
    BY <1>1, <1>2, <1>7, <2>1 DEF Composed
<1> QED
  BY <1>3, <1>4, <1>5, <1>6, <1>7 DEF Changes, Goes

(* A generation is published only once all of it is registered. *)
LEMMA WholeKeeps ==
  ASSUME IInv, Whole, Changes
  PROVE  Whole'
<1>1. CASE Publishes
  <2>1. lifecycle[op.on].entered = Composed(op.on)
    BY <1>1 DEF Publishes, IInv, Phase
  <2> QED
    BY <1>1, <2>1 DEF Publishes, Whole, Composed, NoOperation, Stopping
<1>2. CASE ~ Publishes
  <2>1. current' # 0 => lifecycle'[current'].entered = Composed(current)'
    <3>1. current' = current
      BY <1>2, GoesOn DEF Changes, Goes, Ends, Builds, Commits, ShutsDown, ServedStops
    <3> QED
      BY <1>2, <3>1, ServedKeeps DEF Whole
  <2>2. ASSUME op'.step \in Stopping, op'.stage = "rest"
        PROVE  op'.selected = Composed(current)' \ lifecycle'[current'].retired
    <3>1. CASE op.step \in Stopping /\ op.stage = "rest" /\ op'.selected = op.selected /\ Goes
      <4>1. current # 0
        BY <3>1, AtGeneration DEF IInv, Shape, TypeOK, Operation
      <4>2. /\ lifecycle'[current].retired = lifecycle[current].retired
            /\ Composed(current)' = Composed(current) /\ current' = current
        <5>1. lifecycle'[current].retired = lifecycle[current].retired
          BY <3>1, <4>1, GoesOn, Numbers
        <5> QED
          BY <1>2, <4>1, <5>1, ServedKeeps
      <4> QED
        BY <3>1, <4>2 DEF Whole
    <3>2. CASE Moves
      <4>1. op.step \in Stopping /\ op.stage = "rest" /\ op'.selected = op.selected
        BY <2>2, <3>2 DEF Moves, SameOperation, Stopping
      <4> QED
        BY <3>1, <3>2, <4>1 DEF Goes
    <3>3. ASSUME NEW p \in Plugin, Falls(p) PROVE op'.selected = Composed(current)' \ lifecycle'[current'].retired
      <4>1. op.step \in Stopping /\ op.stage = "rest" /\ op'.selected = op.selected
        BY <2>2, <3>3 DEF Falls, SameOperation, Stopping
      <4> QED
        BY <3>1, <3>3, <4>1 DEF Goes
    <3>4. CASE Calm
      BY <2>2, <3>1, <3>4 DEF Calm, Goes
    <3>5. ASSUME NEW p \in Plugin, Enters(p) \/ Rises(p) PROVE FALSE
      BY <2>2, <3>5 DEF Enters, Entering, Rises, Stopping
    <3>6. CASE GivesUp
      BY <2>2, <3>6, Position DEF GivesUp, Starting, Stopping, IInv, Shape, Changing
    <3>7. CASE Ends
      <4>1. RestFollows
        BY <2>2, <3>7 DEF Ends, NextBegins, NothingFollows, NoOperation, Stopping
      <4>2. current' = current /\ Composed(current)' = Composed(current)
        BY <1>2, <3>7, <4>1, ServedKeeps, Numbers DEF RestFollows
      <4> QED
        BY <4>1, <4>2 DEF RestFollows
    <3>8. CASE Builds \/ Commits
      BY <2>2, <3>8 DEF Builds, Commits, Stopping
    <3>9. CASE ShutsDown
      <4>1. current # 0 /\ op.step # "release"
        BY <3>9, Numbers DEF ShutsDown, ServedStops
      <4>2. /\ lifecycle'[current].retired = lifecycle[current].retired
            /\ Composed(current)' = Composed(current) /\ current' = current
        BY <1>2, <4>1, ServedKeeps DEF Ends
      <4> QED
        BY <3>9, <4>2 DEF ShutsDown
    <3> QED
      BY <1>2, <3>2, <3>3, <3>4, <3>5, <3>6, <3>7, <3>8, <3>9 DEF Changes
  <2>3. op'.step = "quiesce" => op'.todo = op'.selected
    <3> SUFFICES ASSUME op'.step = "quiesce" PROVE op'.todo = op'.selected
      OBVIOUS
    <3>1. CASE Calm
      BY <3>1 DEF Calm, Whole
    <3>2. CASE Moves
      BY <3>2 DEF Moves
    <3>3. CASE GivesUp
      BY <3>3 DEF GivesUp, Starting
    <3>4. ASSUME NEW p \in Plugin, Enters(p) \/ Rises(p) \/ Falls(p) PROVE FALSE
      BY <3>4 DEF Enters, Entering, Rises, Falls
    <3>5. CASE Ends
      BY <3>5 DEF Ends, NextBegins, NothingFollows, RestFollows, NoOperation
    <3>6. CASE Builds \/ Commits \/ ShutsDown
      BY <3>6 DEF Builds, Commits, ShutsDown, ServedStops
    <3> QED
      BY <1>2, <3>1, <3>2, <3>3, <3>4, <3>5, <3>6 DEF Changes
  <2> QED
    BY <2>1, <2>2, <2>3 DEF Whole
<1> QED
  BY <1>1, <1>2

(* Whoever operates on the served generation has cancelled it. *)
LEMMA Unavailable ==
  ASSUME IInv, op.step \in Starting \cup Stopping
  PROVE  current # 0 => lifecycle[current].cancelled
<1>1. op.kind \in {"initialize", "shutdown"} \/ Changing
  BY AtGeneration DEF IInv, TypeOK, Operation
<1> QED
  BY <1>1 DEF IInv, Shape

(* A stop cancels what it selects and spares what a change keeps. *)
LEMMA CancelledInstancesKeeps ==
  ASSUME IInv, IInv', Inherited, CancelledInstances, Changes
  PROVE  CancelledInstances'
<1> DEFINE Only(S) == \A p \in Plugin, g \in Generation :
                        unit'[<<p, g>>].cancelled => unit[<<p, g>>].cancelled \/ p \in S
           Kept == \A p \in Plugin, g \in Generation :
                     unit[<<p, g>>].cancelled => unit'[<<p, g>>].cancelled
           Own == \A p \in Plugin, g \in Generation :
                    unit'[<<p, g>>].cancelled => lifecycle'[g].cancelled
<1>1. ASSUME SameCancels PROVE Own /\ Only({}) /\ Kept
  BY <1>1, Lasting DEF SameCancels, CancelledInstances
<1>2. ASSUME NEW h \in Generation, NEW S, CancelsUnits(h, S), lifecycle'[h].cancelled,
             h <= made
      PROVE  Own /\ Only(S) /\ Kept
  <2>1. Only(S) /\ Kept
    BY <1>2 DEF CancelsUnits
  <2>2. ASSUME NEW p \in Plugin, NEW g \in Generation, lifecycle[h].entries[p] = g
        PROVE  lifecycle'[g].cancelled
    <3>1. g # 0
      BY Numbers
    <3>2. g = h \/ lifecycle[g].cancelled
      BY <2>2, <3>1 DEF Inherited
    <3> QED
      BY <1>2, <3>2, Lasting
  <2>3. Own
    BY <1>2, <2>2, Lasting DEF CancelsUnits, CancelledInstances
  <2> QED
    BY <2>1, <2>3
<1> DEFINE Sel == op'.step \in Stopping =>
                    \A p \in op'.selected : unit'[<<p, lifecycle'[op'.on].entries[p]>>].cancelled
           Fine == Available' => \A p \in Plugin : lifecycle'[current'].entries[p] # 0 =>
                     ~ unit'[<<p, lifecycle'[current'].entries[p]>>].cancelled
           Rest == Changing' /\ op'.stage # "rest" =>
                     \A p \in Plugin \ op'.changed : lifecycle'[current'].entries[p] # 0 =>
                       ~ unit'[<<p, lifecycle'[current'].entries[p]>>].cancelled
<1>3. Own /\ Sel /\ Fine /\ Rest => CancelledInstances'
  BY DEF CancelledInstances, Member, Composed
<1> HIDE DEF Own, Only, Kept, Sel, Fine, Rest
<1>4. ASSUME NEW h \in Generation, CancelsUnits(h, op'.selected), op'.on = h, h <= made,
             op'.step \in Stopping
      PROVE  Sel
  <2>1. lifecycle'[h].entries = lifecycle[h].entries
    BY <1>4, Lasting
  <2>2. ASSUME NEW p \in op'.selected
        PROVE  p \in Plugin /\ lifecycle[h].entries[p] \in Generation
    <3>1. p \in Plugin /\ lifecycle'[h].entries[p] # 0
      BY <1>4 DEF IInv, Phase, Composed
    <3> QED
      BY <2>1, <3>1, Types DEF IInv
  <2> QED
    BY <1>4, <2>1, <2>2 DEF Sel, CancelsUnits
<1>5. ASSUME Kept, SameComposition, op.step \in Stopping,
             op'.on = op.on, op'.selected = op.selected
      PROVE  Sel
  <2>1. op.on \in Generation /\ lifecycle'[op.on].entries = lifecycle[op.on].entries
    BY <1>5, AtGeneration DEF SameComposition
  <2>2. ASSUME NEW p \in op.selected
        PROVE  unit'[<<p, lifecycle[op.on].entries[p]>>].cancelled
    <3>1. p \in Plugin /\ lifecycle[op.on].entries[p] # 0
      BY <1>5, <2>1 DEF IInv, Phase, Composed
    <3>2. lifecycle[op.on].entries[p] \in Generation
      BY <2>1, <3>1, Types DEF IInv
    <3> QED
      BY <1>5, <3>1, <3>2 DEF Kept, CancelledInstances, Member
  <2> QED
    BY <1>5, <2>1, <2>2 DEF Sel
<1>6. ASSUME ~ Publishes PROVE Fine
  <2> SUFFICES ASSUME Available' PROVE Fine
    BY DEF Fine
  <2>1. current' = current /\ current \in Generation /\ lifecycle'[current].entries = lifecycle[current].entries
    <3>1. current' = current
      BY <1>6, GoesOn DEF Changes, Goes, Ends, Builds, Commits, ShutsDown, ServedStops
    <3> QED
      BY <1>6, <3>1, ServedKeeps DEF Available
  <2>2. Available /\ op.step \notin Starting \cup Stopping
    BY <2>1, Lasting, Unavailable, Numbers DEF Available
  <2>3. Calm \/ Builds
    <3>1. ~ Ends /\ ~ GivesUp /\ ~ Moves
      BY <2>2 DEF Ends, GivesUp, Moves, Starting, Stopping
    <3>2. ~ Commits /\ ~ ShutsDown
      BY <2>1 DEF Commits, ShutsDown, ServedStops, Available
    <3>3. ASSUME NEW p \in Plugin PROVE ~ Enters(p) /\ ~ Rises(p) /\ ~ Falls(p)
      BY <2>2 DEF Enters, Rises, Falls, Starting, Stopping
    <3> QED
      BY <1>6, <3>1, <3>2, <3>3 DEF Changes
  <2>4. SameCancels
    BY <2>3, SameUnits DEF Calm, Builds
  <2>5. ASSUME NEW p \in Plugin, lifecycle[current].entries[p] # 0
        PROVE  ~ unit'[<<p, lifecycle[current].entries[p]>>].cancelled
    <3>1. lifecycle[current].entries[p] \in Generation /\ p \in Composed(current)
      BY <2>1, <2>5, Types DEF IInv, Composed
    <3> QED
      BY <2>2, <2>4, <3>1 DEF SameCancels, CancelledInstances, Member
  <2> QED
    BY <2>1, <2>5 DEF Fine
<1>7. ASSUME NEW S, Only(S), Changing \/ Commits, Changing => op.stage # "rest",
             current' = current, op'.changed = op.changed, S \subseteq op.changed
      PROVE  Rest
  <2>1. current \in Generation /\ lifecycle'[current].entries = lifecycle[current].entries
    BY <1>7, Numbers, Lasting DEF Commits, ServedStops
  <2>2. ASSUME NEW p \in Plugin \ op.changed, lifecycle[current].entries[p] # 0
        PROVE  ~ unit'[<<p, lifecycle[current].entries[p]>>].cancelled
    <3>1. lifecycle[current].entries[p] \in Generation /\ p \in Composed(current)
      BY <2>1, <2>2, Types DEF IInv, Composed
    <3>2. ~ unit[<<p, lifecycle[current].entries[p]>>].cancelled
      BY <1>7, <2>2, <3>1 DEF CancelledInstances, Member, Commits
    <3> QED
      BY <1>7, <3>1, <3>2 DEF Only
  <2> QED
    BY <1>7, <2>1, <2>2 DEF Rest
<1>8. ASSUME Goes, SameCancels PROVE Rest
  <2>1. Only({})
    BY <1>1, <1>8
  <2> QED
    BY <1>7, <1>8, <2>1, GoesOn DEF Rest
<1>9. CASE Publishes
  <2>1. Own /\ Sel /\ Rest
    BY <1>1, <1>9, SameUnits DEF Publishes, Sel, Rest, NoOperation, Changing, Stopping
  <2>2. /\ op.on \in Generation /\ ~ lifecycle[op.on].cancelled
        /\ op.kind = "initialize" \/ (Changing /\ op.on \in {made - 1, made} /\ op.stage # "rest")
    BY <1>9, Position DEF Publishes, Starting
  <2>3. ASSUME NEW p \in Plugin, lifecycle[op.on].entries[p] # 0
        PROVE  ~ unit[<<p, lifecycle[op.on].entries[p]>>].cancelled
    <3>1. CASE lifecycle[op.on].entries[p] = op.on
      BY <2>2, <3>1 DEF CancelledInstances
    <3>2. CASE lifecycle[op.on].entries[p] # op.on
      <4>1. lifecycle[op.on].entries[p] \in Generation /\ lifecycle[op.on].entries[p] <= op.on
        BY <2>2, <2>3, Types DEF IInv, Known
      <4>2. op.kind # "initialize"
        BY <3>2, <4>1, Numbers DEF IInv, Shape
      <4>3. p \notin op.changed /\ lifecycle[op.on].entries[p] = lifecycle[current].entries[p]
        BY <2>2, <2>3, <3>2, <4>2 DEF IInv, Recipes
      <4> QED
        BY <2>2, <2>3, <4>2, <4>3 DEF CancelledInstances, Member, Composed
    <3> QED
      BY <3>1, <3>2
  <2>4. Fine
    BY <1>9, <2>3 DEF Publishes, Fine
  <2> QED
    BY <1>3, <2>1, <2>4
<1>10. CASE ~ Publishes /\ SameCancels /\ Goes /\ op'.selected = op.selected
            /\ (op'.step \in Stopping => op.step \in Stopping)
  <2>1. Sel
    <3> SUFFICES ASSUME op'.step \in Stopping PROVE Sel
      BY DEF Sel
    <3> QED
      BY <1>1, <1>5, <1>10, GoesOn
  <2> QED
    BY <1>1, <1>3, <1>6, <1>8, <1>10, <2>1
<1>11. CASE ~ Publishes /\ (Calm \/ Moves)
  <2>1. SameCancels /\ Goes /\ op'.selected = op.selected
        /\ (op'.step \in Stopping => op.step \in Stopping)
    BY <1>11, SameUnits DEF Calm, Moves, Goes, SameOperation, Starting, Stopping
  <2> QED
    BY <1>10, <1>11, <2>1
<1>12. ASSUME ~ Publishes, NEW p \in Plugin, Enters(p) \/ Rises(p) \/ Falls(p)
       PROVE  CancelledInstances'
  <2>1. SameCancels /\ Goes /\ op'.selected = op.selected
        /\ (op'.step \in Stopping => op.step \in Stopping)
    BY <1>12 DEF Enters, Entering, Rises, Falls, Goes, SameOperation, Starting, Stopping
  <2> QED
    BY <1>10, <1>12, <2>1
<1>13. CASE ~ Publishes /\ GivesUp
  <2>1. /\ op.on \in Generation /\ op.on <= made /\ op'.on = op.on
        /\ CancelsUnits(op.on, Fresh(op.on)) /\ lifecycle'[op.on].cancelled
        /\ op.step \in Starting
        /\ op'.step \in Stopping => op'.selected = Fresh(op.on)
    BY <1>13, Position DEF GivesUp, Starting, Stopping
  <2>2. Own /\ Only(Fresh(op.on))
    BY <1>2, <2>1
  <2>3. Sel
    <3> SUFFICES ASSUME op'.step \in Stopping PROVE Sel
      BY DEF Sel
    <3> QED
      BY <1>4, <2>1
  <2>4. Rest
    <3>1. CASE Changing
      <4>1. ASSUME NEW p \in Fresh(op.on) PROVE p \in op.changed
        <5>0. p \in Plugin /\ lifecycle[op.on].entries[p] = op.on /\ op.kind # "initialize"
          BY <3>1 DEF Fresh, Composed, Changing
        <5>1. /\ p \in Plugin /\ lifecycle[op.on].entries[p] = op.on
              /\ current < op.on /\ op.on \in {made - 1, made} /\ current \in Generation
          BY <2>1, <5>0, Position
        <5>2. lifecycle[current].entries[p] <= current /\ lifecycle[current].entries[p] \in Nat
          <6>1. TypeOK /\ lifecycle[current].entries[p] <= current
            BY <5>1 DEF IInv, Known
          <6>2. lifecycle[current].entries[p] \in {0} \cup Generation
            BY <5>1, <6>1, Types
          <6> QED
            BY <6>1, <6>2, Numbers
        <5> QED
          BY <3>1, <5>1, <5>2, Numbers DEF IInv, Recipes
      <4>2. op.stage # "rest"
        BY <2>1, <3>1, Position DEF IInv, Shape, Changing
      <4> QED
        BY <1>7, <1>13, <2>2, <3>1, <4>1, <4>2 DEF GivesUp
    <3>2. CASE ~ Changing
      <4>1. ~ Changing'
        BY <1>13, <3>2, GoesOn DEF Goes
      <4> QED
        BY <4>1 DEF Rest
    <3> QED
      BY <3>1, <3>2
  <2> QED
    BY <1>3, <1>6, <1>13, <2>2, <2>3, <2>4
<1>14. CASE ~ Publishes /\ Ends
  <2>1. CASE NextBegins
    <3>1. Own /\ Only({}) /\ Sel
      BY <1>1, <2>1 DEF NextBegins, Sel, Stopping
    <3>2. Rest
      BY <1>7, <1>14, <2>1, <3>1 DEF NextBegins, Ends
    <3> QED
      BY <1>3, <1>6, <1>14, <3>1, <3>2
  <2>2. CASE NothingFollows
    <3>1. Own /\ Sel /\ Rest
      BY <1>1, <2>2 DEF NothingFollows, Sel, Rest, Stopping, NoOperation, Changing
    <3> QED
      BY <1>3, <1>6, <1>14, <3>1
  <2>3. CASE RestFollows
    <3>1. /\ current \in Generation /\ lifecycle'[current].cancelled /\ op'.step \in Stopping
          /\ CancelsUnits(current, op'.selected) /\ op'.on = current /\ current <= made
      BY <2>3, Numbers, Lasting DEF RestFollows, IInv, Shape, Stopping
    <3>2. Own /\ Sel
      BY <1>2, <1>4, <3>1
    <3>3. Rest
      BY <2>3 DEF RestFollows, Rest
    <3> QED
      BY <1>3, <1>6, <1>14, <3>2, <3>3
  <2> QED
    BY <1>14, <2>1, <2>2, <2>3 DEF Ends
<1>15. CASE ~ Publishes /\ Builds
  <2>1. Own /\ Sel /\ Rest
    BY <1>1, <1>15, SameUnits DEF Builds, Sel, Rest, Stopping, Changing
  <2> QED
    BY <1>3, <1>6, <1>15, <2>1
<1>16. CASE ~ Publishes /\ (Commits \/ ShutsDown)
  <2>1. /\ current \in Generation /\ lifecycle'[current].cancelled /\ op'.step \in Stopping
        /\ CancelsUnits(current, op'.selected) /\ op'.on = current /\ current <= made
    BY <1>16, Numbers DEF Commits, ShutsDown, ServedStops, Stopping
  <2>2. Own /\ Sel /\ Only(op'.selected)
    BY <1>2, <1>4, <2>1
  <2>3. Rest
    <3>1. CASE ShutsDown
      BY <3>1 DEF ShutsDown, Rest, Changing
    <3>2. CASE Commits
      BY <1>7, <2>2, <3>2 DEF Commits, ServedStops, Changing
    <3> QED
      BY <1>16, <3>1, <3>2
  <2> QED
    BY <1>3, <1>6, <1>16, <2>2, <2>3
<1> QED
  BY <1>9, <1>11, <1>12, <1>13, <1>14, <1>15, <1>16 DEF Changes

(* Every step keeps what generations are made of. *)
LEMMA StructureKeeps ==
  ASSUME IInv, IInv', Structure, Changes
  PROVE  Structure'
BY WiredKeeps, InheritedKeeps, RebuiltKeeps, WholeKeeps, CancelledInstancesKeeps DEF Structure

(* It holds of a host that begins its first start. *)
LEMMA StructureInit ==
  ASSUME Init, IInv
  PROVE  Structure
<1>1. op.kind = "initialize" /\ op.step = "open" /\ current = 0 /\ op.stage = "first"
  BY DEF Init, NoOperation
<1>2. \A g \in Generation, p \in Plugin : lifecycle[g].entries[p] \in {0, 1} /\
        (lifecycle[g].entries[p] = 1 => g = 1)
  <2>1. ASSUME NEW g \in Generation, NEW p \in Plugin, lifecycle[g].entries[p] # 0
        PROVE  g = 1 /\ lifecycle[g].entries[p] = 1
    <3>1. g <= 1
      <4>1. ~ (g > made) /\ made = 1
        BY <2>1 DEF IInv, Known, Composed, Init
      <4> QED
        BY <4>1, Numbers
    <3>2. lifecycle[g].entries[p] <= g /\ lifecycle[g].entries[p] \in Nat \ {0}
      BY <2>1, Numbers, Types DEF IInv, Known
    <3> QED
      BY <3>1, <3>2, Numbers
  <2> QED
    BY <2>1
<1>3. Wired
  BY <1>2 DEF Wired, Composed
<1>4. Inherited
  BY <1>2 DEF Inherited
<1>5. Rebuilt /\ Whole
  BY <1>1 DEF Rebuilt, Whole, Changing, Stopping
<1>6. CancelledInstances
  BY <1>1 DEF CancelledInstances, Changing, Available, Stopping, Init, NoUnit, Instance
<1> QED
  BY <1>3, <1>4, <1>5, <1>6 DEF Structure

-----------------------------------------------------------------------------
(* Requests are at the served generation until its stop has awaited them. *)
Asked ==
  \A r \in Request : request[r].step # "none" =>
    /\ request[r].generation \in Generation /\ request[r].generation <= current
    /\ lifecycle[request[r].generation].entries[request[r].plugin] # 0
    /\ request[r].generation = current \/ lifecycle[request[r].generation].cancelled
Admitted ==
  \A r \in Request : request[r].step \in {"handling", "streaming"} =>
    /\ request[r].generation = current /\ current # 0 /\ lifecycle[current].retired = {}
    /\ ~ lifecycle[current].cancelled \/ (op.on = current /\ op.step = "quiesce")

Requests == Asked /\ Admitted

(* What a step does to a request. *)
LEMMA RequestEffect ==
  ASSUME IInv, NEW r \in Request, RequestStep(r)
  PROVE  /\ \A s \in Request \ {r} : request'[s] = request[s]
         /\ request'[r].generation = request[r].generation /\ request'[r].plugin = request[r].plugin
         /\ request[r].step # "none"
         /\ request'[r].step = "handling" => Admits(request[r].generation)
         /\ request'[r].step = "streaming" => request[r].step \in {"handling", "streaming"}
         /\ request'[r].step \in {"none", "handling", "streaming"}
<1>1. PICK step \in {"none", "handling", "streaming"} :
        /\ request' = [request EXCEPT ![r].step = step] /\ request[r].step # "none"
        /\ step = "handling" => Admits(request[r].generation)
        /\ step = "streaming" => request[r].step \in {"handling", "streaming"}
  BY DEF RequestStep, Admit, EndStream, Respond
<1> QED
  BY <1>1 DEF IInv, TypeOK

(* A request is dispatched to the served generation. *)
LEMMA DispatchEffect ==
  ASSUME IInv, NEW r \in Request, NEW p \in Plugin, Dispatch(r, p)
  PROVE  /\ \A s \in Request \ {r} : request'[s] = request[s]
         /\ request'[r] = [step |-> "queued", generation |-> current, plugin |-> p]
         /\ Available /\ p \in Composed(current) /\ current \in Generation
BY DEF Dispatch, IInv, TypeOK, Available

(* A request stays with a generation served now or before. *)
LEMMA AskedKeeps ==
  ASSUME IInv, Asked, Changes
  PROVE  Asked'
<1>1. ASSUME NEW r \in Request, request[r].step # "none", NEW step,
             request'[r].generation = request[r].generation, request'[r].plugin = request[r].plugin
      PROVE  /\ request'[r].generation \in Generation /\ request'[r].generation <= current'
             /\ lifecycle'[request'[r].generation].entries[request'[r].plugin] # 0
             /\ request'[r].generation = current' \/ lifecycle'[request'[r].generation].cancelled
  <2> DEFINE g == request[r].generation
  <2>1. /\ g \in Generation /\ g <= current /\ lifecycle[g].entries[request[r].plugin] # 0
        /\ g = current \/ lifecycle[g].cancelled
    BY <1>1 DEF Asked
  <2> HIDE DEF g
  <2>2. g <= made
    BY <2>1, Numbers
  <2>3. lifecycle'[g].entries = lifecycle[g].entries /\ (lifecycle[g].cancelled => lifecycle'[g].cancelled)
    BY <2>1, <2>2, Lasting
  <2>4. lifecycle'[g].entries[request[r].plugin] # 0
    BY <2>1, <2>3
  <2>5. g <= current' /\ (g = current' \/ lifecycle'[g].cancelled)
    <3>1. CASE Publishes
      <4>1. op.step \in Starting
        BY <3>1 DEF Publishes, Starting
      <4>2. current < op.on /\ op.on \in Nat /\ current' = op.on
        BY <3>1, <4>1, Position, Numbers DEF Publishes
      <4>3. g = current => lifecycle[g].cancelled
        BY <2>1, <4>1, Unavailable, Numbers
      <4> QED
        BY <2>1, <2>3, <4>2, <4>3, Numbers
    <3>2. CASE ~ Publishes
      <4>1. current' = current
        BY <3>2, GoesOn DEF Changes, Goes, Ends, Builds, Commits, ShutsDown, ServedStops
      <4> QED
        BY <2>1, <2>3, <4>1
    <3> QED
      BY <3>1, <3>2
  <2> QED
    BY <1>1, <2>1, <2>4, <2>5 DEF g
<1>2. CASE request' = request
  BY <1>1, <1>2 DEF Asked
<1>3. ASSUME NEW r \in Request, RequestStep(r) PROVE Asked'
  <2> SUFFICES ASSUME NEW s \in Request, request'[s].step # "none"
               PROVE  /\ request'[s].generation \in Generation /\ request'[s].generation <= current'
                      /\ lifecycle'[request'[s].generation].entries[request'[s].plugin] # 0
                      /\ \/ request'[s].generation = current'
                         \/ lifecycle'[request'[s].generation].cancelled
    BY DEF Asked
  <2>1. /\ request'[s].generation = request[s].generation /\ request'[s].plugin = request[s].plugin
        /\ request[s].step # "none"
    BY <1>3, RequestEffect
  <2> QED
    BY <1>1, <2>1
<1>4. ASSUME NEW r \in Request, NEW p \in Plugin, Dispatch(r, p) PROVE Asked'
  <2> SUFFICES ASSUME NEW s \in Request, request'[s].step # "none"
               PROVE  /\ request'[s].generation \in Generation /\ request'[s].generation <= current'
                      /\ lifecycle'[request'[s].generation].entries[request'[s].plugin] # 0
                      /\ \/ request'[s].generation = current'
                         \/ lifecycle'[request'[s].generation].cancelled
    BY DEF Asked
  <2>1. CASE s # r
    <3>1. request'[s] = request[s]
      BY <1>4, <2>1, DispatchEffect
    <3> QED
      BY <1>1, <3>1
  <2>2. CASE s = r
    <3>1. request'[s] = [step |-> "queued", generation |-> current, plugin |-> p]
          /\ p \in Composed(current) /\ current \in Generation
      BY <1>4, <2>2, DispatchEffect
    <3>2. lifecycle' = lifecycle /\ current' = current
      BY <1>4 DEF Dispatch
    <3>3. request'[s].generation = current /\ request'[s].plugin = p
      BY <3>1
    <3> QED
      BY <3>1, <3>2, <3>3, Numbers DEF Composed
  <2> QED
    BY <2>1, <2>2
<1>5. CASE Calm
  BY <1>2, <1>3, <1>4, <1>5 DEF Calm, Work, BeginWork, EndWork
<1>6. CASE ~ Calm
  <2>1. request' = request
    BY <1>6 DEF Changes, Moves, Ends, Publishes, GivesUp, Builds, Commits, ShutsDown, ServedStops,
                Enters, Rises, Falls
  <2> QED
    BY <1>2, <2>1
<1> QED
  BY <1>5, <1>6

(* While a start is under way, or a stop past its first step, nobody holds a permit. *)
LEMMA NoHolders ==
  ASSUME IInv, Admitted, op.step \in Starting \cup {"drain", "release"}, NEW r \in Request
  PROVE  request[r].step \notin {"handling", "streaming"}
<1>1. op.step \in Starting \cup Stopping /\ op.step # "quiesce"
  BY DEF Starting, Stopping
<1> QED
  BY <1>1, Unavailable DEF Admitted

(* No request is admitted to, or left in, a generation that has been stopped. *)
LEMMA AdmittedKeeps ==
  ASSUME IInv, Asked, Admitted, Changes
  PROVE  Admitted'
<1> DEFINE Fine(s) == request'[s].step \in {"handling", "streaming"} =>
             /\ request'[s].generation = current' /\ current' # 0 /\ lifecycle'[current'].retired = {}
             /\ \/ ~ lifecycle'[current'].cancelled
                \/ op'.on = current' /\ op'.step = "quiesce"
<1> SUFFICES ASSUME NEW s \in Request PROVE Fine(s)
  BY DEF Admitted
<1>1. ASSUME request'[s] = request[s], UNCHANGED <<lifecycle, current, op>> PROVE Fine(s)
  BY <1>1 DEF Admitted
<1>2. ASSUME NEW r \in Request, RequestStep(r), UNCHANGED <<lifecycle, current, op>> PROVE Fine(s)
  <2>1. CASE s # r
    BY <1>1, <1>2, <2>1, RequestEffect
  <2>2. CASE s = r /\ request'[r].step = "handling"
    <3>1. ~ lifecycle[request[r].generation].cancelled /\ request[r].step # "none"
          /\ request'[r].generation = request[r].generation
      BY <1>2, <2>2, RequestEffect DEF Admits
    <3>2. request[r].generation = current /\ current # 0
      BY <3>1, Numbers DEF Asked
    <3>3. lifecycle[current].retired = {} /\ ~ lifecycle[current].cancelled
      BY <3>1, <3>2 DEF IInv, Serving, Complete, Available
    <3> QED
      BY <1>2, <2>2, <3>1, <3>2, <3>3
  <2>3. CASE s = r /\ request'[r].step # "handling"
    <3> SUFFICES ASSUME request'[r].step \in {"handling", "streaming"} PROVE Fine(s)
      BY <2>3
    <3>1. request[r].step \in {"handling", "streaming"}
          /\ request'[r].generation = request[r].generation
      BY <1>2, <2>3, RequestEffect
    <3> QED
      BY <1>2, <2>3, <3>1 DEF Admitted
  <2> QED
    BY <2>1, <2>2, <2>3
<1>3. ASSUME NEW r \in Request, NEW p \in Plugin, Dispatch(r, p), UNCHANGED <<lifecycle, current, op>>
      PROVE  Fine(s)
  <2>1. CASE s # r
    BY <1>1, <1>3, <2>1, DispatchEffect
  <2>2. CASE s = r
    <3>1. request'[r] = [step |-> "queued", generation |-> current, plugin |-> p]
      BY <1>3, DispatchEffect
    <3>2. request'[r].step = "queued"
      BY <3>1
    <3> QED
      BY <2>2, <3>2
  <2> QED
    BY <2>1, <2>2
<1>4. CASE Calm
  BY <1>1, <1>2, <1>3, <1>4 DEF Calm, Work, BeginWork, EndWork
<1>5. ASSUME request' = request, request[s].step \notin {"handling", "streaming"} PROVE Fine(s)
  BY <1>5
<1>6. CASE ~ Calm /\ op.step \in Starting \cup {"drain", "release"}
  <2>1. request' = request
    BY <1>6 DEF Changes, Moves, Ends, Publishes, GivesUp, Builds, Commits, ShutsDown, ServedStops,
                Enters, Rises, Falls
  <2> QED
    BY <1>5, <1>6, <2>1, NoHolders
<1>7. CASE Moves /\ op.step = "quiesce"
  <2>1. request' = request /\ \A r \in Request : ~ Holds(r, op.on)
    BY <1>7 DEF Moves
  <2>2. current # 0 => lifecycle[current].cancelled
    BY <1>7, Unavailable DEF Stopping
  <2>3. request[s].step \notin {"handling", "streaming"}
    BY <2>1, <2>2 DEF Holds, Admitted
  <2> QED
    BY <1>5, <2>1, <2>3
<1>8. CASE Builds
  BY <1>8 DEF Builds, Admitted, Available
<1>9. CASE Commits \/ ShutsDown
  <2>1. /\ op'.on = current /\ op'.step = "quiesce" /\ current' = current /\ request' = request
        /\ current # 0 /\ op.step = "build"
    BY <1>9, Numbers DEF Commits, ShutsDown, ServedStops
  <2>2. ~ Publishes /\ ~ Ends
    BY <2>1 DEF Publishes, Ends
  <2>3. lifecycle'[current].retired = lifecycle[current].retired
    BY <2>1, <2>2, ServedKeeps
  <2> QED
    BY <2>1, <2>3 DEF Admitted
<1> QED
  BY <1>4, <1>6, <1>7, <1>8, <1>9 DEF Changes, Moves, Ends, Publishes, GivesUp, Enters, Rises, Falls,
                                      Starting

-----------------------------------------------------------------------------
(* Where an instance that is up belongs: to the generation being started or    *)
(* compensated, or to what is not retired of the served one.                   *)
AtWork(g) ==
  op.on = g /\ (op.kind = "initialize" \/ (Changing /\ op.stage \in {"candidate", "recovery"}))
Serves(p, g) ==
  current # 0 /\ lifecycle[current].entries[p] = g /\ p \notin lifecycle[current].retired
Placed ==
  \A p \in Plugin, g \in Generation :
    unit[<<p, g>>].stage \in Live => AtWork(g) \/ Serves(p, g)
(* What a release has been through is up no more. *)
Done ==
  op.step = "release" =>
    \A p \in (op.selected \cap lifecycle[op.on].entered) \ op.todo :
      unit[<<p, lifecycle[op.on].entries[p]>>].stage \notin Live
(* What is served and not yet released is ready. *)
Standing(p) ==
  /\ current # 0 /\ lifecycle[current].entries[p] # 0 /\ p \notin lifecycle[current].retired
  /\ op.on = current /\ op.step = "release" /\ p \in op.selected => p \in op.todo
ServedReady ==
  \A p \in Plugin : Standing(p) => unit[<<p, lifecycle[current].entries[p]>>].stage = "ready"
(* How far the fresh instances of a start are. *)
Risen ==
  op.step \in Starting => \A p \in Fresh(op.on) :
    /\ op.step = "open" /\ p \notin op.todo => unit[<<p, op.on>>].stage \in {"entered", "opened"}
    /\ op.step = "launch" => unit[<<p, op.on>>].stage = "opened"
    /\ op.step = "ready" => unit[<<p, op.on>>].stage = IF p \in op.todo THEN "opened" ELSE "ready"
    /\ op.step = "route" => unit[<<p, op.on>>].stage = "ready"
(* A host that is down for good has nothing up. *)
Idle ==
  op.kind = "idle" /\ ~ Available =>
    \A p \in Plugin, g \in Generation : unit[<<p, g>>].stage \notin Live
(* DependenciesOutlive, instance by instance. *)
Supported ==
  \A p \in Plugin, g \in Generation : unit[<<p, g>>].stage \in Live =>
    \A q \in Depends[p] : lifecycle[g].entries[q] # 0 =>
      unit[<<q, lifecycle[g].entries[q]>>].stage \in {"opened", "ready"}

Stance == Placed /\ Done /\ ServedReady /\ Risen /\ Idle /\ Supported

(* An entry of a generation names one that was made no later. *)
LEMMA Entries ==
  ASSUME IInv, NEW g \in Generation, NEW p \in Plugin, lifecycle[g].entries[p] # 0
  PROVE  /\ lifecycle[g].entries[p] \in Generation /\ lifecycle[g].entries[p] <= g /\ g <= made
         /\ lifecycle[g].entries[p] \in Nat /\ g \in Nat /\ p \in Composed(g)
<1>1. lifecycle[g].entries[p] \in Generation /\ p \in Composed(g)
  BY Types DEF IInv, Composed
<1>2. lifecycle[g].entries[p] <= g
  BY DEF IInv, Known
<1>3. ~ (g > made)
  BY <1>1 DEF IInv, Known
<1> QED
  BY <1>1, <1>2, <1>3, Numbers

(* An instance that is up is registered by the generation that made it. *)
LEMMA UpRegistered ==
  ASSUME IInv, NEW g \in Generation, NEW p \in Plugin, unit[<<p, g>>].stage \in Live
  PROVE  lifecycle[g].entries[p] = g /\ p \in lifecycle[g].entered /\ g <= made /\ g # 0
<1>1. lifecycle[g].entries[p] = g /\ p \in lifecycle[g].entered
  BY DEF IInv, Registered, Live
<1>2. g # 0
  BY Numbers
<1> QED
  BY <1>1, <1>2, Entries

(* Compensation is of the fresh instances; they are of no served generation. *)
LEMMA Compensated ==
  ASSUME IInv, op.step \in Stopping, op.on # current
  PROVE  /\ op.stage \in {"first", "candidate", "recovery"} /\ op.selected = Fresh(op.on)
         /\ current < op.on /\ op.on \in Nat /\ current \in Nat
<1>1. op.stage \in {"first", "candidate", "recovery"}
  <2>1. op.kind \in {"initialize", "shutdown"} \/ Changing
    BY AtGeneration DEF IInv, TypeOK, Operation
  <2> QED
    BY <2>1 DEF IInv, Shape
<1>2. op.selected = Fresh(op.on)
  BY <1>1 DEF IInv, Phase
<1>3. current < op.on /\ op.on \in Generation
  BY <1>1, Position
<1> QED
  BY <1>1, <1>2, <1>3, Numbers

(* What is at work while something is stopped is what the stop is of. *)
LEMMA AtWorkSelected ==
  ASSUME IInv, NEW g \in Generation, NEW p \in Plugin, unit[<<p, g>>].stage \in Live, AtWork(g),
         op.step \in Stopping
  PROVE  g = op.on /\ p \in op.selected \cap lifecycle[op.on].entered /\ lifecycle[op.on].entries[p] = g
<1>1. g = op.on /\ lifecycle[g].entries[p] = g /\ p \in lifecycle[g].entered /\ g # 0
  BY UpRegistered DEF AtWork
<1>2. op.stage \in {"first", "candidate", "recovery"}
  BY DEF AtWork, IInv, Shape
<1>3. op.selected = Fresh(op.on)
  BY <1>2 DEF IInv, Phase
<1> QED
  BY <1>1, <1>3 DEF Fresh, Composed

(* When a stop is over, what is still up belongs to the rest of the served one. *)
LEMMA StopReleases ==
  ASSUME IInv, Whole, Placed, Done, op.step = "release", op.todo = {},
         NEW p \in Plugin, NEW g \in Generation, unit[<<p, g>>].stage \in Live
  PROVE  Serves(p, g) /\ (op.on = current => p \notin op.selected)
<1>0. op.step \in Stopping
  BY DEF Stopping
<1>1. ~ AtWork(g)
  BY <1>0, AtWorkSelected DEF Done
<1>2. Serves(p, g)
  BY <1>1 DEF Placed
<1>3. ASSUME op.on = current, p \in op.selected PROVE FALSE
  <2>1. p \in Composed(current)
    BY <1>2, Numbers DEF Serves, Composed
  <2>2. p \in lifecycle[current].entered
    BY <1>2, <2>1 DEF Serves, Whole
  <2> QED
    BY <1>2, <1>3, <2>2 DEF Done, Serves
<1> QED
  BY <1>2, <1>3

(* Nothing is up outside a start, its compensation and what is served. *)
LEMMA PlacedKeeps ==
  ASSUME IInv, Structure, Placed, Done, Changes
  PROVE  Placed'
<1> SUFFICES ASSUME NEW p \in Plugin, NEW g \in Generation, unit'[<<p, g>>].stage \in Live
             PROVE  AtWork(g)' \/ Serves(p, g)'
  BY DEF Placed
<1>1. CASE Goes
  <2>1. /\ AtWork(g) => AtWork(g)'
        /\ Serves(p, g) => Serves(p, g)'
    <3>1. AtWork(g) => AtWork(g)'
      BY <1>1, GoesOn DEF AtWork
    <3>2. Serves(p, g) => Serves(p, g)'
      BY <1>1, GoesOn, Numbers DEF Serves, SameComposition
    <3> QED
      BY <3>1, <3>2
  <2>2. CASE unit[<<p, g>>].stage \in Live
    BY <2>1, <2>2 DEF Placed
  <2>3. ASSUME op.step \in Starting, g = op.on PROVE AtWork(g)
    <3>1. op.kind = "initialize" \/ (Changing /\ op.stage \in {"candidate", "recovery"})
      BY <2>3, Position
    <3> QED
      BY <2>3, <3>1 DEF AtWork
  <2>4. CASE Calm \/ Moves \/ GivesUp
    <3>1. SameStages
      BY <2>4, SameUnits DEF Calm, Moves, GivesUp
    <3> QED
      BY <2>2, <3>1 DEF SameStages
  <2>5. ASSUME NEW q \in Plugin, Enters(q) PROVE AtWork(g)' \/ Serves(p, g)'
    <3>1. CASE p = q /\ g = op.on
      BY <2>1, <2>3, <2>5, <3>1 DEF Enters, Starting
    <3>2. CASE ~ (p = q /\ g = op.on)
      BY <2>2, <2>5, <3>2 DEF Enters, Entering
    <3> QED
      BY <3>1, <3>2
  <2>6. ASSUME NEW q \in Plugin, Rises(q) PROVE AtWork(g)' \/ Serves(p, g)'
    <3>1. CASE p = q /\ g = op.on
      BY <2>1, <2>3, <2>6, <3>1 DEF Rises, Starting
    <3>2. CASE ~ (p = q /\ g = op.on)
      BY <2>2, <2>6, <3>2 DEF Rises
    <3> QED
      BY <3>1, <3>2
  <2>7. ASSUME NEW q \in Plugin, Falls(q) PROVE AtWork(g)' \/ Serves(p, g)'
    BY <2>2, <2>7 DEF Falls
  <2> QED
    BY <1>1, <2>4, <2>5, <2>6, <2>7 DEF Goes
<1>2. CASE Ends
  <2>1. unit[<<p, g>>].stage \in Live /\ op.step = "release" /\ op.todo = {} /\ ~ Publishes
    BY <1>2 DEF Ends, StopOver, SameStages, Publishes
  <2>2. Serves(p, g) /\ (op.on = current => p \notin op.selected)
    BY <2>1, StopReleases DEF Structure
  <2>3. /\ current' = current /\ lifecycle'[current].entries = lifecycle[current].entries
        /\ p \notin lifecycle'[current].retired
    BY <2>1, <2>2, ServedKeeps DEF Serves
  <2> QED
    BY <2>2, <2>3 DEF Serves
<1>3. CASE Publishes
  <2>1. /\ unit[<<p, g>>].stage \in Live /\ lifecycle' = lifecycle /\ current' = op.on
        /\ op.step \in Starting
    BY <1>3 DEF Publishes, Starting
  <2>2. op.on \in Generation /\ op.on # 0 /\ lifecycle[op.on].retired = {}
    BY <2>1, Position, AtGeneration DEF IInv, Phase
  <2>3. lifecycle[op.on].entries[p] = g
    <3>1. CASE AtWork(g)
      BY <2>1, <3>1, UpRegistered DEF AtWork
    <3>2. CASE ~ AtWork(g)
      <4>1. Serves(p, g) /\ g # 0 /\ op.kind # "initialize"
        BY <2>1, <3>2, UpRegistered DEF Placed, Serves, IInv, Shape
      <4>2. Changing /\ op.stage \in {"candidate", "recovery"} /\ op.on \in {made - 1, made}
        BY <2>1, <4>1, Position
      <4>3. p \notin op.changed
        BY <4>1, <4>2, Numbers DEF Serves, IInv, Serving, Complete, Composed
      <4> QED
        BY <4>1, <4>2, <4>3 DEF Serves, IInv, Recipes
    <3> QED
      BY <3>1, <3>2
  <2> QED
    BY <2>1, <2>2, <2>3 DEF Serves
<1>4. CASE Builds \/ Commits \/ ShutsDown
  <2>1. op.step = "build" /\ SameStages
    BY <1>4, SameUnits DEF Builds, Commits, ShutsDown, ServedStops
  <2>2. ~ AtWork(g) /\ ~ Ends /\ ~ Publishes /\ unit[<<p, g>>].stage \in Live
    BY <2>1 DEF AtWork, IInv, Shape, Changing, Ends, Publishes, SameStages
  <2>3. Serves(p, g)
    BY <2>2 DEF Placed
  <2> QED
    BY <2>2, <2>3, ServedKeeps DEF Serves
<1> QED
  BY <1>1, <1>2, <1>3, <1>4 DEF Changes, Goes

(* What has been released stays down. *)
LEMMA DoneKeeps ==
  ASSUME IInv, Done, Changes
  PROVE  Done'
<1> SUFFICES ASSUME op'.step = "release",
                    NEW p \in (op'.selected \cap lifecycle'[op'.on].entered) \ op'.todo
             PROVE  unit'[<<p, lifecycle'[op'.on].entries[p]>>].stage \notin Live
  BY DEF Done
<1>1. ASSUME SameStages, UNCHANGED <<lifecycle, op>>
      PROVE  unit'[<<p, lifecycle'[op'.on].entries[p]>>].stage \notin Live
  <2>1. op.on \in Generation /\ p \in Plugin /\ lifecycle[op.on].entries[p] # 0
    BY <1>1, AtGeneration DEF Stopping, IInv, Phase, Composed
  <2>2. lifecycle[op.on].entries[p] \in Generation
    BY <2>1, Entries
  <2> QED
    BY <1>1, <2>1, <2>2 DEF Done, SameStages
<1>2. CASE Calm
  BY <1>1, <1>2 DEF Calm
<1>3. CASE Moves
  BY <1>3 DEF Moves, SameOperation
<1>4. ASSUME NEW q \in Plugin, Falls(q)
      PROVE  unit'[<<p, lifecycle'[op'.on].entries[p]>>].stage \notin Live
  <2>1. /\ lifecycle' = lifecycle /\ op'.on = op.on /\ op'.selected = op.selected
        /\ op'.todo = op.todo \ {q} /\ op.step = "release"
    BY <1>4 DEF Falls, SameOperation
  <2>2. op.on \in Generation /\ p \in Plugin /\ lifecycle[op.on].entries[p] # 0
    BY <2>1, AtGeneration DEF Stopping, IInv, Phase, Composed
  <2>3. lifecycle[op.on].entries[p] \in Generation
    BY <2>2, Entries
  <2>4. CASE p = q
    BY <1>4, <2>1, <2>4 DEF Falls, Member
  <2>5. CASE p # q
    <3>1. unit[<<p, lifecycle[op.on].entries[p]>>].stage \notin Live
      BY <2>1, <2>5 DEF Done
    <3> QED
      BY <1>4, <2>1, <2>2, <2>3, <2>5, <3>1 DEF Falls, Member
  <2> QED
    BY <2>4, <2>5
<1>5. ~ Ends /\ ~ Publishes /\ ~ GivesUp /\ ~ Builds /\ ~ Commits /\ ~ ShutsDown
      /\ \A q \in Plugin : ~ Enters(q) /\ ~ Rises(q)
  BY DEF Ends, NextBegins, NothingFollows, RestFollows, Publishes, GivesUp, Builds, Commits,
         ShutsDown, ServedStops, Enters, Entering, Rises, NoOperation, Starting
<1> QED
  BY <1>2, <1>3, <1>4, <1>5 DEF Changes

(* Only its own stop takes an instance of the served generation down. *)
LEMMA ServedReadyKeeps ==
  ASSUME IInv, ServedReady, Risen, Changes
  PROVE  ServedReady'
<1>1. ASSUME ~ Publishes, NEW p \in Plugin, Standing(p)', Standing(p),
             current # 0 /\ lifecycle[current].entries[p] # 0 =>
               unit'[<<p, lifecycle[current].entries[p]>>].stage =
                 unit[<<p, lifecycle[current].entries[p]>>].stage
      PROVE  unit'[<<p, lifecycle'[current'].entries[p]>>].stage = "ready"
  <2>1. current # 0 /\ lifecycle[current].entries[p] # 0
    BY <1>1 DEF Standing
  <2>2. current' = current /\ lifecycle'[current].entries = lifecycle[current].entries
    BY <1>1, <2>1, ServedKeeps
  <2> QED
    BY <1>1, <2>1, <2>2 DEF ServedReady
<1>2. ASSUME SameStages, NEW p \in Plugin, current # 0 /\ lifecycle[current].entries[p] # 0
      PROVE  unit'[<<p, lifecycle[current].entries[p]>>].stage =
               unit[<<p, lifecycle[current].entries[p]>>].stage
  BY <1>2, Entries, Numbers DEF SameStages
<1>3. ASSUME ~ Publishes, NEW p \in Plugin, Standing(p)'
      PROVE  /\ current # 0 /\ current' = current /\ lifecycle[current].entries[p] # 0
             /\ ~ Ends => p \notin lifecycle[current].retired
             /\ Ends => /\ p \notin lifecycle[current].retired
                        /\ op.on = current => p \notin op.selected
  <2>1. current' = current
    BY <1>3, GoesOn DEF Changes, Goes, Ends, Builds, Commits, ShutsDown, ServedStops
  <2>2. current # 0 /\ lifecycle'[current].entries[p] # 0 /\ p \notin lifecycle'[current].retired
    BY <1>3, <2>1 DEF Standing
  <2> QED
    BY <1>3, <2>1, <2>2, ServedKeeps
<1>4. CASE Publishes
  <2>1. /\ op.step = "route" /\ op.step \in Starting /\ lifecycle' = lifecycle /\ unit' = unit
        /\ current' = op.on
    BY <1>4 DEF Publishes, Starting
  <2>2. /\ op.on \in Generation /\ op.on # 0
        /\ \/ op.kind = "initialize"
           \/ Changing /\ op.stage \in {"candidate", "recovery"} /\ op.on \in {made - 1, made}
    BY <2>1, Position, AtGeneration
  <2> SUFFICES ASSUME NEW p \in Plugin, lifecycle[op.on].entries[p] # 0
               PROVE  unit[<<p, lifecycle[op.on].entries[p]>>].stage = "ready"
    BY <2>1 DEF ServedReady, Standing
  <2>3. /\ lifecycle[op.on].entries[p] \in Generation /\ lifecycle[op.on].entries[p] <= op.on
        /\ p \in Composed(op.on)
    BY <2>2, Entries
  <2>4. CASE lifecycle[op.on].entries[p] = op.on
    BY <2>1, <2>3, <2>4 DEF Risen, Fresh
  <2>5. CASE lifecycle[op.on].entries[p] # op.on
    <3>1. op.kind # "initialize"
      BY <2>3, <2>5, Numbers DEF IInv, Shape
    <3>2. Changing /\ op.stage \in {"candidate", "recovery"}
      BY <2>2, <3>1
    <3>3. p \notin op.changed /\ lifecycle[op.on].entries[p] = lifecycle[current].entries[p]
      BY <2>2, <2>5, <3>1 DEF IInv, Recipes
    <3>4. current # 0 /\ p \notin lifecycle[current].retired
      BY <3>2, <3>3, Numbers DEF IInv, Serving, Complete, Shape
    <3>5. Standing(p)
      BY <2>1, <3>3, <3>4 DEF Standing
    <3> QED
      BY <3>3, <3>5 DEF ServedReady
  <2> QED
    BY <2>4, <2>5
<1> SUFFICES ASSUME ~ Publishes, NEW p \in Plugin, Standing(p)'
             PROVE  unit'[<<p, lifecycle'[current'].entries[p]>>].stage = "ready"
  BY <1>4 DEF ServedReady
<1>5. CASE Ends
  <2>1. Standing(p) /\ SameStages
    BY <1>3, <1>5 DEF Standing, Ends, StopOver
  <2> QED
    BY <1>1, <1>2, <2>1
<1>6. CASE ~ Ends /\ op.step # "release" /\ SameStages
  <2>1. Standing(p)
    BY <1>3, <1>6 DEF Standing
  <2> QED
    BY <1>1, <1>2, <1>6, <2>1
<1>7. CASE ~ Ends /\ (Moves \/ GivesUp \/ Builds \/ Commits \/ ShutsDown)
  <2>1. op.step # "release" /\ SameStages
    BY <1>7, SameUnits DEF Moves, GivesUp, Builds, Commits, ShutsDown, ServedStops, Starting
  <2> QED
    BY <1>6, <1>7, <2>1
<1>8. CASE ~ Ends /\ Calm
  <2>1. SameStages /\ Standing(p)
    BY <1>8 DEF Calm, Standing
  <2> QED
    BY <1>1, <1>2, <2>1
<1>9. ASSUME ~ Ends, NEW q \in Plugin, Enters(q) \/ Rises(q)
      PROVE  unit'[<<p, lifecycle'[current'].entries[p]>>].stage = "ready"
  <2>1. op.step \in Starting /\ op.step # "release"
    BY <1>9 DEF Enters, Rises, Starting
  <2>2. Standing(p)
    BY <1>3, <1>9, <2>1 DEF Standing
  <2>3. lifecycle[current].entries[p] \in Generation /\ lifecycle[current].entries[p] # op.on
    <3>1. current \in Generation /\ lifecycle[current].entries[p] # 0
      BY <2>2, Numbers DEF Standing
    <3>2. lifecycle[current].entries[p] \in Nat /\ lifecycle[current].entries[p] <= current
      BY <3>1, Entries
    <3>3. current < op.on /\ op.on \in Nat
      BY <2>1, Position, Numbers
    <3> QED
      BY <3>1, <3>2, <3>3, Entries, Numbers
  <2>4. unit'[<<p, lifecycle[current].entries[p]>>].stage =
          unit[<<p, lifecycle[current].entries[p]>>].stage
    BY <1>9, <2>3 DEF Enters, Entering, Rises
  <2> QED
    BY <1>1, <2>2, <2>4
<1>10. ASSUME ~ Ends, NEW q \in Plugin, Falls(q)
       PROVE  unit'[<<p, lifecycle'[current'].entries[p]>>].stage = "ready"
  <2>1. /\ op.step = "release" /\ op'.step = "release" /\ q \in op.todo /\ op'.todo = op.todo \ {q}
        /\ op'.on = op.on /\ op'.selected = op.selected /\ op.step \in Stopping
    BY <1>10 DEF Falls, SameOperation, Stopping
  <2>2. /\ current # 0 /\ current' = current /\ lifecycle[current].entries[p] # 0
        /\ p \notin lifecycle[current].retired
    BY <1>3, <1>10
  <2>3. Standing(p)
    BY <2>1, <2>2 DEF Standing
  <2>4. lifecycle[current].entries[p] \in Generation
    BY <2>2, Entries, Numbers
  <2>5. <<p, lifecycle[current].entries[p]>> # <<q, lifecycle[op.on].entries[q]>>
    <3>1. CASE op.on = current
      <4>1. p # q
        BY <2>1, <2>2, <3>1 DEF Standing, IInv, Phase
      <4> QED
        BY <4>1
    <3>2. CASE op.on # current
      <4>1. q \in Fresh(op.on) /\ current < op.on /\ op.on \in Nat /\ current \in Nat
        BY <2>1, <3>2, Compensated DEF IInv, Phase
      <4>2. lifecycle[op.on].entries[q] = op.on
        BY <4>1 DEF Fresh
      <4>3. lifecycle[current].entries[p] <= current /\ lifecycle[current].entries[p] \in Nat
        BY <2>2, Entries, Numbers
      <4> QED
        BY <4>1, <4>2, <4>3
    <3> QED
      BY <3>1, <3>2
  <2>6. unit'[<<p, lifecycle[current].entries[p]>>].stage =
          unit[<<p, lifecycle[current].entries[p]>>].stage
    BY <1>10, <2>4, <2>5 DEF Falls, Member
  <2> QED
    BY <1>1, <2>3, <2>6
<1> QED
  BY <1>5, <1>7, <1>8, <1>9, <1>10 DEF Changes

(* A start goes on only when all of its fresh instances have come as far. *)
LEMMA RisenKeeps ==
  ASSUME IInv, Risen, Changes
  PROVE  Risen'
<1> DEFINE Stage(p) == unit'[<<p, op'.on>>].stage
           Fine(p) ==
             /\ op'.step = "open" /\ p \notin op'.todo => Stage(p) \in {"entered", "opened"}
             /\ op'.step = "launch" => Stage(p) = "opened"
             /\ op'.step = "ready" => Stage(p) = IF p \in op'.todo THEN "opened" ELSE "ready"
             /\ op'.step = "route" => Stage(p) = "ready"
<1> SUFFICES ASSUME op'.step \in Starting, NEW p \in Fresh(op.on)' PROVE Fine(p)
  BY DEF Risen
<1>1. ASSUME op.step \in Starting, op'.on = op.on, SameComposition
      PROVE  p \in Fresh(op.on) /\ op.on \in Generation /\ p \in Plugin
  BY <1>1, AtGeneration DEF SameComposition, Fresh, Composed
<1>2. CASE Calm
  <2>1. op.step \in Starting /\ op' = op /\ lifecycle' = lifecycle /\ SameStages
    BY <1>2 DEF Calm
  <2>2. p \in Fresh(op.on) /\ op.on \in Generation /\ p \in Plugin
    BY <1>1, <2>1 DEF SameComposition
  <2>3. unit'[<<p, op.on>>].stage = unit[<<p, op.on>>].stage
    BY <2>1, <2>2 DEF SameStages
  <2> QED
    BY <2>1, <2>2, <2>3 DEF Risen
<1>3. CASE Moves
  <2>1. /\ op.step \in Starting /\ op'.on = op.on /\ lifecycle' = lifecycle /\ unit' = unit
    BY <1>3 DEF Moves, SameOperation, Starting
  <2>2. p \in Fresh(op.on) /\ op.on \in Generation /\ p \in Plugin
    BY <1>1, <2>1 DEF SameComposition
  <2>3. CASE op.step = "open"
    <3>1. op.todo = {} /\ Opening = {} /\ op'.step = "launch"
      BY <1>3, <2>3 DEF Moves
    <3>2. unit[<<p, op.on>>].stage = "opened"
      BY <2>1, <2>2, <2>3, <3>1 DEF Risen, Opening
    <3> QED
      BY <2>1, <3>1, <3>2
  <2>4. CASE op.step = "launch"
    <3>1. op'.step = "launch" \/ (op'.step = "ready" /\ op'.todo = Fresh(op.on))
      BY <1>3, <2>4 DEF Moves
    <3> QED
      BY <2>1, <2>2, <2>4, <3>1 DEF Risen
  <2>5. CASE op.step = "ready"
    <3>1. op.todo = {} /\ op'.step = "route"
      BY <1>3, <2>5 DEF Moves
    <3> QED
      BY <2>1, <2>2, <2>5, <3>1 DEF Risen
  <2> QED
    BY <1>3, <2>1, <2>3, <2>4, <2>5 DEF Moves, Starting
<1>4. ASSUME NEW q \in Plugin, Enters(q) PROVE Fine(p)
  <2>1. /\ op.step = "open" /\ op'.step = "open" /\ op.step \in Starting /\ op'.on = op.on
        /\ SameComposition /\ op'.todo = op.todo \ {q}
    BY <1>4 DEF Enters, Entering, SameOperation, Starting
  <2>2. p \in Fresh(op.on) /\ op.on \in Generation /\ p \in Plugin
    BY <1>1, <2>1
  <2>3. unit'[<<p, op.on>>].stage = IF p = q THEN "entered" ELSE unit[<<p, op.on>>].stage
    BY <1>4, <2>2 DEF Enters, Entering
  <2> QED
    BY <2>1, <2>2, <2>3 DEF Risen
<1>5. ASSUME NEW q \in Plugin, Rises(q) PROVE Fine(p)
  <2>1. /\ op.step \in {"open", "ready"} /\ op'.step = op.step /\ op.step \in Starting
        /\ op'.on = op.on /\ SameComposition
    BY <1>5 DEF Rises, SameOperation, SameComposition, Starting
  <2>2. p \in Fresh(op.on) /\ op.on \in Generation /\ p \in Plugin
    BY <1>1, <2>1
  <2>3. CASE p = q
    BY <1>5, <2>1, <2>3 DEF Rises
  <2>4. CASE p # q
    <3>1. unit'[<<p, op.on>>].stage = unit[<<p, op.on>>].stage
          /\ (p \in op'.todo <=> p \in op.todo)
      BY <1>5, <2>2, <2>4 DEF Rises
    <3> QED
      BY <2>1, <2>2, <3>1 DEF Risen
  <2> QED
    BY <2>3, <2>4
<1>6. CASE GivesUp
  <2>1. /\ op' = op /\ op.step \in Starting /\ SameStages /\ SameComposition
    BY <1>6 DEF GivesUp, CancelsOnly, SameComposition, Starting
  <2>2. p \in Fresh(op.on) /\ op.on \in Generation /\ p \in Plugin
    BY <1>1, <2>1
  <2>3. unit'[<<p, op.on>>].stage = unit[<<p, op.on>>].stage
    BY <2>1, <2>2 DEF SameStages
  <2> QED
    BY <2>1, <2>2, <2>3 DEF Risen
<1>7. CASE Ends
  <2>1. NextBegins
    BY <1>7 DEF Ends, NothingFollows, RestFollows, NoOperation, Starting
  <2>2. op'.on \in Generation
    BY <2>1, Numbers DEF NextBegins
  <2>3. p \in Composed(op'.on)
    BY <1>7, <2>2 DEF Ends, StopOver, SameComposition, Fresh, Composed
  <2> QED
    BY <2>1, <2>3 DEF NextBegins
<1>8. /\ ~ Publishes /\ ~ Builds /\ ~ Commits /\ ~ ShutsDown /\ \A q \in Plugin : ~ Falls(q)
  BY DEF Publishes, Builds, Commits, ShutsDown, ServedStops, Falls, NoOperation, Starting
<1> QED
  BY <1>2, <1>3, <1>4, <1>5, <1>6, <1>7, <1>8 DEF Changes

(* A host goes down only once everything it ran is released. *)
LEMMA IdleKeeps ==
  ASSUME IInv, Structure, Placed, Done, Idle, Changes
  PROVE  Idle'
<1>1. CASE Calm
  BY <1>1 DEF Calm, Idle, Available, SameStages
<1>2. CASE Ends
  <2>1. CASE NothingFollows
    <3>1. op.kind \in {"initialize", "shutdown"} \/ Changing
      BY <1>2, AtGeneration DEF Ends, IInv, TypeOK, Operation, Stopping
    <3>2. ASSUME NEW p \in Plugin, NEW g \in Generation, unit[<<p, g>>].stage \in Live PROVE FALSE
      <4>1. Serves(p, g) /\ (op.on = current => p \notin op.selected)
        BY <1>2, <3>2, StopReleases DEF Ends, Structure
      <4>2. current # 0 /\ p \in Composed(current) \ lifecycle[current].retired
        BY <4>1, Numbers DEF Serves, Composed
      <4>3. op.on = current /\ op.stage = "rest"
        <5>1. CASE op.kind = "initialize"
          BY <4>2, <5>1 DEF IInv, Shape
        <5>2. CASE op.kind = "shutdown"
          BY <5>2 DEF IInv, Shape
        <5>3. CASE Changing
          BY <2>1, <5>3 DEF NothingFollows, IInv, Shape
        <5> QED
          BY <3>1, <5>1, <5>2, <5>3
      <4> QED
        BY <1>2, <4>1, <4>2, <4>3 DEF Ends, Structure, Whole, Stopping
    <3> QED
      BY <1>2, <3>2 DEF Ends, StopOver, SameStages, Idle
  <2>2. CASE ~ NothingFollows
    BY <1>2, <2>2 DEF Ends, NextBegins, RestFollows, Idle
  <2> QED
    BY <2>1, <2>2
<1>3. CASE Publishes
  <2>1. op.on # 0
    BY <1>3, AtGeneration DEF Publishes, Starting
  <2> QED
    BY <1>3, <2>1 DEF Publishes, Idle, Available
<1>4. CASE Builds
  BY <1>4 DEF Builds, Idle, Available
<1>5. CASE Commits \/ ShutsDown
  BY <1>5 DEF Commits, ShutsDown, Idle
<1>6. ASSUME Goes, op.step \in Starting \cup Stopping
      PROVE  Idle'
  BY <1>6, GoesOn, AtGeneration DEF Idle
<1>7. CASE Moves \/ GivesUp
  BY <1>6, <1>7 DEF Moves, GivesUp, Goes, Starting, Stopping
<1>8. ASSUME NEW q \in Plugin, Enters(q) \/ Rises(q) \/ Falls(q) PROVE Idle'
  BY <1>6, <1>8 DEF Enters, Rises, Falls, Goes, Starting, Stopping
<1> QED
  BY <1>1, <1>2, <1>3, <1>4, <1>5, <1>7, <1>8 DEF Changes


(* Stages that do not change leave everything supported. *)
LEMMA SupportedSame ==
  ASSUME IInv, Supported, Changes, SameStages
  PROVE  Supported'
<1> SUFFICES ASSUME NEW p \in Plugin, NEW g \in Generation, unit'[<<p, g>>].stage \in Live,
                    NEW q \in Depends[p], lifecycle'[g].entries[q] # 0
             PROVE  unit'[<<q, lifecycle'[g].entries[q]>>].stage \in {"opened", "ready"}
  BY DEF Supported
<1>1. unit[<<p, g>>].stage \in Live
  BY DEF SameStages
<1>2. lifecycle'[g].entries = lifecycle[g].entries
  BY <1>1, UpRegistered, Lasting
<1>3. q \in Plugin /\ lifecycle[g].entries[q] \in Generation
  BY <1>2, Entries, DependsAssumption
<1> QED
  BY <1>1, <1>2, <1>3 DEF Supported, SameStages

(* A plugin is released after whatever uses it: dependants are part of the same *)
(* stop, and come first.                                                        *)
LEMMA NoDependants ==
  ASSUME IInv, Structure, Placed, Done, op.step = "release",
         NEW p \in op.todo, \A q \in op.todo : p \notin Depends[q],
         NEW d \in Plugin, NEW g \in Generation, unit[<<d, g>>].stage \in Live, p \in Depends[d]
  PROVE  FALSE
<1>1. op.step \in Stopping /\ d \notin op.todo
  BY DEF Stopping
<1>2. /\ p \in op.selected /\ op.selected \subseteq Composed(op.on) \ lifecycle[op.on].retired
      /\ op.on \in Generation /\ p \in Plugin /\ lifecycle[op.on].entries[p] # 0
  BY <1>1, AtGeneration DEF IInv, Phase, Composed
<1>3. CASE AtWork(g)
  <2>1. d \in op.selected \cap lifecycle[op.on].entered /\ lifecycle[op.on].entries[d] = g
    BY <1>1, <1>3, AtWorkSelected
  <2> QED
    BY <1>1, <2>1 DEF Done
<1>4. CASE Serves(d, g) /\ op.on = current
  <2>1. d \in Composed(current) \ lifecycle[current].retired /\ lifecycle[current].entries[d] = g
    BY <1>4, Numbers DEF Serves, Composed
  <2>2. op.stage = "rest" \/ (Changing /\ op.stage = "old")
    <3>1. op.kind \in {"initialize", "shutdown"} \/ Changing
      BY <1>1, AtGeneration DEF IInv, TypeOK, Operation
    <3>2. op.stage \notin {"first", "candidate", "recovery"}
      BY <1>1, <1>4, Position
    <3>3. op.kind # "initialize"
      BY <3>2 DEF IInv, Shape
    <3>4. CASE op.kind = "shutdown"
      BY <3>4 DEF IInv, Shape
    <3>5. CASE Changing
      BY <3>2, <3>5 DEF IInv, Shape
    <3> QED
      BY <3>1, <3>3, <3>4, <3>5
  <2>3. d \in op.selected
    <3>1. CASE op.stage = "rest"
      BY <1>1, <2>1, <3>1 DEF Structure, Whole
    <3>2. CASE Changing /\ op.stage = "old"
      <4>1. op.selected = op.changed \cap Composed(current) /\ op.kind = "change"
        BY <3>2 DEF IInv, Phase, Changing
      <4>2. d \in op.changed
        BY <1>2, <2>1, <4>1 DEF Structure, Rebuilt, Closed
      <4> QED
        BY <2>1, <4>1, <4>2
    <3> QED
      BY <2>2, <3>1, <3>2
  <2>4. d \in lifecycle[current].entered
    BY <1>4, <2>1 DEF Structure, Whole, Serves
  <2> QED
    BY <1>1, <1>4, <2>1, <2>3, <2>4 DEF Done
<1>5. CASE Serves(d, g) /\ op.on # current
  <2>1. p \in Fresh(op.on) /\ op.stage \in {"first", "candidate", "recovery"}
        /\ current < op.on /\ current \in Nat
    BY <1>1, <1>2, <1>5, Compensated
  <2>2. current \in Generation /\ d \in Composed(current) \ lifecycle[current].retired
    BY <1>5, Numbers DEF Serves, Composed
  <2>3. Changing /\ op.stage \in {"candidate", "recovery"} /\ op.on \in {made - 1, made}
    BY <1>1, <2>1, <2>2, Position, Numbers
  <2>4. lifecycle[current].entries[p] # op.on
    BY <1>2, <2>1, <2>2, Entries
  <2>5. p \in op.changed
    BY <1>2, <2>1, <2>3, <2>4 DEF IInv, Recipes, Fresh
  <2>6. d \in op.changed
    BY <2>2, <2>3, <2>5 DEF Structure, Rebuilt, Closed, Changing
  <2> QED
    BY <2>2, <2>3, <2>6 DEF IInv, Serving, Complete
<1> QED
  BY <1>3, <1>4, <1>5 DEF Placed

(* No step leaves an instance up without what it uses. *)
LEMMA SupportedKeeps ==
  ASSUME IInv, Structure, Placed, Done, ServedReady, Risen, Supported, Changes
  PROVE  Supported'
<1>1. CASE SameStages
  BY <1>1, SupportedSame
<1> SUFFICES ASSUME ~ SameStages,
                    NEW p \in Plugin, NEW g \in Generation, unit'[<<p, g>>].stage \in Live,
                    NEW q \in Depends[p], lifecycle'[g].entries[q] # 0
             PROVE  unit'[<<q, lifecycle'[g].entries[q]>>].stage \in {"opened", "ready"}
  BY <1>1 DEF Supported
<1>2. ASSUME NEW x \in Plugin, Enters(x)
      PROVE  unit'[<<q, lifecycle'[g].entries[q]>>].stage \in {"opened", "ready"}
  <2>1. /\ op.step = "open" /\ op.step \in Starting /\ x \in op.todo /\ Depends[x] \cap op.todo = {}
        /\ Opening = {} /\ op.on \in Generation /\ SameComposition
    BY <1>2, AtGeneration DEF Enters, Entering, Starting
  <2>2. \A y \in Plugin, h \in Generation :
          unit'[<<y, h>>].stage = IF y = x /\ h = op.on /\ x \in Fresh(op.on) THEN "entered"
                                  ELSE unit[<<y, h>>].stage
    BY <1>2 DEF Enters, Entering
  <2>3. /\ lifecycle'[g].entries[q] = lifecycle[g].entries[q] /\ q \in Plugin
        /\ lifecycle[g].entries[q] \in Generation
    BY <2>1, Entries, DependsAssumption DEF SameComposition
  <2>4. CASE p = x /\ g = op.on /\ x \in Fresh(op.on)
    <3>1. q \notin op.todo /\ q # x /\ q \in Composed(op.on)
      BY <2>1, <2>3, <2>4, Entries
    <3>2. unit[<<q, lifecycle[op.on].entries[q]>>].stage \in {"opened", "ready"}
      <4>1. CASE lifecycle[op.on].entries[q] = op.on
        <5>1. q \in Fresh(op.on)
          BY <3>1, <4>1 DEF Fresh
        <5> QED
          BY <2>1, <3>1, <4>1, <5>1 DEF Risen, Opening
      <4>2. CASE lifecycle[op.on].entries[q] # op.on
        <5>1. \/ op.kind = "initialize" /\ op.on = 1 /\ made = 1
              \/ Changing /\ op.stage \in {"candidate", "recovery"} /\ op.on \in {made - 1, made}
          BY <2>1, Position DEF IInv, Shape
        <5>2. op.kind # "initialize"
          BY <2>1, <2>3, <2>4, <4>2, <5>1, Entries, Numbers DEF IInv, Shape
        <5>3. q \notin op.changed /\ lifecycle[op.on].entries[q] = lifecycle[current].entries[q]
          BY <2>3, <2>4, <4>2, <5>1, <5>2 DEF IInv, Recipes
        <5>4. current # 0 /\ q \notin lifecycle[current].retired
          BY <5>1, <5>2, <5>3 DEF IInv, Serving, Complete, Shape
        <5>5. Standing(q)
          BY <2>1, <2>3, <2>4, <5>3, <5>4 DEF Standing
        <5> QED
          BY <2>3, <5>3, <5>5 DEF ServedReady
      <4> QED
        BY <4>1, <4>2
    <3> QED
      BY <2>2, <2>3, <2>4, <3>1, <3>2
  <2>5. CASE ~ (p = x /\ g = op.on /\ x \in Fresh(op.on))
    <3>1. unit[<<q, lifecycle[g].entries[q]>>].stage \in {"opened", "ready"}
      BY <2>2, <2>3, <2>5 DEF Supported
    <3>2. unit[<<x, op.on>>].stage = "absent"
      BY <2>1 DEF IInv, Phase, Registered
    <3> QED
      BY <2>2, <2>3, <3>1, <3>2
  <2> QED
    BY <2>4, <2>5
<1>3. ASSUME NEW x \in Plugin, Rises(x)
      PROVE  unit'[<<q, lifecycle'[g].entries[q]>>].stage \in {"opened", "ready"}
  <2>1. /\ op.step \in {"open", "ready"} /\ op.step \in Starting /\ x \in Fresh(op.on)
        /\ op.on \in Generation /\ lifecycle' = lifecycle
        /\ \A y \in Plugin, h \in Generation :
             (y # x \/ h # op.on) => unit'[<<y, h>>].stage = unit[<<y, h>>].stage
        /\ unit'[<<x, op.on>>].stage \in {"opened", "ready"}
    BY <1>3, AtGeneration DEF Rises, Starting
  <2>2. unit[<<x, op.on>>].stage \in Live
    BY <1>3, <2>1 DEF Rises, Risen, Live
  <2>3. unit[<<p, g>>].stage \in Live
    BY <2>1, <2>2
  <2>4. q \in Plugin /\ lifecycle[g].entries[q] \in Generation
    BY <2>1, Entries, DependsAssumption
  <2>5. unit[<<q, lifecycle[g].entries[q]>>].stage \in {"opened", "ready"}
    BY <2>1, <2>3 DEF Supported
  <2> QED
    BY <2>1, <2>4, <2>5
<1>4. ASSUME NEW x \in Plugin, Falls(x)
      PROVE  unit'[<<q, lifecycle'[g].entries[q]>>].stage \in {"opened", "ready"}
  <2>1. /\ op.step = "release" /\ x \in op.todo /\ \A y \in op.todo : x \notin Depends[y]
        /\ lifecycle' = lifecycle /\ unit'[Member(op.on, x)].stage \notin Live
        /\ \A y \in Plugin, h \in Generation :
             <<y, h>> # Member(op.on, x) => unit'[<<y, h>>].stage = unit[<<y, h>>].stage
    BY <1>4 DEF Falls
  <2>2. unit[<<p, g>>].stage \in Live
    BY <2>1
  <2>3. q \in Plugin /\ lifecycle[g].entries[q] \in Generation
    BY <2>1, Entries, DependsAssumption
  <2>4. unit[<<q, lifecycle[g].entries[q]>>].stage \in {"opened", "ready"}
    BY <2>1, <2>2 DEF Supported
  <2>5. <<q, lifecycle[g].entries[q]>> # Member(op.on, x)
    BY <2>1, <2>2, NoDependants DEF Member
  <2> QED
    BY <2>1, <2>3, <2>4, <2>5
<1>5. /\ ~ Calm /\ ~ Moves /\ ~ Ends /\ ~ Publishes /\ ~ GivesUp /\ ~ Builds /\ ~ Commits
      /\ ~ ShutsDown
  BY SameUnits DEF Calm, Moves, Ends, StopOver, Publishes, GivesUp, Builds, Commits, ShutsDown,
     ServedStops
<1> QED
  BY <1>2, <1>3, <1>4, <1>5 DEF Changes

(* Every step keeps the stance of the instances. *)
LEMMA StanceKeeps ==
  ASSUME IInv, Structure, Stance, Changes
  PROVE  Stance'
BY PlacedKeeps, DoneKeeps, ServedReadyKeeps, RisenKeeps, IdleKeeps, SupportedKeeps DEF Stance

(* Nothing is up before the first plugin is entered. *)
LEMMA StanceInit ==
  ASSUME Init, IInv
  PROVE  Stance
<1>1. /\ \A p \in Plugin, g \in Generation : unit[<<p, g>>].stage = "absent"
      /\ op.step = "open" /\ current = 0 /\ op.kind = "initialize" /\ op.step \in Starting
  BY DEF Init, Instance, NoUnit, NoOperation, Starting
<1>2. Placed /\ Done /\ ServedReady /\ Idle /\ Supported
  BY <1>1 DEF Placed, Done, ServedReady, Idle, Supported, Standing, Live
<1>3. Risen
  <2> SUFFICES ASSUME NEW p \in Fresh(op.on), p \notin op.todo PROVE FALSE
    BY <1>1 DEF Risen
  <2>1. op.on \in Generation /\ op.on # 0 /\ p \in Plugin /\ lifecycle[op.on].entries[p] = op.on
    BY <1>1, AtGeneration DEF Fresh, Composed
  <2>2. p \in lifecycle[op.on].entered \ lifecycle[op.on].retired
    BY <1>1 DEF IInv, Phase, Fresh
  <2>3. unit[<<p, op.on>>].stage \in Live
    BY <1>1, <2>1, <2>2 DEF IInv, RegisteredRun, Member
  <2> QED
    BY <1>1, <2>1, <2>3 DEF Live
<1> QED
  BY <1>2, <1>3 DEF Stance

-----------------------------------------------------------------------------
(* Work is only on instances that are up; a stop waits for the work of what it *)
(* has selected before it releases any of it.                                  *)
Working ==
  /\ \A p \in Plugin, g \in Generation : unit[<<p, g>>].busy => unit[<<p, g>>].stage \in Live
  /\ op.step = "drain" =>
       \A p \in op.selected \ op.todo : ~ unit[<<p, lifecycle[op.on].entries[p]>>].busy
  /\ op.step = "release" =>
       \A p \in op.selected : ~ unit[<<p, lifecycle[op.on].entries[p]>>].busy

(* What a stop has selected are instances of its generation. *)
LEMMA Selected ==
  ASSUME IInv, op.step \in Stopping, NEW p \in op.selected
  PROVE  /\ p \in Plugin /\ op.on \in Generation
         /\ lifecycle[op.on].entries[p] \in Generation
BY AtGeneration, Entries DEF IInv, Phase, Composed

(* Work that begins is on an instance that is up and not cancelled. *)
LEMMA WorkEffect ==
  ASSUME IInv, Work, NEW p \in Plugin, NEW g \in Generation, unit'[<<p, g>>].busy
  PROVE  unit[<<p, g>>].busy \/ (unit[<<p, g>>].stage \in Live /\ ~ unit[<<p, g>>].cancelled)
<1>1. PICK u \in Instance : BeginWork(u) \/ \E fails \in BOOLEAN : EndWork(u, fails)
  BY DEF Work
<1>2. CASE BeginWork(u)
  BY <1>2 DEF BeginWork, AcceptsWork, IInv, TypeOK, Instance
<1>3. ASSUME NEW fails \in BOOLEAN, EndWork(u, fails)
      PROVE  unit[<<p, g>>].busy
  BY <1>3 DEF EndWork, IInv, TypeOK, Instance
<1> QED
  BY <1>1, <1>2, <1>3

(* No step lets work begin on, or go on in, what is being released. *)
LEMMA WorkingKeeps ==
  ASSUME IInv, Structure, Working, Changes
  PROVE  Working'
<1>1. ASSUME SameStages, SameBusy, op'.step \notin {"drain", "release"}
      PROVE  Working'
  BY <1>1 DEF Working, SameStages, SameBusy
<1>2. CASE Calm
  <2>1. SameStages /\ op' = op /\ lifecycle' = lifecycle
    BY <1>2 DEF Calm
  <2>2. ASSUME NEW p \in Plugin, NEW g \in Generation, unit'[<<p, g>>].busy
        PROVE  unit[<<p, g>>].busy \/ (unit[<<p, g>>].stage \in Live /\ ~ unit[<<p, g>>].cancelled)
    BY <1>2, <2>2, WorkEffect DEF Calm, SameBusy
  <2>3. ASSUME op.step \in Stopping, NEW p \in op.selected,
               unit'[<<p, lifecycle[op.on].entries[p]>>].busy
        PROVE  unit[<<p, lifecycle[op.on].entries[p]>>].busy
    BY <2>2, <2>3, Selected DEF Structure, CancelledInstances, Member
  <2>4. \A p \in Plugin, g \in Generation : unit'[<<p, g>>].busy => unit'[<<p, g>>].stage \in Live
    BY <2>1, <2>2 DEF Working, SameStages
  <2> QED
    BY <2>1, <2>3, <2>4 DEF Working, Stopping
<1>3. CASE Moves
  <2>1. unit' = unit /\ lifecycle' = lifecycle /\ op'.on = op.on /\ op'.selected = op.selected
    BY <1>3 DEF Moves, SameOperation
  <2>2. op'.step \notin {"drain", "release"} => Working'
    BY <1>1, <2>1, SameUnits
  <2>3. CASE op'.step = "drain"
    <3>1. \/ op.step = "quiesce" /\ op'.todo = op.selected
          \/ op.step = "drain" /\ \E p \in op.todo : /\ op'.todo = op.todo \ {p}
                                                     /\ ~ unit[Member(op.on, p)].busy
      BY <1>3, <2>3 DEF Moves, Structure, Whole
    <3> QED
      BY <2>1, <2>3, <3>1 DEF Working, Member
  <2>4. CASE op'.step = "release"
    <3>1. op.step = "drain" /\ op.todo = {}
      BY <1>3, <2>4 DEF Moves
    <3> QED
      BY <2>1, <2>4, <3>1 DEF Working
  <2> QED
    BY <2>2, <2>3, <2>4
<1>4. ASSUME NEW x \in Plugin, Enters(x) \/ Rises(x) PROVE Working'
  <2>1. SameBusy /\ op'.step \notin {"drain", "release"}
    BY <1>4 DEF Enters, Entering, Rises
  <2>2. \A p \in Plugin, g \in Generation :
          unit[<<p, g>>].stage \in Live => unit'[<<p, g>>].stage \in Live
    BY <1>4 DEF Enters, Entering, Rises, Live
  <2> QED
    BY <2>1, <2>2 DEF Working, SameBusy
<1>5. ASSUME NEW x \in Plugin, Falls(x) PROVE Working'
  <2>1. /\ SameBusy /\ lifecycle' = lifecycle /\ op'.on = op.on /\ op'.selected = op.selected
        /\ op.step = "release" /\ op'.step = "release" /\ x \in op.todo /\ op.step \in Stopping
        /\ \A q \in Plugin, g \in Generation :
             <<q, g>> # Member(op.on, x) => unit'[<<q, g>>].stage = unit[<<q, g>>].stage
    BY <1>5 DEF Falls, SameOperation, Stopping
  <2>2. x \in op.selected
    BY <2>1 DEF IInv, Phase
  <2>3. \A p \in Plugin, g \in Generation : unit'[<<p, g>>].busy => unit'[<<p, g>>].stage \in Live
    BY <2>1, <2>2 DEF Working, SameBusy, Member
  <2>4. \A p \in op.selected : ~ unit'[<<p, lifecycle[op.on].entries[p]>>].busy
    BY <2>1, Selected DEF Working, SameBusy
  <2> QED
    BY <2>1, <2>3, <2>4 DEF Working
<1>6. CASE Ends \/ Publishes \/ GivesUp \/ Builds \/ Commits \/ ShutsDown
  <2>1. SameStages /\ SameBusy
    BY <1>6, SameUnits DEF Ends, StopOver, Publishes, GivesUp, Builds, Commits, ShutsDown, ServedStops
  <2>2. op'.step \notin {"drain", "release"}
    BY <1>6 DEF Ends, NextBegins, NothingFollows, RestFollows, Publishes, GivesUp, Builds, Commits,
       ShutsDown, ServedStops, NoOperation, Starting
  <2> QED
    BY <1>1, <2>1, <2>2
<1> QED
  BY <1>2, <1>3, <1>4, <1>5, <1>6 DEF Changes

-----------------------------------------------------------------------------
(* The invariant, extended: what generations are made of, where requests are, *)
(* which instances are up, and which of them work.                            *)
SafetyInv == IInv /\ Structure /\ Requests /\ Stance /\ Working

(* The host begins in the invariant. *)
LEMMA SafetyInit ==
  ASSUME Init
  PROVE  SafetyInv
<1>1. IInv
  BY InitStep
<1>2. Structure /\ Stance
  BY <1>1, StructureInit, StanceInit
<1>3. Requests
  BY DEF Requests, Asked, Admitted, Init
<1>4. Working
  BY DEF Working, Init, NoUnit, NoOperation, Instance
<1> QED
  BY <1>1, <1>2, <1>3, <1>4 DEF SafetyInv

(* Every step keeps the invariant. *)
LEMMA SafetyNext ==
  ASSUME SafetyInv, [Next]_vars
  PROVE  SafetyInv'
<1>1. IInv /\ Structure /\ Asked /\ Admitted /\ Stance /\ Working
  BY DEF SafetyInv, Requests
<1>2. IInv'
  BY <1>1, InductiveStep
<1>3. Changes
  BY <1>1, Effects
<1>4. Structure' /\ Stance' /\ Working'
  BY <1>1, <1>2, <1>3, StructureKeeps, StanceKeeps, WorkingKeeps
<1>5. Asked' /\ Admitted'
  BY <1>1, <1>3, AskedKeeps, AdmittedKeeps
<1> QED
  BY <1>2, <1>4, <1>5 DEF SafetyInv, Requests

(* SafetyInv holds for ever. *)
LEMMA SafetyInvariance == Spec => []SafetyInv
<1>1. Init => SafetyInv
  BY SafetyInit
<1>2. SafetyInv /\ [Next]_vars => SafetyInv'
  BY SafetyNext
<1> QED
  BY <1>1, <1>2, PTL DEF Spec

(* Whatever is up was initialised with instances that are still up: a stop goes *)
(* through dependants first, a change takes along whatever depends on what it   *)
(* rebuilds, and a start enters a plugin after its dependencies (lifecycle.rs,  *)
(* composition.rs and live.rs).                                                 *)
THEOREM DependenciesStayUp == Spec => []DependenciesOutlive
<1>1. SafetyInv => DependenciesOutlive
  <2> SUFFICES ASSUME SafetyInv, NEW p \in Plugin, NEW g \in Generation,
                      unit[<<p, g>>].stage \in Live, NEW v \in Bound(<<p, g>>)
               PROVE  unit[v].stage \in {"opened", "ready"}
    BY DEF DependenciesOutlive, Instance
  <2>1. PICK q \in Depends[p] \cap Composed(g) : v = <<q, lifecycle[g].entries[q]>>
    BY DEF Bound, Member
  <2>2. lifecycle[g].entries[q] # 0
    BY <2>1 DEF Composed
  <2> QED
    BY <2>1, <2>2 DEF SafetyInv, Stance, Supported
<1> QED
  BY <1>1, SafetyInvariance, PTL

(* The instances of a request are those of the served generation, up and ready. *)
LEMMA RequestsServed ==
  ASSUME SafetyInv, NEW r \in Request, NEW g \in Generation, Holds(r, g)
  PROVE  /\ unit[Member(g, request[r].plugin)].stage = "ready"
         /\ \A v \in Bound(Member(g, request[r].plugin)) : unit[v].stage = "ready"
<1> DEFINE p == request[r].plugin
           e == lifecycle[g].entries[p]
<1>1. /\ g = current /\ current # 0 /\ lifecycle[current].retired = {} /\ e # 0 /\ p \in Plugin
      /\ ~ lifecycle[current].cancelled \/ (op.on = current /\ op.step = "quiesce")
  BY DEF SafetyInv, Requests, Asked, Admitted, Holds, IInv, TypeOK
<1>2. op.step # "release"
  BY <1>1, Unavailable DEF SafetyInv, Stopping
<1>3. \A q \in Plugin : lifecycle[current].entries[q] # 0 =>
        unit[<<q, lifecycle[current].entries[q]>>].stage = "ready"
  BY <1>1, <1>2 DEF SafetyInv, Stance, ServedReady, Standing
<1>4. p \in Composed(g) /\ e \in Generation
  BY <1>1, Entries DEF SafetyInv
<1> HIDE DEF p, e
<1>5. ASSUME NEW v \in Bound(<<p, e>>) PROVE unit[v].stage = "ready"
  <2>1. PICK q \in Depends[p] \cap Composed(e) : v = <<q, lifecycle[e].entries[q]>>
    BY DEF Bound, Member
  <2>2. lifecycle[g].entries[q] = lifecycle[e].entries[q]
    BY <1>4, <2>1 DEF SafetyInv, Structure, Wired, e
  <2>3. q \in Plugin /\ lifecycle[e].entries[q] # 0
    BY <2>1 DEF Composed
  <2> QED
    BY <1>1, <1>3, <2>1, <2>2, <2>3
<1> QED
  BY <1>1, <1>3, <1>5 DEF Member, p, e

(* A request, a response body or a job never meets an instance that is not up,  *)
(* nor one whose dependencies are gone, whatever is exchanged meanwhile: a stop *)
(* waits for the permits, then for the tasks of each plugin, before any stop    *)
(* hook runs (admission.rs, tasks.rs, lifecycle.rs).                            *)
THEOREM OnlyLiveInstancesWork == Spec => []WorkOnLive
<1>1. SafetyInv => WorkOnLive
  <2> SUFFICES ASSUME SafetyInv PROVE WorkOnLive
    OBVIOUS
  <2>1. ASSUME NEW r \in Request, NEW g \in Generation, Holds(r, g)
        PROVE  \A u \in {Member(g, request[r].plugin)} \cup Bound(Member(g, request[r].plugin)) :
                 unit[u].stage = "ready"
    BY <2>1, RequestsServed
  <2>2. ASSUME NEW p \in Plugin, NEW g \in Generation, unit[<<p, g>>].busy
        PROVE  /\ unit[<<p, g>>].stage \in Live
               /\ \A v \in Bound(<<p, g>>) : unit[v].stage \in Live
    <3>1. unit[<<p, g>>].stage \in Live
      BY <2>2 DEF SafetyInv, Working
    <3>2. ASSUME NEW v \in Bound(<<p, g>>) PROVE unit[v].stage \in Live
      <4>1. PICK q \in Depends[p] \cap Composed(g) : v = <<q, lifecycle[g].entries[q]>>
        BY DEF Bound, Member
      <4>2. lifecycle[g].entries[q] # 0
        BY <4>1 DEF Composed
      <4> QED
        BY <3>1, <4>1, <4>2 DEF SafetyInv, Stance, Supported, Live
    <3> QED
      BY <3>1, <3>2
  <2> QED
    BY <2>1, <2>2 DEF WorkOnLive, Instance
<1> QED
  BY <1>1, SafetyInvariance, PTL

(* Everything served is up while the host is available, and nothing else is. *)
LEMMA WholeWhenAvailable ==
  ASSUME SafetyInv
  PROVE  AvailableMeansWhole
<1> SUFFICES ASSUME Available PROVE AvailableMeansWhole
  BY DEF AvailableMeansWhole
<1>1. /\ current \in Generation /\ current # 0 /\ ~ lifecycle[current].cancelled
      /\ lifecycle[current].retired = {} /\ op.step \notin Starting \cup Stopping
  BY Unavailable, Numbers DEF SafetyInv, IInv, Serving, Complete, Available
<1>2. \A p \in Plugin : lifecycle[current].entries[p] # 0 =>
        unit[<<p, lifecycle[current].entries[p]>>].stage = "ready"
  BY <1>1 DEF SafetyInv, Stance, ServedReady, Standing, Stopping
<1>3. ASSUME NEW u \in Members(current)
      PROVE  /\ unit[u].stage = "ready" /\ ~ unit[u].cancelled
             /\ Bound(u) \subseteq Members(current)
             /\ u[1] \in Observers => u[2] = current
  <2>1. PICK p \in Composed(current) : u = <<p, lifecycle[current].entries[p]>>
    BY DEF Members, Member
  <2>2. p \in Plugin /\ lifecycle[current].entries[p] # 0
    BY <2>1 DEF Composed
  <2>3. ~ unit[u].cancelled
    BY <2>1 DEF SafetyInv, Structure, CancelledInstances, Member
  <2>4. ASSUME NEW v \in Bound(u) PROVE v \in Members(current)
    <3>1. PICK q \in Depends[p] \cap Composed(lifecycle[current].entries[p]) :
            v = <<q, lifecycle[lifecycle[current].entries[p]].entries[q]>>
      BY <2>1 DEF Bound, Member
    <3>2. lifecycle[current].entries[q] = lifecycle[lifecycle[current].entries[p]].entries[q]
      BY <1>1, <2>1, <3>1 DEF SafetyInv, Structure, Wired
    <3>3. q \in Composed(current)
      BY <3>1, <3>2 DEF Composed
    <3> QED
      BY <3>1, <3>2, <3>3 DEF Members, Member
  <2>5. u[1] \in Observers => u[2] = current
    BY <1>1, <2>1 DEF SafetyInv, Structure, Wired
  <2> QED
    BY <1>2, <2>1, <2>2, <2>3, <2>4, <2>5
<1>4. ASSUME NEW p \in Plugin, NEW g \in Generation, unit[<<p, g>>].stage \in Live
      PROVE  <<p, g>> \in Members(current)
  <2>1. ~ AtWork(g)
    BY <1>1 DEF AtWork, SafetyInv, IInv, Shape
  <2>2. Serves(p, g) /\ g # 0
    BY <1>4, <2>1, UpRegistered DEF SafetyInv, Stance, Placed
  <2> QED
    BY <2>2 DEF Serves, Members, Member, Composed
<1> QED
  BY <1>3, <1>4 DEF AvailableMeansWhole, Instance

(* As long as the host says it is available it is whole: every plugin is ready, *)
(* wired to the instances that are served and free to work, and nothing a       *)
(* failed or superseded generation left behind is up (live.rs publishes a       *)
(* generation only after the last of its ready hooks).                          *)
THEOREM AvailableIsWhole == Spec => []AvailableMeansWhole
<1>1. SafetyInv => AvailableMeansWhole
  BY WholeWhenAvailable
<1> QED
  BY <1>1, SafetyInvariance, PTL

(* A host that is down for good, after a shutdown, a first start that failed or *)
(* a change that could not be undone, has run the stop hooks of whatever it had *)
(* entered, and nothing works any more (stop_generation and its callers in      *)
(* live.rs, whatever hook failed before).                                       *)
THEOREM DownIsReleased == Spec => []DownMeansReleased
<1>1. SafetyInv => DownMeansReleased
  <2> SUFFICES ASSUME SafetyInv, op.kind = "idle", ~ Available PROVE
         /\ \A p \in Plugin, g \in Generation :
              unit[<<p, g>>].stage \notin Live /\ ~ unit[<<p, g>>].busy
         /\ \A r \in Request, g \in Generation : ~ Holds(r, g)
    BY DEF DownMeansReleased, Instance
  <2>1. \A p \in Plugin, g \in Generation :
          unit[<<p, g>>].stage \notin Live /\ ~ unit[<<p, g>>].busy
    BY DEF SafetyInv, Stance, Idle, Working
  <2>2. \A r \in Request, g \in Generation : ~ Holds(r, g)
    BY DEF SafetyInv, IInv, Shape, Requests, Admitted, Holds, Available
  <2> QED
    BY <2>1, <2>2
<1> QED
  BY <1>1, SafetyInvariance, PTL

(* A change either leaves alone or exchanges: the composition it ends with, and *)
(* which plugins of it are new instances.                                       *)
ChangeKeepsRest ==
  [][op.kind = "change" /\ op'.kind = "idle" /\ current' # current =>
       /\ Composed(current)' = IF op.stage = "candidate" THEN op.target ELSE Composed(current)
       /\ \A p \in Composed(current)' :
            IF p \in op.changed THEN lifecycle'[current'].entries[p] > current
            ELSE Member(current, p)' = Member(current, p) /\ ~ unit'[Member(current, p)].cancelled
    ]_vars

(* A change that ends with another generation served has installed the target,  *)
(* or the old set anew after a failure of the candidate; a plugin it does not   *)
(* affect keeps its instance and its tasks, an affected one is a new instance   *)
(* (reconfigure_locked in live.rs).                                             *)
THEOREM ChangeLeavesRest == Spec => ChangeKeepsRest
<1> DEFINE Kept == op.kind = "change" /\ op'.kind = "idle" /\ current' # current =>
       /\ Composed(current)' = IF op.stage = "candidate" THEN op.target ELSE Composed(current)
       /\ \A p \in Composed(current)' :
            IF p \in op.changed THEN lifecycle'[current'].entries[p] > current
            ELSE Member(current, p)' = Member(current, p) /\ ~ unit'[Member(current, p)].cancelled
<1>1. SafetyInv /\ [Next]_vars => Kept
  <2> SUFFICES ASSUME SafetyInv, [Next]_vars, op.kind = "change", op'.kind = "idle", current' # current
               PROVE  Kept
    OBVIOUS
  <2>1. Publishes
    BY Effects, GoesOn DEF SafetyInv, Changes, Goes, Ends, Builds, Commits, ShutsDown, ServedStops
  <2>2. /\ lifecycle' = lifecycle /\ unit' = unit /\ current' = op.on /\ op.step \in Starting
        /\ op.on \in Generation
    BY <2>1, AtGeneration DEF SafetyInv, Publishes, Starting
  <2>3. /\ Changing /\ op.stage \in {"candidate", "recovery"} /\ current < op.on
        /\ current \in Generation /\ op.on \in {made - 1, made}
        /\ op.stage = "candidate" => op.on = made - 1
        /\ op.stage = "recovery" => op.on = made
    BY <2>2, Position DEF SafetyInv, IInv, Shape
  <2>4. Composed(op.on) = IF op.stage = "candidate" THEN op.target ELSE Composed(current)
    BY <2>3 DEF SafetyInv, Structure, Rebuilt
  <2>5. Composed(current)' = Composed(op.on)
    BY <2>2 DEF Composed
  <2>6. ASSUME NEW p \in Composed(op.on)
        PROVE  IF p \in op.changed THEN lifecycle[op.on].entries[p] > current
               ELSE /\ <<p, lifecycle[op.on].entries[p]>> = <<p, lifecycle[current].entries[p]>>
                    /\ ~ unit[Member(current, p)].cancelled
    <3>1. p \in Plugin /\ lifecycle[op.on].entries[p] # 0
      BY <2>6 DEF Composed
    <3>2. CASE p \in op.changed
      <4>1. lifecycle[op.on].entries[p] = op.on
        BY <2>3, <3>1, <3>2 DEF SafetyInv, IInv, Recipes
      <4> QED
        BY <2>2, <2>3, <3>2, <4>1, Numbers DEF SafetyInv
    <3>3. CASE p \notin op.changed
      <4>1. lifecycle[op.on].entries[p] = lifecycle[current].entries[p]
        BY <2>3, <3>1, <3>3 DEF SafetyInv, IInv, Recipes
      <4>2. p \in Composed(current) \ op.changed
        BY <3>1, <3>3, <4>1 DEF Composed
      <4> QED
        BY <2>3, <3>3, <4>1, <4>2 DEF SafetyInv, Structure, CancelledInstances
    <3> QED
      BY <3>2, <3>3
  <2> QED
    BY <2>2, <2>4, <2>5, <2>6 DEF Member
<1> QED
  BY <1>1, SafetyInvariance, PTL DEF Spec, ChangeKeepsRest

-----------------------------------------------------------------------------
(* The refinement of RuntimeHost: each class of steps is a step of the contract *)
(* or is not seen by whoever operates and calls the host.                       *)

(* What of a step nobody outside sees. *)
SameView == Doing' = Doing /\ Served' = Served /\ Wanted' = Wanted /\ Touched' = Touched

(* What is up, ended and busy, and who is inside, follow stages, cancellations, *)
(* work and requests.                                                           *)
LEMMA SameSets ==
  /\ SameStages => UpUnits' = UpUnits
  /\ SameCancels => EndedUnits' = EndedUnits
  /\ SameBusy => BusyUnits' = BusyUnits
  /\ request' = request => Inside' = Inside
<1>1. ASSUME SameStages PROVE UpUnits' = UpUnits
  BY <1>1 DEF SameStages, UpUnits, Instance
<1>2. ASSUME SameCancels PROVE EndedUnits' = EndedUnits
  BY <1>2 DEF SameCancels, EndedUnits, Instance
<1>3. ASSUME SameBusy PROVE BusyUnits' = BusyUnits
  BY <1>3 DEF SameBusy, BusyUnits, Instance
<1>4. ASSUME request' = request PROVE Inside' = Inside
  BY <1>4 DEF Inside
<1> QED
  BY <1>1, <1>2, <1>3, <1>4

(* What is served are the entries of the served generation. *)
LEMMA ServedEntries ==
  ASSUME IInv
  PROVE  /\ \A p \in Plugin : Served[p] = IF current = 0 THEN 0 ELSE lifecycle[current].entries[p]
         /\ current # 0 => Promise!Composition(Served) = Composed(current)
         /\ current # 0 => Promise!Instances(Served) = Members(current)
<1>1. \A p \in Plugin : Served[p] = IF current = 0 THEN 0 ELSE lifecycle[current].entries[p]
  BY DEF Served
<1>2. current # 0 => Promise!Composition(Served) = Composed(current)
  BY <1>1 DEF Promise!Composition, Composed
<1>3. current # 0 => Promise!Instances(Served) = Members(current)
  BY <1>1, <1>2 DEF Promise!Instances, Members, Member, Composed
<1> QED
  BY <1>1, <1>2, <1>3

(* What is served stays the same as long as no other generation is. *)
LEMMA SameServed ==
  ASSUME IInv, Changes, current' = current
  PROVE  Served' = Served
<1>1. current # 0 => lifecycle'[current].entries = lifecycle[current].entries
  BY Numbers, Lasting
<1> QED
  BY <1>1 DEF Served

(* Within an operation, what the host is seen to do stays the same. *)
LEMMA GoesView ==
  ASSUME IInv, Goes
  PROVE  SameView
<1>1. Changes
  BY DEF Goes, Changes
<1>2. /\ op'.kind = op.kind /\ op'.stage = op.stage /\ current' = current
      /\ op'.changed = op.changed /\ op'.target = op.target
      /\ op.step = "build" <=> op'.step = "build"
  BY GoesOn
<1>3. Served' = Served /\ Wanted' = Wanted /\ Touched' = Touched
  BY <1>1, <1>2, SameServed DEF Wanted, Touched
<1>4. op.kind = "idle" => lifecycle' = lifecycle
  <2> SUFFICES ASSUME op.kind = "idle" PROVE Calm \/ Moves
    BY DEF Calm, Moves
  <2>1. op.step = "build"
    BY DEF IInv, Shape
  <2> QED
    BY <2>1 DEF Goes, GivesUp, Starting, Enters, Rises, Falls
<1>5. Doing' = Doing
  BY <1>2, <1>4 DEF Doing, Available
<1> QED
  BY <1>3, <1>5 DEF SameView

(* A step nobody sees. *)
LEMMA Unseen ==
  ASSUME SameView, SameStages, SameCancels, SameBusy, request' = request
  PROVE  UNCHANGED Promise!vars
<1>1. UpUnits' = UpUnits /\ EndedUnits' = EndedUnits /\ BusyUnits' = BusyUnits /\ Inside' = Inside
  BY SameSets
<1> QED
  BY <1>1 DEF SameView, Promise!vars

-----------------------------------------------------------------------------
(* The steps of a start and of a stop. *)

(* What a start or a stop is seen as. *)
LEMMA SeenAs ==
  ASSUME IInv, op.step \in Starting \cup Stopping
  PROVE  /\ op.step \in Starting => Doing \in {"starting", "changing"}
         /\ Doing \in {"starting", "changing", "stopping"}
         /\ Doing = "starting" <=> op.kind = "initialize"
         /\ Doing = "changing" <=> Changing /\ op.stage # "rest"
<1>1. op.kind \in {"initialize", "change", "shutdown"} /\ (op.kind = "change" <=> Changing)
  BY AtGeneration DEF IInv, TypeOK, Operation, Changing
<1>2. op.step \in Starting => op.kind = "initialize" \/ (Changing /\ op.stage # "rest")
  BY Position
<1> QED
  BY <1>1, <1>2 DEF Doing, Changing

(* A fresh instance of a change is of an affected plugin. *)
LEMMA FreshTouched ==
  ASSUME IInv, Changing, op.stage \in {"candidate", "recovery"}, NEW p \in Fresh(op.on)
  PROVE  p \in Touched
<1>1. /\ op.on \in {made - 1, made} /\ current + 2 <= made /\ current \in Nat /\ made \in Nat
      /\ current \in Generation /\ op.kind = "change"
  BY Numbers DEF IInv, Shape, Changing
<1>2. p \in Plugin /\ lifecycle[op.on].entries[p] = op.on /\ op.on # 0
  BY <1>1 DEF Fresh, Composed
<1>3. lifecycle[current].entries[p] <= current
  BY <1>1, <1>2 DEF IInv, Known
<1>4. lifecycle[current].entries[p] # op.on
  BY <1>1, <1>3
<1> QED
  BY <1>1, <1>2, <1>4 DEF IInv, Recipes, Touched

(* What is stopped in a change, other than the rest, is affected. *)
LEMMA StopTouched ==
  ASSUME IInv, op.step \in Stopping, Doing = "changing", NEW p \in op.selected
  PROVE  p \in Touched
<1>1. Changing /\ op.stage \in {"old", "candidate", "recovery"}
  BY SeenAs DEF IInv, Shape
<1>2. CASE op.stage = "old"
  BY <1>1, <1>2 DEF IInv, Phase, Touched, Changing
<1>3. CASE op.stage \in {"candidate", "recovery"}
  BY <1>1, <1>3, FreshTouched DEF IInv, Phase
<1> QED
  BY <1>1, <1>2, <1>3

(* Nobody is inside while instances are exchanged. *)
LEMMA NobodyInside ==
  ASSUME IInv, Admitted, op.step \in Starting \cup {"drain", "release"}
  PROVE  Inside = {}
BY NoHolders DEF Inside

(* Entering a fresh plugin is seen, registering an inherited one is not. *)
LEMMA EntersSeen ==
  ASSUME SafetyInv, OneInstance', NEW p \in Plugin, Enters(p)
  PROVE  Promise!StartInstance(p, op.on) \/ UNCHANGED Promise!vars
<1>1. IInv /\ Admitted /\ Goes /\ op.step \in Starting /\ op.step = "open" /\ p \in op.todo
  BY DEF SafetyInv, Requests, Goes, Enters, Starting
<1>2. /\ SameView /\ SameCancels /\ SameBusy /\ request' = request
      /\ \A q \in Plugin, g \in Generation :
           unit'[<<q, g>>].stage = IF q = p /\ g = op.on /\ p \in Fresh(op.on) THEN "entered"
                                   ELSE unit[<<q, g>>].stage
  BY <1>1, GoesView DEF Enters, Entering
<1>3. op.on \in Generation
  BY <1>1, AtGeneration
<1>4. CASE p \in Fresh(op.on)
  <2>1. UpUnits' = UpUnits \cup {<<p, op.on>>}
    BY <1>2, <1>3, <1>4 DEF UpUnits, Instance, Live
  <2>2. \A m \in Generation : <<p, m>> \notin UpUnits
    <3> SUFFICES ASSUME NEW m \in Generation, unit[<<p, m>>].stage \in Live PROVE FALSE
      BY DEF UpUnits
    <3>1. CASE m = op.on
      <4>1. p \notin lifecycle[op.on].entered
        BY <1>1 DEF IInv, Phase
      <4> QED
        BY <1>1, <1>3, <3>1, <4>1, UpRegistered
    <3>2. CASE m # op.on
      <4>1. unit'[<<p, op.on>>].stage = "entered" /\ unit'[<<p, m>>].stage \in Live
        BY <1>2, <1>3, <1>4, <3>2
      <4> QED
        BY <1>3, <3>2, <4>1 DEF OneInstance, Live
    <3> QED
      BY <3>1, <3>2
  <2>3. Inside = {} /\ Doing \in {"starting", "changing"}
    BY <1>1, NobodyInside, SeenAs
  <2>4. Doing = "changing" => p \in Touched
    BY <1>1, <1>4, FreshTouched, SeenAs, Position
  <2>5. EndedUnits' = EndedUnits /\ BusyUnits' = BusyUnits /\ Inside' = Inside
    BY <1>2, SameSets
  <2> QED
    BY <1>2, <2>1, <2>2, <2>3, <2>4, <2>5
    DEF SameView, Promise!StartInstance, Promise!Touches, Promise!change
<1>5. CASE p \notin Fresh(op.on)
  <2>1. SameStages
    BY <1>5 DEF SameStages, Enters, Entering
  <2> QED
    BY <1>2, <2>1, Unseen
<1> QED
  BY <1>4, <1>5

(* Nobody sees how far an instance that is up has got. *)
LEMMA RisesUnseen ==
  ASSUME SafetyInv, NEW p \in Plugin, Rises(p)
  PROVE  UNCHANGED Promise!vars
<1>1. /\ IInv /\ Goes /\ SameCancels /\ SameBusy /\ request' = request /\ p \in Fresh(op.on)
      /\ \A q \in Plugin, g \in Generation :
           (q # p \/ g # op.on) => unit'[<<q, g>>].stage = unit[<<q, g>>].stage
  BY DEF SafetyInv, Goes, Rises
<1>2. unit[<<p, op.on>>].stage \in Live /\ unit'[<<p, op.on>>].stage \in Live
  <2>1. CASE op.step = "open"
    BY <2>1 DEF Rises, Live
  <2>2. CASE op.step = "ready"
    BY <1>1, <2>2 DEF Rises, Live, Starting, SafetyInv, Stance, Risen
  <2> QED
    BY <2>1, <2>2 DEF Rises
<1>3. UpUnits' = UpUnits
  BY <1>1, <1>2 DEF UpUnits, Instance
<1>4. SameView /\ EndedUnits' = EndedUnits /\ BusyUnits' = BusyUnits /\ Inside' = Inside
  BY <1>1, GoesView, SameSets
<1> QED
  BY <1>3, <1>4 DEF SameView, Promise!vars

(* A release takes an instance down that nothing uses and nobody works in. *)
LEMMA FallsSeen ==
  ASSUME SafetyInv, NEW p \in Plugin, Falls(p)
  PROVE  \E n \in Generation : Promise!StopInstance(p, n)
<1> DEFINE n == lifecycle[op.on].entries[p]
<1>1. /\ IInv /\ Structure /\ Admitted /\ Placed /\ Done /\ Working /\ Goes
      /\ op.step = "release" /\ op.step \in Stopping /\ p \in op.todo
      /\ \A q \in op.todo : p \notin Depends[q]
  BY DEF SafetyInv, Requests, Stance, Goes, Falls, Stopping
<1>2. /\ p \in op.selected /\ p \in lifecycle[op.on].entered \ lifecycle[op.on].retired
      /\ op.on \in Generation /\ op.on # 0
  BY <1>1, AtGeneration DEF IInv, Phase
<1>3. n \in Generation /\ <<p, n>> = Member(op.on, p) /\ <<p, n>> \in Instance
  BY <1>1, <1>2, Selected DEF Member, Instance
<1>4. unit[<<p, n>>].stage \in Live
  BY <1>1, <1>2, <1>3 DEF IInv, RegisteredRun
<1>5. /\ unit'[<<p, n>>].stage \notin Live
      /\ \A q \in Plugin, g \in Generation :
           <<q, g>> # <<p, n>> => unit'[<<q, g>>].stage = unit[<<q, g>>].stage
  BY <1>3 DEF Falls
<1>6. ~ unit[<<p, n>>].busy
  BY <1>1, <1>2 DEF Working
<1> HIDE DEF n
<1>7. UpUnits' = UpUnits \ {<<p, n>>}
  BY <1>5 DEF UpUnits, Instance
<1>8. <<p, n>> \in UpUnits \ BusyUnits
  BY <1>3, <1>4, <1>6 DEF UpUnits, BusyUnits
<1>9. \A d \in Plugin, m \in Generation : p \in Depends[d] => <<d, m>> \notin UpUnits
  BY <1>1, NoDependants DEF UpUnits
<1>10. Inside = {} /\ Doing \in {"starting", "changing", "stopping"}
  BY <1>1, NobodyInside, SeenAs
<1>11. Doing = "changing" => p \in Touched
  BY <1>1, <1>2, StopTouched
<1>12. SameView /\ EndedUnits' = EndedUnits /\ BusyUnits' = BusyUnits /\ Inside' = Inside
  BY <1>1, GoesView, SameSets DEF Falls
<1>13. Promise!StopInstance(p, n)
  BY <1>7, <1>8, <1>9, <1>10, <1>11, <1>12
  DEF SameView, Promise!StopInstance, Promise!Touches, Promise!change
<1> QED
  BY <1>3, <1>13

(* A start that is given up ends only the tasks it had begun. *)
LEMMA GivesUpSeen ==
  ASSUME SafetyInv, GivesUp
  PROVE  Promise!GiveUp
<1>1. IInv /\ Goes /\ op.step \in Starting /\ SameStages /\ SameBusy /\ request' = request
  BY DEF SafetyInv, Goes, GivesUp
<1>2. \A p \in Plugin, g \in Generation :
        unit'[<<p, g>>].cancelled <=>
          unit[<<p, g>>].cancelled \/ (p \in Fresh(op.on) /\ lifecycle[op.on].entries[p] = g)
  BY DEF GivesUp, CancelsUnits
<1>3. EndedUnits \subseteq EndedUnits'
  BY <1>2 DEF EndedUnits, Instance
<1>4. Doing = "changing" => \A u \in EndedUnits' \ EndedUnits : u[1] \in Touched
  <2> SUFFICES ASSUME Doing = "changing", NEW u \in EndedUnits' \ EndedUnits PROVE u[1] \in Touched
    OBVIOUS
  <2>1. u[1] \in Fresh(op.on)
    BY <1>2 DEF EndedUnits, Instance
  <2> QED
    BY <1>1, <2>1, FreshTouched, SeenAs, Position
<1>5. SameView /\ UpUnits' = UpUnits /\ BusyUnits' = BusyUnits /\ Inside' = Inside
  BY <1>1, GoesView, SameSets
<1>6. Doing \in {"starting", "changing"}
  BY <1>1, SeenAs
<1> QED
  BY <1>3, <1>4, <1>5, <1>6 DEF SameView, Promise!GiveUp, Promise!change

(* When a stop is over, the host goes on, goes down, or is down. *)
LEMMA EndsSeen ==
  ASSUME SafetyInv, SafetyInv', Ends
  PROVE  Promise!GoDown \/ Promise!Down \/ UNCHANGED Promise!vars
<1>1. /\ IInv /\ Admitted /\ Whole /\ Placed /\ Done /\ Changes
      /\ op.step = "release" /\ op.step \in Stopping /\ op.todo = {} /\ op.on \in Generation
      /\ current' = current /\ request' = request /\ SameStages /\ SameBusy
  BY DEF SafetyInv, Requests, Structure, Stance, Changes, Ends, StopOver, Stopping
<1>2. /\ Served' = Served /\ UpUnits' = UpUnits /\ BusyUnits' = BusyUnits /\ Inside' = Inside
      /\ Inside = {}
  BY <1>1, SameServed, SameSets, NobodyInside
<1>3. CASE NextBegins
  <2>1. SameView /\ SameCancels
    BY <1>2, <1>3 DEF NextBegins, Changing, SameView, Doing, Wanted, Touched
  <2> QED
    BY <1>1, <2>1, Unseen
<1>4. CASE NothingFollows
  <2>1. Doing \in {"starting", "stopping"}
    BY <1>1, <1>4, SeenAs DEF NothingFollows, IInv, Shape
  <2>2. op'.kind = "idle" /\ Wanted' = {} /\ Touched' = {}
    BY <1>4 DEF NothingFollows, NoOperation, Wanted, Touched
  <2>3. ~ Available'
    <3>1. current # 0 => lifecycle[current].cancelled
      BY <1>1, Unavailable
    <3>2. current # 0 => lifecycle'[current].cancelled
      BY <1>1, <3>1, Lasting, Numbers
    <3> QED
      BY <1>1, <3>2 DEF Available
  <2>4. UpUnits' = {} /\ BusyUnits' = {}
    <3>1. \A p \in Plugin, g \in Generation :
            unit'[<<p, g>>].stage \notin Live /\ ~ unit'[<<p, g>>].busy
      BY <2>2, <2>3 DEF SafetyInv, Stance, Idle, Working
    <3> QED
      BY <3>1 DEF UpUnits, BusyUnits, Instance
  <2>5. Doing' = "down"
    BY <2>2, <2>3 DEF Doing
  <2>6. EndedUnits' = EndedUnits
    BY <1>4, SameSets DEF NothingFollows
  <2> QED
    BY <1>2, <2>1, <2>2, <2>4, <2>5, <2>6 DEF Promise!Down, Promise!instances
<1>5. CASE RestFollows
  <2>1. /\ Doing = "changing" /\ Doing' = "stopping" /\ Wanted' = Wanted /\ Touched' = Touched
        /\ current # 0 /\ current \in Generation
    BY <1>1, <1>5, Numbers DEF RestFollows, Changing, Doing, Wanted, Touched, IInv, Shape
  <2>2. \A p \in Plugin, g \in Generation :
          unit'[<<p, g>>].cancelled <=>
            \/ unit[<<p, g>>].cancelled
            \/ /\ p \in Composed(current) \ lifecycle'[current].retired
               /\ lifecycle[current].entries[p] = g
    BY <1>5 DEF RestFollows, CancelsUnits
  <2>3. EndedUnits \subseteq EndedUnits'
    BY <2>2 DEF EndedUnits, Instance
  <2>4. UpUnits \subseteq EndedUnits'
    <3> SUFFICES ASSUME NEW p \in Plugin, NEW g \in Generation, unit[<<p, g>>].stage \in Live
                 PROVE  unit'[<<p, g>>].cancelled
      BY DEF UpUnits, EndedUnits, Instance
    <3>1. Serves(p, g) /\ (op.on = current => p \notin op.selected)
      BY <1>1, StopReleases
    <3>2. p \notin lifecycle'[current].retired
      BY <2>1, <3>1 DEF Ends, StopOver, Serves
    <3>3. p \in Composed(current) /\ lifecycle[current].entries[p] = g
      BY <3>1, Numbers, <1>1 DEF Serves, Composed
    <3> QED
      BY <2>2, <3>2, <3>3
  <2> QED
    BY <1>2, <2>1, <2>3, <2>4 DEF Promise!GoDown, Promise!change
<1> QED
  BY <1>3, <1>4, <1>5 DEF Ends

-----------------------------------------------------------------------------
(* Operations. *)

(* What is published is whole, and is what was asked for or the old set anew. *)
LEMMA PublishesSeen ==
  ASSUME SafetyInv, SafetyInv', AvailableMeansWhole', Publishes
  PROVE  Promise!Serve \/ Promise!Adopt \/ Promise!Restore
<1>1. /\ IInv /\ IInv' /\ Rebuilt /\ op.step \in Starting /\ lifecycle' = lifecycle /\ unit' = unit
      /\ request' = request /\ current' = op.on /\ op'.kind = "idle"
      /\ ~ lifecycle[op.on].cancelled
  BY DEF SafetyInv, Structure, Publishes, Starting, NoOperation
<1>2. op.on \in Generation /\ op.on # 0 /\ current < op.on /\ current \in Nat /\ op.on \in Nat
  BY <1>1, AtGeneration, Position, Numbers
<1>3. Available' /\ Doing' = "serving" /\ Wanted' = {} /\ Touched' = {}
  BY <1>1, <1>2 DEF Available, Doing, Wanted, Touched
<1>4. /\ UpUnits' = UpUnits /\ EndedUnits' = EndedUnits /\ BusyUnits' = BusyUnits
      /\ Inside' = Inside
  BY <1>1, SameUnits, SameSets
<1>5. /\ \A p \in Plugin : Served'[p] = lifecycle[op.on].entries[p]
      /\ Promise!Composition(Served') = Composed(op.on)
      /\ Promise!Instances(Served') = Members(op.on)
  <2>1. \A p \in Plugin : Served'[p] = lifecycle[op.on].entries[p]
    BY <1>1, <1>2 DEF Served
  <2>2. Promise!Composition(Served') = Composed(op.on)
    BY <2>1 DEF Promise!Composition, Composed
  <2> QED
    BY <2>1, <2>2 DEF Promise!Instances, Members, Member, Composed
<1>6. Promise!Whole(Served')
  <2>1. /\ \A u \in Members(op.on) : unit[u].stage = "ready" /\ ~ unit[u].cancelled
        /\ \A u \in Instance \ Members(op.on) : unit[u].stage \notin Live
    <3>1. /\ \A u \in Members(current)' : unit'[u].stage = "ready" /\ ~ unit'[u].cancelled
          /\ \A u \in Instance \ Members(current)' : unit'[u].stage \notin Live
      BY <1>3 DEF AvailableMeansWhole
    <3>2. Members(current)' = Members(op.on)
      BY <1>1 DEF Members, Member, Composed
    <3> QED
      BY <1>1, <3>1, <3>2
  <2>2. Members(op.on) \subseteq Instance
    BY <1>1, <1>2, Types DEF IInv, Members
  <2>3. UpUnits = Members(op.on) /\ Members(op.on) \cap EndedUnits = {}
    BY <2>1, <2>2 DEF UpUnits, EndedUnits, Live
  <2> QED
    BY <1>5, <2>3 DEF Promise!Whole
<1>7. CASE op.kind = "initialize"
  <2>1. Doing = "starting" /\ Wanted = {} /\ Touched = {}
    BY <1>7 DEF Doing, Wanted, Touched
  <2> QED
    BY <1>3, <1>4, <1>6, <2>1 DEF Promise!Serve, Promise!change, Promise!instances
<1>8. CASE op.kind # "initialize"
  <2>1. /\ Changing /\ op.stage \in {"candidate", "recovery"} /\ current \in Generation
        /\ op.on \in {made - 1, made}
        /\ op.stage = "candidate" => op.on = made - 1
        /\ op.stage = "recovery" => op.on = made
    BY <1>1, <1>8, Position DEF IInv, Shape
  <2>2. Doing = "changing" /\ Wanted = op.target /\ Touched = op.changed /\ current # 0
    BY <1>1, <2>1, SeenAs DEF Changing, Wanted, Touched, IInv, Shape
  <2>3. Promise!Composition(Served) = Composed(current)
    BY <1>1, <2>2, ServedEntries
  <2>4. Promise!Composition(Served') = IF op.stage = "candidate" THEN Wanted
                                       ELSE Promise!Composition(Served)
    BY <1>1, <1>5, <2>1, <2>2, <2>3 DEF Rebuilt
  <2>5. ASSUME NEW p \in Composed(op.on)
        PROVE  p \in op.changed <=> lifecycle[op.on].entries[p] # lifecycle[current].entries[p]
    <3>1. p \in Plugin /\ lifecycle[op.on].entries[p] # 0
      BY <2>5 DEF Composed
    <3>2. CASE p \in op.changed
      <4>1. lifecycle[op.on].entries[p] = op.on
        BY <1>1, <2>1, <3>1, <3>2 DEF IInv, Recipes
      <4>2. lifecycle[current].entries[p] <= current
        BY <1>1, <2>1, <3>1 DEF IInv, Known
      <4>3. lifecycle[current].entries[p] # op.on
        BY <1>2, <4>2
      <4> QED
        BY <3>2, <4>1, <4>3
    <3>3. CASE p \notin op.changed
      BY <1>1, <2>1, <3>1, <3>3 DEF IInv, Recipes
    <3> QED
      BY <3>2, <3>3
  <2>6. \A p \in Promise!Composition(Served') : p \in Touched <=> Served'[p] # Served[p]
    <3>1. \A p \in Composed(op.on) : p \in Plugin
      BY DEF Composed
    <3> QED
      BY <1>1, <1>5, <2>2, <2>5, <3>1, ServedEntries
  <2>7. Promise!Publish(Promise!Composition(Served'))
    BY <1>3, <1>4, <1>6, <2>2, <2>6 DEF Promise!Publish, Promise!instances
  <2> QED
    BY <2>4, <2>7 DEF Promise!Adopt, Promise!Restore
<1> QED
  BY <1>7, <1>8

(* A change is asked for, or not made after all. *)
LEMMA BuildsSeen ==
  ASSUME SafetyInv, SafetyInv', Builds
  PROVE  Promise!Ask \/ Promise!Refuse
<1>1. /\ IInv /\ Changes /\ Available /\ Available' /\ current # 0 /\ op.step = "build"
      /\ op'.step = "build" /\ UNCHANGED <<lifecycle, unit, current, request>>
  BY DEF SafetyInv, Changes, Builds, Available
<1>2. /\ Served' = Served /\ UpUnits' = UpUnits /\ EndedUnits' = EndedUnits
      /\ BusyUnits' = BusyUnits /\ Inside' = Inside
      /\ Promise!Composition(Served) = Composed(current)
  BY <1>1, SameServed, SameUnits, SameSets, ServedEntries
<1>3. CASE op.kind = "change" /\ op'.kind = "idle"
  BY <1>1, <1>2, <1>3 DEF Promise!Refuse, Promise!instances, Doing, Wanted, Touched
<1>4. CASE op.kind = "idle" /\ op'.kind = "change"
  <2>1. /\ Doing = "serving" /\ Doing' = "asked"
        /\ Wanted' = op'.target /\ Touched' = op'.changed
    BY <1>1, <1>4 DEF Doing, Wanted, Touched
  <2>2. op'.changed # {} /\ Closed(op'.changed, Composed(current) \cup op'.target)
    BY <1>4 DEF Builds
  <2>3. op'.target \ op'.changed = Composed(current) \ op'.changed
    <3>1. Composed(current)' = Composed(current)
      BY <1>1 DEF Composed
    <3> QED
      BY <1>4, <3>1 DEF SafetyInv, IInv, Recipes
  <2> QED
    BY <1>2, <2>1, <2>2, <2>3 DEF Promise!Ask, Promise!instances, Closed
<1> QED
  BY <1>3, <1>4 DEF Builds

(* A change begins to stop what it affects. *)
LEMMA CommitsSeen ==
  ASSUME SafetyInv, Commits
  PROVE  Promise!Commit
<1>1. /\ IInv /\ Changes /\ current' = current /\ request' = request /\ SameStages /\ SameBusy
      /\ op.kind = "change" /\ op.step = "build" /\ op'.kind = "change" /\ op'.step = "quiesce"
      /\ op'.stage = "old" /\ op'.target = op.target /\ op'.changed = op.changed
      /\ CancelsUnits(current, op.changed \cap Composed(current))
  BY DEF SafetyInv, Changes, Commits, ServedStops
<1>2. /\ Served' = Served /\ UpUnits' = UpUnits /\ BusyUnits' = BusyUnits /\ Inside' = Inside
  BY <1>1, SameServed, SameSets
<1>3. /\ Doing = "asked" /\ Doing' = "changing" /\ Wanted' = Wanted /\ Touched' = Touched
      /\ Touched = op.changed
  BY <1>1 DEF Doing, Wanted, Touched
<1>4. EndedUnits \subseteq EndedUnits' /\ \A u \in EndedUnits' \ EndedUnits : u[1] \in Touched
  BY <1>1, <1>3 DEF CancelsUnits, EndedUnits, Instance
<1> QED
  BY <1>2, <1>3, <1>4 DEF Promise!Commit, Promise!change

(* A shutdown tells whatever is up to end. *)
LEMMA ShutsDownSeen ==
  ASSUME SafetyInv, ShutsDown
  PROVE  Promise!GoDown
<1>1. /\ IInv /\ Placed /\ Changes /\ current' = current /\ request' = request
      /\ SameStages /\ SameBusy /\ current \in Generation /\ op.kind = "idle"
      /\ op'.kind = "shutdown"
      /\ CancelsUnits(current, Composed(current) \ lifecycle[current].retired)
  BY DEF SafetyInv, Stance, Changes, ShutsDown, ServedStops
<1>2. /\ Served' = Served /\ UpUnits' = UpUnits /\ BusyUnits' = BusyUnits /\ Inside' = Inside
  BY <1>1, SameServed, SameSets
<1>3. /\ Doing \in {"serving", "down"} /\ Doing' = "stopping"
      /\ Wanted' = Wanted /\ Touched' = Touched
  BY <1>1 DEF Doing, Wanted, Touched
<1>4. EndedUnits \subseteq EndedUnits'
  BY <1>1 DEF CancelsUnits, EndedUnits, Instance
<1>5. UpUnits \subseteq EndedUnits'
  <2> SUFFICES ASSUME NEW p \in Plugin, NEW g \in Generation, unit[<<p, g>>].stage \in Live
               PROVE  unit'[<<p, g>>].cancelled
    BY DEF UpUnits, EndedUnits, Instance
  <2>1. Serves(p, g) /\ g # 0
    BY <1>1, UpRegistered DEF Placed, AtWork, Changing
  <2> QED
    BY <1>1, <2>1 DEF Serves, Composed, CancelsUnits
<1> QED
  BY <1>2, <1>3, <1>4, <1>5 DEF Promise!GoDown, Promise!change

-----------------------------------------------------------------------------
(* Requests and work. *)

(* Requests are admitted only while the host serves. *)
LEMMA RequestSeen ==
  ASSUME SafetyInv, Calm, NEW r \in Request, RequestStep(r) \/ \E p \in Plugin : Dispatch(r, p)
  PROVE  Promise!Admit(r) \/ Promise!Leave(r) \/ UNCHANGED Promise!vars
<1>1. IInv /\ Asked /\ Goes /\ UNCHANGED <<lifecycle, unit, current, made, op>>
  BY DEF SafetyInv, Requests, Goes, RequestStep, Dispatch, Admit, EndStream, Respond
<1>2. /\ SameView /\ UpUnits' = UpUnits /\ EndedUnits' = EndedUnits /\ BusyUnits' = BusyUnits
  BY <1>1, GoesView, SameUnits, SameSets
<1> DEFINE after == request'[r].step
           Answered ==
             /\ \A s \in Request \ {r} : request'[s].step = request[s].step
             /\ \/ request[r].step = "queued" /\ after = "handling" /\ Admits(request[r].generation)
                \/ request[r].step \in {"none", "queued"} /\ after \in {"none", "queued"}
                \/ request[r].step = "handling" /\ after = "streaming"
                \/ request[r].step \in {"handling", "streaming"} /\ after = "none"
<1>3. Answered
  <2>0. request \in [Request -> [step : {"none", "queued", "handling", "streaming"},
                                 generation : {0} \cup Generation, plugin : Plugin]]
    BY <1>1 DEF IInv, TypeOK
  <2>1. CASE Admit(r)
    BY <2>0, <2>1 DEF Admit
  <2>2. CASE EndStream(r)
    BY <2>0, <2>2 DEF EndStream
  <2>3. ASSUME NEW step \in {"streaming", "none"}, Respond(r, step) PROVE Answered
    BY <2>0, <2>3 DEF Respond
  <2>4. ASSUME NEW p \in Plugin, Dispatch(r, p) PROVE Answered
    BY <2>0, <2>4 DEF Dispatch
  <2> QED
    BY <2>1, <2>2, <2>3, <2>4 DEF RequestStep
<1> HIDE DEF after
<1>4. CASE request[r].step = "queued" /\ after = "handling" /\ Admits(request[r].generation)
  <2>1. Available
    BY <1>1, <1>4, Numbers DEF Asked, Admits, Available
  <2>2. Doing \in {"serving", "asked"}
    <3>1. op.kind \in {"idle", "initialize", "change", "shutdown"}
      BY <1>1 DEF IInv, TypeOK, Operation
    <3> QED
      BY <1>1, <2>1, <3>1 DEF IInv, Shape, Available, Changing, Doing
  <2>3. Inside' = Inside \cup {r} /\ r \notin Inside
    BY <1>3, <1>4 DEF Inside, after
  <2> QED
    BY <1>2, <2>2, <2>3 DEF SameView, Promise!Admit, Promise!change, Promise!instances
<1>5. CASE request[r].step \in {"handling", "streaming"} /\ after = "none"
  <2>1. Inside' = Inside \ {r} /\ r \in Inside
    BY <1>3, <1>5 DEF Inside, after
  <2> QED
    BY <1>2, <2>1 DEF SameView, Promise!Leave, Promise!change, Promise!instances
<1>6. CASE \/ request[r].step \in {"none", "queued"} /\ after \in {"none", "queued"}
           \/ request[r].step = "handling" /\ after = "streaming"
  <2>1. Inside' = Inside
    BY <1>3, <1>6 DEF Inside, after
  <2> QED
    BY <1>2, <2>1 DEF SameView, Promise!vars
<1> QED
  BY <1>3, <1>4, <1>5, <1>6

(* Work begins only in what is up and has not been told to end. *)
LEMMA WorkSeen ==
  ASSUME SafetyInv, Calm, NEW u \in Instance, BeginWork(u) \/ \E fails \in BOOLEAN : EndWork(u, fails)
  PROVE  Promise!BeginWork(u) \/ Promise!EndWork(u)
<1>1. IInv /\ Goes /\ SameStages /\ SameCancels /\ request' = request
  BY DEF SafetyInv, Goes, Calm, BeginWork, EndWork
<1>2. SameView /\ UpUnits' = UpUnits /\ EndedUnits' = EndedUnits /\ Inside' = Inside
  BY <1>1, GoesView, SameSets
<1>3. CASE BeginWork(u)
  <2>1. u \in UpUnits \ (BusyUnits \cup EndedUnits)
    BY <1>3 DEF BeginWork, AcceptsWork, UpUnits, BusyUnits, EndedUnits
  <2>2. \A v \in Instance : unit'[v].busy = IF v = u THEN TRUE ELSE unit[v].busy
    BY <1>1, <1>3 DEF BeginWork, IInv, TypeOK, Unit
  <2>3. BusyUnits' = BusyUnits \cup {u}
    BY <2>2 DEF BusyUnits
  <2> QED
    BY <1>2, <2>1, <2>3 DEF SameView, Promise!BeginWork, Promise!change
<1>4. ASSUME NEW fails \in BOOLEAN, EndWork(u, fails)
      PROVE  Promise!EndWork(u)
  <2>1. u \in BusyUnits
    BY <1>4 DEF EndWork, BusyUnits
  <2>2. \A v \in Instance : unit'[v].busy = IF v = u THEN FALSE ELSE unit[v].busy
    BY <1>1, <1>4 DEF EndWork, IInv, TypeOK, Unit
  <2>3. BusyUnits' = BusyUnits \ {u}
    BY <2>2 DEF BusyUnits
  <2> QED
    BY <1>2, <2>1, <2>3 DEF SameView, Promise!EndWork, Promise!change
<1> QED
  BY <1>3, <1>4

-----------------------------------------------------------------------------
(* Every step is a step of the contract, or none. *)
LEMMA StepKeepsPromise ==
  ASSUME SafetyInv, SafetyInv', AvailableMeansWhole', [Next]_vars
  PROVE  Promise!Next \/ UNCHANGED Promise!vars
<1>1. IInv /\ Changes
  BY Effects DEF SafetyInv
<1>2. CASE Calm
  <2>1. CASE request' = request /\ SameBusy
    <3>1. SameView
      BY <1>1, <1>2, GoesView DEF Goes
    <3> QED
      BY <1>2, <2>1, <3>1, Unseen DEF Calm
  <2>2. ASSUME NEW r \in Request, RequestStep(r) \/ \E p \in Plugin : Dispatch(r, p)
        PROVE  Promise!Next \/ UNCHANGED Promise!vars
    BY <1>2, <2>2, RequestSeen DEF Promise!Next
  <2>3. CASE Work
    <3>1. PICK u \in Instance : BeginWork(u) \/ \E fails \in BOOLEAN : EndWork(u, fails)
      BY <2>3 DEF Work
    <3>2. PICK p \in Plugin, n \in Generation : u = <<p, n>>
      BY DEF Instance
    <3>3. Promise!BeginWork(<<p, n>>) \/ Promise!EndWork(<<p, n>>)
      BY <1>2, <3>1, <3>2, WorkSeen
    <3> QED
      BY <3>3 DEF Promise!Next
  <2> QED
    BY <1>2, <2>1, <2>2, <2>3 DEF Calm
<1>3. CASE Moves
  <2>1. SameView
    BY <1>1, <1>3, GoesView DEF Goes
  <2> QED
    BY <1>3, <2>1, SameUnits, Unseen DEF Moves
<1>4. ASSUME NEW p \in Plugin, Enters(p) \/ Rises(p) \/ Falls(p)
      PROVE  Promise!Next \/ UNCHANGED Promise!vars
  <2>1. CASE Enters(p)
    <3>1. op.on \in Generation
      BY <1>1, <2>1, AtGeneration DEF Enters, Starting
    <3>2. Promise!StartInstance(p, op.on) \/ UNCHANGED Promise!vars
      BY <2>1, EntersSeen DEF SafetyInv, IInv
    <3> QED
      BY <3>1, <3>2 DEF Promise!Next
  <2>2. CASE Rises(p)
    BY <2>2, RisesUnseen
  <2>3. CASE Falls(p)
    <3>1. PICK n \in Generation : Promise!StopInstance(p, n)
      BY <2>3, FallsSeen
    <3> QED
      BY <3>1 DEF Promise!Next
  <2> QED
    BY <1>4, <2>1, <2>2, <2>3
<1>5. CASE Ends
  BY <1>5, EndsSeen DEF Promise!Next
<1>6. CASE Publishes
  BY <1>6, PublishesSeen DEF Promise!Next
<1>7. CASE GivesUp
  BY <1>7, GivesUpSeen DEF Promise!Next
<1>8. CASE Builds
  BY <1>8, BuildsSeen DEF Promise!Next
<1>9. CASE Commits
  BY <1>9, CommitsSeen DEF Promise!Next
<1>10. CASE ShutsDown
  BY <1>10, ShutsDownSeen DEF Promise!Next
<1> QED
  BY <1>1, <1>2, <1>3, <1>4, <1>5, <1>6, <1>7, <1>8, <1>9, <1>10 DEF Changes

(* A host that has not started serves nothing and has nothing up. *)
LEMMA InitKeepsPromise ==
  ASSUME Init
  PROVE  Promise!Init
<1>1. /\ op.kind = "initialize" /\ current = 0
      /\ unit = [u \in Instance |-> NoUnit] /\ \A r \in Request : request[r].step = "none"
  BY DEF Init, NoOperation
<1>2. Doing = "starting" /\ Served = [p \in Plugin |-> 0] /\ Wanted = {} /\ Touched = {}
  BY <1>1 DEF Doing, Served, Wanted, Touched
<1>3. UpUnits = {} /\ EndedUnits = {} /\ BusyUnits = {} /\ Inside = {}
  BY <1>1 DEF UpUnits, EndedUnits, BusyUnits, Inside, NoUnit, Live
<1> QED
  BY <1>2, <1>3 DEF Promise!Init

(* The exchange of generations implements the contract of RuntimeHost: whatever *)
(* an operator, the callers and failing hooks do, each step of live.rs starts   *)
(* or stops one instance that nothing uses, publishes a whole composition, goes *)
(* down, or is not seen from outside.                                           *)
THEOREM HostKeepsPromise == Spec => KeepsPromise
<1>1. Init => Promise!Init
  BY InitKeepsPromise
<1>2. SafetyInv /\ SafetyInv' /\ AvailableMeansWhole' /\ [Next]_vars => [Promise!Next]_(Promise!vars)
  BY StepKeepsPromise
<1>3. SafetyInv => AvailableMeansWhole
  BY WholeWhenAvailable
<1> QED
  BY <1>1, <1>2, <1>3, SafetyInvariance, PTL DEF Spec, KeepsPromise, Promise!Spec
=============================================================================
